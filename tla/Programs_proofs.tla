----------------------------- MODULE Programs_proofs ----------------------------
(* Theorems about Programs, each for every value of the constants it is       *)
(* about: philosophers, getters of lazily created objects, snapshots, threads *)
(* that wait, items handed over, counters, tasks and their results, loops     *)
(* divided among threads, trees of threads, critical sections, GPU kernels    *)
(* and their hosts.                                                           *)
EXTENDS Programs, Sequences, TLAPS, FiniteSetTheorems, WellFoundedInduction

(* A step leaves the program that runs, and is one of its own: the names of   *)
(* the programs of two modules differ.                                        *)
LEMMA RunsOwn ==
  ASSUME NEW t
  PROVE  /\ Dining!Run(t) => Dining!Runs /\ UNCHANGED program
         /\ Lazy!Run(t) => Lazy!Runs /\ UNCHANGED program
         /\ Waits!Run(t) => Waits!Runs /\ UNCHANGED program
         /\ Counts!Run(t) => Counts!Runs /\ UNCHANGED program
         /\ Handing!Run(t) => Handing!Runs /\ UNCHANGED program
         /\ Looping!Run(t) => Looping!Runs /\ UNCHANGED program
         /\ Locking!Run(t) => Locking!Runs /\ UNCHANGED program
         /\ Device!Run(t) => Device!Runs /\ UNCHANGED program
         /\ Fetching!Run(t) => Fetching!Runs /\ UNCHANGED program
         /\ Spawning!Run(t) => Spawning!Runs /\ UNCHANGED program
         /\ Config!Run(t) => Config!Runs /\ UNCHANGED program
  BY DEF Dining!Run, Lazy!Run, Waits!Run, Counts!Run, Handing!Run, Looping!Run, Locking!Run,
         Device!Run, Fetching!Run, Spawning!Run, Config!Run

LEMMA ProgramStays == [Next]_vars => UNCHANGED program
  BY RunsOwn DEF Next, Step, SpuriousWake, Ended, vars, Waits!SpuriousWake

(* What a step does to the variables of the programs proved about here.       *)
DiningMoves == \/ \E t \in DOMAIN pc : Dining!Run(t)
               \/ UNCHANGED <<program, pc, fork, mouthfuls>>
LazyMoves == \/ \E t \in DOMAIN pc : Lazy!Run(t)
             \/ UNCHANGED <<program, pc, pointer, guard, made, got>>
WaitsMoves == \/ \E t \in DOMAIN pc : Waits!Run(t)
              \/ \E t \in asleep : Waits!SpuriousWake(t)
              \/ UNCHANGED <<program, pc, value, asleep, announced, updates, seen, early>>
CountsMoves == \/ \E t \in DOMAIN pc : Counts!Run(t)
               \/ UNCHANGED <<program, pc, counter, register, turns, left, ready, winner, said>>
HandingMoves == \/ \E t \in DOMAIN pc : Handing!Run(t)
                \/ UNCHANGED <<program, pc, q, next, finished, updated, completed, output>>
LoopingMoves == \/ \E t \in DOMAIN pc : Looping!Run(t)
                \/ UNCHANGED <<program, pc, is_prime, index, multiple, word, sum>>
LockingMoves == \/ \E t \in DOMAIN pc : Locking!Run(t)
                \/ UNCHANGED <<program, pc, amount, loaded, held, section, stores>>
FetchingMoves == \/ \E t \in DOMAIN pc : Fetching!Run(t)
                 \/ UNCHANGED <<program, pc, step, deferred, input, result, runs, fetched>>
SpawningMoves == \/ \E t \in DOMAIN pc : Spawning!Run(t)
                 \/ UNCHANGED <<program, pc, captured, started, joined, processed, aborted>>
DeviceMoves == \/ \E t \in DOMAIN pc : Device!Run(t)
               \/ UNCHANGED <<program, pc, commands, enqueued, status, host,
                              buffer, at, round, shared, private>>
ConfigMoves == \/ \E t \in DOMAIN pc : Config!Run(t)
               \/ UNCHANGED <<program, pc, cfg, c, new_cfg, replaced, fields,
                              updated_to, level, printed>>

LEMMA OneModuleRuns ==
  ASSUME [Next]_vars
  PROVE  /\ Dining!Runs => DiningMoves
         /\ Lazy!Runs => LazyMoves
         /\ Waits!Runs => WaitsMoves
         /\ Counts!Runs => CountsMoves
         /\ Handing!Runs => HandingMoves
         /\ Looping!Runs => LoopingMoves
         /\ Locking!Runs => LockingMoves
         /\ Device!Runs => DeviceMoves
         /\ Fetching!Runs => FetchingMoves
         /\ Spawning!Runs => SpawningMoves
         /\ Config!Runs => ConfigMoves
  <1> USE DEF Dining!Runs, Lazy!Runs, Waits!Runs, Counts!Runs, Handing!Runs, Looping!Runs,
              Locking!Runs, Device!Runs, Fetching!Runs, Spawning!Runs, Config!Runs,
              DiningMoves, LazyMoves, WaitsMoves, CountsMoves, HandingMoves, LoopingMoves, LockingMoves,
              DeviceMoves, FetchingMoves, SpawningMoves, ConfigMoves
  <1>1. CASE UNCHANGED vars
    BY <1>1 DEF vars, ownVars, diningVars, lazyVars, waitsVars, countsVars, handingVars, loopingVars,
                lockingVars, deviceVars, fetchingVars, spawningVars, configVars
  <1>2. ASSUME NEW t \in DOMAIN pc, Step(t)
        PROVE  /\ Dining!Runs => Dining!Run(t)
               /\ Lazy!Runs => Lazy!Run(t)
               /\ Waits!Runs => Waits!Run(t)
               /\ Counts!Runs => Counts!Run(t)
               /\ Handing!Runs => Handing!Run(t)
               /\ Looping!Runs => Looping!Run(t)
               /\ Locking!Runs => Locking!Run(t)
               /\ Device!Runs => Device!Run(t)
               /\ Fetching!Runs => Fetching!Run(t)
               /\ Spawning!Runs => Spawning!Run(t)
               /\ Config!Runs => Config!Run(t)
    BY <1>2, RunsOwn DEF Step
  <1>3. CASE SpuriousWake
    BY <1>3 DEF SpuriousWake
  <1> QED BY <1>1, <1>2, <1>3 DEF Next, Ended
--------------------------------------------------------------------------------
(* The forks a philosopher holds at each place.                               *)
HoldsAt(p) == /\ pc[p] \in {"tryRight", "giveBack"} => fork[Dining!Left(p)] = p
              /\ pc[p] \in {"eat", "unlockFirst"} => /\ fork[Dining!Left(p)] = p
                                                     /\ fork[Dining!Right(p)] = p
              /\ pc[p] = "unlockSecond" => fork[Dining!Second(p)] = p
DiningInv == /\ pc \in [Dining!Philosophers ->
                         {"tryLeft", "tryRight", "giveBack", "lockBoth", "eat",
                          "unlockFirst", "unlockSecond", "done"}]
             /\ fork \in [Dining!Philosophers -> Dining!Philosophers \cup {Dining!OnTable}]
             /\ \A p \in Dining!Philosophers : HoldsAt(p)

LEMMA TwoForks ==
  ASSUME Forks \in Nat, Forks > 1, NEW p \in Dining!Philosophers
  PROVE  /\ Dining!Left(p) \in Dining!Philosophers
         /\ Dining!Right(p) \in Dining!Philosophers
         /\ Dining!Left(p) # Dining!Right(p)
         /\ p # Dining!OnTable
         /\ {Dining!First(p), Dining!Second(p)} = {Dining!Left(p), Dining!Right(p)}
  <1>1. p \in Nat /\ p < Forks
    BY DEF Dining!Philosophers
  <1>2. CASE p + 1 < Forks
    BY <1>1, <1>2 DEF Dining!Philosophers, Dining!Left, Dining!Right, Dining!OnTable, Dining!First,
       Dining!Second
  <1>3. CASE p + 1 = Forks
    BY <1>1, <1>3 DEF Dining!Philosophers, Dining!Left, Dining!Right, Dining!OnTable, Dining!First,
       Dining!Second
  <1> QED BY <1>1, <1>2, <1>3

LEMMA DiningInvStep == Forks \in Nat /\ Forks > 1 /\ DiningInv /\ DiningMoves => DiningInv'
  <1> SUFFICES ASSUME Forks \in Nat, Forks > 1, DiningInv, DiningMoves PROVE DiningInv'
    OBVIOUS
  <1>1. CASE UNCHANGED <<program, pc, fork, mouthfuls>>
    BY <1>1 DEF Dining!own, DiningInv, HoldsAt, Dining!Second
  <1>2. ASSUME NEW p \in Dining!Philosophers, Dining!Run(p) PROVE DiningInv'
    <2> USE DEF Dining!Goto, Dining!PutDown, Dining!Take
    <2>1. /\ HoldsAt(p) /\ UNCHANGED program
          /\ Dining!Left(p) \in Dining!Philosophers
          /\ Dining!Right(p) \in Dining!Philosophers
          /\ Dining!Left(p) # Dining!Right(p) /\ p # Dining!OnTable
          /\ {Dining!First(p), Dining!Second(p)} = {Dining!Left(p), Dining!Right(p)}
      BY <1>2, TwoForks DEF DiningInv, Dining!Run
    <2>2. ASSUME NEW r \in Dining!Philosophers PROVE Dining!Second(r)' = Dining!Second(r)
      BY <2>1 DEF Dining!Second
    (* No step touches a fork that another philosopher holds. *)
    <2>3. ASSUME NEW r \in Dining!Philosophers \ {p} PROVE HoldsAt(r)'
      <3>1. \A f \in Dining!Philosophers : fork[f] = r => fork'[f] = r
        <4> SUFFICES ASSUME NEW f \in Dining!Philosophers, fork[f] = r PROVE fork'[f] = r
          OBVIOUS
        <4>1. r # Dining!OnTable /\ r # p
          BY TwoForks
        <4>2. CASE Dining!TryLeft(p) \/ Dining!TryRight(p) \/ Dining!LockBoth(p) \/ Dining!Eat(p)
          BY <2>1, <4>1, <4>2 DEF DiningInv, Dining!TryLeft, Dining!TryRight, Dining!LockBoth,
                                  Dining!Eat
        <4>3. CASE Dining!GiveBack(p) \/ Dining!UnlockSecond(p)
          BY <2>1, <4>1, <4>3 DEF DiningInv, HoldsAt, Dining!GiveBack, Dining!UnlockSecond
        <4>4. CASE Dining!UnlockFirst(p)
          BY <2>1, <4>4, <4>1 DEF HoldsAt, Dining!UnlockFirst, DiningInv
        <4> QED BY <1>2, <4>2, <4>3, <4>4 DEF Dining!Run
      <3>2. pc'[r] = pc[r]
        BY <1>2 DEF Dining!Run, DiningInv, Dining!TryLeft, Dining!TryRight, Dining!GiveBack,
                    Dining!LockBoth, Dining!Eat, Dining!UnlockFirst,
                    Dining!UnlockSecond
      <3>3. {Dining!Left(r), Dining!Right(r), Dining!Second(r)} \subseteq Dining!Philosophers
        BY TwoForks
      <3> QED BY <2>2, <3>1, <3>2, <3>3 DEF DiningInv, HoldsAt
    <2>4. /\ pc' \in [Dining!Philosophers ->
                       {"tryLeft", "tryRight", "giveBack", "lockBoth", "eat",
                        "unlockFirst", "unlockSecond", "done"}]
          /\ fork' \in [Dining!Philosophers -> Dining!Philosophers \cup {Dining!OnTable}]
      BY <1>2, <2>1 DEF Dining!Run, DiningInv, Dining!TryLeft, Dining!TryRight,
                        Dining!GiveBack, Dining!LockBoth, Dining!Eat, Dining!UnlockFirst,
                        Dining!UnlockSecond
    <2>5. HoldsAt(p)'
      <3> USE <2>1, <2>2 DEF HoldsAt, DiningInv
      <3>1. CASE Dining!TryLeft(p)
        BY <3>1 DEF Dining!TryLeft
      <3>2. CASE Dining!TryRight(p)
        BY <3>2 DEF Dining!TryRight
      <3>3. CASE Dining!GiveBack(p)
        BY <3>3 DEF Dining!GiveBack
      <3>4. CASE Dining!LockBoth(p)
        BY <3>4 DEF Dining!LockBoth
      <3>5. CASE Dining!Eat(p)
        BY <3>5 DEF Dining!Eat
      <3>6. CASE Dining!UnlockFirst(p)
        BY TwoForks, <3>6 DEF Dining!First, Dining!Second, Dining!UnlockFirst
      <3>7. CASE Dining!UnlockSecond(p)
        BY <3>7 DEF Dining!UnlockSecond
      <3> QED BY <1>2, <3>1, <3>2, <3>3, <3>4, <3>5, <3>6, <3>7 DEF Dining!Run
    <2> QED BY <2>3, <2>4, <2>5 DEF DiningInv
  <1>3. CASE \E t \in DOMAIN pc : Dining!Run(t)
    <2>1. PICK t \in Dining!Philosophers : Dining!Run(t)
      BY <1>3 DEF Dining!Run
    <2> QED BY <1>2, <2>1
  <1> QED BY <1>1, <1>3 DEF DiningMoves

(* A philosopher that eats holds both of its forks until it has eaten, so     *)
(* neighbours never eat together, at a table of any size and for both         *)
(* programs.                                                                  *)
THEOREM NeighboursDoNotEatTogether ==
  Forks \in Nat /\ Forks > 1 => (Spec => []NeighboursEatApart)
  <1> SUFFICES ASSUME Forks \in Nat /\ Forks > 1 PROVE Spec => []NeighboursEatApart
    OBVIOUS
  <1> DEFINE J == Dining!Runs => DiningInv
  <1>1. Init => J
    BY DEF Dining!Init, DiningInv, HoldsAt, Init
  <1>2. J /\ [Next]_vars => J'
    <2> SUFFICES ASSUME J, [Next]_vars, Dining!Runs' PROVE DiningInv'
      OBVIOUS
    <2> QED BY OneModuleRuns, DiningInvStep, ProgramStays DEF Dining!Runs
  <1>3. J => NeighboursEatApart
    BY DEF DiningInv, HoldsAt, Dining!NeighboursEatApart, Dining!Eating, NeighboursEatApart
  <1> HIDE DEF J
  <1> QED BY <1>1, <1>2, <1>3, PTL DEF Spec
--------------------------------------------------------------------------------
Lines == [level : Nat, mode : {"init", "alpha", "beta"}]
Places == {"load", "level", "mode", "drop", "make", "store", "leave", "done"}

ConfigTypes == /\ pc \in [1 .. Config!Writer -> Places]
               /\ \A t \in Config!ReaderThreads :
                    pc[t] \in {"load", "level", "mode", "drop", "done"}
               /\ pc[Config!Writer] \in {"make", "store", "leave", "done"}
               /\ updated_to \in 0 .. 2
               /\ c \in [Config!ReaderThreads -> Nat]
               /\ level \in [Config!ReaderThreads -> Nat]
               /\ printed \in [Config!ReaderThreads -> Seq(Lines)]

(* The pointers of the writer, and the manager's, at each place of update().  *)
WriterAt == /\ pc[Config!Writer] = "make" => /\ updated_to < 2
                                             /\ cfg = updated_to + 1 /\ new_cfg = 0 /\ replaced = 0
            /\ pc[Config!Writer] = "store" => /\ updated_to > 0
                                              /\ cfg = updated_to /\ new_cfg = updated_to + 1
                                              /\ replaced = 0
            /\ pc[Config!Writer] = "leave" => /\ updated_to > 0
                                              /\ cfg = updated_to + 1 /\ new_cfg = updated_to + 1
                                              /\ replaced = updated_to
            /\ pc[Config!Writer] = "done" => /\ updated_to = 2
                                             /\ cfg = updated_to + 1 /\ new_cfg = 0 /\ replaced = 0

(* A reader's copy is not newer than the manager's pointer.                   *)
ReaderAt(t) == /\ pc[t] \in {"load", "done"} => c[t] = 0
               /\ pc[t] \in {"level", "mode", "drop"} => c[t] \in 1 .. cfg
               /\ pc[t] = "mode" => level[t] = c[t] - 1

(* What it has printed is not newer than the copy it looks at now.            *)
LinesAt(t) == \A i \in DOMAIN printed[t] :
                /\ printed[t][i] = Config!Version(printed[t][i].level)
                /\ printed[t][i].level < cfg
                /\ c[t] # 0 => printed[t][i].level < c[t]
                /\ i > 1 => printed[t][i].level >= printed[t][i - 1].level

(* A configuration is allocated exactly as long as somebody points to it.     *)
Counted == /\ DOMAIN fields = Config!Referenced \ {0}
           /\ \A a \in DOMAIN fields : fields[a] = Config!Version(a - 1)

ConfigInv == /\ ConfigTypes /\ WriterAt /\ Counted
             /\ \A t \in Config!ReaderThreads : ReaderAt(t) /\ LinesAt(t)

LEMMA ThreadsSplit ==
  ASSUME Readers \in Nat
  PROVE  /\ 1 .. Config!Writer = Config!ReaderThreads \cup {Config!Writer}
         /\ Config!Writer \notin Config!ReaderThreads
  BY DEF Config!Writer, Config!ReaderThreads

LEMMA Versions == \A k \in 0 .. 2 : Config!Version(k) \in Lines /\ Config!Version(k).level = k
  <1> SUFFICES ASSUME NEW k \in 0 .. 2
               PROVE  Config!Version(k) \in Lines /\ Config!Version(k).level = k
    OBVIOUS
  <1>1. CASE k = 0
    BY <1>1 DEF Config!Version, Lines
  <1>2. CASE k = 1
    BY <1>2 DEF Config!Version, Config!Updates, Lines
  <1>3. CASE k = 2
    BY <1>3 DEF Config!Version, Config!Updates, Lines
  <1> QED BY <1>1, <1>2, <1>3

LEMMA CfgRange == ConfigTypes /\ WriterAt => cfg \in 1 .. 3 /\ cfg <= updated_to + 1
  BY DEF ConfigTypes, Places, WriterAt

LEMMA LevelsAreNaturals ==
  ASSUME ConfigTypes, NEW t \in Config!ReaderThreads, NEW i \in DOMAIN printed[t]
  PROVE  printed[t][i].level \in Nat
  <1>2. printed[t][i] \in Lines
    BY DEF ConfigTypes
  <1> QED BY <1>2 DEF Lines

LEMMA ConfigInvInit == Readers \in Nat /\ Config!Init => ConfigInv
  <1> SUFFICES ASSUME Readers \in Nat, Config!Init PROVE ConfigInv
    OBVIOUS
  <1> USE ThreadsSplit DEF Config!Init
  <1>2. WriterAt
    BY DEF WriterAt, Config!Address, Config!Null
  <1>3. Counted
    BY DEF Counted, Config!Referenced, Config!Address, Config!Null
  <1>4. ASSUME NEW t \in Config!ReaderThreads PROVE ReaderAt(t) /\ LinesAt(t)
    BY <1>4 DEF ReaderAt, LinesAt, Config!Null
  <1> QED BY <1>2, <1>3, <1>4 DEF ConfigInv, Places, Config!Null, ConfigTypes

(* A reader's step: what the others are, and where it stands itself, decides. *)
LEMMA ReaderStep ==
  ASSUME Readers \in Nat, ConfigInv, NEW t \in Config!ReaderThreads,
         Config!Load(t) \/ Config!ReadLevel(t) \/ Config!ReadMode(t) \/ Config!Drop(t)
  PROVE  ConfigInv'
  <1> USE ThreadsSplit DEF Config!Goto
  <1> ConfigTypes /\ WriterAt /\ Counted /\ ReaderAt(t) /\ LinesAt(t) /\ cfg \in 1 .. 3
    BY CfgRange DEF ConfigInv
  <1>3. pc[t] \in {"level", "mode"} => c[t] \in 1 .. 3 /\ fields[c[t]] = Config!Version(c[t] - 1)
    BY DEF ReaderAt, Counted, Config!Referenced
  <1> UNCHANGED <<cfg, new_cfg, replaced, updated_to>> /\ pc'[Config!Writer] = pc[Config!Writer]
    BY DEF ConfigTypes, Places, Config!Load, Config!ReadLevel, Config!ReadMode, Config!Show,
       Config!Drop
  <1>5. WriterAt'
    BY DEF WriterAt
  <1>6. \A u \in Config!ReaderThreads \ {t} : /\ pc'[u] = pc[u] /\ c'[u] = c[u] /\ level'[u] = level[u]
                                              /\ printed'[u] = printed[u]
    BY DEF ConfigTypes, Places, Config!Load, Config!ReadLevel, Config!ReadMode, Config!Show,
       Config!Drop
  <1>7. \A u \in Config!ReaderThreads \ {t} : (ReaderAt(u) /\ LinesAt(u))'
    BY <1>6 DEF ConfigInv, ReaderAt, LinesAt
  <1>8. CASE Config!Load(t)
    <2>1. pc[t] = "load" /\ c[t] = 0 /\ c' = [c EXCEPT ![t] = cfg] /\ pc'[t] = "level"
      BY <1>8 DEF Config!Load, ConfigTypes, ReaderAt
    <2>2. ConfigTypes'
      BY <1>8 DEF ConfigTypes, Places, Config!Load
    <2>3. Counted'
      <3>1. Config!Referenced' \ {0} = Config!Referenced \ {0}
        BY <2>1 DEF Config!Referenced, ConfigTypes
      <3> QED BY <1>8, <3>1 DEF Counted, Config!Load
    <2>4. ReaderAt(t)' /\ LinesAt(t)'
      BY <1>8, <2>1 DEF ReaderAt, LinesAt, Config!Load, ConfigTypes
    <2> QED BY <1>5, <1>7, <2>2, <2>3, <2>4 DEF ConfigInv
  <1>9. CASE Config!ReadLevel(t)
    <2>1. fields[c[t]].level = c[t] - 1 /\ c[t] - 1 \in Nat
      BY <1>3, <1>9, Versions DEF Config!ReadLevel
    <2>2. ConfigTypes'
      BY <1>9, <2>1 DEF ConfigTypes, Places, Config!ReadLevel
    <2>3. Counted'
      BY <1>9 DEF Counted, Config!Referenced, Config!ReadLevel
    <2>4. ReaderAt(t)' /\ LinesAt(t)'
      BY <1>9, <2>1 DEF ReaderAt, LinesAt, Config!ReadLevel, ConfigTypes
    <2> QED BY <1>5, <1>7, <2>2, <2>3, <2>4 DEF ConfigInv
  <1>10. CASE Config!ReadMode(t)
    <2> DEFINE line == [level |-> level[t], mode |-> fields[c[t]].mode]
    <2>1. line \in Lines /\ line = Config!Version(c[t] - 1) /\ line.level = c[t] - 1
      BY <1>3, <1>10, Versions DEF Config!ReadMode, ReaderAt, Lines
    <2> HIDE DEF line
    <2>2. printed' = [printed EXCEPT ![t] = Append(@, line)] /\ pc[t] = "mode" /\ pc'[t] = "drop"
      BY <1>10 DEF Config!ReadMode, Config!Show, ConfigTypes, line
    <2>3. printed[t] \in Seq(Lines) /\ printed'[t] = Append(printed[t], line)
      BY <2>2 DEF ConfigTypes, Places
    <2>4. ConfigTypes'
      BY <1>10, <2>1, <2>2 DEF ConfigTypes, Places, Config!ReadMode, Config!Show
    <2>5. Counted'
      BY <1>10 DEF Counted, Config!Referenced, Config!ReadMode, Config!Show
    <2>6. UNCHANGED c /\ c[t] \in 1 .. cfg
      BY <1>10 DEF Config!ReadMode, Config!Show, ReaderAt
    <2>7. ReaderAt(t)'
      BY <2>2, <2>6 DEF ReaderAt
    <2>8. ASSUME NEW i \in DOMAIN printed'[t]
          PROVE  /\ printed'[t][i] = Config!Version(printed'[t][i].level)
                 /\ printed'[t][i].level < cfg
                 /\ printed'[t][i].level < c[t]
                 /\ i > 1 => printed'[t][i].level >= printed'[t][i - 1].level
      <3>1. CASE i \in DOMAIN printed[t]
        BY <2>3, <2>6, <2>8, <3>1 DEF LinesAt
      <3>2. CASE i = Len(printed[t]) + 1
        <4>1. printed'[t][i] = line
          BY <2>3, <3>2
        <4>2. i > 1 => /\ i - 1 \in DOMAIN printed[t] /\ printed'[t][i - 1] = printed[t][i - 1]
                       /\ printed[t][i - 1].level \in Nat /\ printed[t][i - 1].level < c[t]
          <5> SUFFICES ASSUME i > 1
                       PROVE  /\ i - 1 \in DOMAIN printed[t]
                              /\ printed'[t][i - 1] = printed[t][i - 1]
                              /\ printed[t][i - 1].level \in Nat
                              /\ printed[t][i - 1].level < c[t]
            OBVIOUS
          <5>1. i - 1 \in DOMAIN printed[t] /\ printed'[t][i - 1] = printed[t][i - 1]
            BY <2>3, <3>2
          <5> QED BY <2>6, <5>1, LevelsAreNaturals DEF LinesAt
        <4> QED BY <2>1, <2>6, <4>1, <4>2 DEF ConfigTypes
      <3> QED BY <2>3, <3>1, <3>2
    <2>9. LinesAt(t)'
      BY <2>6, <2>8 DEF LinesAt
    <2> QED BY <1>5, <1>7, <2>4, <2>5, <2>7, <2>9 DEF ConfigInv
  <1>11. CASE Config!Drop(t)
    <2>1. pc[t] = "drop" /\ c' = [c EXCEPT ![t] = 0] /\ pc'[t] \in {"load", "done"}
      BY <1>11 DEF Config!Drop, ConfigTypes, Config!Null
    <2>2. ConfigTypes'
      BY <1>11, <2>1 DEF ConfigTypes, Places, Config!Drop
    <2>3. Counted'
      <3>1. Config!Referenced' \subseteq Config!Referenced \cup {0}
        BY <2>1 DEF Config!Referenced, ConfigTypes
      <3> QED BY <1>11, <3>1 DEF Counted, Config!Drop, Config!Release, Config!Restrict
    <2>4. ReaderAt(t)' /\ LinesAt(t)'
      BY <1>11, <2>1 DEF ReaderAt, LinesAt, Config!Drop, ConfigTypes
    <2> QED BY <1>5, <1>7, <2>2, <2>3, <2>4 DEF ConfigInv
  <1> QED BY <1>8, <1>9, <1>10, <1>11

(* A step of update(): it only makes the manager's pointer newer.             *)
LEMMA WriterStep ==
  ASSUME Readers \in Nat, ConfigInv,
         \/ Config!Make(Config!Writer)
         \/ Config!Store(Config!Writer)
         \/ Config!Leave(Config!Writer)
  PROVE  ConfigInv'
  <1> USE ThreadsSplit DEF Config!Goto
  <1>1. ConfigTypes /\ WriterAt /\ Counted /\ cfg \in 1 .. 3
    BY CfgRange DEF ConfigInv
  <1>2. UNCHANGED <<c, level, printed>> /\ \A t \in Config!ReaderThreads : pc'[t] = pc[t]
    BY <1>1 DEF ConfigTypes, Places, Config!Make, Config!Store, Config!Leave
  <1>3. ConfigTypes' /\ WriterAt' /\ cfg' \in Nat /\ cfg' >= cfg
    <2>1. CASE Config!Make(Config!Writer)
      BY <1>1, <1>2, <2>1 DEF ConfigTypes, Places, WriterAt, Config!Make, Config!Address
    <2>2. CASE Config!Store(Config!Writer)
      BY <1>1, <1>2, <2>2 DEF ConfigTypes, Places, WriterAt, Config!Store
    <2>3. CASE Config!Leave(Config!Writer)
      BY <1>1, <1>2, <2>3 DEF ConfigTypes, Places, WriterAt, Config!Leave, Config!Null,
                              Config!Updates
    <2> QED BY <2>1, <2>2, <2>3
  <1>4. Counted'
    <2>1. CASE Config!Make(Config!Writer)
      BY <1>1, <2>1, <1>2 DEF Config!Make, WriterAt, Config!Address, ConfigTypes, Config!Referenced,
         Counted
    <2>2. CASE Config!Store(Config!Writer)
      BY <1>1, <1>2, <2>2 DEF Config!Store, Config!Referenced, WriterAt, Counted
    <2>3. CASE Config!Leave(Config!Writer)
      BY <1>1, <1>2, <2>3 DEF Config!Leave, Config!Referenced, Config!Null, Counted, Config!Release,
         Config!Restrict
    <2> QED BY <2>1, <2>2, <2>3
  <1> QED BY <1>3, <1>4, <1>2, <1>1, LevelsAreNaturals DEF ConfigInv, ReaderAt, LinesAt

LEMMA ConfigInvStep == Readers \in Nat /\ ConfigInv /\ ConfigMoves => ConfigInv'
  <1> SUFFICES ASSUME Readers \in Nat, ConfigInv, ConfigMoves PROVE ConfigInv'
    OBVIOUS
  <1> USE ThreadsSplit
  <1>1. CASE UNCHANGED <<program, pc, cfg, c, new_cfg, replaced, fields,
                         updated_to, level, printed>>
    <2> USE <1>1 DEF Config!own
    <2>2. Counted'
      BY DEF Config!Referenced, ConfigInv, Counted
    <2>3. ASSUME NEW t \in Config!ReaderThreads PROVE (ReaderAt(t) /\ LinesAt(t))'
      BY DEF ConfigInv, ReaderAt, LinesAt
    <2> QED BY <2>2, <2>3 DEF ConfigInv, ConfigTypes, WriterAt
  <1>2. ASSUME NEW t \in DOMAIN pc, Config!Run(t) PROVE ConfigInv'
    BY <1>2, WriterStep, ReaderStep DEF ConfigInv, ConfigTypes, Config!Run, Config!Load,
       Config!ReadLevel, Config!ReadMode, Config!Drop, Config!Make, Config!Store, Config!Leave
  <1> QED BY <1>1, <1>2 DEF ConfigMoves

(* Readers of a ConfigManager see whole snapshots, in the order of the        *)
(* updates, of configurations that live as long as they are looked at, and    *)
(* nothing but the last is left in the end: for any number of readers and of  *)
(* turns.                                                                     *)
THEOREM ReadersSeeSnapshots ==
  Readers \in Nat => (Spec => []SnapshotsAreWhole)
  <1> SUFFICES ASSUME Readers \in Nat PROVE Spec => []SnapshotsAreWhole
    OBVIOUS
  <1> USE ThreadsSplit
  <1> DEFINE J == Config!Runs => ConfigInv
  <1>1. Init => J
    <2> QED BY ConfigInvInit DEF Init
  <1>2. J /\ [Next]_vars => J'
    <2> SUFFICES ASSUME J, [Next]_vars, Config!Runs' PROVE ConfigInv'
      OBVIOUS
    <2> QED BY OneModuleRuns, ConfigInvStep, ProgramStays DEF Config!Runs
  <1>3. J => SnapshotsAreWhole
    <2>1. ConfigInv => Config!SnapshotsAreWhole
      <3> SUFFICES ASSUME ConfigInv PROVE Config!SnapshotsAreWhole
        OBVIOUS
      <3>1. ConfigTypes /\ WriterAt /\ Counted /\ cfg \in 1 .. 3 /\ cfg <= updated_to + 1
        BY CfgRange DEF ConfigInv
      <3>2. ASSUME NEW t \in Config!ReaderThreads, NEW i \in DOMAIN printed[t]
            PROVE  /\ \E k \in 0 .. updated_to : printed[t][i] = Config!Version(k)
                   /\ i > 1 => printed[t][i].level >= printed[t][i - 1].level
        <4>1. LinesAt(t) /\ printed[t][i].level \in Nat
          BY <3>1, <3>2, LevelsAreNaturals DEF ConfigInv
        <4> QED BY <3>2, <4>1, <3>1 DEF LinesAt, ConfigTypes
      <3>3. ASSUME NEW t \in Config!ReaderThreads, pc[t] \in {"level", "mode"}
            PROVE  c[t] \in DOMAIN fields
        BY <3>1, <3>3 DEF ConfigInv, ReaderAt, Counted, Config!Referenced
      <3>4. ASSUME \A t \in DOMAIN pc : pc[t] = "done"
            PROVE  DOMAIN fields = {Config!Address(Len(Config!Updates))}
        BY <3>1, <3>4 DEF ConfigInv, ReaderAt, ConfigTypes, WriterAt, Config!Address,
           Config!Updates, Counted, Config!Referenced
      <3> QED BY <3>2, <3>3, <3>4 DEF Config!SnapshotsAreWhole
    <2> QED BY <2>1 DEF SnapshotsAreWhole, Config!SnapshotsAreWhole
  <1> HIDE DEF J
  <1> QED BY <1>1, <1>2, <1>3, PTL DEF Spec
--------------------------------------------------------------------------------
(* LazyInit: who holds a guard, what a pointer points to, what was returned.  *)
Calls == program.calls
Made == {made[k] : k \in DOMAIN made}
Pointers == {"pInstance", "instance", "pSmartInstance"}

LazyTypes == /\ program \in Lazy!Mine
             /\ pc \in [Lazy!Callers -> {"look", "lock", "lookAgain", "create",
                                         "unlock", "return", "done"}]
             /\ pointer \in [Pointers -> Nat]
             /\ guard \in [Lazy!Getters -> Lazy!Callers \cup {Lazy!Free, Lazy!Over}]
             /\ made \in Seq(Lazy!Getters)
             /\ got \in [Lazy!Callers -> Seq(Nat)]
             /\ \A t \in Lazy!Callers : /\ pc[t] = "done" => Len(got[t]) = Len(Calls)
                                        /\ pc[t] # "done" => Len(got[t]) < Len(Calls)

(* Who holds a guard, and what it knows of its getter's object.               *)
GuardedAt(t) ==
  /\ pc[t] \in {"lookAgain", "create", "unlock"} => guard[Lazy!Getter(t)] = t
  /\ pc[t] \in {"lock", "lookAgain"} => Lazy!By(t, "mutex")
  /\ pc[t] = "create" => Lazy!Getter(t) \notin Made
  /\ pc[t] \in {"unlock", "return"} => Lazy!Getter(t) \in Made
  /\ \A k \in DOMAIN got[t] : Calls[k] \in Made
OnceFlags == \A g \in Lazy!Getters : g.guardedBy = "once" =>
               (guard[g] = Lazy!Free => g \notin Made) /\ (guard[g] = Lazy!Over => g \in Made)

(* A pointer that is not null points to an object of one of its getters, and  *)
(* of two, source.cpp's second one has replaced the first one's object.       *)
Replaced(g) == g = Lazy!DCLP /\ Lazy!CallOnce \in Made
PointersAt == \A p \in Pointers : pointer[p] # 0 =>
                pointer[p] \in DOMAIN made /\ made[pointer[p]].pointer = p
ObjectsAt == \A g \in Made : /\ pointer[g.pointer] # 0
                             /\ Replaced(g) \/ made[pointer[g.pointer]] = g
CallOrder == /\ \A g \in Made : \E k \in DOMAIN Calls : Calls[k] = g
             /\ Lazy!CallOnce \in Made => Lazy!DCLP \in Made \/ Len(Calls) = 1

(* What a getter has returned, unless it may have been replaced.              *)
ReturnedAt(t) == \A k \in DOMAIN got[t] :
                   /\ got[t][k] # 0
                   /\ Calls[k] # Lazy!DCLP \/ Len(Calls) = 1 =>
                        got[t][k] \in DOMAIN made /\ made[got[t][k]] = Calls[k]

LazyInv == /\ LazyTypes /\ Lazy!IsInjective(made)
           /\ OnceFlags /\ PointersAt /\ ObjectsAt /\ CallOrder
           /\ \A t \in Lazy!Callers : GuardedAt(t) /\ ReturnedAt(t)

LEMMA GetterFields ==
  /\ \A g \in Lazy!Getters : g.pointer \in Pointers /\ g.guardedBy \in {"mutex", "once"}
  /\ Lazy!DCLP.pointer = "pInstance" /\ Lazy!DCLP.guardedBy = "mutex"
  /\ Lazy!CallOnce.pointer = "pInstance" /\ Lazy!CallOnce.guardedBy = "once"
  /\ \A g, h \in Lazy!Getters : g.pointer = h.pointer =>
       g = h \/ {g, h} = {Lazy!DCLP, Lazy!CallOnce}
  /\ Lazy!DCLP \in Lazy!Getters /\ Lazy!CallOnce \in Lazy!Getters /\ Lazy!DCLP # Lazy!CallOnce
  BY DEF Lazy!Getters, Lazy!DCLP, Lazy!CallOnce, Lazy!Meyers, Lazy!Smart, Pointers

(* The programs: DCLP and CallOnce are both called by one of them only, which *)
(* calls them one after the other, and no getter is called twice.             *)
LEMMA ProgramCalls ==
  ASSUME program \in Lazy!Mine
  PROVE  /\ Calls \in Seq(Lazy!Getters) /\ Len(Calls) \in Nat \ {0}
         /\ \A j, k \in 1 .. Len(Calls) : Calls[j] = Calls[k] => j = k
         /\ \A k \in 1 .. Len(Calls) :
              Calls[k] = Lazy!CallOnce => Len(Calls) = 1 \/ (k = 2 /\ Calls[1] = Lazy!DCLP)
         /\ \A k \in 1 .. Len(Calls) : Calls[k] = Lazy!DCLP => k = 1
  <1> USE DEF Calls, Lazy!Getters, Lazy!DCLP, Lazy!CallOnce, Lazy!Meyers, Lazy!Smart
  <1>1. CASE program = Lazy!WorkerOfSource
    BY <1>1 DEF Lazy!WorkerOfSource
  <1>2. CASE program = Lazy!ProcessWithCallOnce
    BY <1>2 DEF Lazy!ProcessWithCallOnce
  <1>3. CASE program = Lazy!ProcessWithAtomic
    <2>1. Calls = <<Lazy!DCLP>>
      BY <1>3 DEF Lazy!ProcessWithAtomic
    <2> QED BY <2>1
  <1>4. CASE program = Lazy!TaskWithSingleton
    BY <1>4 DEF Lazy!TaskWithSingleton
  <1> QED BY <1>1, <1>2, <1>3, <1>4 DEF Lazy!Mine

(* A thread that has not finished is in its next getter.                      *)
LEMMA GetterInCalls ==
  ASSUME LazyTypes, NEW t \in Lazy!Callers, pc[t] # "done"
  PROVE  /\ Len(got[t]) + 1 \in 1 .. Len(Calls) /\ Len(got[t]) \in Nat
         /\ Lazy!Getter(t) \in Lazy!Getters /\ Lazy!Getter(t) = Calls[Len(got[t]) + 1]
  <1>1. Calls \in Seq(Lazy!Getters) /\ got[t] \in Seq(Nat) /\ Len(got[t]) < Len(Calls)
    BY ProgramCalls DEF LazyTypes
  <1> QED BY <1>1 DEF Lazy!Getter, Calls

LEMMA LazyInvInit == GetterThreads \in Nat /\ Lazy!Init => LazyInv
  <1> SUFFICES ASSUME GetterThreads \in Nat, Lazy!Init PROVE LazyInv
    OBVIOUS
  <1> USE DEF Lazy!Init
  <1>1. Made = {} /\ made = <<>>
    BY DEF Made
  <1>2. LazyTypes
    BY ProgramCalls DEF Pointers, Lazy!Getters, Lazy!DCLP, Lazy!CallOnce, Lazy!Meyers, Lazy!Smart,
       Lazy!Null, LazyTypes
  <1>4. OnceFlags /\ ObjectsAt /\ CallOrder
    BY <1>1 DEF OnceFlags, ObjectsAt, CallOrder, Lazy!Free, Lazy!Over
  <1>5. PointersAt
    BY DEF PointersAt, Pointers, Lazy!Getters, Lazy!DCLP, Lazy!CallOnce, Lazy!Meyers,
           Lazy!Smart, Lazy!Null
  <1>6. ASSUME NEW t \in Lazy!Callers PROVE GuardedAt(t) /\ ReturnedAt(t)
    BY <1>6 DEF GuardedAt, ReturnedAt
  <1> QED BY <1>2, <1>4, <1>5, <1>6, <1>1 DEF LazyInv, Lazy!IsInjective

(* A getter that finds its pointer set finds it set by itself before or, if   *)
(* it shares the pointer, after itself.                                       *)
LEMMA PointerMeansMade ==
  ASSUME LazyInv, NEW t \in Lazy!Callers, pc[t] # "done",
         Lazy!By(t, "mutex"), Lazy!Pointer(t) # Lazy!Null
  PROVE  Lazy!Getter(t) \in Made
  <1> DEFINE g == Lazy!Getter(t)
             h == made[pointer[g.pointer]]
  <1>1. g \in Lazy!Getters /\ g.pointer \in Pointers /\ g.guardedBy = "mutex"
    BY GetterInCalls, GetterFields DEF LazyInv, Lazy!By
  <1>2. h \in Made /\ h \in Lazy!Getters /\ h.pointer = g.pointer
    BY <1>1 DEF LazyInv, PointersAt, Made, Lazy!Pointer, Lazy!Null, LazyTypes
  <1>3. CASE h = g
    BY <1>2, <1>3
  <1>4. CASE h # g
    <2> HIDE DEF g, h
    <2>1. g = Lazy!DCLP /\ h = Lazy!CallOnce
      BY <1>1, <1>2, <1>4, GetterFields
    <2>3. \E k \in 1 .. Len(Calls) : Calls[k] = Lazy!DCLP
      BY <2>1, GetterInCalls DEF LazyInv, g
    <2>4. Len(Calls) # 1
      BY <2>3, ProgramCalls, GetterFields, <1>2, <2>1 DEF LazyInv, LazyTypes, CallOrder
    <2> QED BY <1>2, <2>1, <2>4 DEF LazyInv, CallOrder, g
  <1> QED BY <1>3, <1>4

(* Steps that only move a thread and its guard.                               *)
LEMMA GuardStep ==
  ASSUME GetterThreads \in Nat, LazyInv, NEW t \in Lazy!Callers, UNCHANGED program,
         Lazy!Look(t) \/ Lazy!Lock(t) \/ Lazy!LookAgain(t) \/ Lazy!EnterOnce(t) \/ Lazy!Unlock(t)
  PROVE  LazyInv'
  <1> USE DEF Lazy!Goto
  <1>1. LazyTypes /\ GuardedAt(t) /\ OnceFlags /\ pc[t] # "done" /\ pc'[t] # "done"
    BY DEF LazyInv, LazyTypes, Lazy!Look, Lazy!Lock, Lazy!LookAgain, Lazy!EnterOnce, Lazy!Unlock
  <1>2. UNCHANGED <<pointer, made, got>> /\ pc' = [pc EXCEPT ![t] = pc'[t]]
    BY <1>1 DEF Lazy!own, Lazy!Look, Lazy!Lock, Lazy!LookAgain, Lazy!EnterOnce, Lazy!Unlock,
                LazyTypes
  <1>3. /\ Lazy!Getter(t) \in Lazy!Getters
        /\ \A u \in Lazy!Callers : Lazy!Getter(u)' = Lazy!Getter(u)
    BY <1>1, <1>2, GetterInCalls DEF Lazy!Getter
  <1>4. Made' = Made
    BY <1>2 DEF Made
  <1>5. /\ 0 \notin Lazy!Callers /\ Lazy!Over \notin Lazy!Callers
        /\ Lazy!Free = 0 /\ Lazy!Free # Lazy!Over
    BY DEF Lazy!Callers, Lazy!Free, Lazy!Over
  <1>6. \/ guard' = guard
        \/ \E x : /\ guard' = [guard EXCEPT ![Lazy!Getter(t)] = x]
                  /\ x \in {t, Lazy!Free, Lazy!Over}
    BY DEF Lazy!own, Lazy!Look, Lazy!Lock, Lazy!LookAgain, Lazy!EnterOnce, Lazy!Unlock,
           Lazy!Seize, Lazy!Leave
  <1>7. guard' # guard => guard[Lazy!Getter(t)] \in {Lazy!Free, t}
    BY <1>1 DEF Lazy!own, Lazy!Look, Lazy!Lock, Lazy!LookAgain, Lazy!EnterOnce, Lazy!Unlock,
                Lazy!Seize, GuardedAt
  <1>8. LazyTypes'
    BY <1>1, <1>2, <1>6 DEF LazyTypes, Lazy!Look, Lazy!Lock, Lazy!LookAgain, Lazy!EnterOnce,
                            Lazy!Unlock, Calls
  <1>9. GuardedAt(t)'
    <2> USE <1>1, <1>2, <1>3, <1>4 DEF GuardedAt, LazyTypes, Lazy!By, Calls
    <2>1. CASE Lazy!Look(t)
      BY <2>1, PointerMeansMade DEF Lazy!Look, Lazy!own
    <2>2. CASE Lazy!Lock(t)
      BY <2>2 DEF Lazy!Lock, Lazy!Seize
    <2>3. CASE Lazy!LookAgain(t)
      BY <2>3, PointerMeansMade DEF Lazy!LookAgain, LazyInv, ObjectsAt, Lazy!Pointer, Lazy!Null,
         Lazy!own
    <2>4. CASE Lazy!EnterOnce(t)
      BY <2>4 DEF Lazy!EnterOnce, Lazy!Seize, OnceFlags
    <2>5. CASE Lazy!Unlock(t)
      BY <2>5 DEF Lazy!Unlock, Lazy!Leave
    <2> QED BY <2>1, <2>2, <2>3, <2>4, <2>5
  <1>10. ASSUME NEW u \in Lazy!Callers, u # t PROVE GuardedAt(u)'
    <2>1. GuardedAt(u) /\ pc'[u] = pc[u] /\ Lazy!Getter(u)' = Lazy!Getter(u) /\ got'[u] = got[u]
      BY <1>1, <1>2, <1>3, <1>10 DEF LazyInv, LazyTypes
    <2>2. pc[u] \in {"lookAgain", "create", "unlock"} => guard'[Lazy!Getter(u)] = u
      <3> HAVE pc[u] \in {"lookAgain", "create", "unlock"}
      <3>1. guard[Lazy!Getter(u)] = u
        BY <2>1 DEF GuardedAt
      <3>2. /\ Lazy!Getter(u) \in Lazy!Getters
            /\ guard \in [Lazy!Getters -> Lazy!Callers \cup {Lazy!Free, Lazy!Over}]
        BY <1>1, <2>1, GetterInCalls DEF LazyTypes
      <3>3. CASE Lazy!Getter(u) = Lazy!Getter(t)
        BY <1>5, <1>7, <1>10, <3>1, <3>3
      <3>4. CASE Lazy!Getter(u) # Lazy!Getter(t)
        BY <1>6, <3>1, <3>2, <3>4
      <3> QED BY <3>3, <3>4
    <2> QED BY <1>4, <2>1, <2>2 DEF GuardedAt, Lazy!By, Calls
  <1>11. OnceFlags'
    <2> SUFFICES ASSUME NEW g \in Lazy!Getters, g.guardedBy = "once"
                 PROVE  /\ guard'[g] = Lazy!Free => g \notin Made
                        /\ guard'[g] = Lazy!Over => g \in Made
      BY <1>4 DEF OnceFlags
    <2>1. CASE guard'[g] = guard[g]
      BY <1>1, <2>1 DEF OnceFlags
    <2>2. CASE guard'[g] # guard[g]
      BY <1>1, <1>6, <2>2, <1>5 DEF LazyTypes, Lazy!Unlock, Lazy!Leave, Lazy!By, GuardedAt,
         Lazy!Look, Lazy!Lock, Lazy!LookAgain, Lazy!EnterOnce, Lazy!Seize, Lazy!own
    <2> QED BY <2>1, <2>2
  <1>12. PointersAt' /\ ObjectsAt' /\ CallOrder' /\ Lazy!IsInjective(made)'
    BY <1>2, <1>4 DEF LazyInv, PointersAt, ObjectsAt, CallOrder, Replaced, Calls
  <1>13. ASSUME NEW u \in Lazy!Callers PROVE ReturnedAt(u)'
    BY <1>2, <1>13 DEF LazyInv, ReturnedAt, Calls
  <1> QED BY <1>8, <1>9, <1>10, <1>11, <1>12, <1>13 DEF LazyInv

LEMMA CreateStep ==
  ASSUME GetterThreads \in Nat, LazyInv, NEW t \in Lazy!Callers, UNCHANGED program, Lazy!Create(t)
  PROVE  LazyInv'
  <1> DEFINE g == Lazy!Getter(t)
  <1> USE DEF Lazy!Goto
  <1>1. /\ LazyTypes /\ GuardedAt(t) /\ pc[t] = "create" /\ g \in Lazy!Getters /\ g \notin Made
        /\ guard[g] = t /\ g.pointer \in Pointers
    BY GetterInCalls, GetterFields DEF LazyInv, Lazy!Create, GuardedAt
  <1>2. /\ made' = Append(made, g) /\ pc' = [pc EXCEPT ![t] = "unlock"]
        /\ pointer' = [pointer EXCEPT ![g.pointer] = Len(made')]
        /\ UNCHANGED <<guard, got, program>>
    BY DEF Lazy!Create
  <1>3. \A u \in Lazy!Callers : Lazy!Getter(u)' = Lazy!Getter(u)
    BY <1>2 DEF Lazy!Getter
  <1> HIDE DEF g
  <1>4. /\ made \in Seq(Lazy!Getters) /\ Len(made') = Len(made) + 1 /\ Len(made) \in Nat
        /\ made'[Len(made')] = g /\ DOMAIN made' = DOMAIN made \cup {Len(made')}
        /\ \A k \in DOMAIN made : made'[k] = made[k]
    BY <1>1, <1>2 DEF LazyTypes
  <1>5. Made' = Made \cup {g}
    BY <1>4 DEF Made
  <1>7. LazyTypes'
    BY <1>1, <1>2, <1>4 DEF LazyTypes, Calls
  <1>8. Lazy!IsInjective(made)'
    BY <1>1, <1>4 DEF LazyInv, Lazy!IsInjective, Made
  <1>9. OnceFlags'
    BY <1>1, <1>2, <1>5 DEF LazyInv, OnceFlags, Lazy!Callers, Lazy!Free, Lazy!Over
  <1>10. PointersAt'
    BY <1>1, <1>2, <1>4 DEF LazyInv, PointersAt, LazyTypes
  <1>11. \E k \in 1 .. Len(Calls) : Calls[k] = g /\ k = Len(got[t]) + 1
    BY <1>1, GetterInCalls DEF g
  <1>12. g = Lazy!DCLP => Lazy!CallOnce \notin Made
    <2> SUFFICES ASSUME g = Lazy!DCLP, Lazy!CallOnce \in Made PROVE FALSE
      OBVIOUS
    <2> QED BY <1>11, ProgramCalls, GetterFields, <1>1 DEF LazyTypes, LazyInv, CallOrder
  <1>13. ObjectsAt'
    <2> SUFFICES ASSUME NEW h \in Made'
                 PROVE  /\ pointer'[h.pointer] # 0
                        /\ (Replaced(h) \/ made[pointer[h.pointer]] = h)'
      BY DEF ObjectsAt
    <2>1. CASE h.pointer = g.pointer
      <3>1. pointer'[h.pointer] = Len(made') /\ h \in Lazy!Getters
        BY <1>1, <1>2, <1>5, <2>1 DEF LazyTypes, Made
      <3>2. h = g \/ (h = Lazy!DCLP /\ g = Lazy!CallOnce)
        BY <1>1, <1>5, <1>12, <2>1, <3>1, GetterFields
      <3> QED BY <1>4, <1>5, <3>1, <3>2 DEF Replaced
    <2>2. CASE h.pointer # g.pointer
      BY <1>5, <2>2, <1>1, <1>2, GetterFields, <1>4 DEF LazyTypes, Made, LazyInv, ObjectsAt,
         PointersAt, Replaced
    <2> QED BY <2>1, <2>2
  <1>14. CallOrder'
    <2>1. ASSUME NEW h \in Made' PROVE \E k \in DOMAIN Calls' : Calls'[k] = h
      BY <1>1, <1>2, <1>5, <1>11, <2>1, ProgramCalls DEF LazyInv, CallOrder, Calls, LazyTypes
    <2>2. CASE g = Lazy!CallOnce
      <3>1. Len(Calls) = 1 \/ (Len(got[t]) = 1 /\ Calls[1] = Lazy!DCLP)
        <4>1. got[t] \in Seq(Nat)
          BY <1>1 DEF LazyTypes
        <4>2. PICK k \in 1 .. Len(Calls) : Calls[k] = Lazy!CallOnce /\ k = Len(got[t]) + 1
          BY <1>11, <2>2
        <4>4. CASE k = 2 /\ Calls[1] = Lazy!DCLP
          <5>2. Len(got[t]) \in Nat /\ \A n \in Nat : n + 1 = 2 => n = 1
            BY <4>1
          <5>3. Len(got[t]) = 1
            BY <5>2, <4>2, <4>4
          <5> QED BY <4>4, <5>3
        <4> QED BY <4>4, <1>1, <4>2, ProgramCalls DEF LazyTypes
      <3> QED BY <1>2, <1>5, <2>1, <3>1, <1>1 DEF CallOrder, Calls, GuardedAt, LazyTypes
    <2>3. CASE g # Lazy!CallOnce
      BY <1>2, <1>5, <2>1, <2>3 DEF CallOrder, Calls, LazyInv
    <2> QED BY <2>2, <2>3
  <1>15. ASSUME NEW u \in Lazy!Callers PROVE GuardedAt(u)' /\ ReturnedAt(u)'
    BY <1>3, <1>2, <1>4, <1>5, <1>1 DEF LazyInv, ReturnedAt, Calls, GuardedAt, LazyTypes, g, Lazy!By
  <1> QED BY <1>7, <1>8, <1>9, <1>10, <1>13, <1>14, <1>15 DEF LazyInv

LEMMA ReturnStep ==
  ASSUME GetterThreads \in Nat, LazyInv, NEW t \in Lazy!Callers, UNCHANGED program, Lazy!Return(t)
  PROVE  LazyInv'
  <1> DEFINE n == Len(got[t]) + 1
  <1> USE DEF Lazy!Goto
  <1> /\ LazyTypes /\ GuardedAt(t) /\ ReturnedAt(t) /\ pc[t] = "return"
      /\ Lazy!Getter(t) \in Made /\ Lazy!Getter(t) \in Lazy!Getters /\ Lazy!Getter(t) = Calls[n]
      /\ n \in 1 .. Len(Calls)
    BY GetterInCalls DEF LazyInv, Lazy!Return, GuardedAt
  <1> /\ got' = [got EXCEPT ![t] = Append(@, Lazy!Pointer(t))]
      /\ UNCHANGED <<pointer, guard, made, program>>
      /\ pc' = [pc EXCEPT ![t] = IF Len(got'[t]) = Len(Calls) THEN "done" ELSE "look"]
    BY DEF Lazy!Return, Calls
  <1>3. Lazy!Pointer(t) \in Nat
    BY GetterFields DEF Lazy!Pointer, LazyTypes
  <1>4. /\ got[t] \in Seq(Nat) /\ got'[t] = Append(got[t], Lazy!Pointer(t)) /\ Len(got'[t]) = n
        /\ DOMAIN got'[t] = DOMAIN got[t] \cup {n} /\ got'[t][n] = Lazy!Pointer(t)
        /\ \A k \in DOMAIN got[t] : got'[t][k] = got[t][k]
    BY <1>3 DEF LazyTypes
  <1> HIDE DEF n
  <1>5. Made' = Made
    BY DEF Made
  <1>6. \A u \in Lazy!Callers \ {t} : /\ pc'[u] = pc[u] /\ got'[u] = got[u]
                                      /\ Lazy!Getter(u)' = Lazy!Getter(u)
    BY DEF LazyTypes, Lazy!Getter
  <1>7. LazyTypes'
    BY <1>3, ProgramCalls, <1>4, <1>6 DEF LazyTypes, Calls
  <1>8. GuardedAt(t)'
    BY <1>4, <1>5 DEF GuardedAt, Calls, LazyTypes
  <1>9. ReturnedAt(t)'
    <2>2. Calls[n] # Lazy!DCLP \/ Len(Calls) = 1 => ~Replaced(Lazy!Getter(t))
      <3> SUFFICES ASSUME Len(Calls) = 1, Calls[n] = Lazy!DCLP, Lazy!CallOnce \in Made PROVE FALSE
        BY DEF Replaced
      <3> QED BY GetterFields, ProgramCalls DEF LazyInv, CallOrder, LazyTypes
    <2>3. Calls[n] # Lazy!DCLP \/ Len(Calls) = 1 => made[Lazy!Pointer(t)] = Calls[n]
      BY <2>2 DEF LazyInv, ObjectsAt, Lazy!Pointer
    <2> QED BY <1>4, <2>3, GetterFields DEF ReturnedAt, Calls, Lazy!Pointer, LazyInv, ObjectsAt,
               PointersAt
  <1>10. ASSUME NEW u \in Lazy!Callers \ {t} PROVE GuardedAt(u)' /\ ReturnedAt(u)'
    BY <1>5, <1>6, <1>10 DEF LazyInv, GuardedAt, ReturnedAt, Calls, Lazy!By
  <1>11. OnceFlags' /\ PointersAt' /\ ObjectsAt' /\ CallOrder' /\ Lazy!IsInjective(made)'
    BY <1>5 DEF LazyInv, OnceFlags, PointersAt, ObjectsAt, CallOrder, Replaced, Calls
  <1> QED BY <1>7, <1>8, <1>9, <1>10, <1>11 DEF LazyInv

LEMMA LazyInvStep == GetterThreads \in Nat /\ LazyInv /\ LazyMoves => LazyInv'
  <1> SUFFICES ASSUME GetterThreads \in Nat, LazyInv, LazyMoves PROVE LazyInv'
    OBVIOUS
  <1>1. CASE UNCHANGED <<program, pc, pointer, guard, made, got>>
    <2> USE <1>1 DEF Lazy!own
    <2>1. /\ Made' = Made /\ Calls' = Calls
          /\ \A t \in Lazy!Callers : Lazy!Getter(t)' = Lazy!Getter(t)
      BY DEF Made, Calls, Lazy!Getter
    <2>2. /\ LazyTypes' /\ OnceFlags' /\ PointersAt' /\ ObjectsAt' /\ CallOrder'
          /\ Lazy!IsInjective(made)'
      BY <2>1 DEF LazyInv, LazyTypes, OnceFlags, PointersAt, ObjectsAt, CallOrder, Replaced
    <2> QED BY <2>2, <2>1 DEF LazyInv, GuardedAt, ReturnedAt, Lazy!By
  <1>2. ASSUME NEW t \in Lazy!Callers, Lazy!Run(t) PROVE LazyInv'
    BY <1>2, GuardStep, CreateStep, ReturnStep DEF Lazy!Run
  <1>3. CASE \E t \in DOMAIN pc : Lazy!Run(t)
    <2>1. PICK t \in Lazy!Callers : Lazy!Run(t)
      BY <1>3 DEF Lazy!Run
    <2> QED BY <1>2, <2>1
  <1> QED BY <1>1, <1>3 DEF LazyMoves

(* The getters of source.cpp and their copies create their objects once each, *)
(* return them and agree on them, however many threads race for the first     *)
(* call.                                                                      *)
THEOREM CreatesOnce ==
  GetterThreads \in Nat \ {0} => (Spec => []CreatedOnce)
  <1> SUFFICES ASSUME GetterThreads \in Nat \ {0} PROVE Spec => []CreatedOnce
    OBVIOUS
  <1> DEFINE J == Lazy!Runs => LazyInv
  <1>1. Init => J
    <2> QED BY LazyInvInit DEF Init
  <1>2. J /\ [Next]_vars => J'
    <2> SUFFICES ASSUME J, [Next]_vars, Lazy!Runs' PROVE LazyInv'
      OBVIOUS
    <2> QED BY OneModuleRuns, LazyInvStep, ProgramStays DEF Lazy!Runs
  <1>3. J => CreatedOnce
    <2>1. LazyInv => Lazy!CreatedOnce
      <3> SUFFICES ASSUME LazyInv PROVE Lazy!CreatedOnce
        OBVIOUS
      <3>1. LazyTypes
        BY DEF LazyInv
      <3>2. ASSUME Lazy!Finished
            PROVE  {made[k] : k \in DOMAIN made} = {Calls[k] : k \in DOMAIN Calls}
        <4>1. 1 \in Lazy!Callers /\ pc[1] = "done"
          BY <3>1, <3>2 DEF Lazy!Callers, LazyTypes, Lazy!Finished
        <4>3. \A k \in DOMAIN Calls : Calls[k] \in Made
          BY <4>1, <3>1, ProgramCalls DEF LazyInv, GuardedAt, LazyTypes
        <4> QED BY <4>3 DEF LazyInv, CallOrder, Made
      <3>4. ASSUME NEW k \in DOMAIN Calls, Calls[k] # Lazy!DCLP \/ Len(Calls) = 1
            PROVE  Lazy!Agree(k)
        <4> SUFFICES ASSUME NEW t \in Lazy!Callers, NEW u \in Lazy!Callers,
                            k <= Len(got[t]), k <= Len(got[u])
                     PROVE  got[t][k] = got[u][k]
          BY DEF Lazy!Agree
        <4>2. /\ got[t][k] \in DOMAIN made /\ made[got[t][k]] = Calls[k]
              /\ got[u][k] \in DOMAIN made /\ made[got[u][k]] = Calls[k]
          BY <3>4, <3>1, ProgramCalls DEF LazyInv, ReturnedAt, LazyTypes
        <4> QED BY <4>2 DEF LazyInv, Lazy!IsInjective
      <3> QED BY <3>2, <3>4 DEF Lazy!CreatedOnce, LazyInv, Calls, ReturnedAt, Lazy!Null
    <2> QED BY <2>1 DEF CreatedOnce, Lazy!CreatedOnce
  <1> HIDE DEF J
  <1> QED BY <1>1, <1>2, <1>3, PTL DEF Spec
--------------------------------------------------------------------------------
(* Waiting: a waiter is never at a place of a notifier, and what it went on   *)
(* with was enough.                                                           *)
WaitingInv ==
  /\ program \in Waits!Mine
  /\ pc \in [Waits!Waiters \cup Waits!Notifiers ->
               {"enter", "wait", "load", "announce", "reload", "update", "notify", "done"}]
  /\ value \in Nat
  /\ seen \in [Waits!Waiters -> Nat]
  /\ asleep \subseteq Waits!Waiters
  /\ \A t \in Waits!Waiters : /\ pc[t] \notin {"update", "notify"}
                              /\ program.tests /\ pc[t] = "done" => seen[t] >= program.threshold
  /\ \A t \in Waits!Notifiers : pc[t] \in {"update", "notify", "done"}

LEMMA WaitingPrograms ==
  ASSUME program \in Waits!Mine
  PROVE  /\ program.waiters \in Nat /\ program.notifiers \in Nat
         /\ program.threshold \in Nat
         /\ program.tests \in BOOLEAN
         /\ program = Waits!OneShotEvent => program.tests
         /\ Waits!Waiters \cap Waits!Notifiers = {}
  <1>1. /\ program.waiters \in Nat /\ program.notifiers \in Nat
        /\ program.threshold \in Nat
        /\ program.tests \in BOOLEAN
        /\ program = Waits!OneShotEvent => program.tests
    <2> USE DEF Waits!ThreadSafeCounter, Waits!WithPredicate, Waits!WithoutPredicate,
                Waits!PromiseAndFuture, Waits!OneShotEvent
    <2>1. CASE program = Waits!ThreadSafeCounter
      BY <2>1
    <2>7. CASE program = Waits!WithPredicate
      BY <2>7
    <2>5. CASE program = Waits!WithoutPredicate
      BY <2>5
    <2>6. CASE program = Waits!PromiseAndFuture
      BY <2>6
    <2>2. CASE program = Waits!SharedFuture
      BY <2>2 DEF Waits!SharedFuture
    <2>3. CASE program = Waits!ExceptionalFuture
      BY <2>3 DEF Waits!ExceptionalFuture
    <2>4. CASE program = Waits!OneShotEvent
      BY <2>4
    <2> QED BY <2>1, <2>2, <2>3, <2>4, <2>5, <2>6, <2>7 DEF Waits!Mine
  <1> QED BY <1>1 DEF Waits!Waiters, Waits!Notifiers

LEMMA WaitingInvInit == Waits!Init => WaitingInv
  <1> SUFFICES ASSUME Waits!Init PROVE WaitingInv
    OBVIOUS
  <1> QED BY WaitingPrograms DEF Waits!Init, WaitingInv

LEMMA WaitingInvStep == WaitingInv /\ WaitsMoves => WaitingInv'
  <1> SUFFICES ASSUME WaitingInv, WaitsMoves PROVE WaitingInv'
    OBVIOUS
  <1> USE WaitingPrograms DEF WaitingInv
  <1>1. UNCHANGED program => Waits!Waiters' = Waits!Waiters /\ Waits!Notifiers' = Waits!Notifiers
    BY DEF Waits!Waiters, Waits!Notifiers
  <1>2. CASE UNCHANGED <<program, pc, value, asleep, announced, updates, seen, early>>
    BY <1>1, <1>2
  <1>3. CASE \E t \in asleep : Waits!SpuriousWake(t)
    BY <1>1, <1>3 DEF Waits!SpuriousWake
  <1>4. ASSUME NEW t \in DOMAIN pc, Waits!Run(t) PROVE WaitingInv'
    <2> USE <1>1, <1>4 DEF Waits!Run, Waits!Goto, Waits!Resume, Waits!Block
    <2>1. CASE Waits!Enter(t)
      BY <2>1 DEF Waits!Enter, Waits!Arrived
    <2>2. CASE Waits!WakeUp(t)
      BY <2>2 DEF Waits!WakeUp, Waits!Arrived
    <2>3. CASE Waits!LoadFired(t)
      BY <2>3 DEF Waits!LoadFired, Waits!Arrived
    <2>4. CASE Waits!Announce(t)
      BY <2>4 DEF Waits!Announce
    <2>5. CASE Waits!Update(t)
      BY <2>5 DEF Waits!Update
    <2>6. CASE Waits!Notify(t)
      BY <2>6 DEF Waits!Notify
    <2> QED BY <2>1, <2>2, <2>3, <2>4, <2>5, <2>6
  <1> QED BY <1>2, <1>3, <1>4 DEF WaitsMoves

(* No waiter of a program that tests goes on before what it waits for has     *)
(* happened, whether it was notified, woke for no reason or did not sleep.    *)
THEOREM WaitersTest == Spec => []NobodyGoesOnEarly
  <1> DEFINE J == Waits!Runs => WaitingInv
  <1>1. Init => J
    BY WaitingInvInit DEF Init
  <1>2. J /\ [Next]_vars => J'
    <2> SUFFICES ASSUME J, [Next]_vars, Waits!Runs' PROVE WaitingInv'
      OBVIOUS
    <2> QED BY OneModuleRuns, WaitingInvStep, ProgramStays DEF Waits!Runs
  <1>3. J => NobodyGoesOnEarly
    BY DEF WaitingInv, NobodyGoesOnEarly, Waits!NobodyGoesOnEarly
  <1> HIDE DEF J
  <1> QED BY <1>1, <1>2, <1>3, PTL DEF Spec
--------------------------------------------------------------------------------
(* HandOver: what has been printed and what is in the deque are the items     *)
(* pushed so far, and `finished` is set behind the last of them.              *)
HandedInv ==
  /\ pc \in [1 .. 2 -> {"push", "finish", "test", "drain", "done"}]
  /\ pc[1] \in {"push", "finish", "done"} /\ pc[2] \in {"test", "drain", "done"}
  /\ q \in Seq(Nat) /\ output \in Seq(Nat)
  /\ next \in 1 .. Items + 1
  /\ output \o q = [k \in 1 .. next - 1 |-> k]
  /\ pc[1] = "push" <=> next <= Items
  /\ finished \in BOOLEAN
  /\ finished => pc[1] = "done"
  /\ pc[2] = "done" => finished

(* Sequences are equal whose elements are.                                    *)
LEMMA EqualSequences ==
  ASSUME NEW S, NEW a \in Seq(S), NEW b \in Seq(S), Len(a) = Len(b),
         \A l \in 1 .. Len(a) : a[l] = b[l]
  PROVE  a = b
  <1>1. a \in [1 .. Len(a) -> S] /\ b \in [1 .. Len(a) -> S]
    OBVIOUS
  <1> QED BY <1>1

LEMMA AppendBehind ==
  ASSUME NEW S, NEW a \in Seq(S), NEW b \in Seq(S), NEW e \in S
  PROVE  a \o Append(b, e) = Append(a \o b, e)
  OBVIOUS

(* A push behind the deque is a push behind the items printed or in it.       *)
LEMMA PushedBehind ==
  ASSUME output \in Seq(Nat), q \in Seq(Nat), next \in Nat,
         q' = Append(q, next), output' = output
  PROVE  output' \o q' = Append(output \o q, next)
  <1>1. \A a, b \in Seq(Nat) : \A e \in Nat : a \o Append(b, e) = Append(a \o b, e)
    BY AppendBehind
  <1>2. PICK a \in Seq(Nat), b \in Seq(Nat), e \in Nat : a = output /\ b = q /\ e = next
    OBVIOUS
  <1>3. a \o Append(b, e) = Append(a \o b, e)
    BY <1>1
  <1> QED BY <1>2, <1>3, Zenon

LEMMA HandedInvStep ==
  ASSUME Items \in Nat \ {0}, program = Handing!ProducerConsumer, HandedInv, HandingMoves
  PROVE  HandedInv'
  <1> USE DEF HandedInv
  <1>1. CASE UNCHANGED <<program, pc, q, next, finished, updated, completed, output>>
    BY <1>1
  <1>2. ASSUME NEW t \in DOMAIN pc, Handing!Run(t) PROVE HandedInv'
    <2> USE <1>2 DEF Handing!Run, Handing!Goto
    <2>1. CASE Handing!Push(t)
      <3>1. t = 1 /\ next \in 1 .. Items
        BY <2>1 DEF Handing!Push
      <3>2. q' = Append(q, next) /\ next' = next + 1 /\ UNCHANGED output
        BY <2>1 DEF Handing!Push
      <3>3. output' \o q' = Append(output \o q, next)
        BY <3>1, <3>2, PushedBehind
      <3>4. output' \o q' = [k \in 1 .. next' - 1 |-> k]
        <4> DEFINE s == [k \in 1 .. next - 1 |-> k]
        <4>2. Append(s, next) = [k \in 1 .. next |-> k]
          BY <3>1
        <4> QED BY <3>1, <3>2, <3>3, <4>2
      <3> QED BY <2>1, <3>1, <3>2, <3>4 DEF Handing!Push
    <2>2. CASE Handing!Finish(t)
      BY <2>2 DEF Handing!Finish
    <2>3. CASE Handing!TestFinished(t)
      BY <2>3 DEF Handing!TestFinished, Handing!own
    <2>4. CASE Handing!Drain(t)
      BY <2>4 DEF Handing!Drain
    <2> QED BY <2>1, <2>2, <2>3, <2>4 DEF Handing!Fetch, Handing!LeaveFetch, Handing!Progress,
               Handing!TestCompleted, Handing!Process
  <1> QED BY <1>1, <1>2 DEF HandingMoves

(* The consumer prints the items in the order in which they were pushed, each *)
(* is printed or still in the deque, and the consumer leaves only after the   *)
(* last was pushed: for any number of items.                                  *)
THEOREM ItemsComeInOrder ==
  Items \in Nat \ {0} => (Spec => []ItemsInOrder)
  <1> SUFFICES ASSUME Items \in Nat \ {0} PROVE Spec => []ItemsInOrder
    OBVIOUS
  <1> DEFINE J == program = Handing!ProducerConsumer => HandedInv
  <1>0. program = Handing!ProducerConsumer => Handing!Runs
    <2>1. Handing!ProducerConsumer.name = "producer and consumer"
      BY DEF Handing!ProducerConsumer
    <2> QED BY <2>1 DEF Handing!Runs
  <1>1. Init => J
    <2> SUFFICES ASSUME Init, program = Handing!ProducerConsumer PROVE HandedInv
      OBVIOUS
    <2>1. Handing!Init
      BY <1>0 DEF Init
    <2>3. Handing!ProducerConsumer.begins = <<"push", "test">>
      BY DEF Handing!ProducerConsumer
    <2>4. /\ pc \in [1 .. 2 -> {"push", "finish", "test", "drain", "done"}]
          /\ pc[1] = "push" /\ pc[2] = "test"
      BY <2>1, <2>3 DEF Handing!Init
    <2>5. next = 1 /\ q = <<>> /\ output = <<>> /\ finished = FALSE
      BY <2>1 DEF Handing!Init
    <2>6. output \o q = [k \in 1 .. next - 1 |-> k]
      BY <2>5
    <2>7. next \in 1 .. Items + 1 /\ next <= Items /\ q \in Seq(Nat) /\ output \in Seq(Nat)
      BY <2>5
    <2> QED BY <2>4, <2>5, <2>6, <2>7 DEF HandedInv
  <1>2. J /\ [Next]_vars => J'
    BY <1>0, ProgramStays, OneModuleRuns, HandedInvStep DEF Handing!ProducerConsumer
  <1>3. J => ItemsInOrder
    <2> SUFFICES ASSUME HandedInv PROVE /\ output \o q = SubSeq(Handing!Produced, 1, next - 1)
                                        /\ pc[2] = "done" => next > Items
      BY DEF ItemsInOrder, Handing!ItemsInOrder
    <2>2. SubSeq(Handing!Produced, 1, next - 1) = [k \in 1 .. next - 1 |-> k]
      BY DEF HandedInv, Handing!Produced
    <2> QED BY <2>2 DEF HandedInv
  <1> HIDE DEF J
  <1> QED BY <1>1, <1>2, <1>3, PTL DEF Spec
--------------------------------------------------------------------------------
(* The rounds that threads have finished, one mark each.                      *)
Marks == {m \in Counts!Counters \X (1 .. Rounds) : m[2] <= turns[m[1]]}
Remaining == {t \in Counts!Counters : pc[t] \in {"add", "countDown"}}
Announcing(t) == pc[t] = "announce" \/ said[t] # Counts!Nothing

CountTypes ==
  /\ pc \in [0 .. CounterThreads -> {"load", "store", "add", "countDown", "announce", "go", "spin",
                                     "test", "tryToWin", "done"}]
  /\ pc[0] = "done" \/ (pc[0] = "go" /\ program = Counts!Countem)
  /\ counter \in Nat /\ register \in [Counts!Counters -> Nat]
  /\ turns \in [Counts!Counters -> 0 .. Rounds] /\ left \in Nat
  /\ said \in [Counts!Counters -> Nat]
  /\ \A t \in Counts!Counters :
       /\ pc[t] # "go"
       /\ pc[t] \in {"load", "store", "add", "test", "spin"} => turns[t] < Rounds
       /\ pc[t] \in {"countDown", "announce", "tryToWin"} => turns[t] = Rounds
       /\ pc[t] = "done" /\ program # Counts!Countem => turns[t] = Rounds
       /\ said[t] # Counts!Nothing => pc[t] = "done"

(* The plain int: what a thread has loaded or anybody stored is not more than *)
(* the rounds there were, and not 0 once a round is over.                     *)
PlainInv ==
  /\ \A t \in Counts!Counters :
       /\ pc[t] \in {"load", "store", "done"}
       /\ pc[t] = "store" => /\ register[t] <= Cardinality(Marks)
                             /\ turns[t] > 0 => register[t] > 0
       /\ turns[t] > 0 => counter > 0
       /\ said[t] = Counts!Nothing
  /\ counter <= Cardinality(Marks)
  /\ Rounds > 1 /\ Counts!Finished => counter > 1

BasicInv == /\ counter = Cardinality(Marks)
            /\ \A t \in Counts!Counters : pc[t] \in {"add", "done"} /\ said[t] = Counts!Nothing

(* The workers that count themselves out: the last one announces the total.   *)
DownInv ==
  /\ counter = Cardinality(Marks) /\ left = Cardinality(Remaining)
  /\ \A t \in Counts!Counters : /\ pc[t] \in {"add", "countDown", "announce", "done"}
                                /\ Announcing(t) => left = 0
                                /\ said[t] \in {Counts!Nothing, Counts!Total}
  /\ \A t, u \in Counts!Counters : Announcing(t) /\ Announcing(u) => t = u
  /\ left = 0 => \E t \in Counts!Counters : Announcing(t)

(* The competitors of main: whoever is the first to count to the end has won. *)
RaceInv ==
  /\ counter = Cardinality(Marks) /\ winner \in BOOLEAN
  /\ \A t \in Counts!Counters :
       /\ pc[t] \in {"spin", "test", "add", "tryToWin", "announce", "done"}
       /\ pc[t] = "done" \/ Announcing(t) => winner
       /\ Announcing(t) => turns[t] = Rounds
       /\ said[t] # Counts!Nothing => said[t] >= Rounds
  /\ \A t, u \in Counts!Counters : Announcing(t) /\ Announcing(u) => t = u
  /\ winner => \E t \in Counts!Counters : Announcing(t)

CountInv == /\ CountTypes
            /\ program \in Counts!Mine
            /\ program = Counts!IncrementCounter => PlainInv
            /\ program = Counts!BasicCounter => BasicInv
            /\ program = Counts!CountDown => DownInv
            /\ program = Counts!Countem => RaceInv

LEMMA CountsAlike == \A S : Counts!Cardinality(S) = Cardinality(S)
  BY DEF Counts!Cardinality, Cardinality

LEMMA TotalIsNatural ==
  ASSUME CounterThreads \in Nat, Rounds \in Nat
  PROVE  /\ IsFiniteSet(Counts!Counters \X (1 .. Rounds))
         /\ Cardinality(Counts!Counters \X (1 .. Rounds)) = Counts!Total
         /\ Counts!Total \in Nat /\ Counts!Nothing \in Nat /\ Counts!Nothing > Counts!Total
  <1>1. IsFiniteSet(Counts!Counters) /\ Cardinality(Counts!Counters) = CounterThreads
    BY FS_Interval DEF Counts!Counters
  <1>2. IsFiniteSet(1 .. Rounds) /\ Cardinality(1 .. Rounds) = Rounds
    BY FS_Interval
  <1>3. /\ IsFiniteSet(Counts!Counters \X (1 .. Rounds))
        /\ Cardinality(Counts!Counters \X (1 .. Rounds)) = Counts!Total
    BY <1>1, <1>2, FS_Product DEF Counts!Total
  <1> QED BY <1>3, FS_CardinalityType DEF Counts!Nothing

LEMMA MarksCount ==
  ASSUME CounterThreads \in Nat, Rounds \in Nat, turns \in [Counts!Counters -> 0 .. Rounds]
  PROVE  /\ IsFiniteSet(Marks) /\ Cardinality(Marks) \in 0 .. Counts!Total
         /\ (\A t \in Counts!Counters : turns[t] = Rounds) => Cardinality(Marks) = Counts!Total
         /\ \A t \in Counts!Counters : turns[t] = Rounds => Cardinality(Marks) >= Rounds
         /\ (\A t \in Counts!Counters : turns[t] = 0) => Cardinality(Marks) = 0
  <1>2. IsFiniteSet(Marks) /\ Cardinality(Marks) \in 0 .. Counts!Total
    BY TotalIsNatural, FS_Subset, FS_CardinalityType DEF Marks
  <1>4. ASSUME NEW t \in Counts!Counters, turns[t] = Rounds PROVE Cardinality(Marks) >= Rounds
    <2>1. IsFiniteSet({t}) /\ Cardinality({t}) = 1
      BY FS_Singleton
    <2>2. IsFiniteSet(1 .. Rounds) /\ Cardinality(1 .. Rounds) = Rounds
      BY FS_Interval
    <2>3. Cardinality({t} \X (1 .. Rounds)) = Rounds
      <3>1. Cardinality({t} \X (1 .. Rounds)) = Cardinality({t}) * Cardinality(1 .. Rounds)
        BY <2>1, <2>2, FS_Product, Zenon
      <3> QED BY <2>1, <2>2, <3>1
    <2>5. Cardinality({t} \X (1 .. Rounds)) <= Cardinality(Marks)
      BY <1>2, FS_Subset, <1>4 DEF Marks
    <2> QED BY <1>2, <2>3, <2>5, TotalIsNatural
  <1>5. ASSUME \A t \in Counts!Counters : turns[t] = 0 PROVE Cardinality(Marks) = 0
    BY <1>5, FS_EmptySet DEF Marks
  <1> QED BY <1>2, <1>4, <1>5, TotalIsNatural DEF Marks

LEMMA MarksGrow ==
  ASSUME CounterThreads \in Nat, Rounds \in Nat, turns \in [Counts!Counters -> 0 .. Rounds],
         NEW t \in Counts!Counters, turns[t] < Rounds, turns' = [turns EXCEPT ![t] = @ + 1]
  PROVE  Cardinality(Marks') = Cardinality(Marks) + 1
  <1>1. PICK x : x = <<t, turns[t] + 1>>
    OBVIOUS
  <1>2. x \in Counts!Counters \X (1 .. Rounds) /\ x \notin Marks
    BY <1>1 DEF Marks
  <1>4. Marks' = Marks \cup {x}
    BY <1>2, <1>1 DEF Marks
  <1> QED BY <1>2, <1>4, MarksCount, FS_AddElement

LEMMA CountInvInit ==
  ASSUME CounterThreads \in Nat \ {0}, Rounds \in Nat \ {0}, Counts!Init
  PROVE  CountInv
  <1>1. \A t \in Counts!Counters : t \in 0 .. CounterThreads /\ t # 0
    BY DEF Counts!Counters
  <1> /\ program \in Counts!Mine /\ counter = 0 /\ left = CounterThreads /\ winner = FALSE
      /\ register = [t \in Counts!Counters |-> 0] /\ turns = [t \in Counts!Counters |-> 0]
      /\ said = [t \in Counts!Counters |-> Counts!Nothing]
      /\ pc = [t \in 0 .. CounterThreads |-> IF t # 0 THEN program.begins
                                             ELSE IF program = Counts!Countem THEN "go" ELSE "done"]
    BY DEF Counts!Init, Counts!Main
  <1> \A t \in Counts!Counters : pc[t] = program.begins
    BY <1>1
  <1> /\ program = Counts!IncrementCounter => program.begins = "load"
      /\ program = Counts!BasicCounter => program.begins = "add"
      /\ program = Counts!CountDown => program.begins = "add"
      /\ program = Counts!Countem => program.begins = "spin"
      /\ program \in {Counts!IncrementCounter, Counts!BasicCounter, Counts!CountDown, Counts!Countem}
    <2>2. Counts!IncrementCounter.begins = "load"
      BY DEF Counts!IncrementCounter
    <2>3. Counts!BasicCounter.begins = "add"
      BY DEF Counts!BasicCounter
    <2>4. Counts!CountDown.begins = "add"
      BY DEF Counts!CountDown
    <2>5. Counts!Countem.begins = "spin"
      BY DEF Counts!Countem
    <2> QED BY <2>2, <2>3, <2>4, <2>5 DEF Counts!Mine
  <1>5. CountTypes
    BY TotalIsNatural DEF CountTypes
  <1>6. /\ Cardinality(Marks) = 0
        /\ \A t \in Counts!Counters : turns[t] = 0 /\ said[t] = Counts!Nothing
    BY MarksCount
  <1>7. 1 \in Counts!Counters /\ 1 \in DOMAIN pc
    BY DEF Counts!Counters
  <1>8. CASE program = Counts!IncrementCounter
    <2>1. PlainInv
      BY <1>1, <1>6, <1>7, <1>8 DEF PlainInv, Counts!Finished
    <2> QED BY <1>5, <1>8, <2>1 DEF CountInv, Counts!IncrementCounter, Counts!BasicCounter,
               Counts!CountDown, Counts!Countem
  <1>9. CASE program = Counts!BasicCounter
    BY <1>6, <1>9, <1>5 DEF BasicInv, CountInv, Counts!IncrementCounter, Counts!BasicCounter,
       Counts!CountDown, Counts!Countem
  <1>10. CASE program = Counts!CountDown
    <2>1. Remaining = Counts!Counters
      BY <1>10 DEF Remaining
    <2>2. Cardinality(Remaining) = CounterThreads
      BY <2>1, FS_Interval DEF Counts!Counters
    <2>3. DownInv
      BY <1>6, <1>10, <2>2 DEF DownInv, Announcing
    <2> QED BY <1>5, <1>10, <2>3 DEF CountInv, Counts!IncrementCounter, Counts!BasicCounter,
               Counts!CountDown, Counts!Countem
  <1>11. CASE program = Counts!Countem
    BY <1>6, <1>11, <1>5 DEF RaceInv, Announcing, CountInv, Counts!IncrementCounter,
       Counts!BasicCounter, Counts!CountDown, Counts!Countem
  <1> QED BY <1>8, <1>9, <1>10, <1>11

(* The steps of a counting thread t.                                          *)
LEMMA CounterMoves ==
  ASSUME CounterThreads \in Nat \ {0}, Rounds \in Nat \ {0}, CountInv,
         NEW t \in 0 .. CounterThreads, Counts!Run(t)
  PROVE  /\ UNCHANGED program /\ pc' = [pc EXCEPT ![t] = pc'[t]]
         /\ \/ Counts!Go(t) /\ t = 0
            \/ t \in Counts!Counters /\ ~Counts!Go(t)
  <1>1. pc \in [0 .. CounterThreads -> {"load", "store", "add", "countDown", "announce", "go", "spin",
                                     "test", "tryToWin", "done"}] /\ pc[0] \in {"go", "done"}
        /\ \A u \in Counts!Counters : pc[u] # "go"
    BY DEF CountInv, CountTypes
  <1>3. UNCHANGED program /\ pc' = [pc EXCEPT ![t] = pc'[t]]
    BY <1>1 DEF Counts!Run, Counts!Load, Counts!Store, Counts!FetchAdd, Counts!FetchSub, Counts!Announce,
         Counts!Go, Counts!Spin, Counts!Test, Counts!TestAndSet, Counts!Goto, Counts!NextRound
  <1>4. t = 0 => Counts!Go(t)
    BY <1>1 DEF Counts!Run, Counts!Load, Counts!Store, Counts!FetchAdd, Counts!FetchSub, Counts!Announce,
         Counts!Go, Counts!Spin, Counts!Test, Counts!TestAndSet
  <1>5. Counts!Go(t) => t = 0
    BY DEF Counts!Go, Counts!Main
  <1> QED BY <1>3, <1>4, <1>5 DEF Counts!Counters


(* What holds of thread t's variables after a step, and that the others keep  *)
(* theirs.                                                                    *)
ThreadTyped(t) ==
  /\ register[t] \in Nat /\ turns[t] \in 0 .. Rounds /\ said[t] \in Nat
  /\ pc[t] \in {"load", "store", "add", "countDown", "announce", "spin", "test", "tryToWin", "done"}
  /\ pc[t] \in {"load", "store", "add", "test", "spin"} => turns[t] < Rounds
  /\ pc[t] \in {"countDown", "announce", "tryToWin"} => turns[t] = Rounds
  /\ pc[t] = "done" /\ program # Counts!Countem => turns[t] = Rounds
  /\ said[t] # Counts!Nothing => pc[t] = "done"
OthersCount(t) == \A u \in Counts!Counters \ {t} : UNCHANGED <<pc[u], register[u], turns[u], said[u]>>

LEMMA CountTypesStep ==
  ASSUME CounterThreads \in Nat, CountTypes, NEW t \in Counts!Counters, UNCHANGED program,
         pc' = [pc EXCEPT ![t] = pc'[t]],
         register' = [register EXCEPT ![t] = register'[t]], turns' = [turns EXCEPT ![t] = turns'[t]],
         said' = [said EXCEPT ![t] = said'[t]], counter' \in Nat, left' \in Nat, ThreadTyped(t)'
  PROVE  CountTypes' /\ OthersCount(t)
  <1>1. Counts!Counters \subseteq 0 .. CounterThreads /\ 0 \notin Counts!Counters
    BY DEF Counts!Counters
  <1>2. OthersCount(t)
    BY <1>1 DEF CountTypes, OthersCount
  <1>3. pc'[0] = pc[0]
    BY <1>1 DEF CountTypes
  <1>4. \A u \in Counts!Counters \ {t} : ThreadTyped(u)'
    BY <1>1, <1>2 DEF OthersCount, CountTypes, ThreadTyped, Counts!Countem, Counts!Nothing, Counts!Total
  <1>5. \A u \in Counts!Counters : ThreadTyped(u)'
    BY <1>4
  <1>6. /\ pc' \in [0 .. CounterThreads -> {"load", "store", "add", "countDown", "announce", "go", "spin",
                                     "test", "tryToWin", "done"}]
        /\ register' \in [Counts!Counters -> Nat] /\ turns' \in [Counts!Counters -> 0 .. Rounds]
        /\ said' \in [Counts!Counters -> Nat]
    BY <1>1, <1>5 DEF CountTypes, ThreadTyped
  <1> QED BY <1>2, <1>3, <1>5, <1>6 DEF CountTypes, ThreadTyped, Counts!Countem

LEMMA ThreadIsTyped ==
  ASSUME CountTypes, NEW t \in Counts!Counters, CounterThreads \in Nat
  PROVE  ThreadTyped(t)
  BY DEF CountTypes, ThreadTyped, Counts!Counters

(* counter++ of the plain int: what is stored is at most the rounds there are *)
(* now, and more than 1 when a thread that had a round before has its last.   *)
LEMMA PlainStep ==
  ASSUME CounterThreads \in Nat \ {0}, Rounds \in Nat \ {0}, CountTypes, PlainInv,
         program = Counts!IncrementCounter, NEW t \in Counts!Counters, Counts!Run(t),
         UNCHANGED program, pc' = [pc EXCEPT ![t] = pc'[t]]
  PROVE  CountTypes' /\ PlainInv'
  <1> /\ turns \in [Counts!Counters -> 0 .. Rounds] /\ register \in [Counts!Counters -> Nat]
      /\ said \in [Counts!Counters -> Nat] /\ counter \in Nat /\ left \in Nat /\ t \in DOMAIN pc
      /\ Cardinality(Marks) \in Nat /\ program.finally = "done" /\ program # Counts!Countem
      /\ pc[t] \in {"load", "store", "done"} /\ said[t] = Counts!Nothing
    <2>1. turns \in [Counts!Counters -> 0 .. Rounds]
      BY DEF CountTypes
    <2>2. Cardinality(Marks) \in Nat
      BY <2>1, MarksCount, FS_CardinalityType
    <2>3. program.finally = "done" /\ program # Counts!Countem
      BY DEF Counts!IncrementCounter, Counts!Countem
    <2> QED BY <2>1, <2>2, <2>3 DEF CountTypes, PlainInv, Counts!Counters
  <1>1. CASE Counts!Load(t)
    <2>1. /\ pc[t] = "load" /\ pc'[t] = "store" /\ register' = [register EXCEPT ![t] = counter]
          /\ UNCHANGED <<counter, turns, left, said>>
      BY <1>1 DEF Counts!Load, Counts!Goto
    <2>2. register'[t] = counter /\ Marks' = Marks
      BY <2>1 DEF Marks
    <2>4. CountTypes' /\ OthersCount(t)
      BY <2>1, <2>2, CountTypesStep, ThreadIsTyped DEF ThreadTyped
    <2>6. PlainInv'
      BY <2>1, <2>2, <2>4 DEF PlainInv, OthersCount, Counts!Nothing, Counts!Total, Counts!Finished
    <2> QED BY <2>4, <2>6
  <1>2. CASE Counts!Store(t)
    <2> /\ pc[t] = "store" /\ counter' = register[t] + 1 /\ UNCHANGED <<register, left, said>>
        /\ turns' = [turns EXCEPT ![t] = @ + 1]
        /\ pc'[t] = IF turns'[t] = Rounds THEN "done" ELSE "load"
      BY <1>2 DEF Counts!Store, Counts!NextRound, Counts!Goto
    <2>2. turns[t] < Rounds /\ turns'[t] = turns[t] + 1
      BY ThreadIsTyped DEF ThreadTyped
    <2>3. Cardinality(Marks') = Cardinality(Marks) + 1
      BY <2>2, MarksGrow
    <2>4. ThreadTyped(t)'
      BY <2>2, ThreadIsTyped DEF ThreadTyped, Counts!Nothing, Counts!Total
    <2>5. CountTypes' /\ OthersCount(t)
      <3>1. /\ turns' = [turns EXCEPT ![t] = turns'[t]] /\ register' = [register EXCEPT ![t] = register'[t]]
            /\ said' = [said EXCEPT ![t] = said'[t]] /\ counter' \in Nat /\ left' \in Nat
        BY <2>2
      <3> QED BY <2>4, <3>1, CountTypesStep
    <2>6. ASSUME Rounds > 1, Counts!Finished' PROVE counter' > 1
      BY <2>6, <2>2 DEF Counts!Finished, PlainInv
    <2>7. counter' > 0 /\ counter' <= Cardinality(Marks')
      BY <2>3 DEF PlainInv
    <2>8. \A u \in Counts!Counters : pc'[u] = "store" => /\ register'[u] <= Cardinality(Marks')
                                                         /\ turns'[u] > 0 => register'[u] > 0
      BY <2>3, <2>5 DEF PlainInv, OthersCount
    <2>9. \A u \in Counts!Counters : pc'[u] \in {"load", "store", "done"} /\ said'[u] = Counts!Nothing'
      BY <2>5 DEF PlainInv, OthersCount, Counts!Nothing, Counts!Total
    <2> QED BY <2>5, <2>6, <2>7, <2>8, <2>9 DEF PlainInv
  <1> QED BY <1>1, <1>2 DEF Counts!Run, Counts!FetchAdd, Counts!FetchSub, Counts!Announce,
             Counts!Go, Counts!Spin, Counts!Test, Counts!TestAndSet

(* A thread of the other programs that adds one to the atomic counter.        *)
LEMMA AddStep ==
  ASSUME CounterThreads \in Nat \ {0}, Rounds \in Nat \ {0}, CountTypes, NEW t \in Counts!Counters,
         UNCHANGED program, pc' = [pc EXCEPT ![t] = pc'[t]], Counts!FetchAdd(t),
         counter = Cardinality(Marks), program.finally \in {"countDown", "tryToWin", "done"},
         program.finally = "done" => program # Counts!Countem
  PROVE  /\ CountTypes' /\ OthersCount(t) /\ counter' = Cardinality(Marks')
         /\ pc[t] = "add" /\ pc'[t] \in {program.finally, IF program = Counts!Countem THEN "test" ELSE "add"}
         /\ pc'[t] = program.finally => turns'[t] = Rounds
         /\ UNCHANGED <<register, left, ready, winner, said>>
  <1>0. /\ turns \in [Counts!Counters -> 0 .. Rounds] /\ register \in [Counts!Counters -> Nat]
        /\ said \in [Counts!Counters -> Nat] /\ counter \in Nat /\ left \in Nat
    BY DEF CountTypes
  <1>1. /\ pc[t] = "add" /\ counter' = counter + 1 /\ UNCHANGED <<register, left, ready, winner, said>>
        /\ turns' = [turns EXCEPT ![t] = @ + 1]
    BY DEF Counts!FetchAdd, Counts!NextRound
  <1>2. turns[t] < Rounds /\ turns'[t] = turns[t] + 1 /\ t \in DOMAIN pc
    BY <1>0, <1>1, ThreadIsTyped DEF ThreadTyped, CountTypes, Counts!Counters
  <1>3. pc'[t] = IF turns'[t] = Rounds THEN program.finally
                 ELSE IF program = Counts!Countem THEN "test" ELSE "add"
    BY <1>2 DEF Counts!FetchAdd, Counts!NextRound, Counts!Goto
  <1>4. counter' = Cardinality(Marks')
    BY <1>0, <1>1, <1>2, MarksGrow
  <1>5. ThreadTyped(t)'
    BY <1>1, <1>0, <1>2, <1>3 DEF CountTypes, ThreadTyped, Counts!Nothing, Counts!Total
  <1>6. /\ turns' = [turns EXCEPT ![t] = turns'[t]] /\ register' = [register EXCEPT ![t] = register'[t]]
        /\ said' = [said EXCEPT ![t] = said'[t]] /\ counter' \in Nat /\ left' \in Nat
    BY <1>0, <1>1, <1>2
  <1>7. CountTypes' /\ OthersCount(t)
    BY <1>5, <1>6, CountTypesStep
  <1> QED BY <1>1, <1>3, <1>4, <1>7

(* A step that moves thread t and no more.                                    *)
LEMMA OnlyMoves ==
  ASSUME CounterThreads \in Nat \ {0}, Rounds \in Nat \ {0}, CountTypes, NEW t \in Counts!Counters,
         UNCHANGED program, pc' = [pc EXCEPT ![t] = pc'[t]], UNCHANGED <<register, turns>>,
         said' = [said EXCEPT ![t] = said'[t]], UNCHANGED counter, left' \in Nat, ThreadTyped(t)'
  PROVE  CountTypes' /\ OthersCount(t) /\ Marks' = Marks
  <1>2. CountTypes' /\ OthersCount(t)
    BY CountTypesStep DEF CountTypes
  <1> QED BY <1>2 DEF Marks

LEMMA BasicStep ==
  ASSUME CounterThreads \in Nat \ {0}, Rounds \in Nat \ {0}, CountTypes, BasicInv,
         program = Counts!BasicCounter, NEW t \in Counts!Counters, Counts!Run(t),
         UNCHANGED program, pc' = [pc EXCEPT ![t] = pc'[t]]
  PROVE  CountTypes' /\ BasicInv'
  <1>1. program.finally = "done" /\ program # Counts!Countem
    BY DEF Counts!BasicCounter, Counts!Countem
  <1>2. Counts!FetchAdd(t)
    BY <1>1 DEF BasicInv, Counts!Run, Counts!Load, Counts!Store, Counts!FetchSub, Counts!Announce,
         Counts!Go, Counts!Spin, Counts!Test, Counts!TestAndSet
  <1>3. /\ CountTypes' /\ OthersCount(t) /\ counter' = Cardinality(Marks') /\ UNCHANGED said
        /\ pc'[t] \in {"add", "done"}
    BY <1>1, <1>2, AddStep DEF BasicInv
  <1> QED BY <1>3 DEF BasicInv, OthersCount, Counts!Nothing, Counts!Total

(* workers_left: nobody announces before it is 0, and the one who brings it   *)
(* there does, when every thread has counted to the end.                      *)
LEMMA DownStep ==
  ASSUME CounterThreads \in Nat \ {0}, Rounds \in Nat \ {0}, CountTypes, DownInv,
         program = Counts!CountDown, NEW t \in Counts!Counters, Counts!Run(t),
         UNCHANGED program, pc' = [pc EXCEPT ![t] = pc'[t]]
  PROVE  CountTypes' /\ DownInv'
  <1> /\ turns \in [Counts!Counters -> 0 .. Rounds] /\ register \in [Counts!Counters -> Nat]
      /\ said \in [Counts!Counters -> Nat] /\ counter \in Nat /\ left \in Nat
      /\ program.finally = "countDown" /\ program # Counts!Countem /\ t \in DOMAIN pc
      /\ pc[t] \in {"add", "countDown", "announce", "done"}
      /\ Counts!Total' = Counts!Total /\ Counts!Nothing' = Counts!Nothing
    <2>2. t \in DOMAIN pc
      BY DEF CountTypes, Counts!Counters
    <2> QED BY <2>2 DEF CountTypes, DownInv, Counts!Total, Counts!Nothing, Counts!CountDown,
               Counts!Countem
  <1>1. IsFiniteSet(Remaining)
    <2>1. IsFiniteSet(Counts!Counters)
      BY FS_Interval DEF Counts!Counters
    <2>2. Remaining \in SUBSET Counts!Counters
      BY DEF Remaining
    <2> QED BY <2>1, <2>2, FS_Subset
  <1>2. CASE Counts!FetchAdd(t)
    BY <1>2, AddStep DEF DownInv, Remaining, OthersCount, Announcing
  <1>3. CASE Counts!FetchSub(t)
    <2> /\ pc[t] = "countDown" /\ left' = left - 1 /\ UNCHANGED <<counter, register, turns, said>>
        /\ pc'[t] = IF left = 1 THEN "announce" ELSE "done"
      BY <1>3 DEF Counts!FetchSub, Counts!Goto
    <2>2. t \in Remaining /\ Remaining # {} /\ left > 0
      BY <1>1, FS_EmptySet DEF Remaining, DownInv
    <2>4. CountTypes' /\ OthersCount(t) /\ Marks' = Marks
      BY <2>2, OnlyMoves, ThreadIsTyped DEF ThreadTyped
    <2>5. Remaining' = Remaining \ {t}
      BY <2>4 DEF Remaining, OthersCount
    <2>6. left' = Cardinality(Remaining')
      BY <1>1, <2>2, <2>5, FS_RemoveElement DEF DownInv
    <2>8. \A u \in Counts!Counters : Announcing(u)' <=> u = t /\ left = 1
      BY <2>4, <2>2 DEF Announcing, OthersCount, DownInv
    <2>9. \A u \in Counts!Counters : /\ pc'[u] \in {"add", "countDown", "announce", "done"}
                                     /\ said'[u] \in {Counts!Nothing, Counts!Total}
      BY <2>4 DEF DownInv, OthersCount
    <2>10. left = 1 <=> left' = 0
      BY <2>2
    <2> QED BY <2>4, <2>6, <2>8, <2>9, <2>10 DEF DownInv
  <1>4. CASE Counts!Announce(t)
    <2>1. /\ pc[t] = "announce" /\ pc'[t] = "done" /\ said' = [said EXCEPT ![t] = counter]
          /\ said'[t] = counter /\ UNCHANGED <<counter, register, turns, left>>
      BY <1>4 DEF Counts!Announce, Counts!Goto
    <2>3. Remaining = {}
      BY <1>1, FS_EmptySet, <2>1 DEF DownInv, Announcing
    <2>4. \A u \in Counts!Counters : turns[u] = Rounds
      <3> SUFFICES ASSUME NEW u \in Counts!Counters PROVE turns[u] = Rounds
        OBVIOUS
      <3> QED BY ThreadIsTyped, <2>3 DEF ThreadTyped, DownInv, Remaining
    <2>5. counter = Counts!Total /\ counter # Counts!Nothing
      BY <2>4, MarksCount, TotalIsNatural DEF DownInv
    <2>7. CountTypes' /\ OthersCount(t) /\ Marks' = Marks
      BY <2>1, OnlyMoves, <2>4 DEF ThreadTyped
    <2>9. \A u \in Counts!Counters : Announcing(u)' <=> Announcing(u)
      BY <2>1, <2>5, <2>7 DEF Announcing, OthersCount
    <2>10. \A u \in Counts!Counters : /\ pc'[u] \in {"add", "countDown", "announce", "done"}
                                      /\ said'[u] \in {Counts!Nothing, Counts!Total}
      BY <2>1, <2>5, <2>7 DEF DownInv, OthersCount
    <2> QED BY <2>1, <2>7, <2>9, <2>10 DEF DownInv, Remaining, OthersCount
  <1> QED BY <1>2, <1>3, <1>4 DEF Counts!Run, Counts!Load, Counts!Store, Counts!Go, Counts!Spin,
             Counts!Test, Counts!TestAndSet

(* winner: one thread at most finds it clear, when it has counted to the end. *)
LEMMA RaceStep ==
  ASSUME CounterThreads \in Nat \ {0}, Rounds \in Nat \ {0}, CountTypes, RaceInv,
         program = Counts!Countem, NEW t \in Counts!Counters, Counts!Run(t),
         UNCHANGED program, pc' = [pc EXCEPT ![t] = pc'[t]]
  PROVE  CountTypes' /\ RaceInv'
  <1> /\ turns \in [Counts!Counters -> 0 .. Rounds] /\ register \in [Counts!Counters -> Nat]
      /\ said \in [Counts!Counters -> Nat] /\ counter \in Nat /\ left \in Nat
      /\ program.finally = "tryToWin" /\ t \in DOMAIN pc /\ winner \in BOOLEAN
      /\ pc[t] \in {"spin", "test", "add", "tryToWin", "announce", "done"}
      /\ Counts!Nothing' = Counts!Nothing
    <2>2. t \in DOMAIN pc
      BY DEF CountTypes, Counts!Counters
    <2> QED BY <2>2 DEF CountTypes, RaceInv, Counts!Total, Counts!Nothing, Counts!Countem
  <1>1. CASE Counts!FetchAdd(t)
    BY <1>1, AddStep, ThreadIsTyped DEF RaceInv, Announcing, OthersCount, ThreadTyped
  <1>2. CASE Counts!Spin(t) \/ Counts!Test(t)
    BY <1>2, ThreadIsTyped, OnlyMoves DEF Counts!Spin, Counts!Test, Counts!Goto, Counts!own,
       ThreadTyped, Announcing, OthersCount, RaceInv
  <1>3. CASE Counts!TestAndSet(t)
    <2>1. /\ UNCHANGED <<counter, register, turns, left, said>> /\ winner' = TRUE
          /\ pc[t] = "tryToWin" /\ pc'[t] = IF winner THEN "done" ELSE "announce"
      BY <1>3 DEF Counts!TestAndSet, Counts!Goto
    <2>2. turns[t] = Rounds /\ said[t] = Counts!Nothing
      BY <2>1, ThreadIsTyped DEF ThreadTyped
    <2>4. CountTypes' /\ OthersCount(t) /\ Marks' = Marks
      BY <2>1, OnlyMoves, <2>2, ThreadIsTyped DEF ThreadTyped
    <2>6. \A u \in Counts!Counters : Announcing(u) => winner
      BY DEF RaceInv
    <2>7. /\ \A u, w \in Counts!Counters : Announcing(u)' /\ Announcing(w)' => u = w
          /\ \E u \in Counts!Counters : Announcing(u)'
          /\ \A u \in Counts!Counters : Announcing(u)' => turns[u] = Rounds
      BY <2>2, <2>6, <2>1, <2>4 DEF RaceInv, Announcing, OthersCount
    <2> QED BY <2>1, <2>4, <2>7 DEF RaceInv, OthersCount
  <1>4. CASE Counts!Announce(t)
    <2>1. /\ pc[t] = "announce" /\ pc'[t] = "done" /\ said' = [said EXCEPT ![t] = counter]
          /\ said'[t] = counter /\ UNCHANGED <<counter, register, turns, left, winner>>
      BY <1>4 DEF Counts!Announce, Counts!Goto
    <2>2. turns[t] = Rounds /\ winner
      BY <2>1 DEF RaceInv, Announcing
    <2>3. counter >= Rounds /\ counter # Counts!Nothing
      BY <2>2, MarksCount, TotalIsNatural DEF RaceInv
    <2>5. CountTypes' /\ OthersCount(t) /\ Marks' = Marks
      BY <2>1, OnlyMoves, <2>2 DEF ThreadTyped
    <2>6. \A u \in Counts!Counters : Announcing(u)' <=> Announcing(u)
      BY <2>1, <2>3, <2>5 DEF Announcing, OthersCount
    <2>7. \A u \in Counts!Counters : /\ pc'[u] \in {"spin", "test", "add", "tryToWin", "announce", "done"}
                                     /\ said'[u] # Counts!Nothing => said'[u] >= Rounds
      BY <2>1, <2>3, <2>5 DEF RaceInv, OthersCount
    <2> QED BY <2>1, <2>2, <2>5, <2>6, <2>7 DEF RaceInv
  <1> QED BY <1>1, <1>2, <1>3, <1>4 DEF Counts!Run, Counts!Load, Counts!Store, Counts!FetchSub,
             Counts!Go

LEMMA CountInvStep ==
  CounterThreads \in Nat \ {0} /\ Rounds \in Nat \ {0} /\ CountInv /\ CountsMoves => CountInv'
  <1> SUFFICES ASSUME CounterThreads \in Nat \ {0}, Rounds \in Nat \ {0}, CountInv, CountsMoves
               PROVE  CountInv'
    OBVIOUS
  <1>0. /\ Counts!IncrementCounter' = Counts!IncrementCounter /\ Counts!BasicCounter' = Counts!BasicCounter
        /\ Counts!CountDown' = Counts!CountDown /\ Counts!Countem' = Counts!Countem
        /\ Counts!Mine' = Counts!Mine /\ Counts!Nothing' = Counts!Nothing /\ Counts!Total' = Counts!Total
    BY DEF Counts!IncrementCounter, Counts!BasicCounter, Counts!CountDown, Counts!Countem, Counts!Mine,
           Counts!Nothing, Counts!Total
  <1>1. CASE UNCHANGED <<program, pc, counter, register, turns, left, ready, winner, said>>
    BY <1>1, <1>0 DEF Marks, Remaining, Counts!Finished, Announcing, CountInv, CountTypes, PlainInv,
       BasicInv, DownInv, RaceInv
  <1>2. ASSUME NEW t \in DOMAIN pc, Counts!Run(t) PROVE CountInv'
    <2>0. /\ t \in 0 .. CounterThreads /\ UNCHANGED program /\ pc' = [pc EXCEPT ![t] = pc'[t]]
          /\ (Counts!Go(t) /\ t = 0) \/ (t \in Counts!Counters /\ ~Counts!Go(t))
      BY <1>2, CounterMoves DEF Counts!Run
    <2>1. CASE Counts!Go(t)
      <3>1. /\ pc[0] = "go" /\ pc' = [pc EXCEPT ![0] = "done"]
            /\ UNCHANGED <<program, counter, register, turns, left, winner, said>>
        BY <2>0, <2>1 DEF Counts!Go, Counts!Goto, Counts!Main
      <3>2. \A u \in Counts!Counters : pc'[u] = pc[u]
        BY <3>1 DEF CountInv, CountTypes, Counts!Counters
      <3>3. program = Counts!Countem
        BY <3>1 DEF CountInv, CountTypes
      <3>6. Marks' = Marks
        BY <3>1 DEF Marks
      <3>7. RaceInv'
        BY <1>0, <3>1, <3>2, <3>3, <3>6 DEF CountInv, RaceInv, Announcing
      <3> QED BY <1>0, <3>1, <3>3, <3>7, <3>2 DEF CountInv, Counts!IncrementCounter,
                 Counts!BasicCounter, Counts!CountDown, Counts!Countem, CountTypes
    <2>2. CASE t \in Counts!Counters
      BY <1>2, <2>0, <2>2, PlainStep, <1>0, BasicStep, DownStep, RaceStep DEF CountInv,
         Counts!IncrementCounter, Counts!BasicCounter, Counts!CountDown, Counts!Countem, Counts!Mine
    <2> QED BY <2>0, <2>1, <2>2
  <1> QED BY <1>1, <1>2 DEF CountsMoves

(* What the invariant says of a state of the counting programs.               *)
LEMMA CountsAtTheEnd ==
  ASSUME CounterThreads \in Nat \ {0}, Rounds \in Nat \ {0}, CountInv, Counts!Finished
  PROVE  Counts!FinalCount
  <1> /\ \A t \in Counts!Counters : pc[t] = "done"
      /\ 1 \in Counts!Counters /\ counter \in Nat
      /\ turns \in [Counts!Counters -> 0 .. Rounds]
    BY DEF CountInv, CountTypes, Counts!Finished, Counts!Counters
  <1>2. /\ Cardinality(Marks) \in 0 .. Counts!Total /\ Counts!Total \in Nat
        /\ (\A t \in Counts!Counters : turns[t] = Rounds) => Cardinality(Marks) = Counts!Total
        /\ \A t \in Counts!Counters : turns[t] = Rounds => Cardinality(Marks) >= Rounds
    BY MarksCount, TotalIsNatural
  <1>3. program # Counts!Countem => Cardinality(Marks) = Counts!Total /\ turns[1] = Rounds
    BY <1>2 DEF CountInv, CountTypes
  <1>8. /\ Counts!IncrementCounter \notin {Counts!BasicCounter, Counts!CountDown, Counts!Countem}
        /\ Counts!Countem \notin {Counts!BasicCounter, Counts!CountDown}
    BY DEF Counts!IncrementCounter, Counts!BasicCounter, Counts!CountDown, Counts!Countem
  <1>4. CASE program = Counts!IncrementCounter
    <2>2. counter <= Counts!Total /\ counter > 0 /\ (Rounds > 1 => counter > 1)
      BY <1>3, <1>4, <1>8 DEF PlainInv, CountInv
    <2>3. counter \in (IF Rounds < 2 THEN Rounds ELSE 2) .. Counts!Total
      BY <1>2, <2>2
    <2> QED BY <1>4, <1>8, <2>3 DEF Counts!FinalCount
  <1>5. CASE program \in {Counts!BasicCounter, Counts!CountDown}
    BY <1>5, <1>3, <1>8 DEF CountInv, BasicInv, DownInv, Counts!FinalCount
  <1>6. CASE program = Counts!Countem
    <2>1. RaceInv
      BY <1>6 DEF CountInv
    <2>2. PICK w \in Counts!Counters : Announcing(w)
      BY <2>1 DEF RaceInv
    <2>4. counter >= Rounds /\ counter <= Counts!Total
      BY <1>2, <2>1, <2>2 DEF RaceInv
    <2> QED BY <1>6, <1>8, <1>2, <2>4 DEF Counts!FinalCount
  <1> QED BY <1>4, <1>5, <1>6 DEF CountInv, Counts!Mine

LEMMA OneSpeaker ==
  ASSUME CounterThreads \in Nat \ {0}, Rounds \in Nat \ {0}, CountInv
  PROVE  Counts!OneThreadAnnounces
  <1> SUFFICES ASSUME program \in {Counts!CountDown, Counts!Countem}
               PROVE  /\ Cardinality(Counts!Speakers) <= 1
                      /\ Counts!Finished => Counts!Speakers # {}
                      /\ \A t \in Counts!Speakers : /\ said[t] >= Rounds
                                                    /\ program = Counts!CountDown => said[t] = Counts!Total
    BY CountsAlike DEF Counts!OneThreadAnnounces
  <1>0. /\ 1 \in Counts!Counters /\ turns \in [Counts!Counters -> 0 .. Rounds]
        /\ program = Counts!CountDown => DownInv
        /\ program = Counts!Countem => RaceInv
    BY DEF CountInv, CountTypes, Counts!Counters
  <1>1. \A t, u \in Counts!Counters : Announcing(t) /\ Announcing(u) => t = u
    BY <1>0 DEF DownInv, RaceInv
  <1>2. \A t \in Counts!Speakers : t \in Counts!Counters /\ Announcing(t) /\ said[t] # Counts!Nothing
    BY DEF Counts!Speakers, Announcing
  <1>3. Cardinality(Counts!Speakers) <= 1
    <2>1. CASE Counts!Speakers = {}
      BY <2>1, FS_EmptySet
    <2>2. CASE Counts!Speakers # {}
      <3>1. PICK s : s \in Counts!Speakers
        BY <2>2
      <3>3. Cardinality({s}) = 1
        BY FS_Singleton
      <3> QED BY <3>3, <1>1, <1>2, <3>1
    <2> QED BY <2>1, <2>2
  <1>4. Counts!Finished => Counts!Speakers # {}
    <2> SUFFICES ASSUME Counts!Finished PROVE Counts!Speakers # {}
      OBVIOUS
    <2>1. \A t \in Counts!Counters : pc[t] = "done"
      BY DEF CountInv, CountTypes, Counts!Finished, Counts!Counters
    <2>2. \E t \in Counts!Counters : Announcing(t)
      BY <2>1, <1>0, FS_EmptySet DEF Remaining, DownInv, RaceInv
    <2>3. PICK w \in Counts!Counters : Announcing(w)
      BY <2>2
    <2> QED BY <2>3, <2>1 DEF Counts!Speakers, Announcing
  <1>5. ASSUME NEW t \in Counts!Speakers
        PROVE  said[t] >= Rounds /\ (program = Counts!CountDown => said[t] = Counts!Total)
    <2>1. CASE program = Counts!CountDown
      <3>2. Counts!Total >= Rounds
        <4>1. PICK n \in Nat : CounterThreads = n + 1
          OBVIOUS
        <4> QED BY <4>1 DEF Counts!Total
      <3> QED BY <3>2, <1>0, <1>2, <2>1 DEF DownInv
    <2>2. CASE program = Counts!Countem
      BY <1>0, <1>2, <2>2 DEF RaceInv, Counts!Countem, Counts!CountDown
    <2> QED BY <2>1, <2>2
  <1> QED BY <1>3, <1>4, <1>5

(* Whatever the number of threads and of rounds, at the end the atomic        *)
(* counters hold every increment, the plain int more than one and not more    *)
(* than there were; and one thread, the last to count itself out or the       *)
(* first to win, has announced a count it was entitled to (basic_counter.cpp, *)
(* data_race.cpp, Lock Free Programming/thread_pool.cpp, atomics_class.cpp).  *)
THEOREM CountersAddUp ==
  ASSUME CounterThreads \in Nat \ {0}, Rounds \in Nat \ {0}
  PROVE  Spec => []CountsAddUp
  <1> DEFINE J == Counts!Runs => CountInv
  <1>1. Init => J
    BY CountInvInit DEF Init, Counts!Runs
  <1>2. J /\ [Next]_vars => J'
    <2> SUFFICES ASSUME J, [Next]_vars, Counts!Runs' PROVE CountInv'
      OBVIOUS
    <2> QED BY OneModuleRuns, CountInvStep, ProgramStays DEF Counts!Runs
  <1>3. J => CountsAddUp
    BY CountsAtTheEnd, OneSpeaker DEF CountsAddUp, Counts!CountsAddUp
  <1> HIDE DEF J
  <1> QED BY <1>1, <1>2, <1>3, PTL DEF Spec
--------------------------------------------------------------------------------
(* Where main launches task k and where it asks for its result, and what the  *)
(* task is launched with.                                                     *)
Sequenced == program # Fetching!PackagedTask
LaunchAt(k) == IF program = Fetching!ConcurrentTasks THEN k ELSE 2 * k - 1
GetAt(k) == IF program = Fetching!ConcurrentTasks THEN Numbers + k ELSE 2 * k
TasksOf == CASE program = Fetching!LaunchOptions -> 3
             [] program = Fetching!ConcurrentTasks -> Numbers
             [] program = Fetching!DetachedTasks -> 2
             [] program = Fetching!PackagedTask -> 1
Given(k) == CASE program = Fetching!ConcurrentTasks -> k
              [] program = Fetching!DetachedTasks -> IF k = 1 THEN 21 ELSE 42
              [] OTHER -> 1
Length == Len(program.does)

(* How far main has come.                                                     *)
Reached == IF pc[0] = "main" THEN step ELSE Length + 1

FetchTypes ==
  /\ pc \in [Fetching!Threads -> {"main", "unborn", "task", "get", "done"}]
  /\ pc[0] \in {"main", "done"} /\ step \in 1 .. Length
  /\ deferred \subseteq Fetching!TaskIds
  /\ input \in [Fetching!TaskIds -> Nat] /\ result \in [Fetching!TaskIds -> Nat]
  /\ DOMAIN runs = Fetching!TaskIds /\ runs = [k \in Fetching!TaskIds |-> runs[k]]
  /\ fetched \in Seq(Nat) /\ Len(fetched) <= TasksOf

Unready(k) == result[k] = Fetching!NotReady /\ runs[k] = <<>>
ReadyBy(k, t) == result[k] = Fetching!Results[k] /\ runs[k] = <<t>>

(* Task k: not launched, or waiting to be asked for, or in its own thread.    *)
TaskAt(k) ==
  IF Reached <= LaunchAt(k)
  THEN pc[k] = "unborn" /\ Unready(k) /\ k \notin deferred
  ELSE /\ input[k] = Given(k)
       /\ k \in deferred => /\ pc[k] = "done"
                            /\ Unready(k) \/ (Reached >= GetAt(k) /\ ReadyBy(k, program.getter))
       /\ k \notin deferred => (pc[k] = "task" /\ Unready(k)) \/ (pc[k] = "done" /\ ReadyBy(k, k))

(* What has been fetched: by main in the order of the tasks, or by thread 2.  *)
FetchedAt ==
  /\ \A k \in 1 .. Len(fetched) : fetched[k] = Fetching!Results[k] /\ result[k] = Fetching!Results[k]
  /\ Sequenced => \A k \in Fetching!TaskIds : Reached > GetAt(k) <=> k <= Len(fetched)
  /\ ~Sequenced => /\ deferred = {} /\ pc[2] \in {"unborn", "get", "done"}
                   /\ pc[2] = "unborn" <=> Reached <= 2
                   /\ Len(fetched) = IF pc[2] = "done" THEN 1 ELSE 0
                   /\ Reached > 4 => pc[2] = "done"

FetchInv == /\ program \in Fetching!Mine
            /\ FetchTypes
            /\ \A k \in Fetching!TaskIds : TaskAt(k)
            /\ FetchedAt

(* What the four programs have in common.                                     *)
Launches(s, k) == program.does[s].op = "launch" /\ program.does[s].task = k
Gets(s, k) == program.does[s].op = "get" /\ program.does[s].task = k
Starts(s, k) == program.does[s].op = "start" /\ program.does[s].task = k
Joins(s, k) == program.does[s].op = "join" /\ program.does[s].task = k

Shape == /\ TasksOf \in Nat \ {0} /\ Fetching!TaskIds = 1 .. TasksOf
         /\ Fetching!Threads = 0 .. (IF Sequenced THEN TasksOf ELSE 2)
         /\ program.getter = IF Sequenced THEN 0 ELSE 2
         /\ ~Sequenced => TasksOf = 1
         /\ Length = IF Sequenced THEN 2 * TasksOf ELSE 4
         /\ \A k \in 1 .. TasksOf : /\ program.policies[k] # {}
                                    /\ program.policies[k] \subseteq {"async", "deferred"}
                                    /\ ~Sequenced => program.policies[k] = {"async"}
Timing == \A k \in 1 .. TasksOf : /\ LaunchAt(k) \in 1 .. Length /\ GetAt(k) \in Nat
                                  /\ LaunchAt(k) < GetAt(k)
                                  /\ Sequenced => GetAt(k) <= Length
                                  /\ \A j \in 1 .. TasksOf : j < k => GetAt(j) < GetAt(k)
Doings == \A s \in 1 .. Length :
            /\ \A k \in 1 .. TasksOf : /\ Launches(s, k) <=> s = LaunchAt(k)
                                       /\ Gets(s, k) <=> Sequenced /\ s = GetAt(k)
            /\ \A k : /\ Starts(s, k) => ~Sequenced /\ s = 2 /\ k = 2
                      /\ Joins(s, k) => ~Sequenced /\ ((s = 3 /\ k = 1) \/ (s = 4 /\ k = 2))
Values == /\ Fetching!Results \in Seq(Nat) /\ Len(Fetching!Results) = TasksOf
          /\ \A k \in 1 .. TasksOf : Fetching!Results[k] \in Nat \ {0} /\ Given(k) \in Nat

LEMMA ProgramNames ==
  /\ Fetching!LaunchOptions.name = "launch options" /\ Fetching!ConcurrentTasks.name = "concurrent tasks"
  /\ Fetching!DetachedTasks.name = "detached tasks" /\ Fetching!PackagedTask.name = "packaged task"
  BY DEF Fetching!LaunchOptions, Fetching!ConcurrentTasks, Fetching!DetachedTasks, Fetching!PackagedTask

LEMMA ProgramsDiffer ==
  /\ Fetching!LaunchOptions \notin {Fetching!ConcurrentTasks, Fetching!DetachedTasks, Fetching!PackagedTask}
  /\ Fetching!ConcurrentTasks \notin {Fetching!DetachedTasks, Fetching!PackagedTask}
  /\ Fetching!DetachedTasks # Fetching!PackagedTask
  BY ProgramNames

LEMMA ConcurrentShape ==
  ASSUME Numbers \in Nat \ {0}, program = Fetching!ConcurrentTasks
  PROVE  Shape /\ Timing /\ Doings /\ Values
  <1>1. /\ program.getter = 0 /\ program.policies = [k \in 1 .. Numbers |-> {"async"}]
        /\ program.does = [k \in 1 .. Numbers |-> Fetching!Launch(k)] \o [k \in 1 .. Numbers |-> Fetching!Get(k)]
    BY DEF Fetching!ConcurrentTasks
  <1>2. Sequenced /\ TasksOf = Numbers /\ Fetching!Results = [k \in 1 .. Numbers |-> k * k]
        /\ \A k : LaunchAt(k) = k /\ GetAt(k) = Numbers + k /\ Given(k) = k
    BY ProgramNames DEF Sequenced, TasksOf, Fetching!Results, LaunchAt, GetAt, Given
  <1>3. PICK lau : lau = [k \in 1 .. Numbers |-> Fetching!Launch(k)]
    OBVIOUS
  <1>4. PICK ge : ge = [k \in 1 .. Numbers |-> Fetching!Get(k)]
    OBVIOUS
  <1>5. /\ Length = 2 * Numbers
        /\ \A s \in 1 .. Length : program.does[s] = IF s <= Numbers THEN Fetching!Launch(s)
                                                   ELSE Fetching!Get(s - Numbers)
    <2>0. PICK S : S = {Fetching!Launch(k) : k \in 1 .. Numbers} \cup {Fetching!Get(k) : k \in 1 .. Numbers}
      OBVIOUS
    <2>1. lau \in Seq(S) /\ Len(lau) = Numbers
      BY <1>3, <2>0
    <2>2. ge \in Seq(S) /\ Len(ge) = Numbers
      BY <1>4, <2>0
    <2>3. program.does = lau \o ge
      BY <1>1, <1>3, <1>4
    <2>4. /\ Len(program.does) = Numbers + Numbers
          /\ \A s \in 1 .. Numbers + Numbers : program.does[s] = IF s <= Numbers THEN lau[s] ELSE ge[s - Numbers]
      <3>1. /\ Len(lau \o ge) = Len(lau) + Len(ge)
            /\ \A s \in 1 .. Len(lau) + Len(ge) :
                 (lau \o ge)[s] = IF s <= Len(lau) THEN lau[s] ELSE ge[s - Len(lau)]
        BY <2>1, <2>2
      <3>2. Len(lau) = Numbers /\ Len(ge) = Numbers
        BY <2>1, <2>2
      <3> QED BY <2>3, <3>1, <3>2, Zenon
    <2>5. Length = 2 * Numbers
      BY <2>4 DEF Length
    <2>6. ASSUME NEW s \in 1 .. Length
          PROVE  program.does[s] = IF s <= Numbers THEN Fetching!Launch(s) ELSE Fetching!Get(s - Numbers)
      <3>1. s <= Numbers => s \in 1 .. Numbers
        BY <2>5
      <3>2. s > Numbers => s - Numbers \in 1 .. Numbers
        BY <2>5
      <3>3. s \in 1 .. Numbers + Numbers /\ (s <= Numbers \/ s > Numbers)
        BY <2>5
      <3>4. s <= Numbers => program.does[s] = Fetching!Launch(s)
        BY <2>4, <1>3, <3>1, <3>3
      <3>5. s > Numbers => program.does[s] = Fetching!Get(s - Numbers)
        BY <2>4, <1>4, <3>2, <3>3
      <3> QED BY <3>3, <3>4, <3>5
    <2> QED BY <2>5, <2>6
  <1>6. Shape
    BY <1>1, <1>2, <1>5 DEF Fetching!Threads, Sequenced, Shape, Fetching!TaskIds
  <1>8. Doings
    <2>1. ASSUME NEW s \in 1 .. Length
          PROVE  /\ program.does[s].op = IF s <= Numbers THEN "launch" ELSE "get"
                 /\ program.does[s].task = IF s <= Numbers THEN s ELSE s - Numbers
      <3>1. CASE s <= Numbers
        <4>1. program.does[s] = Fetching!Launch(s)
          BY <1>5, <3>1
        <4> QED BY <3>1, <4>1 DEF Fetching!Launch
      <3>2. CASE ~(s <= Numbers)
        <4>1. program.does[s] = Fetching!Get(s - Numbers)
          BY <1>5, <3>2
        <4> QED BY <3>2, <4>1 DEF Fetching!Get
      <3> QED BY <3>1, <3>2
    <2>2. \A s \in 1 .. Length : s \in Nat
      BY <1>5
    <2>3. ASSUME NEW s \in 1 .. Length, NEW k \in 1 .. Numbers
          PROVE  /\ Launches(s, k) <=> s = LaunchAt(k)
                 /\ Gets(s, k) <=> Sequenced /\ s = GetAt(k)
      <3>1. s \in Nat /\ k \in 1 .. Numbers /\ LaunchAt(k) = k /\ GetAt(k) = Numbers + k /\ Sequenced
        BY <1>2, <2>2
      <3>2. CASE s <= Numbers
        BY <2>1, <3>2, <3>1 DEF Launches, Gets
      <3>3. CASE ~(s <= Numbers)
        BY <2>1, <3>3, <3>1 DEF Launches, Gets
      <3> QED BY <3>2, <3>3
    <2> QED BY <1>2, <2>3, <2>1 DEF Doings, Starts, Joins
  <1>9. Values
    BY <1>2 DEF Values
  <1> QED BY <1>6, <1>8, <1>9, <1>2, <1>5 DEF Timing

LEMMA TaskShape ==
  ASSUME Numbers \in Nat \ {0}, program \in Fetching!Mine
  PROVE  Shape /\ Timing /\ Doings /\ Values
  <1> USE DEF Fetching!Launch, Fetching!Get, Fetching!Start, Fetching!Join
  <1>1. CASE program = Fetching!LaunchOptions
    <2>1. /\ program.getter = 0 /\ program.policies = <<{"async"}, {"deferred"}, {"async", "deferred"}>>
          /\ program.does = <<Fetching!Launch(1), Fetching!Get(1), Fetching!Launch(2), Fetching!Get(2),
                              Fetching!Launch(3), Fetching!Get(3)>>
      BY <1>1 DEF Fetching!LaunchOptions
    <2>2. Sequenced /\ TasksOf = 3 /\ Fetching!Results = <<42, 42, 42>>
          /\ \A k : LaunchAt(k) = 2 * k - 1 /\ GetAt(k) = 2 * k /\ Given(k) = 1
      BY <1>1, ProgramNames DEF Sequenced, TasksOf, Fetching!Results, LaunchAt, GetAt, Given
    <2>3. Length = 6
      BY <2>1 DEF Length
    <2>4. Shape
      BY <2>1, <2>2, <2>3 DEF Fetching!Threads, Sequenced, Shape, Fetching!TaskIds
    <2>6. Doings
      BY <2>1, <2>2, <2>3 DEF Doings, Launches, Gets, Starts, Joins
    <2>7. Values
      BY <2>2 DEF Values
    <2> QED BY <2>4, <2>6, <2>7, <2>2, <2>3 DEF Timing
  <1>2. CASE program = Fetching!DetachedTasks
    <2>1. /\ program.getter = 0 /\ program.policies = <<{"async"}, {"async"}>>
          /\ program.does = <<Fetching!Launch(1), Fetching!Get(1), Fetching!Launch(2), Fetching!Get(2)>>
      BY <1>2 DEF Fetching!DetachedTasks
    <2>2. Sequenced /\ TasksOf = 2 /\ Fetching!Results = <<42, 52>>
          /\ \A k : LaunchAt(k) = 2 * k - 1 /\ GetAt(k) = 2 * k /\ Given(k) = IF k = 1 THEN 21 ELSE 42
      BY <1>2, ProgramNames DEF Sequenced, TasksOf, Fetching!Results, LaunchAt, GetAt, Given
    <2>3. Length = 4
      BY <2>1 DEF Length
    <2>4. Shape
      BY <2>1, <2>2, <2>3 DEF Fetching!Threads, Sequenced, Shape, Fetching!TaskIds
    <2>5. Timing
      BY <2>2, <2>3 DEF Timing
    <2>6. Doings
      BY <2>1, <2>2, <2>3 DEF Doings, Launches, Gets, Starts, Joins
    <2>7. Values
      BY <2>2 DEF Values
    <2> QED BY <2>4, <2>5, <2>6, <2>7
  <1>3. CASE program = Fetching!PackagedTask
    <2>1. /\ program.getter = 2 /\ program.policies = <<{"async"}>>
          /\ program.does = <<Fetching!Launch(1), Fetching!Start(2), Fetching!Join(1), Fetching!Join(2)>>
      BY <1>3 DEF Fetching!PackagedTask
    <2>2. ~Sequenced /\ TasksOf = 1 /\ Fetching!Results = <<2>>
          /\ \A k : LaunchAt(k) = 2 * k - 1 /\ GetAt(k) = 2 * k /\ Given(k) = 1
      BY <1>3, ProgramNames DEF Sequenced, TasksOf, Fetching!Results, LaunchAt, GetAt, Given
    <2>3. Length = 4
      BY <2>1 DEF Length
    <2>4. Shape
      BY <2>1, <2>2, <2>3 DEF Fetching!Threads, Sequenced, Shape, Fetching!TaskIds
    <2>6. Doings
      BY <2>1, <2>2, <2>3 DEF Doings, Launches, Gets, Starts, Joins
    <2>7. Values
      BY <2>2 DEF Values
    <2> QED BY <2>4, <2>6, <2>7, <2>2, <2>3 DEF Timing
  <1>4. CASE program = Fetching!ConcurrentTasks
    BY <1>4, ConcurrentShape
  <1> QED BY <1>1, <1>2, <1>3, <1>4 DEF Fetching!Mine

(* What a step of the program says of the operators that depend on it.        *)
LEMMA SameProgram ==
  ASSUME UNCHANGED program
  PROVE  /\ TasksOf' = TasksOf /\ Length' = Length /\ Sequenced' = Sequenced
         /\ Fetching!TaskIds' = Fetching!TaskIds /\ Fetching!Threads' = Fetching!Threads
         /\ Fetching!Results' = Fetching!Results /\ Fetching!Mine' = Fetching!Mine
         /\ \A k : /\ LaunchAt(k)' = LaunchAt(k) /\ GetAt(k)' = GetAt(k) /\ Given(k)' = Given(k)
  BY DEF TasksOf, Length, Sequenced, Fetching!TaskIds, Fetching!Threads, Fetching!Results, LaunchAt,
         GetAt, Given, Fetching!Mine, Fetching!LaunchOptions, Fetching!ConcurrentTasks,
         Fetching!DetachedTasks, Fetching!PackagedTask, Fetching!Launch, Fetching!Get, Fetching!Start,
         Fetching!Join

LEMMA MainGoesOn ==
  ASSUME FetchTypes, Shape, UNCHANGED program, pc[0] = "main", NEW others,
         others \in [Fetching!Threads -> {"main", "unborn", "task", "get", "done"}],
         Fetching!GoOn(0, others)
  PROVE  /\ Reached = step /\ Reached' = Reached + 1 /\ step' \in 1 .. Length
         /\ pc' \in [Fetching!Threads -> {"main", "unborn", "task", "get", "done"}]
         /\ pc'[0] \in {"main", "done"}
         /\ \A u \in Fetching!Threads \ {0} : pc'[u] = others[u]
  <1>1. 0 \in Fetching!Threads /\ step \in 1 .. Length /\ Length \in Nat /\ Length = Len(program.does)
    BY DEF Shape, FetchTypes, Length
  <1>2. /\ step' = IF step < Length THEN step + 1 ELSE step
        /\ pc' = [others EXCEPT ![0] = IF step < Length THEN "main" ELSE "done"]
    BY <1>1 DEF Fetching!GoOn
  <1>3. pc'[0] = IF step < Length THEN "main" ELSE "done"
    BY <1>1, <1>2
  <1> QED BY <1>1, <1>2, <1>3, SameProgram DEF Reached

LEMMA ValueIsResult ==
  ASSUME Numbers \in Nat \ {0}, program \in Fetching!Mine, NEW k \in 1 .. TasksOf, input[k] = Given(k)
  PROVE  Fetching!Value(k) = Fetching!Results[k]
  <1>1. CASE program = Fetching!LaunchOptions
    BY <1>1, ProgramsDiffer DEF Fetching!Value, Fetching!Results, TasksOf
  <1>2. CASE program = Fetching!ConcurrentTasks
    BY <1>2, ProgramsDiffer DEF Fetching!Value, Fetching!Results, TasksOf, Given
  <1>3. CASE program = Fetching!DetachedTasks
    BY <1>3, ProgramsDiffer DEF Fetching!Value, Fetching!Results, TasksOf, Given
  <1>4. CASE program = Fetching!PackagedTask
    BY <1>4, ProgramsDiffer DEF Fetching!Value, Fetching!Results, TasksOf, Given
  <1> QED BY <1>1, <1>2, <1>3, <1>4 DEF Fetching!Mine

(* A task no step is about stays as it is when main does something else.      *)
LEMMA TaskKeeps ==
  ASSUME UNCHANGED program, NEW k, TaskAt(k), UNCHANGED <<pc[k], input[k], result[k], runs[k]>>,
         k \in deferred' <=> k \in deferred, Reached \in Nat, LaunchAt(k) \in Nat, GetAt(k) \in Nat,
         Reached' = Reached \/ (Reached' = Reached + 1 /\ Reached # LaunchAt(k))
  PROVE  TaskAt(k)'
  <1>2. /\ LaunchAt(k)' = LaunchAt(k) /\ GetAt(k)' = GetAt(k) /\ Given(k)' = Given(k)
        /\ Fetching!Results' = Fetching!Results /\ Fetching!NotReady' = Fetching!NotReady
    BY SameProgram DEF Fetching!NotReady
  <1> QED BY <1>2 DEF TaskAt, Unready, ReadyBy

FetchNext == FetchTypes' /\ (\A k \in Fetching!TaskIds : TaskAt(k)') /\ FetchedAt'

(* async, or a new thread, for the task that main has come to.                *)
LEMMA StartStep ==
  ASSUME Numbers \in Nat \ {0}, FetchInv, UNCHANGED program,
         NEW t, NEW k \in Fetching!TaskIds, Fetching!StartTask(t, k)
  PROVE  FetchNext
  <1>0. /\ Shape /\ Timing /\ Doings /\ Values /\ FetchTypes /\ FetchedAt
        /\ \A j \in Fetching!TaskIds : TaskAt(j)
    BY TaskShape DEF FetchInv
  <1>1. /\ t = 0 /\ pc[0] = "main" /\ Launches(step, k) /\ k \in 1 .. TasksOf
        /\ input' = [input EXCEPT ![k] = Fetching!Argument(k)] /\ UNCHANGED <<result, runs, fetched>>
    BY <1>0 DEF Fetching!StartTask, Fetching!At, Fetching!Does, Launches, Shape
  <1>2. PICK policy \in program.policies[k] :
          /\ deferred' = IF policy = "deferred" THEN deferred \cup {k} ELSE deferred
          /\ Fetching!GoOn(0, [pc EXCEPT ![k] = IF policy = "deferred" THEN "done" ELSE "task"])
    BY <1>1 DEF Fetching!StartTask
  <1>3. PICK others : others = [pc EXCEPT ![k] = IF policy = "deferred" THEN "done" ELSE "task"]
    OBVIOUS
  <1>4. /\ others \in [Fetching!Threads -> {"main", "unborn", "task", "get", "done"}]
        /\ k \in Fetching!Threads \ {0} /\ Fetching!TaskIds \subseteq Fetching!Threads \ {0}
        /\ others[k] = IF policy = "deferred" THEN "done" ELSE "task"
        /\ \A u \in Fetching!Threads \ {k} : others[u] = pc[u]
    BY <1>0, <1>1, <1>3 DEF Shape, FetchTypes
  <1>5. /\ Reached = step /\ Reached' = Reached + 1 /\ step' \in 1 .. Length
        /\ pc' \in [Fetching!Threads -> {"main", "unborn", "task", "get", "done"}]
        /\ pc'[0] \in {"main", "done"}
        /\ \A u \in Fetching!Threads \ {0} : pc'[u] = others[u]
    <2>1. Fetching!GoOn(0, others)
      BY <1>2, <1>3
    <2> QED BY <1>0, <1>1, <1>4, <2>1, MainGoesOn
  <1>6. /\ step \in 1 .. Length /\ Length \in Nat /\ Fetching!TaskIds = 1 .. TasksOf
        /\ \A j \in 1 .. TasksOf : LaunchAt(j) \in Nat /\ GetAt(j) \in Nat
    BY <1>0 DEF FetchTypes, Shape, Timing
  <1>7. /\ Reached = LaunchAt(k)
        /\ \A j \in 1 .. TasksOf : j # k => Reached # LaunchAt(j)
        /\ Sequenced => \A j \in 1 .. TasksOf : Reached # GetAt(j)
    BY <1>0, <1>1, <1>5, <1>6 DEF Doings, Launches, Gets
  <1>8. pc[k] = "unborn" /\ Unready(k) /\ k \notin deferred
    BY <1>0, <1>6, <1>7 DEF TaskAt
  <1>9. Fetching!Argument(k) = Given(k)
    <2>1. CASE program = Fetching!DetachedTasks
      <3>1. TasksOf = 2 /\ LaunchAt(2) = 3 /\ GetAt(1) = 2 /\ Sequenced /\ Fetching!Results[1] = 42
        <4>1. /\ TasksOf = 2 /\ LaunchAt(2) = 2 * 2 - 1 /\ GetAt(1) = 2 * 1 /\ Sequenced
              /\ Fetching!Results = <<42, 52>>
          BY <2>1, ProgramsDiffer, Zenon DEF TasksOf, LaunchAt, GetAt, Sequenced, Fetching!Results
        <4> QED BY <4>1
      <3>2. k = 2 => 1 \in 1 .. Len(fetched)
        BY <1>0, <1>6, <1>7, <3>1 DEF FetchedAt, FetchTypes
      <3>3. k = 2 => result[1] = 42
        BY <1>0, <3>1, <3>2 DEF FetchedAt
      <3>4. /\ Fetching!Argument(k) = (IF k = 1 THEN 21 ELSE result[k - 1])
            /\ Given(k) = (IF k = 1 THEN 21 ELSE 42)
        BY <2>1, ProgramsDiffer, Zenon DEF Fetching!Argument, Given
      <3> QED BY <1>1, <3>1, <3>3, <3>4
    <2>2. CASE program # Fetching!DetachedTasks
      BY <2>2 DEF Fetching!Argument, Given
    <2> QED BY <2>1, <2>2
  <1>10. FetchTypes'
    BY <1>0, <1>1, <1>2, <1>9, <1>5, SameProgram DEF FetchTypes, Values
  <1>11. ASSUME NEW j \in Fetching!TaskIds PROVE TaskAt(j)'
    <2>1. CASE j = k
      BY <1>0, <1>1, <1>2, <1>4, <1>5, <1>6, <1>7, <1>8, <1>9, SameProgram, <2>1 DEF FetchTypes,
         Unready, Fetching!NotReady, TaskAt
    <2>2. CASE j # k
      BY <1>0, <1>1, <1>2, <1>4, <1>5, <2>2, <1>6, <1>7, TaskKeeps DEF FetchTypes
    <2> QED BY <2>1, <2>2
  <1>12. FetchedAt'
    <2>1. /\ \A j \in 1 .. Len(fetched') : fetched'[j] = Fetching!Results'[j] /\ result'[j] = Fetching!Results'[j]
      BY <1>0, <1>1, SameProgram DEF FetchedAt
    <2>2. Sequenced => \A j \in Fetching!TaskIds : Reached' > GetAt(j) <=> j <= Len(fetched)
      <3> SUFFICES ASSUME Sequenced, NEW j \in 1 .. TasksOf
                   PROVE  Reached' > GetAt(j) <=> j <= Len(fetched)
        BY <1>6
      <3> QED BY <1>5, <1>6, <1>7, <1>0 DEF FetchedAt
    <2>3. ~Sequenced => /\ deferred' = {} /\ pc'[2] = pc[2] /\ k = 1
                        /\ Reached = 1
      <3> SUFFICES ASSUME ~Sequenced PROVE deferred' = {} /\ pc'[2] = pc[2] /\ k = 1 /\ Reached = 1
        OBVIOUS
      <3>1. k = 1 /\ policy # "deferred" /\ 2 \in Fetching!Threads
        BY <1>0, <1>1, <1>2 DEF Shape
      <3>2. LaunchAt(1) = 1
        <4>1. LaunchAt(1) = 2 * 1 - 1
          BY ProgramsDiffer, Zenon DEF LaunchAt, Sequenced
        <4> QED BY <4>1
      <3> QED BY <1>0, <1>2, <1>4, <1>5, <1>7, <3>1, <3>2 DEF FetchedAt
    <2>4. ~Sequenced => /\ pc'[2] \in {"unborn", "get", "done"} /\ (pc'[2] = "unborn" <=> Reached' <= 2)
                        /\ Len(fetched') = IF pc'[2] = "done" THEN 1 ELSE 0
                        /\ Reached' > 4 => pc'[2] = "done"
      BY <1>0, <1>1, <1>5, <2>3 DEF FetchedAt
    <2>5. /\ Sequenced' = Sequenced /\ Fetching!TaskIds' = Fetching!TaskIds
          /\ Fetching!Results' = Fetching!Results /\ \A j : GetAt(j)' = GetAt(j)
      BY SameProgram
    <2> QED BY <1>1, <2>1, <2>2, <2>3, <2>4, <2>5 DEF FetchedAt
  <1> QED BY <1>10, <1>11, <1>12 DEF FetchNext

(* A task ends in its own thread; a deferred one, in the thread that asks.    *)
LEMMA FinishStep ==
  ASSUME Numbers \in Nat \ {0}, FetchInv, UNCHANGED program, NEW t \in Fetching!Threads,
         NEW k \in Fetching!TaskIds, Fetching!Finish(t, k), Reached' = Reached, step' = step,
         pc' = [pc EXCEPT ![k] = "done"], Reached > LaunchAt(k), Unready(k),
         (k \in deferred /\ t = program.getter /\ Reached >= GetAt(k)) \/ (k \notin deferred /\ t = k)
  PROVE  FetchNext
  <1> /\ Shape /\ Timing /\ Values /\ FetchTypes /\ FetchedAt
      /\ \A j \in Fetching!TaskIds : TaskAt(j)
      /\ k \in 1 .. TasksOf /\ Fetching!TaskIds = 1 .. TasksOf /\ TasksOf \in Nat
    BY TaskShape DEF FetchInv, Shape
  <1> /\ result' = [result EXCEPT ![k] = Fetching!Value(k)]
      /\ runs' = [runs EXCEPT ![k] = Append(@, t)]
      /\ UNCHANGED <<deferred, input, fetched>>
    BY DEF Fetching!Finish
  <1>2. Reached \in Nat /\ LaunchAt(k) \in Nat /\ GetAt(k) \in Nat
    BY DEF Timing, FetchTypes, Reached, Shape
  <1>3. input[k] = Given(k) /\ Fetching!Value(k) = Fetching!Results[k] /\ Fetching!Results[k] \in Nat
    BY <1>2, ValueIsResult DEF TaskAt, FetchInv, Values
  <1>4. result'[k] = Fetching!Results[k] /\ runs'[k] = <<t>> /\ pc'[k] = "done"
    BY <1>3 DEF FetchTypes, Unready, Shape
  <1>5. FetchTypes'
    <2>1. result' \in [Fetching!TaskIds -> Nat]
      BY <1>3 DEF FetchTypes
    <2>2. pc' \in [Fetching!Threads -> {"main", "unborn", "task", "get", "done"}] /\ pc'[0] \in {"main", "done"}
      <3>1. pc \in [Fetching!Threads -> {"main", "unborn", "task", "get", "done"}] /\ pc[0] \in {"main", "done"}
        BY DEF FetchTypes
      <3>2. pc' = [pc EXCEPT ![k] = "done"] /\ k # 0
        OBVIOUS
      <3>3. pc'[0] = pc[0]
        BY <3>1, <3>2
      <3> QED BY <3>1, <3>2, <3>3
    <2> QED BY <2>1, <2>2, SameProgram DEF FetchTypes
  <1>6. ASSUME NEW j \in Fetching!TaskIds PROVE TaskAt(j)'
    <2>1. CASE j = k
      BY <1>2, <1>3, <1>4, SameProgram, <2>1 DEF ReadyBy, TaskAt
    <2>2. CASE j # k
      <3>1. UNCHANGED <<pc[j], input[j], result[j], runs[j]>> /\ (j \in deferred' <=> j \in deferred)
        BY <2>2 DEF FetchTypes, Shape
      <3>2. Reached \in Nat /\ LaunchAt(j) \in Nat /\ GetAt(j) \in Nat
        BY <1>2 DEF Timing
      <3> QED BY <3>1, <3>2, TaskKeeps
    <2> QED BY <2>1, <2>2
  <1>7. FetchedAt'
    <2>1. \A j \in 1 .. Len(fetched') : fetched'[j] = Fetching!Results'[j] /\ result'[j] = Fetching!Results'[j]
      <3> SUFFICES ASSUME NEW j \in 1 .. Len(fetched)
                   PROVE  fetched[j] = Fetching!Results[j] /\ result'[j] = Fetching!Results[j]
        BY SameProgram
      <3>1. fetched[j] = Fetching!Results[j] /\ result[j] = Fetching!Results[j]
        BY DEF FetchedAt
      <3>2. CASE j = k
        BY <1>4, <3>1, <3>2
      <3>3. CASE j # k
        BY <3>1, <3>3 DEF FetchTypes
      <3> QED BY <3>2, <3>3
    <2>3. ~Sequenced => pc'[2] = pc[2]
      BY DEF FetchTypes, Shape
    <2> QED BY <2>1, <2>3, SameProgram DEF FetchedAt
  <1> QED BY <1>5, <1>6, <1>7 DEF FetchNext

LEMMA EndTaskStep ==
  ASSUME Numbers \in Nat \ {0}, FetchInv, UNCHANGED program,
         NEW t \in Fetching!Threads, Fetching!EndTask(t)
  PROVE  FetchNext
  <1>0. Shape /\ Timing /\ FetchTypes /\ FetchedAt /\ \A j \in Fetching!TaskIds : TaskAt(j)
    BY TaskShape DEF FetchInv
  <1>1. pc[t] = "task" /\ Fetching!GoOn(t, pc) /\ Fetching!Finish(t, t)
    BY DEF Fetching!EndTask
  <1>2. t # 0 /\ t \in Fetching!TaskIds
    BY <1>0, <1>1 DEF Shape, FetchTypes, FetchedAt
  <1>3. step' = step /\ pc' = [pc EXCEPT ![t] = "done"]
    BY <1>1, <1>2 DEF Fetching!GoOn
  <1>4. Reached' = Reached
    BY <1>0, <1>2, <1>3, SameProgram DEF Reached, FetchTypes, Shape
  <1>5. t \notin deferred /\ Unready(t) /\ ~(Reached <= LaunchAt(t))
    BY <1>0, <1>1, <1>2 DEF TaskAt
  <1>6. Reached > LaunchAt(t)
    BY <1>0, <1>2, <1>5 DEF Timing, FetchTypes, Reached, Shape
  <1> QED BY <1>1, <1>2, <1>3, <1>4, <1>5, <1>6, FinishStep

LEMMA RunDeferredStep ==
  ASSUME Numbers \in Nat \ {0}, FetchInv, UNCHANGED program,
         NEW t \in Fetching!Threads, NEW k \in Fetching!TaskIds, Fetching!RunDeferred(t, k)
  PROVE  FetchNext
  <1> /\ Shape /\ Timing /\ Doings /\ Values /\ FetchTypes /\ FetchedAt
      /\ \A j \in Fetching!TaskIds : TaskAt(j)
    BY TaskShape DEF FetchInv
  <1> /\ Fetching!Asks(t, k) /\ k \in deferred /\ result[k] = Fetching!NotReady
      /\ Fetching!Finish(t, k) /\ UNCHANGED <<pc, step>> /\ k \in 1 .. TasksOf
    BY DEF Fetching!RunDeferred, Shape
  <1>2. Sequenced /\ program.getter = 0
    BY DEF FetchedAt, Shape
  <1>3. t = 0 /\ pc[0] = "main" /\ Gets(step, k)
    BY <1>2 DEF Fetching!Asks, Fetching!At, Fetching!Does, Gets, FetchTypes
  <1>4. Reached = step /\ step = GetAt(k) /\ Reached' = Reached
    BY <1>3, SameProgram DEF Doings, FetchTypes, Reached
  <1>5. Reached > LaunchAt(k) /\ Reached >= GetAt(k) /\ ~(Reached <= LaunchAt(k))
    BY <1>4 DEF Timing
  <1>6. Unready(k) /\ pc[k] = "done"
    BY <1>5 DEF TaskAt, Values, Fetching!NotReady, ReadyBy
  <1>7. pc' = [pc EXCEPT ![k] = "done"]
    BY <1>6 DEF FetchTypes
  <1> QED BY <1>2, <1>3, <1>4, <1>5, <1>6, <1>7, FinishStep

(* A step of main, or of thread 2, that leaves the tasks as they are.         *)
LEMMA TasksKeep ==
  ASSUME Numbers \in Nat \ {0}, FetchInv, UNCHANGED program,
         UNCHANGED <<deferred, input, result, runs>>,
         pc' \in [Fetching!Threads -> {"main", "unborn", "task", "get", "done"}], pc'[0] \in {"main", "done"},
         step' \in 1 .. Length, fetched' \in Seq(Nat), Len(fetched') <= TasksOf,
         \A k \in Fetching!TaskIds : pc'[k] = pc[k],
         \/ Reached' = Reached
         \/ Reached' = Reached + 1 /\ \A k \in Fetching!TaskIds : Reached # LaunchAt(k)
  PROVE  FetchTypes' /\ \A k \in Fetching!TaskIds : TaskAt(k)'
  <1>0. /\ Shape /\ Timing /\ FetchTypes /\ \A k \in Fetching!TaskIds : TaskAt(k)
    BY TaskShape DEF FetchInv
  <1>2. ASSUME NEW k \in Fetching!TaskIds PROVE TaskAt(k)'
    <2>1. LaunchAt(k) \in Nat /\ GetAt(k) \in Nat
      BY <1>0 DEF Timing, Shape
    <2>2. Reached \in Nat
      BY <1>0 DEF FetchTypes, Reached, Shape
    <2> QED BY <1>0, <2>1, <2>2, TaskKeeps
  <1> QED BY <1>2, <1>0, SameProgram DEF FetchTypes

(* main gets the result of the next task.                                     *)
LEMMA GetStep ==
  ASSUME Numbers \in Nat \ {0}, FetchInv, UNCHANGED program, Sequenced,
         NEW t \in Fetching!Threads, NEW k \in Fetching!TaskIds, Fetching!GetResult(t, k)
  PROVE  FetchNext
  <1> /\ Shape /\ Timing /\ Doings /\ Values /\ FetchTypes /\ FetchedAt
      /\ \A j \in Fetching!TaskIds : TaskAt(j)
    BY TaskShape DEF FetchInv
  <1> /\ Fetching!Asks(t, k) /\ result[k] # Fetching!NotReady /\ fetched' = Append(fetched, result[k])
      /\ Fetching!GoOn(t, pc) /\ UNCHANGED <<deferred, input, result, runs>> /\ k \in 1 .. TasksOf
      /\ program.getter = 0 /\ Fetching!TaskIds = 1 .. TasksOf /\ TasksOf \in Nat
      /\ \A j \in 1 .. TasksOf : j \in Fetching!Threads \ {0}
    BY DEF Fetching!GetResult, Shape
  <1>2. t = 0 /\ pc[0] = "main" /\ Gets(step, k)
    BY DEF Fetching!Asks, Fetching!At, Fetching!Does, Gets, FetchTypes
  <1>3. /\ Reached = step /\ Reached' = Reached + 1 /\ step' \in 1 .. Length
        /\ pc' \in [Fetching!Threads -> {"main", "unborn", "task", "get", "done"}]
        /\ pc'[0] \in {"main", "done"}
        /\ \A u \in Fetching!Threads \ {0} : pc'[u] = pc[u]
    BY <1>2, MainGoesOn DEF FetchTypes
  <1>4. Reached = GetAt(k) /\ Reached \in Nat /\ \A j \in 1 .. TasksOf : Reached # LaunchAt(j)
    <2>1. step \in 1 .. Length /\ Length \in Nat
      BY DEF FetchTypes, Shape
    <2>2. step = GetAt(k)
      BY <1>2, <2>1 DEF Doings
    <2> QED BY <1>3, <2>1, <2>2, <1>2 DEF Doings, Launches, Gets
  <1>5. Len(fetched) = k - 1 /\ fetched \in Seq(Nat)
    <2>2. \A j \in 1 .. TasksOf : Reached > GetAt(j) <=> j <= Len(fetched)
      BY DEF FetchedAt
    <2>3. ~(k <= Len(fetched))
      BY <1>4, <2>2
    <2>4. k > 1 => k - 1 <= Len(fetched)
      <3> SUFFICES ASSUME k > 1 PROVE k - 1 <= Len(fetched)
        OBVIOUS
      <3>1. k - 1 \in 1 .. TasksOf /\ k - 1 < k
        OBVIOUS
      <3> QED BY <1>4, <2>2, <3>1 DEF Timing
    <2> QED BY <2>3, <2>4 DEF FetchTypes
  <1>6. result[k] = Fetching!Results[k] /\ result[k] \in Nat
    BY DEF TaskAt, Unready, ReadyBy, Values
  <1>7. fetched' \in Seq(Nat) /\ Len(fetched') = k /\ fetched'[k] = result[k]
        /\ \A j \in 1 .. Len(fetched) : fetched'[j] = fetched[j]
    BY <1>5, <1>6
  <1>8. FetchTypes' /\ \A j \in Fetching!TaskIds : TaskAt(j)'
    BY <1>3, <1>4, <1>7, TasksKeep
  <1>9. FetchedAt'
    <2>1. \A j \in 1 .. Len(fetched') : fetched'[j] = Fetching!Results[j] /\ result'[j] = Fetching!Results[j]
      <3> SUFFICES ASSUME NEW j \in 1 .. k
                   PROVE  fetched'[j] = Fetching!Results[j] /\ result[j] = Fetching!Results[j]
        BY <1>7
      <3>1. CASE j = k
        BY <1>6, <1>7, <3>1
      <3>2. CASE j # k
        BY <1>5, <3>2, <1>7 DEF FetchedAt
      <3> QED BY <3>1, <3>2
    <2>2. ASSUME NEW j \in 1 .. TasksOf PROVE Reached' > GetAt(j) <=> j <= k
      <3>1. GetAt(j) \in Nat /\ GetAt(k) \in Nat /\ (j < k => GetAt(j) < GetAt(k)) /\ (k < j => GetAt(k) < GetAt(j))
        BY DEF Timing
      <3> QED BY <1>3, <1>4, <3>1
    <2> QED BY <1>7, <2>1, <2>2, SameProgram DEF FetchedAt
  <1> QED BY <1>8, <1>9 DEF FetchNext

(* The program that gives the task and its future to two threads.             *)
LEMMA GivenAwayStep ==
  ASSUME Numbers \in Nat \ {0}, FetchInv, UNCHANGED program, ~Sequenced, NEW t \in Fetching!Threads,
         \/ \E k \in Fetching!TaskIds : Fetching!GetResult(t, k)
         \/ \E k \in Fetching!Threads : Fetching!StartGetter(t, k) \/ Fetching!JoinThread(t, k)
  PROVE  FetchNext
  <1> /\ Shape /\ Timing /\ Doings /\ Values /\ FetchTypes /\ FetchedAt
      /\ \A j \in Fetching!TaskIds : TaskAt(j)
    BY TaskShape DEF FetchInv
  <1> /\ TasksOf = 1 /\ Fetching!TaskIds = {1} /\ Fetching!Threads = 0 .. 2 /\ program.getter = 2
      /\ Length = 4
    BY DEF Shape
  <1> /\ pc \in [0 .. 2 -> {"main", "unborn", "task", "get", "done"}] /\ pc[0] \in {"main", "done"}
      /\ step \in 1 .. 4 /\ deferred = {} /\ fetched \in Seq(Nat)
      /\ pc[2] \in {"unborn", "get", "done"} /\ (pc[2] = "unborn" <=> Reached <= 2)
      /\ Len(fetched) = (IF pc[2] = "done" THEN 1 ELSE 0) /\ (Reached > 4 => pc[2] = "done")
    BY DEF FetchTypes, FetchedAt
  <1>3. LaunchAt(1) = 1
    <2>1. LaunchAt(1) = 2 * 1 - 1
      BY ProgramsDiffer, Zenon DEF LaunchAt, Sequenced
    <2> QED BY <2>1
  <1>4. /\ Sequenced' = Sequenced /\ Fetching!TaskIds' = Fetching!TaskIds
        /\ Fetching!Results' = Fetching!Results /\ \A j : GetAt(j)' = GetAt(j)
    BY SameProgram
  <1>5. ASSUME NEW k \in Fetching!TaskIds, Fetching!GetResult(t, k) PROVE FetchNext
    <2> /\ Fetching!Asks(t, k) /\ result[k] # Fetching!NotReady /\ fetched' = Append(fetched, result[k])
        /\ Fetching!GoOn(t, pc) /\ UNCHANGED <<deferred, input, result, runs>> /\ k = 1
      BY <1>5 DEF Fetching!GetResult
    <2>3. t = 2 /\ pc[2] = "get"
      BY DEF Fetching!Asks, Fetching!At, Fetching!Does, Doings, Gets
    <2>4. step' = step /\ pc' = [pc EXCEPT ![2] = "done"]
      BY <2>3 DEF Fetching!GoOn
    <2>5. /\ Reached' = Reached /\ pc'[0] = pc[0] /\ pc'[1] = pc[1] /\ pc'[2] = "done"
          /\ pc' \in [0 .. 2 -> {"main", "unborn", "task", "get", "done"}]
      BY <2>4, SameProgram DEF Reached
    <2>6. result[1] = Fetching!Results[1] /\ result[1] \in Nat
      BY DEF TaskAt, Unready, ReadyBy, Values
    <2>7. fetched' \in Seq(Nat) /\ Len(fetched') = 1 /\ fetched'[1] = result[1]
      BY <2>3, <2>6
    <2>8. FetchTypes' /\ \A j \in Fetching!TaskIds : TaskAt(j)'
      BY <2>4, <2>5, <2>7, TasksKeep
    <2>9. FetchedAt'
      BY <1>4, <2>3, <2>5, <2>6, <2>7 DEF FetchedAt
    <2> QED BY <2>8, <2>9 DEF FetchNext
  <1>6. ASSUME NEW k \in Fetching!Threads, Fetching!StartGetter(t, k) PROVE FetchNext
    <2>1. /\ t = 0 /\ pc[0] = "main" /\ Starts(step, k) /\ Fetching!GoOn(0, [pc EXCEPT ![k] = "get"])
          /\ UNCHANGED <<deferred, input, result, runs, fetched>>
      BY <1>6 DEF Fetching!StartGetter, Fetching!At, Fetching!Does, Starts
    <2>2. k = 2 /\ step = 2
      BY <2>1 DEF Doings
    <2>3. PICK others : others = [pc EXCEPT ![2] = "get"]
      OBVIOUS
    <2>4. /\ others \in [0 .. 2 -> {"main", "unborn", "task", "get", "done"}]
          /\ others[1] = pc[1] /\ others[2] = "get"
      BY <2>3
    <2>5. /\ Reached = step /\ Reached' = Reached + 1 /\ step' \in 1 .. Length
          /\ pc' \in [0 .. 2 -> {"main", "unborn", "task", "get", "done"}]
          /\ pc'[0] \in {"main", "done"} /\ pc'[1] = pc[1] /\ pc'[2] = "get"
      <3>1. Fetching!GoOn(0, others)
        BY <2>1, <2>2, <2>3
      <3> QED BY <2>1, <2>4, <3>1, MainGoesOn
    <2>6. FetchTypes' /\ \A j \in Fetching!TaskIds : TaskAt(j)'
      BY <1>3, <2>1, <2>2, <2>5, TasksKeep
    <2>7. FetchedAt'
      BY <1>4, <2>1, <2>2, <2>5 DEF FetchedAt
    <2> QED BY <2>6, <2>7 DEF FetchNext
  <1>7. ASSUME NEW k \in Fetching!Threads, Fetching!JoinThread(t, k) PROVE FetchNext
    <2> /\ t = 0 /\ pc[0] = "main" /\ Joins(step, k) /\ pc[k] = "done" /\ Fetching!GoOn(0, pc)
        /\ UNCHANGED <<deferred, input, result, runs, fetched>>
      BY <1>7 DEF Fetching!JoinThread, Fetching!At, Fetching!Does, Joins
    <2>2. (step = 3 /\ k = 1) \/ (step = 4 /\ k = 2)
      BY DEF Doings
    <2>3. /\ Reached = step /\ Reached' = Reached + 1 /\ step' \in 1 .. Length
          /\ pc' \in [0 .. 2 -> {"main", "unborn", "task", "get", "done"}]
          /\ pc'[0] \in {"main", "done"} /\ pc'[1] = pc[1] /\ pc'[2] = pc[2]
      BY MainGoesOn
    <2>4. FetchTypes' /\ \A j \in Fetching!TaskIds : TaskAt(j)'
      <3>1. Reached # LaunchAt(1)
        BY <1>3, <2>2, <2>3
      <3>2. fetched' = fetched /\ Len(fetched) <= TasksOf
        OBVIOUS
      <3> QED BY <2>3, <3>1, <3>2, TasksKeep
    <2>5. FetchedAt'
      <3>1. /\ (pc'[2] = "unborn" <=> Reached' <= 2) /\ (Reached' > 4 => pc'[2] = "done")
            /\ pc'[2] \in {"unborn", "get", "done"}
        BY <2>2, <2>3
      <3> QED BY <1>4, <2>3, <3>1 DEF FetchedAt
    <2> QED BY <2>4, <2>5 DEF FetchNext
  <1> QED BY <1>5, <1>6, <1>7

LEMMA FetchInvInit == Numbers \in Nat \ {0} /\ Fetching!Init => FetchInv
  <1> SUFFICES ASSUME Numbers \in Nat \ {0}, Fetching!Init PROVE FetchInv
    OBVIOUS
  <1>0. /\ Shape /\ Timing /\ Doings /\ Values
        /\ program \in Fetching!Mine /\ step = 1 /\ deferred = {} /\ fetched = <<>>
        /\ pc = [t \in Fetching!Threads |-> IF t = 0 THEN "main" ELSE "unborn"]
        /\ input = [k \in Fetching!TaskIds |-> 0]
        /\ result = [k \in Fetching!TaskIds |-> Fetching!NotReady]
        /\ runs = [k \in Fetching!TaskIds |-> <<>>]
    BY TaskShape DEF Fetching!Init
  <1>1. /\ TasksOf \in Nat \ {0} /\ Fetching!TaskIds = 1 .. TasksOf /\ 0 \in Fetching!Threads
        /\ \A k \in 1 .. TasksOf : k \in Fetching!Threads /\ k # 0
        /\ ~Sequenced => 2 \in Fetching!Threads
        /\ Length \in Nat \ {0}
    BY <1>0 DEF Shape
  <1>2. pc[0] = "main" /\ Reached = 1
    BY <1>0, <1>1 DEF Reached
  <1>4. ASSUME NEW k \in Fetching!TaskIds PROVE TaskAt(k)
    BY <1>0, <1>1, <1>2 DEF Timing, Unready, TaskAt
  <1>5. FetchedAt
    BY <1>0, <1>1, <1>2 DEF Timing, FetchedAt
  <1> QED BY <1>0, <1>4, <1>5, <1>1, <1>2 DEF FetchInv, FetchTypes, Fetching!NotReady

LEMMA FetchInvStep == Numbers \in Nat \ {0} /\ FetchInv /\ FetchingMoves => FetchInv'
  <1> SUFFICES ASSUME Numbers \in Nat \ {0}, FetchInv, FetchingMoves PROVE FetchInv'
    OBVIOUS
  <1>1. ASSUME NEW t \in DOMAIN pc, Fetching!Run(t) PROVE FetchInv'
    BY <1>1, GetStep, GivenAwayStep, TaskShape, StartStep, RunDeferredStep, EndTaskStep, SameProgram
       DEF Fetching!Run, FetchInv, Fetching!StartGetter, Fetching!JoinThread, Fetching!At,
       Fetching!Does, Starts, Joins, Doings, FetchTypes, FetchNext
  <1>2. CASE UNCHANGED <<program, pc, step, deferred, input, result, runs, fetched>>
    BY <1>2, SameProgram DEF Reached, FetchInv, FetchTypes, TaskAt, Unready, ReadyBy,
       Fetching!NotReady, FetchedAt
  <1> QED BY <1>1, <1>2 DEF FetchingMoves

(* Whatever the number of concurrent tasks and the policies the              *)
(* implementation chooses: the results come in the order of the calls of get,*)
(* each that of its own task, a task runs at most once and in the thread the *)
(* policy says, a deferred one only when it is asked for, and main has them  *)
(* all when it ends (the programs of Asynchronous Programming).               *)
THEOREM ResultsComeInOrder == ASSUME Numbers \in Nat \ {0} PROVE Spec => []ResultsInOrder
  <1> DEFINE J == Fetching!Runs => FetchInv
  <1>1. Init => J
    BY FetchInvInit DEF Init
  <1>2. J /\ [Next]_vars => J'
    <2> SUFFICES ASSUME J, [Next]_vars, Fetching!Runs' PROVE FetchInv'
      OBVIOUS
    <2> QED BY OneModuleRuns, FetchInvStep, ProgramStays DEF Fetching!Runs
  <1>3. J => ResultsInOrder
    <2> SUFFICES ASSUME Fetching!Runs, FetchInv PROVE Fetching!ResultsInOrder
      BY DEF ResultsInOrder, Fetching!ResultsInOrder
    <2> /\ Shape /\ Timing /\ Values /\ FetchTypes /\ FetchedAt
        /\ \A k \in Fetching!TaskIds : TaskAt(k)
        /\ TasksOf \in Nat \ {0} /\ Fetching!TaskIds = 1 .. TasksOf /\ Fetching!Results \in Seq(Nat)
        /\ Len(Fetching!Results) = TasksOf
        /\ program.getter = IF Sequenced THEN 0 ELSE 2
      BY TaskShape DEF FetchInv, Shape, Values
    <2> /\ fetched \in Seq(Nat) /\ Len(fetched) \in Nat /\ Len(fetched) <= TasksOf
        /\ pc[0] \in {"main", "done"} /\ step \in 1 .. Length
        /\ deferred \subseteq Fetching!TaskIds /\ Length \in Nat /\ Reached \in Nat
      BY DEF FetchTypes, Shape, Reached
    <2>2. fetched = SubSeq(Fetching!Results, 1, Len(fetched))
      <3>2. PICK s : s = SubSeq(Fetching!Results, 1, Len(fetched))
        OBVIOUS
      <3>3. s \in Seq(Nat) /\ Len(s) = Len(fetched)
            /\ \A i \in 1 .. Len(fetched) : s[i] = Fetching!Results[i]
        BY <3>2
      <3>4. s = fetched
        BY <3>3, EqualSequences DEF FetchedAt
      <3> QED BY <3>2, <3>4
    <2>4. ASSUME NEW k \in deferred, runs[k] # <<>> PROVE Len(fetched) >= k - 1
      <3>1. k \in 1 .. TasksOf /\ Sequenced
        BY <2>4 DEF FetchedAt
      <3>2. Reached >= GetAt(k)
        BY <2>4, <3>1 DEF TaskAt, Unready
      <3>3. CASE k = 1
        BY <3>3
      <3>4. CASE k # 1
        BY <3>1, <3>4, <3>2 DEF Timing, FetchedAt
      <3> QED BY <3>3, <3>4
    <2>5. ASSUME pc[0] = "done" PROVE Len(fetched) = Len(Fetching!Results)
      BY <2>5 DEF Reached, Timing, FetchedAt, Shape
    <2> QED BY <2>2, <2>4, <2>5 DEF Fetching!ResultsInOrder, TaskAt, Unready, ReadyBy
  <1> HIDE DEF J
  <1> QED BY <1>1, <1>2, <1>3, PTL DEF Spec
--------------------------------------------------------------------------------
(* Arithmetic that the loops need; every set of naturals has a least member,  *)
(* which serves for induction throughout.                                     *)
LEMMA LeastNat == ASSUME NEW T, T \subseteq Nat, T # {} PROVE \E x \in T : \A y \in T : x <= y
  <1> DEFINE R == {ss \in Nat \X Nat : ss[1] < ss[2]}
  <1>1. IsWellFoundedOn(R, Nat)
    BY NatLessThanWellFounded DEF OpToRel
  <1>2. PICK x \in T : \A y \in T : ~ (<<y, x>> \in R)
    BY <1>1, WFMin, Zenon
  <1>3. \A y \in T : y \in Nat /\ x \in Nat /\ ~(y < x)
    BY <1>2
  <1>4. \A y \in T : x <= y
    BY <1>3
  <1> QED BY <1>4

(* Division with a rest, and what a rest of 0 means.                          *)
LEMMA Division ==
  ASSUME NEW m \in Nat, NEW d \in Nat \ {0}
  PROVE  \E j \in Nat, r \in 0 .. d - 1 : m = d * j + r
  <1> DEFINE T == {k \in Nat : ~\E j \in Nat, r \in 0 .. d - 1 : k = d * j + r}
  <1> SUFFICES ASSUME T # {} PROVE FALSE
    OBVIOUS
  <1>1. PICK k \in T : \A l \in T : k <= l
    <2>1. T \subseteq Nat
      OBVIOUS
    <2> HIDE DEF T
    <2> QED BY <2>1, LeastNat
  <1>2. k >= d
    BY <1>1
  <1>3. k - d \in Nat /\ k - d \notin T
    <2>1. k \in Nat /\ k - d \in Nat /\ ~(k <= k - d)
      BY <1>1, <1>2
    <2> HIDE DEF T
    <2> QED BY <1>1, <2>1
  <1>4. PICK j \in Nat, r \in 0 .. d - 1 : k - d = d * j + r
    BY <1>3
  <1>5. k = d * (j + 1) + r /\ j + 1 \in Nat
    BY <1>1, <1>4
  <1> QED BY <1>1, <1>5

LEMMA Divides ==
  ASSUME NEW k \in Nat, NEW d \in Nat \ {0}
  PROVE  k % d = 0 <=> \E j \in Nat : k = d * j
  <1>1. PICK j \in Nat, r \in 0 .. d - 1 : k = d * j + r
    BY Division
  <1>3. ASSUME NEW i \in Nat, k = d * i PROVE k % d = 0
    BY <1>3
  <1> QED BY <1>1, <1>3

(* The product grows with its factors.                                        *)
LEMMA Products ==
  ASSUME NEW a \in Nat, NEW b \in Nat, NEW u \in Nat, NEW d \in Nat, a <= b, u <= d
  PROVE  a * u <= b * d
  <1>1. PICK x \in Nat : b = a + x
    OBVIOUS
  <1>2. PICK y \in Nat : d = u + y
    OBVIOUS
  <1>4. a * y \in Nat /\ x * u \in Nat /\ x * y \in Nat /\ a * u \in Nat
    OBVIOUS
  <1> QED BY <1>4, <1>1, <1>2

(* The integer square root, the loop bound of parallel_sieve, exists.         *)
LEMMA SquareRoot == ASSUME NEW m \in Nat PROVE \E r \in 0 .. m : r * r <= m /\ (r + 1) * (r + 1) > m
  <1> DEFINE T == {k \in Nat : (k + 1) * (k + 1) > m}
  <1>1. PICK r \in T : \A k \in T : r <= k
    <2>2. T \subseteq Nat /\ m \in T
      OBVIOUS
    <2> HIDE DEF T
    <2> QED BY <2>2, LeastNat
  <1>2. r * r <= m
    BY <1>1
  <1> QED BY <1>1, <1>2, Products

(* So sqrt_n is what its definition chooses.                                  *)
LEMMA SqrtIs ==
  ASSUME Looping!n \in Nat
  PROVE  /\ Looping!sqrt_n \in 0 .. Looping!n /\ Looping!sqrt_n * Looping!sqrt_n <= Looping!n
         /\ (Looping!sqrt_n + 1) * (Looping!sqrt_n + 1) > Looping!n
  BY SquareRoot DEF Looping!sqrt_n

(* Cleared is a function that satisfies its own recursive definition.         *)
LEMMA ClearedIs ==
  ASSUME Looping!n \in Nat \ {0}
  PROVE  /\ Looping!Cleared \in [1 .. Looping!n -> SUBSET Nat] /\ Looping!Cleared[1] = {0, 1}
         /\ \A i \in 2 .. Looping!n :
              Looping!Cleared[i] = Looping!Cleared[i - 1] \cup
                (IF i \in Looping!Cleared[i - 1] THEN {} ELSE Looping!MultiplesFrom(i))
  <1> DEFINE D(f) == [i \in 1 .. Looping!n |-> IF i = 1 THEN {0, 1}
                        ELSE f[i - 1] \cup (IF i \in f[i - 1] THEN {} ELSE Looping!MultiplesFrom(i))]
  <1> DEFINE After(i, x) == x \cup (IF i \in x THEN {} ELSE Looping!MultiplesFrom(i))
             Ok(f, k) == f \in [1 .. k -> SUBSET Nat] /\ f[1] = {0, 1} /\ \A i \in 2 .. k : f[i] = After(i, f[i - 1])
             T == {k \in 1 .. Looping!n : ~\E f : Ok(f, k)}
  <1>1. T = {}
    <2> SUFFICES ASSUME T # {} PROVE FALSE
      OBVIOUS
    <2>1. PICK k \in T : \A l \in T : k <= l
      <3>1. T \subseteq Nat
        OBVIOUS
      <3> HIDE DEF T
      <3> QED BY <3>1, LeastNat
    <2>2. CASE k = 1
      <3>1. Ok([x \in 1 .. 1 |-> {0, 1}], 1)
        OBVIOUS
      <3> QED BY <2>1, <2>2, <3>1
    <2>3. CASE k # 1
      <3>1. k - 1 \in 1 .. Looping!n /\ k - 1 \notin T /\ k \in 2 .. Looping!n
        <4>2. k - 1 \in 1 .. Looping!n /\ k \in 2 .. Looping!n /\ ~(k <= k - 1)
          BY <2>3, <2>1
        <4> HIDE DEF T
        <4> QED BY <2>1, <4>2
      <3>2. PICK f : Ok(f, k - 1)
        BY <3>1
      <3>3. PICK v : v = After(k, f[k - 1])
        OBVIOUS
      <3>4. k - 1 \in 1 .. k - 1 /\ 1 \in 1 .. k - 1 /\ k \in Nat /\ v \in SUBSET Nat
        BY <3>1, <3>2, <3>3 DEF Looping!MultiplesFrom
      <3>5. PICK h : h = [x \in 1 .. k |-> IF x = k THEN v ELSE f[x]]
        OBVIOUS
      <3>6. \A x \in 1 .. k - 1 : h[x] = f[x] /\ f[x] \in SUBSET Nat
        BY <3>4, <3>2, <3>5
      <3>7. h[k] = v /\ h[1] = {0, 1} /\ h[k - 1] = f[k - 1]
        BY <3>2, <3>4, <3>5, <3>6
      <3>8. h \in [1 .. k -> SUBSET Nat]
        <4>1. \A x \in 1 .. k : x = k \/ x \in 1 .. k - 1
          BY <3>4
        <4>2. \A x \in 1 .. k : h[x] \in SUBSET Nat
          BY <3>4, <3>6, <3>7, <4>1
        <4> QED BY <3>5, <4>2
      <3>9. ASSUME NEW i \in 2 .. k PROVE h[i] = After(i, h[i - 1])
        BY <3>3, <3>7, <3>1, <3>2, <3>6
      <3> HIDE DEF After
      <3> QED BY <2>1, <3>7, <3>8, <3>9
    <2> QED BY <2>2, <2>3
  <1>2. PICK f : Ok(f, Looping!n)
    <2>1. Looping!n \in 1 .. Looping!n
      OBVIOUS
    <2> QED BY <1>1, <2>1
  <1>4. \A l \in 2 .. Looping!n : Looping!MultiplesFrom(l) \in SUBSET Nat
    BY DEF Looping!MultiplesFrom
  <1>8. f = D(f)
    BY <1>2
  <1>9. Looping!Cleared = D(Looping!Cleared)
    <2>1. \E h : h = D(h)
      BY <1>8
    <2>2. Looping!Cleared = CHOOSE h : h = D(h)
      BY DEF Looping!Cleared
    <2> HIDE DEF D
    <2> QED BY <2>1, <2>2, Zenon
  <1>10. /\ Looping!Cleared[1] = {0, 1}
         /\ \A i \in 2 .. Looping!n :
              Looping!Cleared[i] = Looping!Cleared[i - 1] \cup
                (IF i \in Looping!Cleared[i - 1] THEN {} ELSE Looping!MultiplesFrom(i))
         /\ Looping!Cleared = [i \in 1 .. Looping!n |-> Looping!Cleared[i]]
    BY <1>9
  <1>11. ASSUME NEW i \in 1 .. Looping!n PROVE Looping!Cleared[i] \in SUBSET Nat
    <2> DEFINE U == {k \in 1 .. Looping!n : Looping!Cleared[k] \notin SUBSET Nat}
    <2> SUFFICES ASSUME U # {} PROVE FALSE
      BY <1>11
    <2>1. PICK k \in U : \A l \in U : k <= l
      <3>1. U \subseteq Nat
        OBVIOUS
      <3> HIDE DEF U
      <3> QED BY <3>1, LeastNat
    <2>2. k # 1
      <3>2. Looping!Cleared[k] \notin SUBSET Nat
        BY <2>1
      <3> QED BY <1>10, <3>2
    <2>3. k \in 2 .. Looping!n /\ k - 1 \in 1 .. Looping!n /\ ~(k <= k - 1)
      BY <2>1, <2>2
    <2> QED BY <1>4, <1>10, <2>1, <2>3
  <1> QED BY <1>10, <1>11

(* What stage 1 has cleared at i: 0, 1 and the numbers with a divisor up to i *)
(* whose square they reach; multiples of a composite were cleared before.     *)
LEMMA ClearedMeans ==
  ASSUME Looping!n \in Nat \ {0}, NEW i \in 1 .. Looping!n, NEW k \in 0 .. Looping!n
  PROVE  k \in Looping!Cleared[i] <=> k < 2 \/ \E d \in 2 .. i : d * d <= k /\ k % d = 0
  <1> DEFINE Small(l, d) == d * d <= l /\ l % d = 0
             T == {j \in 1 .. Looping!n : ~\A l \in 0 .. Looping!n :
                     l \in Looping!Cleared[j] <=> l < 2 \/ \E d \in 2 .. j : Small(l, d)}
  <1> SUFFICES ASSUME T # {} PROVE FALSE
    OBVIOUS
  <1>1. PICK j \in T : \A l \in T : j <= l
    <2>1. T \subseteq Nat
      OBVIOUS
    <2> HIDE DEF T
    <2> QED BY <2>1, LeastNat
  <1>2. CASE j = 1
    BY <1>1, <1>2, ClearedIs
  <1>3. CASE j # 1
    <2> j \in 2 .. Looping!n /\ j - 1 \in 1 .. Looping!n /\ ~(j <= j - 1)
      BY <1>1, <1>3
    <2>2. ASSUME NEW l \in 0 .. Looping!n
          PROVE  l \in Looping!Cleared[j - 1] <=> l < 2 \/ \E d \in 2 .. j - 1 : Small(l, d)
      BY <1>1
    <2>3. ASSUME NEW l \in 0 .. Looping!n
          PROVE  l \in Looping!Cleared[j] <=> l < 2 \/ \E d \in 2 .. j : Small(l, d)
      <3>1. l \in Looping!MultiplesFrom(j) <=> Small(l, j)
        BY DEF Looping!MultiplesFrom
      <3>2. (\E d \in 2 .. j : Small(l, d)) <=> (\E d \in 2 .. j - 1 : Small(l, d)) \/ Small(l, j)
        <4> HIDE DEF Small
        <4> QED OBVIOUS
      <3>3. ASSUME j \in Looping!Cleared[j - 1], Small(l, j) PROVE \E d \in 2 .. j - 1 : Small(l, d)
        <4>1. PICK d \in 2 .. j - 1 : d * d <= j /\ j % d = 0
          <5>1. j \in 0 .. Looping!n /\ ~(j < 2)
            OBVIOUS
          <5>2. \E d \in 2 .. j - 1 : Small(j, d)
            BY <2>2, <3>3, <5>1
          <5> QED BY <5>2
        <4>2. PICK e \in Nat : j = d * e
          BY <4>1, Divides
        <4>3. PICK f \in Nat : l = j * f
          <5>1. l % j = 0 /\ l \in Nat /\ j \in Nat \ {0}
            BY <3>3
          <5> QED BY <5>1, Divides
        <4>4. l = d * (e * f) /\ e * f \in Nat
          BY <4>1, <4>2, <4>3
        <4>5. l % d = 0
          BY <4>1, <4>4, Divides
        <4>7. d * d <= l
          BY <3>3, <4>1, Products
        <4> QED BY <4>1, <4>5, <4>7
      <3>4. Looping!Cleared[j] = Looping!Cleared[j - 1] \cup
              (IF j \in Looping!Cleared[j - 1] THEN {} ELSE Looping!MultiplesFrom(j))
        BY ClearedIs
      <3> HIDE DEF Small
      <3> QED BY <2>2, <3>1, <3>2, <3>3, <3>4
    <2> QED BY <1>1, <2>3
  <1> QED BY <1>2, <1>3

(* Eratosthenes: what remains when the multiples up to the root of n are gone.*)
LEMMA StageOneIsPrimes ==
  ASSUME Looping!n \in Nat, Looping!n > 1
  PROVE  Looping!StageOne = Looping!Primes
  <1>0. /\ Looping!sqrt_n \in 1 .. Looping!n /\ Looping!n \in Nat \ {0}
        /\ (Looping!sqrt_n + 1) * (Looping!sqrt_n + 1) > Looping!n
    BY SqrtIs
  <1>1. ASSUME NEW k \in 0 .. Looping!n
        PROVE  k \in Looping!Cleared[Looping!sqrt_n] <=> k < 2 \/ \E d \in 2 .. k - 1 : k % d = 0
    <2>2. ASSUME NEW d \in 2 .. Looping!sqrt_n, d * d <= k PROVE d \in 2 .. k - 1
      BY <1>0, Products, <2>2
    <2>3. ASSUME NEW d \in 2 .. k - 1, k % d = 0
          PROVE  \E x \in 2 .. Looping!sqrt_n : x * x <= k /\ k % x = 0
      <3>1. PICK e \in Nat : k = d * e
        BY <2>3, Divides
      <3>2. e >= 2
        <4> QED BY <3>1
      <3>3. PICK x \in {d, e} : x <= d /\ x <= e
        BY <3>1
      <3>4. x \in Nat /\ x >= 2 /\ k % x = 0
        BY <3>1, <3>3, <3>2, Divides
      <3>5. x * x <= k /\ x * x \in Nat
        BY <3>1, <3>3, <3>4, Products
      <3>7. x \in 2 .. Looping!sqrt_n
        BY <1>0, <3>4, Products, <1>1, <3>5
      <3> QED BY <3>4, <3>5, <3>7, Zenon
    <2> QED BY <2>2, <2>3, <1>0, ClearedMeans
  <1>3. \A k : k \in 2 .. Looping!n <=> k \in 0 .. Looping!n /\ ~(k < 2)
    BY <1>0
  <1>4. \A k \in 0 .. Looping!n : k \in Looping!Primes <=>
          ~(k < 2) /\ ~\E d \in 2 .. k - 1 : k % d = 0
    BY <1>3 DEF Looping!Primes
  <1> QED BY <1>1, <1>3, <1>4 DEF Looping!Primes, Looping!StageOne

(* How many elements and threads the loops may have.                          *)
LoopNumbers == /\ Limits \subseteq Nat \ {0, 1} /\ Sizes \subseteq Nat
               /\ Teams \subseteq Nat \ {0}

(* The numbers of elements and threads of the four programs.                  *)
LEMMA LoopingPrograms ==
  ASSUME LoopNumbers, program \in Looping!Mine
  PROVE  /\ Looping!Runs
         /\ Looping!n \in Nat /\ Looping!num_threads \in Nat \ {0}
         /\ program.name = "sieve" => Looping!n > 1 /\ program.begins = "test"
         /\ program.name # "sieve" => program.begins = "add"
         /\ program.name = "quarters" => Looping!num_threads = 4
  <1> USE DEF Looping!Runs, Looping!n, Looping!num_threads, LoopNumbers
  <1>1. CASE program \in Looping!ParallelSieve
    <2>1. PICK m \in Limits, k \in Teams :
            program = [name |-> "sieve", n |-> m, threads |-> k, begins |-> "test"]
      BY <1>1 DEF Looping!ParallelSieve
    <2>3. program.name = "sieve" /\ program.n = m /\ program.threads = k /\ program.begins = "test"
      BY <2>1
    <2> QED BY <2>3
  <1>2. CASE program \in Looping!ParallelSum
    BY <1>2 DEF Looping!ParallelSum
  <1>3. CASE program \in Looping!AddParallel
    BY <1>3 DEF Looping!AddParallel
  <1>4. CASE program \in Looping!MonteCarlo
    BY <1>4 DEF Looping!MonteCarlo
  <1> QED BY <1>1, <1>2, <1>3, <1>4 DEF Looping!Mine

(* The multiple a worker is at is a proper one of its p, and what it read of  *)
(* the word is still there.                                                   *)
SieveAt(t) ==
  /\ index[t] >= 2
  /\ pc[t] \in {"read", "write"} => /\ multiple[t] <= Looping!n
                                    /\ \E j \in Nat : j > 1 /\ multiple[t] = index[t] * j
  /\ pc[t] = "write" => word[t] = is_prime \cap Looping!SameWord(multiple[t])
SieveInv == /\ pc \in [Looping!Workers -> {"test", "read", "write", "done"}]
            /\ index \in [Looping!Workers -> Nat] /\ multiple \in [Looping!Workers -> Nat]
            /\ word \in [Looping!Workers -> SUBSET Nat]
            /\ is_prime = Looping!Primes
            /\ \A t \in Looping!Workers : SieveAt(t)

(* What a worker clears is no prime.                                          *)
LEMMA MultiplesAreComposite ==
  ASSUME NEW p \in Nat, p > 1, NEW j \in Nat, j > 1, NEW m, m = p * j
  PROVE  m \notin Looping!Primes
  <1>1. 2 * p <= j * p /\ j * p = p * j /\ m \in Nat
    BY Products
  <1>2. p \in 2 .. m - 1
    BY <1>1
  <1>3. m % p = 0
    BY <1>1, Divides
  <1> QED BY <1>2, <1>3 DEF Looping!Primes

(* Every block begins at 2 or above, also one that lies beyond n.             *)
LEMMA BlocksBegin ==
  ASSUME LoopNumbers, program \in Looping!Mine, program.name = "sieve", NEW t \in Looping!Workers
  PROVE  Looping!From(t) \in Nat /\ Looping!From(t) >= 2
  <1>1. Looping!n \in Nat /\ Looping!num_threads \in Nat \ {0}
    BY LoopingPrograms
  <1>2. Looping!sqrt_n \in Nat
    BY <1>1, SqrtIs
  <1>3. \A d \in Nat \ {0} : 1 \div d <= 1 /\ 1 \div d \in Nat
    <2> SUFFICES ASSUME NEW d \in Nat \ {0} PROVE 1 \div d <= 1 /\ 1 \div d \in Nat
      OBVIOUS
    <2>1. CASE d = 1
      BY <2>1
    <2>2. CASE d # 1
      BY <2>2
    <2> QED BY <2>1, <2>2
  <1>4. \A k \in Nat : \A d \in Nat \ {0} : k \div d \in Nat
    OBVIOUS
  <1>5. Looping!block_size \in Nat
    BY <1>1, <1>3, <1>2, <1>4 DEF Looping!block_size
  <1>7. t * Looping!block_size \in Nat
    BY <1>5, <1>1 DEF Looping!Workers
  <1> QED BY <1>7 DEF Looping!From, Looping!BlockFrom

(* Stage 1 leaves the primes, and no worker is in the middle of anything.     *)
LEMMA SieveInvInit ==
  LoopNumbers /\ Looping!Init /\ program.name = "sieve" => SieveInv
  <1> SUFFICES ASSUME LoopNumbers, Looping!Init, program.name = "sieve" PROVE SieveInv
    OBVIOUS
  <1>1. program \in Looping!Mine
    BY DEF Looping!Init
  <1>2. Looping!n \in Nat /\ Looping!n > 1 /\ program.begins = "test"
    BY <1>1, LoopingPrograms
  <1>4. \A t \in Looping!Workers : Looping!From(t) \in Nat /\ Looping!From(t) >= 2
    BY <1>1, BlocksBegin
  <1>5. /\ pc \in [Looping!Workers -> {"test", "done"}]
        /\ index \in [Looping!Workers -> Nat] /\ multiple \in [Looping!Workers -> Nat]
        /\ word \in [Looping!Workers -> SUBSET Nat]
    BY <1>2, <1>4 DEF Looping!Init
  <1>6. \A t \in Looping!Workers : index[t] >= 2
    BY <1>4 DEF Looping!Init
  <1> QED BY <1>5, <1>6, <1>2, StageOneIsPrimes DEF SieveInv, SieveAt, Looping!Init

(* A worker clears nothing that is set: the others' words stay what they are. *)
LEMMA SieveInvStep ==
  ASSUME LoopNumbers, program \in Looping!Mine, program.name = "sieve", SieveInv, LoopingMoves
  PROVE  SieveInv'
  <1>1. CASE UNCHANGED <<program, pc, is_prime, index, multiple, word, sum>>
    BY <1>1 DEF SieveInv, SieveAt, Looping!Workers, Looping!num_threads, Looping!Primes,
                Looping!SameWord, Looping!n
  <1>2. ASSUME NEW t \in Looping!Workers, Looping!Run(t) PROVE SieveInv'
    <2>1. /\ Looping!n' = Looping!n /\ Looping!Workers' = Looping!Workers
          /\ Looping!Primes' = Looping!Primes
          /\ \A m : Looping!SameWord(m)' = Looping!SameWord(m)
      BY <1>2 DEF Looping!Run, Looping!n, Looping!Workers, Looping!num_threads, Looping!Primes,
                  Looping!SameWord
    <2>2. Looping!n \in Nat
      BY LoopingPrograms
    <2>3. ASSUME is_prime' = is_prime,
                 pc' \in [Looping!Workers -> {"test", "read", "write", "done"}],
                 index' \in [Looping!Workers -> Nat], multiple' \in [Looping!Workers -> Nat],
                 word' \in [Looping!Workers -> SUBSET Nat], SieveAt(t)',
                 \A u \in Looping!Workers \ {t} :
                   pc'[u] = pc[u] /\ index'[u] = index[u] /\ multiple'[u] = multiple[u]
                   /\ word'[u] = word[u]
          PROVE  SieveInv'
      BY <2>3, <1>2, <2>1 DEF SieveInv, Looping!SameWord, Looping!n, Looping!Run, SieveAt
    <2> t \in Looping!Workers /\ index[t] \in Nat /\ index[t] >= 2 /\ multiple[t] \in Nat
      BY DEF SieveInv, SieveAt
    <2>5. CASE Looping!NextIndex(t, "test") /\ UNCHANGED <<is_prime, multiple, word>>
      BY <2>1, <2>3, <2>5 DEF Looping!NextIndex, Looping!Goto, SieveInv, SieveAt
    <2>6. CASE Looping!Test(t)
      BY <2>5, <2>6, <2>2, <2>1, <2>3 DEF Looping!Test, Looping!Goto, SieveInv, SieveAt
    <2>7. CASE Looping!Read(t)
      BY <2>7, <2>2, <1>2, <2>1, <2>3 DEF Looping!Read, Looping!Goto, Looping!SameWord, SieveInv,
         Looping!n, Looping!Run, SieveAt
    <2>8. CASE Looping!Write(t)
      <3>1. is_prime' = is_prime
        <4>1. PICK j \in Nat : j > 1 /\ multiple[t] = index[t] * j
          BY <2>8 DEF Looping!Write, SieveInv, SieveAt
        <4>3. word[t] = is_prime \cap Looping!SameWord(multiple[t])
          BY <2>8 DEF Looping!Write, SieveInv, SieveAt
        <4> QED BY <2>8, <4>3, <4>1, MultiplesAreComposite DEF Looping!Write, SieveInv
      <3>2. word' = [word EXCEPT ![t] = {}] /\ word' \in [Looping!Workers -> SUBSET Nat]
        BY <2>8 DEF Looping!Write, SieveInv
      <3>3. CASE multiple[t] + index[t] <= Looping!n
        <4>1. /\ multiple' = [multiple EXCEPT ![t] = @ + index[t]]
              /\ pc' = [pc EXCEPT ![t] = "read"] /\ UNCHANGED index
          BY <2>2, <2>8, <3>3 DEF Looping!Write, Looping!Goto
        <4>2. /\ pc'[t] = "read" /\ multiple'[t] = multiple[t] + index[t] /\ index'[t] = index[t]
              /\ multiple[t] + index[t] \in Nat
          BY <4>1 DEF SieveInv
        <4>3. PICK j \in Nat : j > 1 /\ multiple[t] = index[t] * j
          BY <2>8 DEF Looping!Write, SieveInv, SieveAt
        <4>4. multiple'[t] = index'[t] * (j + 1) /\ j + 1 \in Nat /\ j + 1 > 1
          BY <4>2, <4>3
        <4>5. SieveAt(t)'
          BY <2>1, <3>3, <4>2, <4>4 DEF SieveAt
        <4> QED BY <2>3, <3>1, <3>2, <4>1, <4>2, <4>5 DEF SieveInv
      <3>4. CASE multiple[t] + index[t] > Looping!n
        BY <2>2, <2>8, <3>4, <2>3, <3>1, <3>2 DEF Looping!Write, Looping!NextIndex, Looping!Goto,
           SieveInv, SieveAt
      <3> QED BY <2>2, <3>3, <3>4
    <2> QED BY <1>2, <2>6, <2>7, <2>8 DEF Looping!Run, Looping!Add, SieveInv
  <1> QED BY <1>1, <1>2 DEF LoopingMoves, SieveInv

(* Quotient and rest, by name.                                                *)
LEMMA Quotient ==
  ASSUME NEW m \in Nat, NEW d \in Nat \ {0}
  PROVE  \E j \in Nat, r \in 0 .. d - 1 : m \div d = j /\ m % d = r /\ m = d * j + r
  <1>1. PICK j \in Nat, r \in 0 .. d - 1 : m = d * j + r
    BY Division
  <1>3. m \div d = j
    BY <1>1
  <1> QED BY <1>1, <1>3

(* std::min.                                                                  *)
LEMMA SmallerOf ==
  ASSUME NEW a \in Nat, NEW b \in Nat
  PROVE  Looping!Min({a, b}) = IF a <= b THEN a ELSE b
  <1>2. Looping!Min({a, b}) \in {a, b} /\ \A y \in {a, b} : Looping!Min({a, b}) <= y
    BY DEF Looping!Min
  <1> QED BY <1>2

(* The shares of the threads: the rest goes to the first ones.                *)
LEMMA Shares ==
  ASSUME Looping!n \in Nat, Looping!num_threads \in Nat \ {0},
         NEW t \in 0 .. Looping!num_threads
  PROVE  /\ Looping!ShotsBefore(t) \in 0 .. Looping!n
         /\ t = 0 => Looping!ShotsBefore(t) = 0
         /\ t = Looping!num_threads => Looping!ShotsBefore(t) = Looping!n
         /\ t # Looping!num_threads =>
              Looping!ShotsBefore(t + 1) =
                Looping!ShotsBefore(t) + Looping!n \div Looping!num_threads + Looping!Extra(t)
         /\ Looping!n \div Looping!num_threads \in Nat
  <1> DEFINE m == Looping!n
             k == Looping!num_threads
  <1>1. PICK j \in Nat, r \in 0 .. k - 1 : m \div k = j /\ m % k = r /\ m = k * j + r
    BY Quotient
  <1> j \in Nat /\ r \in 0 .. k - 1 /\ m = k * j + r
    BY <1>1
  <1>3. \A x \in Nat : Looping!ShotsBefore(x) = x * j + (IF x <= r THEN x ELSE r)
    BY <1>1, SmallerOf DEF Looping!ShotsBefore
  <1>4. Looping!Extra(t) = IF t < r THEN 1 ELSE 0
    BY <1>1 DEF Looping!Extra
  <1>5. t * j <= k * j /\ t * j \in Nat /\ k * j \in Nat
    BY Products
  <1>6. (t + 1) * j = t * j + j
    OBVIOUS
  <1>7. Looping!ShotsBefore(t) = t * j + (IF t <= r THEN t ELSE r)
    BY <1>3
  <1>8. Looping!ShotsBefore(t) \in 0 .. m /\ (t = 0 => Looping!ShotsBefore(t) = 0)
    <2> HIDE DEF m, k
    <2> QED BY <1>5, <1>7
  <1>10. t # k => Looping!ShotsBefore(t + 1) = Looping!ShotsBefore(t) + j + Looping!Extra(t)
    <2>1. Looping!ShotsBefore(t + 1) = t * j + j + (IF t + 1 <= r THEN t + 1 ELSE r)
      BY <1>3, <1>6
    <2> QED BY <1>4, <1>5, <1>7, <2>1
  <1> QED BY <1>1, <1>8, <1>10, <1>7

(* The chunks of parallel_sum are the same shares.                            *)
LEMMA ChunksAreShares ==
  ASSUME Looping!n \in Nat, Looping!num_threads \in Nat \ {0}
  PROVE  \A t \in 0 .. Looping!num_threads : Looping!ChunkStart[t] = Looping!ShotsBefore(t)
  <1> DEFINE m == Looping!n
             k == Looping!num_threads
             D(f) == [t \in 0 .. k |->
                        IF t = 0 THEN 0
                        ELSE Looping!Min({f[t - 1] + m \div k + Looping!Extra(t - 1), m})]
  <1>1. PICK s : s = [t \in 0 .. k |-> Looping!ShotsBefore(t)]
    OBVIOUS
  <1>2. \A t \in 0 .. k : /\ s[t] \in 0 .. m
                          /\ t = 0 => s[t] = 0
                          /\ t # k => s[t + 1] = s[t] + m \div k + Looping!Extra(t)
    <2> SUFFICES ASSUME NEW t \in 0 .. k
                 PROVE  /\ s[t] \in 0 .. m
                        /\ t = 0 => s[t] = 0
                        /\ t # k => s[t + 1] = s[t] + m \div k + Looping!Extra(t)
      OBVIOUS
    <2> QED BY Shares, <1>1
  <1>3. ASSUME NEW t \in 1 .. k PROVE s[t] = Looping!Min({s[t - 1] + m \div k + Looping!Extra(t - 1), m})
    <2>2. s[t] = s[t - 1] + m \div k + Looping!Extra(t - 1)
      BY <1>2
    <2>3. s[t] \in 0 .. m
      BY <1>2
    <2>4. Looping!Min({s[t], m}) = s[t]
      BY <2>3, SmallerOf
    <2> QED BY <2>2, <2>4
  <1>4. s = D(s)
    <2>1. \A t \in 0 .. k : s[t] = IF t = 0 THEN 0
                              ELSE Looping!Min({s[t - 1] + m \div k + Looping!Extra(t - 1), m})
      BY <1>2, <1>3
    <2> QED BY <1>1, <2>1
  <1>5. Looping!ChunkStart = D(Looping!ChunkStart)
    <2>1. \E h : h = D(h)
      BY <1>4
    <2>2. Looping!ChunkStart = CHOOSE h : h = D(h)
      BY DEF Looping!ChunkStart
    <2> HIDE DEF D
    <2> QED BY <2>1, <2>2, Zenon
  <1>6. PICK g : g = Looping!ChunkStart
    OBVIOUS
  <1>7. /\ g[0] = 0
        /\ \A t \in 1 .. k : g[t] = Looping!Min({g[t - 1] + m \div k + Looping!Extra(t - 1), m})
    <2>1. g = D(g)
      <3> HIDE DEF D
      <3> QED BY <1>5, <1>6
    <2>2. \A t \in 0 .. k : g[t] = IF t = 0 THEN 0
                              ELSE Looping!Min({g[t - 1] + m \div k + Looping!Extra(t - 1), m})
      BY <2>1, Zenon
    <2>3. 0 \in 0 .. k /\ \A t \in 1 .. k : t \in 0 .. k /\ t # 0
      OBVIOUS
    <2> QED BY <2>2, <2>3, Zenon
  <1> DEFINE T == {t \in 0 .. k : g[t] # s[t]}
  <1>8. T = {}
    <2> SUFFICES ASSUME T # {} PROVE FALSE
      OBVIOUS
    <2>1. PICK t \in T : \A l \in T : t <= l
      <3>1. T \subseteq Nat
        OBVIOUS
      <3> HIDE DEF T
      <3> QED BY <3>1, LeastNat
    <2>3. t \in 1 .. k /\ t - 1 \in 0 .. k /\ ~(t <= t - 1)
      BY <1>2, <1>7, <2>1
    <2> QED BY <1>3, <1>7, <2>1, <2>3
  <1> QED BY <1>1, <1>6, <1>8

(* Where the threads' parts begin and end.                                    *)
LEMMA Boundaries ==
  ASSUME LoopNumbers, program \in Looping!Mine, program.name # "sieve"
  PROVE  \E B \in [0 .. Looping!num_threads -> Nat] :
           /\ B[0] = 0 /\ B[Looping!num_threads] = Looping!n
           /\ \A t \in Looping!Workers :
                Looping!From(t) = B[t] /\ Looping!End(t) = B[t + 1] /\ B[t] <= B[t + 1]
  <1> /\ Looping!n \in Nat /\ Looping!num_threads \in Nat \ {0}
      /\ program.name = "quarters" => Looping!num_threads = 4
      /\ program.name \in {"sum", "quarters", "shots"}
    BY LoopingPrograms DEF Looping!Runs
  <1>1. Looping!Workers = 0 .. Looping!num_threads - 1
    BY DEF Looping!Workers
  <1>2. CASE program.name = "quarters"
    <2>1. Looping!num_threads = 4 /\ Looping!Workers = 0 .. 3
      BY <1>1, <1>2
    <2>2. PICK B : B = [k \in 0 .. 4 |-> Looping!Quarter(k)]
      OBVIOUS
    <2>3. /\ Looping!Quarter(0) = 0 /\ Looping!Quarter(1) = Looping!n \div 4
          /\ Looping!Quarter(2) = (2 * Looping!n) \div 4
          /\ Looping!Quarter(3) = (3 * Looping!n) \div 4
          /\ Looping!Quarter(4) = Looping!n
      BY DEF Looping!Quarter
    <2>5. \A t \in Looping!Workers : /\ Looping!From(t) = Looping!Quarter(t)
                                    /\ Looping!End(t) = Looping!Quarter(t + 1)
      BY <1>2 DEF Looping!From, Looping!End
    <2> QED BY <2>1, <2>2, <2>3, <2>5
  <1>3. CASE program.name \in {"sum", "shots"}
    <2>1. PICK B : B = [k \in 0 .. Looping!num_threads |-> Looping!ShotsBefore(k)]
      OBVIOUS
    <2>2. \A t \in 0 .. Looping!num_threads :
            /\ B[t] \in 0 .. Looping!n
            /\ t = 0 => B[t] = 0
            /\ t = Looping!num_threads => B[t] = Looping!n
      BY <2>1, Shares
    <2>3. ASSUME NEW t \in Looping!Workers
          PROVE  /\ Looping!From(t) = B[t] /\ Looping!End(t) = B[t + 1] /\ B[t] <= B[t + 1]
      <3>1. t \in 0 .. Looping!num_threads /\ t # Looping!num_threads /\ t + 1 \in 0 .. Looping!num_threads
        BY <1>1
      <3>2. /\ Looping!ShotsBefore(t + 1) =
                 Looping!ShotsBefore(t) + Looping!n \div Looping!num_threads + Looping!Extra(t)
            /\ Looping!n \div Looping!num_threads \in Nat
        BY <3>1, Shares
      <3>3. Looping!From(t) = Looping!ShotsBefore(t) /\ Looping!End(t) = Looping!ShotsBefore(t + 1)
        BY <3>1, ChunksAreShares, Shares, <3>2, <1>3 DEF Looping!From, Looping!End,
           Looping!ChunkEnd, Looping!Extra, Looping!local_shots
      <3>4. B[t] = Looping!ShotsBefore(t) /\ B[t + 1] = Looping!ShotsBefore(t + 1)
        BY <2>1, <3>1
      <3> QED BY <3>2, <3>3, <3>4, <2>2, <3>1 DEF Looping!Extra
    <2>4. B \in [0 .. Looping!num_threads -> Nat]
      BY <2>1, <2>2
    <2>5. B[0] = 0 /\ B[Looping!num_threads] = Looping!n
      BY <2>2
    <2> QED BY <2>3, <2>4, <2>5
  <1> QED BY <1>2, <1>3

(* Steps that go up from 0 to m pass every number below m exactly once.       *)
LEMMA StepsCover ==
  ASSUME NEW m \in Nat, NEW k \in Nat \ {0}, NEW B \in [0 .. k -> Nat],
         B[0] = 0, B[k] = m, \A t \in 0 .. k - 1 : B[t] <= B[t + 1]
  PROVE  /\ \A t, u \in 0 .. k : t <= u => B[t] <= B[u]
         /\ \A e \in 0 .. m - 1 : \E t \in 0 .. k - 1 : e \in B[t] .. B[t + 1] - 1
  <1>1. ASSUME NEW t \in 0 .. k PROVE \A u \in 0 .. k : t <= u => B[t] <= B[u]
    <2> DEFINE T == {u \in 0 .. k : t <= u /\ ~(B[t] <= B[u])}
    <2> SUFFICES ASSUME T # {} PROVE FALSE
      OBVIOUS
    <2>1. PICK u \in T : \A l \in T : u <= l
      <3>1. T \subseteq Nat
        OBVIOUS
      <3> HIDE DEF T
      <3> QED BY <3>1, LeastNat
    <2>2. u \in 0 .. k /\ t < u /\ B[u] \in Nat /\ B[t] \in Nat
      BY <2>1
    <2>4. B[t] <= B[u - 1] /\ B[u - 1] <= B[u] /\ B[u - 1] \in Nat
      BY <2>1, <2>2
    <2> QED BY <2>1, <2>2, <2>4
  <1>2. ASSUME NEW e \in 0 .. m - 1 PROVE \E t \in 0 .. k - 1 : e \in B[t] .. B[t + 1] - 1
    <2> DEFINE T == {u \in 0 .. k : e < B[u]}
    <2>1. PICK u \in T : \A l \in T : u <= l
      <3>1. T \subseteq Nat /\ k \in T
        OBVIOUS
      <3> HIDE DEF T
      <3> QED BY <3>1, LeastNat
    <2>2. u \in 0 .. k /\ e < B[u] /\ u # 0 /\ B[u] \in Nat
      BY <2>1
    <2>3. u - 1 \in 0 .. k - 1 /\ u - 1 \in 0 .. k /\ ~(u <= u - 1) /\ (u - 1) + 1 = u
      BY <2>2
    <2>5. B[(u - 1) + 1] = B[u] /\ e \in B[u - 1] .. B[u] - 1
      BY <2>2, <2>3, <2>1
    <2> QED BY <2>3, <2>5
  <1> QED BY <1>1, <1>2

(* What a thread has added: the elements of its part before its index.        *)
AddAt(t) == /\ pc[t] \in {"add", "done"}
            /\ Looping!From(t) <= index[t] /\ index[t] <= Looping!End(t)
            /\ pc[t] = "add" <=> index[t] < Looping!End(t)
            /\ sum[t] = Looping!From(t) .. index[t] - 1
AddInv == /\ pc \in [Looping!Workers -> {"add", "done"}]
          /\ index \in [Looping!Workers -> Nat] /\ DOMAIN sum = Looping!Workers
          /\ sum = [t \in Looping!Workers |-> sum[t]]
          /\ \A t \in Looping!Workers : AddAt(t)

(* No thread's part ends before it begins.                                    *)
LEMMA Ends ==
  ASSUME LoopNumbers, program \in Looping!Mine, program.name # "sieve", NEW t \in Looping!Workers
  PROVE  Looping!From(t) \in Nat /\ Looping!End(t) \in Nat /\ Looping!From(t) <= Looping!End(t)
  <1>1. PICK B \in [0 .. Looping!num_threads -> Nat] :
          Looping!From(t) = B[t] /\ Looping!End(t) = B[t + 1] /\ B[t] <= B[t + 1]
    BY Boundaries
  <1> QED BY <1>1, LoopingPrograms DEF Looping!Workers

(* Nothing is added yet, and a thread without elements is done.               *)
LEMMA AddInvInit ==
  LoopNumbers /\ Looping!Init /\ program.name # "sieve" => AddInv
  <1> SUFFICES ASSUME LoopNumbers, Looping!Init, program.name # "sieve" PROVE AddInv
    OBVIOUS
  <1>1. program \in Looping!Mine
    BY DEF Looping!Init
  <1>2. program.begins = "add"
    BY <1>1, LoopingPrograms
  <1>3. \A t \in Looping!Workers : /\ Looping!From(t) \in Nat /\ Looping!End(t) \in Nat
                                  /\ Looping!From(t) <= Looping!End(t)
    BY <1>1, Ends
  <1>5. ASSUME NEW t \in Looping!Workers PROVE AddAt(t)
    BY <1>2, <1>3 DEF Looping!Init, AddAt
  <1> QED BY <1>5, <1>2, <1>3 DEF AddInv, Looping!Init

(* The parts depend on the program only.                                      *)
LEMMA PartsStay ==
  ASSUME UNCHANGED program
  PROVE  /\ Looping!n' = Looping!n /\ Looping!Workers' = Looping!Workers
         /\ Looping!num_threads' = Looping!num_threads
         /\ \A t : Looping!From(t)' = Looping!From(t) /\ Looping!End(t)' = Looping!End(t)
  <1> USE DEF Looping!n, Looping!num_threads, Looping!Workers
  <1>1. Looping!sqrt_n' = Looping!sqrt_n /\ Looping!block_size' = Looping!block_size
    BY DEF Looping!sqrt_n, Looping!block_size
  <1>2. Looping!ChunkStart' = Looping!ChunkStart
    BY DEF Looping!ChunkStart, Looping!Extra
  <1> QED BY <1>1, <1>2 DEF Looping!From, Looping!End, Looping!BlockFrom, Looping!BlockEnd,
                    Looping!ChunkEnd, Looping!Quarter, Looping!ShotsBefore, Looping!local_shots,
                    Looping!Extra

(* A turn of the loop adds the element at the index and goes on behind it.    *)
LEMMA AddInvStep ==
  ASSUME LoopNumbers, program \in Looping!Mine, program.name # "sieve", AddInv, LoopingMoves
  PROVE  AddInv'
  <1>0. UNCHANGED program
    BY DEF LoopingMoves, Looping!Run
  <1>1. CASE UNCHANGED <<program, pc, is_prime, index, multiple, word, sum>>
    BY <1>0, <1>1, PartsStay DEF AddInv, AddAt
  <1>2. ASSUME NEW t \in Looping!Workers, Looping!Run(t) PROVE AddInv'
    <2>1. Looping!Add(t)
      BY <1>2 DEF Looping!Run, Looping!Test, Looping!Read, Looping!Write, AddInv
    <2>2. /\ pc[t] = "add" /\ sum' = [sum EXCEPT ![t] = @ \cup {index[t]}]
          /\ index' = [index EXCEPT ![t] = @ + 1]
          /\ pc' = [pc EXCEPT ![t] = IF index'[t] < Looping!End(t) THEN "add" ELSE "done"]
      BY <2>1 DEF Looping!Add, Looping!NextIndex, Looping!Goto
    <2>3. AddAt(t) /\ index[t] \in Nat
      BY DEF AddInv
    <2>4. Looping!From(t) \in Nat /\ Looping!End(t) \in Nat
      BY Ends
    <2>5. /\ index'[t] = index[t] + 1 /\ sum'[t] = sum[t] \cup {index[t]}
          /\ pc'[t] = IF index'[t] < Looping!End(t) THEN "add" ELSE "done"
      BY <2>2 DEF AddInv
    <2>6. sum'[t] = Looping!From(t) .. index'[t] - 1
      BY <2>3, <2>4, <2>5 DEF AddAt
    <2>7. AddAt(t)'
      BY <1>0, PartsStay, <2>2, <2>3, <2>4, <2>5, <2>6 DEF AddAt
    <2>8. ASSUME NEW u \in Looping!Workers, u # t PROVE AddAt(u)'
      BY <2>2, <2>8, <1>0, PartsStay DEF AddInv, AddAt
    <2>9. \A u \in Looping!Workers : AddAt(u)'
      BY <2>7, <2>8
    <2>10. /\ pc' \in [Looping!Workers -> {"add", "done"}]
           /\ index' \in [Looping!Workers -> Nat] /\ DOMAIN sum' = Looping!Workers
           /\ sum' = [u \in Looping!Workers |-> sum'[u]]
      <3>2. pc' = [pc EXCEPT ![t] = pc'[t]] /\ index' = [index EXCEPT ![t] = index[t] + 1]
        BY <2>2 DEF AddInv
      <3>3. /\ pc' \in [Looping!Workers -> {"add", "done"}]
            /\ index' \in [Looping!Workers -> Nat]
        BY <3>2, <2>3, <2>5 DEF AddInv
      <3> QED BY <3>3, <2>2 DEF AddInv
    <2> QED BY <1>0, <2>9, <2>10, PartsStay DEF AddInv
  <1> QED BY <1>1, <1>2 DEF LoopingMoves, AddInv

(* The parts of two threads are apart, and together they are the whole.       *)
LEMMA AddedApart ==
  ASSUME LoopNumbers, program \in Looping!Mine, program.name # "sieve", AddInv
  PROVE  /\ \A t, u \in Looping!Workers : t # u => sum[t] \cap sum[u] = {}
         /\ Looping!Finished => UNION {sum[t] : t \in Looping!Workers} = 0 .. Looping!n - 1
  <1>0. Looping!n \in Nat /\ Looping!num_threads \in Nat \ {0}
    BY LoopingPrograms
  <1>1. Looping!Workers = 0 .. Looping!num_threads - 1
    BY DEF Looping!Workers
  <1>2. PICK B \in [0 .. Looping!num_threads -> Nat] :
           /\ B[0] = 0 /\ B[Looping!num_threads] = Looping!n
           /\ \A t \in Looping!Workers :
                Looping!From(t) = B[t] /\ Looping!End(t) = B[t + 1] /\ B[t] <= B[t + 1]
    BY Boundaries
  <1>3. /\ \A t, u \in 0 .. Looping!num_threads : t <= u => B[t] <= B[u]
        /\ \A e \in 0 .. Looping!n - 1 : \E t \in 0 .. Looping!num_threads - 1 : e \in B[t] .. B[t + 1] - 1
    BY <1>0, <1>1, <1>2, StepsCover
  <1>4. ASSUME NEW t \in Looping!Workers
        PROVE  /\ sum[t] = B[t] .. index[t] - 1 /\ index[t] \in Nat
               /\ index[t] <= B[t + 1] /\ B[t + 1] \in Nat /\ B[t] \in Nat
               /\ B[t + 1] <= Looping!n
               /\ pc[t] = "done" => index[t] = B[t + 1]
    BY <1>0, <1>1, <1>3, <1>2 DEF AddInv, AddAt
  <1>5. ASSUME NEW t \in Looping!Workers, NEW u \in Looping!Workers, t < u
        PROVE  sum[t] \cap sum[u] = {}
    <2>1. B[t + 1] <= B[u]
      BY <1>0, <1>1, <1>5, <1>3
    <2>3. sum[u] = B[u] .. index[u] - 1 /\ index[u] \in Nat /\ B[u] \in Nat
      BY <1>4
    <2> QED BY <2>1, <2>3, <1>4
  <1>7. ASSUME Looping!Finished PROVE UNION {sum[t] : t \in Looping!Workers} = 0 .. Looping!n - 1
    <2>1. ASSUME NEW t \in Looping!Workers PROVE sum[t] = B[t] .. B[t + 1] - 1
      <3> QED BY <1>4, <1>7 DEF Looping!Finished, AddInv
    <2>2. ASSUME NEW t \in Looping!Workers, NEW e \in sum[t] PROVE e \in 0 .. Looping!n - 1
      BY <1>0, <1>4, <2>1, <2>2
    <2>3. ASSUME NEW e \in 0 .. Looping!n - 1 PROVE \E t \in Looping!Workers : e \in sum[t]
      BY <1>1, <1>3, <2>1
    <2> QED BY <2>2, <2>3
  <1> QED BY <1>7, <1>1, <1>5

(* The vector of the sieve holds the primes up to n, whatever n, the number   *)
(* of workers and of elements to a word: no worker clears a prime, and none   *)
(* sets a composite again with an old word.  In the loops that add, no two    *)
(* threads take the same element, and together they take all, however many    *)
(* elements and threads there are.                                            *)
THEOREM LoopsComputeExactly ==
  ASSUME Limits \subseteq Nat \ {0, 1}, Sizes \subseteq Nat, Teams \subseteq Nat \ {0}
  PROVE  Spec => []LoopsAreExact
  <1> DEFINE J == Looping!Runs => /\ program \in Looping!Mine
                                  /\ program.name = "sieve" => SieveInv
                                  /\ program.name # "sieve" => AddInv
  <1>0. LoopNumbers
    BY DEF LoopNumbers
  <1>1. Init => J
    <2> SUFFICES ASSUME Init, Looping!Runs
                 PROVE  /\ program \in Looping!Mine
                        /\ program.name = "sieve" => SieveInv
                        /\ program.name # "sieve" => AddInv
      OBVIOUS
    <2>1. Looping!Init
      BY DEF Init
    <2> QED BY <1>0, <2>1, SieveInvInit, AddInvInit DEF Looping!Init
  <1>2. J /\ [Next]_vars => J'
    <2> SUFFICES ASSUME J, [Next]_vars PROVE J'
      OBVIOUS
    <2>1. UNCHANGED program /\ (Looping!Runs' <=> Looping!Runs) /\ Looping!Mine' = Looping!Mine
      BY ProgramStays DEF Looping!Runs, Looping!Mine, Looping!ParallelSieve, Looping!ParallelSum,
                          Looping!AddParallel, Looping!MonteCarlo
    <2>2. Looping!Runs => LoopingMoves
      BY OneModuleRuns
    <2>3. CASE ~Looping!Runs
      BY <2>1, <2>3
    <2>4. CASE Looping!Runs /\ program.name = "sieve"
      <3> QED BY <2>1, <2>4, <1>0, <2>2, SieveInvStep
    <2>5. CASE Looping!Runs /\ program.name # "sieve"
      <3> QED BY <2>1, <2>5, <1>0, <2>2, AddInvStep
    <2> QED BY <2>3, <2>4, <2>5
  <1>3. J => LoopsAreExact
    BY <1>0, AddedApart DEF LoopsAreExact, Looping!SieveIsExact, Looping!EachAddedOnce, SieveInv
  <1> HIDE DEF J
  <1> QED BY <1>1, <1>2, <1>3, PTL DEF Spec
--------------------------------------------------------------------------------
(* Functions defined by recursion to a smaller argument p[t]: they exist, and *)
(* two that agree at 0 agree everywhere.                                      *)
Decreases(p, m) == m \in Nat /\ \A t \in 1 .. m : p[t] \in Nat /\ p[t] < t
Closed(g, S, m) == \A t \in 1 .. m : \A x \in S : g[t][x] \in S
Recurs(f, a, p, g, m) == f[0] = a /\ \A t \in 1 .. m : f[t] = g[t][f[p[t]]]
Agree(f, h, p, m) == h[0] = f[0] /\ \A t \in 1 .. m : h[p[t]] = f[p[t]] => h[t] = f[t]
Same(f, h, m) == \A t \in 0 .. m : h[t] = f[t]

LEMMA Recurrence ==
  ASSUME NEW m, NEW p, Decreases(p, m), NEW S, NEW a \in S, NEW g, Closed(g, S, m)
  PROVE  \E f \in [0 .. m -> S] : Recurs(f, a, p, g, m)
  <1> USE DEF Decreases, Closed, Recurs
  <1> DEFINE Ok(f, k) == f \in [0 .. k -> S] /\ f[0] = a /\ \A t \in 1 .. k : f[t] = g[t][f[p[t]]]
             T == {k \in 0 .. m : ~\E f : Ok(f, k)}
  <1>1. T = {}
    <2> SUFFICES ASSUME T # {} PROVE FALSE
      OBVIOUS
    <2>1. PICK k \in T : \A l \in T : k <= l
      <3>1. T \subseteq Nat
        OBVIOUS
      <3> HIDE DEF T
      <3> QED BY <3>1, LeastNat
    <2>2. CASE k = 0
      <3>1. Ok([x \in 0 .. 0 |-> a], 0)
        OBVIOUS
      <3> QED BY <2>1, <2>2, <3>1
    <2>3. CASE k # 0
      <3> k - 1 \in 0 .. m /\ k - 1 \notin T /\ k \in 1 .. m
        <4>1. k - 1 \in 0 .. m /\ k \in 1 .. m /\ ~(k <= k - 1)
          BY <2>1, <2>3
        <4> HIDE DEF T
        <4> QED BY <2>1, <4>1
      <3>2. PICK f : Ok(f, k - 1)
        OBVIOUS
      <3>3. \A t \in 1 .. k : p[t] \in 0 .. k - 1 /\ t \in 1 .. m
        OBVIOUS
      <3>4. PICK v : v = g[k][f[p[k]]]
        OBVIOUS
      <3>5. v \in S
        BY <3>2, <3>3, <3>4
      <3>6. PICK h : h = [x \in 0 .. k |-> IF x = k THEN v ELSE f[x]]
        OBVIOUS
      <3>7. \A x \in 0 .. k - 1 : h[x] = f[x] /\ h[x] \in S
        BY <3>2, <3>6
      <3>8. h[k] = v /\ h[0] = a
        BY <3>2, <3>6, <3>7
      <3>9. h \in [0 .. k -> S]
        <4>2. \A x \in 0 .. k : h[x] \in S
          BY <3>5, <3>7, <3>8
        <4> QED BY <3>6, <4>2
      <3>10. ASSUME NEW t \in 1 .. k PROVE h[t] = g[t][h[p[t]]]
        BY <3>3, <3>7, <3>4, <3>8, <3>2
      <3> QED BY <2>1, <3>8, <3>9, <3>10
    <2> QED BY <2>2, <2>3
  <1>2. m \in 0 .. m
    OBVIOUS
  <1>3. PICK f : Ok(f, m)
    BY <1>1, <1>2
  <1> QED BY <1>3

LEMMA Unrolled ==
  ASSUME NEW m, NEW p, Decreases(p, m), NEW f, NEW h, Agree(f, h, p, m)
  PROVE  Same(f, h, m)
  <1> USE DEF Decreases, Agree, Same
  <1> DEFINE T == {t \in 0 .. m : h[t] # f[t]}
  <1> SUFFICES ASSUME T # {} PROVE FALSE
    OBVIOUS
  <1>1. PICK t \in T : \A l \in T : t <= l
    <2>1. T \subseteq Nat
      OBVIOUS
    <2> HIDE DEF T
    <2> QED BY <2>1, LeastNat
  <1>2. t \in 1 .. m
    BY <1>1
  <1>4. h[p[t]] = f[p[t]]
    BY <1>1, <1>2
  <1> QED BY <1>1, <1>2, <1>4

(* Every level has threads.                                                   *)
Branching == program.dims \in Seq(Nat \ {0}) /\ program.dims # <<>>
Depth == Spawning!Depth
Width == Spawning!Width
Start == Spawning!Start

LEMMA DepthIs ==
  ASSUME Branching
  PROVE  Depth \in Nat \ {0} /\ \A l \in 1 .. Depth : program.dims[l] \in Nat \ {0}
  BY DEF Branching, Depth, Spawning!Depth

LEMMA WidthIs ==
  ASSUME Branching
  PROVE  /\ Width \in [0 .. Depth -> Nat \ {0}] /\ Width[0] = 1
         /\ \A l \in 1 .. Depth : Width[l] = Width[l - 1] * program.dims[l]
  <1>0. PICK d, m : d = program.dims /\ m = Depth
    OBVIOUS
  <1> m \in Nat \ {0} /\ \A l \in 1 .. m : d[l] \in Nat \ {0}
    BY <1>0, DepthIs
  <1> DEFINE D(f) == [l \in 0 .. m |-> IF l = 0 THEN 1 ELSE f[l - 1] * d[l]]
  <1>2. PICK p : p = [l \in 1 .. m |-> l - 1]
    OBVIOUS
  <1>3. PICK g : g = [l \in 1 .. m |-> [x \in Nat \ {0} |-> x * d[l]]]
    OBVIOUS
  <1>4. \A l \in 1 .. m : p[l] = l - 1 /\ p[l] \in Nat /\ p[l] < l
    BY <1>2
  <1>5. \A l \in 1 .. m : \A x \in Nat \ {0} : x * d[l] \in Nat \ {0} /\ g[l][x] = x * d[l]
    BY Products, <1>3
  <1>6. \A l \in 1 .. m : \A x \in Nat \ {0} : g[l][x] \in Nat \ {0}
    BY <1>5
  <1> PICK f \in [0 .. m -> Nat \ {0}] : f[0] = 1 /\ \A l \in 1 .. m : f[l] = g[l][f[p[l]]]
    <2>1. Decreases(p, m) /\ Closed(g, Nat \ {0}, m) /\ 1 \in Nat \ {0}
      BY <1>4, <1>6 DEF Decreases, Closed
    <2>2. \E f \in [0 .. m -> Nat \ {0}] : Recurs(f, 1, p, g, m)
      BY <2>1, Recurrence
    <2> QED BY <2>2 DEF Recurs
  <1>8. \A l \in 1 .. m : f[l] = f[l - 1] * d[l]
    <2> SUFFICES ASSUME NEW l \in 1 .. m PROVE f[l] = f[l - 1] * d[l]
      OBVIOUS
    <2>1. f[l - 1] \in Nat \ {0} /\ p[l] = l - 1
      BY <1>4
    <2> QED BY <1>5, <2>1
  <1>9. f = D(f)
    BY <1>8
  <1>10. Width = D(Width)
    <2>1. \E h : h = D(h)
      BY <1>9
    <2>2. Width = CHOOSE h : h = D(h)
      BY <1>0 DEF Width, Depth, Spawning!Width
    <2> HIDE DEF D
    <2> QED BY <2>1, <2>2, Zenon
  <1>11. PICK w : w = Width
    OBVIOUS
  <1>12. w[0] = 1 /\ \A l \in 1 .. m : w[l] = w[l - 1] * d[l]
    <2>1. w = D(w)
      <3> HIDE DEF D
      <3> QED BY <1>10, <1>11
    <2>2. \A l \in 0 .. m : w[l] = IF l = 0 THEN 1 ELSE w[l - 1] * d[l]
      BY <2>1, Zenon
    <2>3. 0 \in 0 .. m /\ \A l \in 1 .. m : l \in 0 .. m /\ l # 0
      OBVIOUS
    <2> QED BY <2>2, <2>3, Zenon
  <1>13. \A l \in 0 .. m : w[l] = f[l]
    <2>2. Decreases(p, m) /\ Agree(f, w, p, m)
      BY <1>4, <1>12, <1>8 DEF Decreases, Agree
    <2>3. Same(f, w, m)
      BY <2>2, Unrolled
    <2> QED BY <2>3 DEF Same
  <1>14. w = f
    <2>1. w = [l \in 0 .. m |-> w[l]]
      <3>1. w = D(w)
        <4> HIDE DEF D
        <4> QED BY <1>10, <1>11
      <3> QED BY <3>1
    <2> QED BY <1>13, <2>1
  <1> QED BY <1>0, <1>8, <1>11, <1>14

LEMMA StartIs ==
  ASSUME Branching
  PROVE  /\ Start \in [0 .. Depth -> Nat] /\ Start[0] = 0
         /\ \A l \in 1 .. Depth : Start[l] = Start[l - 1] + Width[l - 1]
  <1>0. PICK w, m : w = Width /\ m = Depth
    OBVIOUS
  <1> m \in Nat \ {0} /\ \A l \in 1 .. m : w[l - 1] \in Nat
    BY <1>0, DepthIs, WidthIs
  <1> DEFINE D(f) == [l \in 0 .. m |-> IF l = 0 THEN 0 ELSE f[l - 1] + w[l - 1]]
  <1>2. PICK p : p = [l \in 1 .. m |-> l - 1]
    OBVIOUS
  <1>3. PICK g : g = [l \in 1 .. m |-> [x \in Nat |-> x + w[l - 1]]]
    OBVIOUS
  <1>4. \A l \in 1 .. m : p[l] = l - 1 /\ p[l] \in Nat /\ p[l] < l
    BY <1>2
  <1>5. \A l \in 1 .. m : \A x \in Nat : x + w[l - 1] \in Nat /\ g[l][x] = x + w[l - 1]
    BY <1>3
  <1>6. \A l \in 1 .. m : \A x \in Nat : g[l][x] \in Nat
    BY <1>5
  <1> PICK f \in [0 .. m -> Nat] : f[0] = 0 /\ \A l \in 1 .. m : f[l] = g[l][f[p[l]]]
    <2>2. \E f \in [0 .. m -> Nat] : Recurs(f, 0, p, g, m)
      BY Recurrence, <1>4, <1>6 DEF Decreases, Closed
    <2> QED BY <2>2 DEF Recurs
  <1>8. \A l \in 1 .. m : f[l] = f[l - 1] + w[l - 1]
    <2> SUFFICES ASSUME NEW l \in 1 .. m PROVE f[l] = f[l - 1] + w[l - 1]
      OBVIOUS
    <2>1. f[l - 1] \in Nat /\ p[l] = l - 1
      BY <1>4
    <2> QED BY <1>5, <2>1
  <1>9. f = D(f)
    BY <1>8
  <1>10. Start = D(Start)
    <2>1. \E h : h = D(h)
      BY <1>9
    <2>2. Start = CHOOSE h : h = D(h)
      BY <1>0 DEF Start, Width, Depth, Spawning!Start
    <2> HIDE DEF D
    <2> QED BY <2>1, <2>2, Zenon
  <1>11. PICK s : s = Start
    OBVIOUS
  <1>12. s[0] = 0 /\ \A l \in 1 .. m : s[l] = s[l - 1] + w[l - 1]
    <2>1. s = D(s)
      <3> HIDE DEF D
      <3> QED BY <1>10, <1>11
    <2>2. \A l \in 0 .. m : s[l] = IF l = 0 THEN 0 ELSE s[l - 1] + w[l - 1]
      BY <2>1, Zenon
    <2>3. 0 \in 0 .. m /\ \A l \in 1 .. m : l \in 0 .. m /\ l # 0
      OBVIOUS
    <2> QED BY <2>2, <2>3, Zenon
  <1>13. \A l \in 0 .. m : s[l] = f[l]
    <2>2. Decreases(p, m) /\ Agree(f, s, p, m)
      BY <1>4, <1>12, <1>8 DEF Decreases, Agree
    <2>3. Same(f, s, m)
      BY <2>2, Unrolled
    <2> QED BY <2>3 DEF Same
  <1>14. s = f
    <2>1. s = [l \in 0 .. m |-> s[l]]
      <3>1. s = D(s)
        <4> HIDE DEF D
        <4> QED BY <1>10, <1>11
      <3> QED BY <3>1
    <2> QED BY <1>13, <2>1
  <1> QED BY <1>0, <1>8, <1>11, <1>14

(* The levels follow one another: each thread is in one of them.              *)
LEMMA LevelsCover ==
  ASSUME NEW m \in Nat \ {0}, NEW w \in [0 .. m -> Nat \ {0}], NEW s \in [0 .. m -> Nat],
         s[0] = 0, \A l \in 1 .. m : s[l] = s[l - 1] + w[l - 1]
  PROVE  /\ \A t \in 0 .. s[m] + w[m] - 1 : \E l \in 0 .. m : t \in s[l] .. s[l] + w[l] - 1
         /\ \A k, l \in 0 .. m : k < l => s[k] + w[k] <= s[l]
         /\ \A l \in 0 .. m : s[l] + w[l] <= s[m] + w[m]
  <1>1. PICK B : B = [l \in 0 .. m + 1 |-> IF l = m + 1 THEN s[m] + w[m] ELSE s[l]]
    OBVIOUS
  <1> /\ B[m + 1] = s[m] + w[m] /\ \A l \in 0 .. m : B[l] = s[l]
      /\ B[m + 1] \in Nat
    BY <1>1
  <1>3. \A l \in 0 .. m : B[l + 1] = s[l] + w[l] /\ B[l] <= B[l + 1]
    <2> SUFFICES ASSUME NEW l \in 0 .. m PROVE B[l + 1] = s[l] + w[l] /\ B[l] <= B[l + 1]
      OBVIOUS
    <2>1. B[l] = s[l] /\ s[l] \in Nat /\ w[l] \in Nat
      OBVIOUS
    <2>2. CASE l = m
      BY <2>1, <2>2
    <2>3. CASE l # m
      <3>1. l + 1 \in 1 .. m /\ (l + 1) - 1 = l /\ l + 1 \in 0 .. m
        BY <2>3
      <3>3. B[l + 1] = s[l + 1]
        BY <3>1
      <3>4. s[l] <= s[l] + w[l]
        BY <2>1
      <3> QED BY <2>1, <3>3, <3>4, <3>1
    <2> QED BY <2>2, <2>3
  <1>4. B \in [0 .. m + 1 -> Nat]
    BY <1>1
  <1>5. /\ \A t, u \in 0 .. m + 1 : t <= u => B[t] <= B[u]
        /\ \A e \in 0 .. B[m + 1] - 1 : \E t \in 0 .. m : e \in B[t] .. B[t + 1] - 1
    <2>1. m + 1 \in Nat \ {0} /\ (m + 1) - 1 = m /\ B[0] = 0 /\ B[m + 1] \in Nat
      OBVIOUS
    <2>3. /\ \A t, u \in 0 .. m + 1 : t <= u => B[t] <= B[u]
          /\ \A e \in 0 .. B[m + 1] - 1 : \E t \in 0 .. (m + 1) - 1 : e \in B[t] .. B[t + 1] - 1
      BY <1>4, <2>1, StepsCover, <1>3
    <2> QED BY <2>1, <2>3
  <1>6. ASSUME NEW k \in 0 .. m, NEW l \in 0 .. m, k < l PROVE s[k] + w[k] <= s[l]
    <2>1. k + 1 \in 0 .. m + 1 /\ l \in 0 .. m + 1 /\ k + 1 <= l
      BY <1>6
    <2> QED BY <1>3, <1>5, <2>1
  <1>8. ASSUME NEW t \in 0 .. s[m] + w[m] - 1
        PROVE  \E l \in 0 .. m : t \in s[l] .. s[l] + w[l] - 1
    <2>1. t \in 0 .. B[m + 1] - 1
      OBVIOUS
    <2>2. PICK l \in 0 .. m : t \in B[l] .. B[l + 1] - 1
      BY <1>5, <2>1
    <2>3. B[l] = s[l] /\ B[l + 1] = s[l] + w[l]
      BY <1>3
    <2> QED BY <2>2, <2>3
  <1> QED BY <1>6, <1>8, <1>3, <1>5

LEMMA LevelIs ==
  ASSUME Branching, NEW t \in Spawning!Threads
  PROVE  /\ Spawning!Level(t) \in 0 .. Depth
         /\ t \in Start[Spawning!Level(t)] .. Start[Spawning!Level(t)] + Width[Spawning!Level(t)] - 1
  <1>2. \E l \in 0 .. Depth : t \in Start[l] .. Start[l] + Width[l] - 1
    BY DepthIs, WidthIs, StartIs, LevelsCover DEF Spawning!Threads, Start, Width, Depth
  <1>3. Spawning!Level(t) = CHOOSE l \in 0 .. Depth : t \in Start[l] .. Start[l] + Width[l] - 1
    BY DEF Spawning!Level, Start, Width, Depth
  <1> QED BY <1>2, <1>3, Zenon

LEMMA OneLevel ==
  ASSUME Branching, NEW l \in 0 .. Depth, NEW t \in Start[l] .. Start[l] + Width[l] - 1
  PROVE  t \in Spawning!Threads /\ Spawning!Level(t) = l
  <1>1. /\ \A j, k \in 0 .. Depth : j < k => Start[j] + Width[j] <= Start[k]
        /\ \A k \in 0 .. Depth : Start[k] + Width[k] <= Start[Depth] + Width[Depth]
    BY DepthIs, WidthIs, StartIs, LevelsCover
  <1>2. \A k \in 0 .. Depth : Start[k] \in Nat /\ Width[k] \in Nat
    BY WidthIs, StartIs
  <1>3. Depth \in Nat /\ Depth \in 0 .. Depth
    BY DepthIs
  <1>4. t \in Spawning!Threads
    BY <1>1, <1>2, <1>3 DEF Spawning!Threads, Start, Width, Depth
  <1>5. PICK k : k = Spawning!Level(t)
    OBVIOUS
  <1>6. k \in 0 .. Depth /\ t \in Start[k] .. Start[k] + Width[k] - 1
    BY <1>4, <1>5, LevelIs
  <1>8. k = l
    BY <1>3, <1>6, <1>1, <1>2
  <1> QED BY <1>4, <1>5, <1>8

(* Numbers below w * o in rows of o: each has its row and its place there.    *)
LEMMA Rows ==
  ASSUME NEW w \in Nat, NEW o \in Nat \ {0}
  PROVE  /\ \A x \in 0 .. w - 1, i \in 0 .. o - 1 : x * o + i \in 0 .. w * o - 1
         /\ \A k \in 0 .. w * o - 1 : \E x \in 0 .. w - 1, i \in 0 .. o - 1 : k = x * o + i
  <1>2. ASSUME NEW x \in 0 .. w - 1, NEW i \in 0 .. o - 1 PROVE x * o + i \in 0 .. w * o - 1
    BY Products
  <1>3. ASSUME NEW k \in 0 .. w * o - 1
        PROVE  \E x \in 0 .. w - 1, i \in 0 .. o - 1 : k = x * o + i
    <2>1. w * o \in Nat /\ k \in Nat /\ k < w * o
      OBVIOUS
    <2>2. PICK x \in Nat, i \in 0 .. o - 1 : k = o * x + i
      BY <2>1, Division
    <2>4. x * o \in Nat /\ o * x = x * o
      OBVIOUS
    <2>5. x < w
      BY <2>1, <2>2, <2>4, Products
    <2> QED BY <2>2, <2>4, <2>5
  <1> QED BY <1>2, <1>3

LEMMA OneRow ==
  ASSUME NEW o \in Nat \ {0}, NEW x \in Nat, NEW y \in Nat,
         NEW i \in 0 .. o - 1, NEW j \in 0 .. o - 1, x * o + i = y * o + j
  PROVE  x = y /\ i = j
  <1>2. x * o \in Nat /\ y * o \in Nat
    OBVIOUS
  <1>3. ~(x < y) /\ ~(y < x)
    BY <1>2, Products
  <1> QED BY <1>2, <1>3

(* The children of thread t are a row of the next level.                      *)
LEMMA InnerIs ==
  ASSUME Branching, NEW t \in Spawning!Threads, ~Spawning!IsLeaf(t)
  PROVE  \E l \in 1 .. Depth :
           /\ Spawning!Level(t) = l - 1 /\ Spawning!Outer(t) = program.dims[l]
           /\ program.dims[l] \in Nat \ {0} /\ Width[l] = Width[l - 1] * program.dims[l]
           /\ Start[l] = Start[l - 1] + Width[l - 1]
           /\ Start[l] \in Nat /\ Start[l - 1] \in Nat /\ Width[l - 1] \in Nat /\ Width[l] \in Nat
           /\ t - Start[l - 1] \in 0 .. Width[l - 1] - 1
           /\ \A i : Spawning!Child(t, i) = Start[l] + (t - Start[l - 1]) * program.dims[l] + i
  <1>1. PICK k : k = Spawning!Level(t)
    OBVIOUS
  <1>2. k \in 0 .. Depth /\ t \in Start[k] .. Start[k] + Width[k] - 1 /\ k # Depth
    BY <1>1, LevelIs DEF Spawning!IsLeaf, Depth
  <1>3. k + 1 \in 1 .. Depth /\ (k + 1) - 1 = k /\ k + 1 \in 0 .. Depth
    BY <1>2, DepthIs
  <1>4. /\ Start[k] \in Nat /\ Width[k] \in Nat /\ Start[k + 1] \in Nat /\ Width[k + 1] \in Nat
        /\ Start[k + 1] = Start[k] + Width[k] /\ Width[k + 1] = Width[k] * program.dims[k + 1]
        /\ program.dims[k + 1] \in Nat \ {0}
    BY <1>2, <1>3, DepthIs, WidthIs, StartIs
  <1>5. t - Start[k] \in 0 .. Width[k] - 1
    BY <1>2, <1>4
  <1>6. Spawning!Outer(t) = program.dims[k + 1]
    BY <1>1 DEF Spawning!Outer
  <1> QED BY <1>1, <1>3, <1>4, <1>5, <1>6 DEF Spawning!Child, Start

LEMMA ChildIs ==
  ASSUME Branching, NEW t \in Spawning!Threads, ~Spawning!IsLeaf(t)
  PROVE  /\ Spawning!Outer(t) \in Nat \ {0}
         /\ \A i \in 0 .. Spawning!Outer(t) - 1 :
              /\ Spawning!Child(t, i) \in Spawning!Threads
              /\ Spawning!Level(Spawning!Child(t, i)) = Spawning!Level(t) + 1
              /\ t < Spawning!Child(t, i)
  <1> PICK l \in 1 .. Depth :
         /\ Spawning!Level(t) = l - 1 /\ Spawning!Outer(t) = program.dims[l]
         /\ program.dims[l] \in Nat \ {0} /\ Width[l] = Width[l - 1] * program.dims[l]
         /\ Start[l] = Start[l - 1] + Width[l - 1]
         /\ Start[l] \in Nat /\ Start[l - 1] \in Nat /\ Width[l - 1] \in Nat /\ Width[l] \in Nat
         /\ t - Start[l - 1] \in 0 .. Width[l - 1] - 1
         /\ \A i : Spawning!Child(t, i) = Start[l] + (t - Start[l - 1]) * program.dims[l] + i
    BY InnerIs
  <1>2. ASSUME NEW i \in 0 .. Spawning!Outer(t) - 1
        PROVE  /\ Spawning!Child(t, i) \in Spawning!Threads
               /\ Spawning!Level(Spawning!Child(t, i)) = Spawning!Level(t) + 1
               /\ t < Spawning!Child(t, i)
    <2>1. PICK k, child : k = (t - Start[l - 1]) * program.dims[l] + i /\ child = Spawning!Child(t, i)
      OBVIOUS
    <2>2. k \in 0 .. Width[l] - 1
      <3>1. PICK x, w, o : x = t - Start[l - 1] /\ w = Width[l - 1] /\ o = program.dims[l]
        OBVIOUS
      <3>3. x * o + i \in 0 .. w * o - 1
        BY Rows, <3>1
      <3> QED BY <2>1, <3>1, <3>3
    <2>3. child = Start[l] + k
      BY <2>1
    <2>5. child \in Spawning!Threads /\ Spawning!Level(child) = l
      BY OneLevel, <2>2, <2>3, DepthIs
    <2>6. t < child
      <3>1. t \in Nat
        BY LevelIs, StartIs
      <3> QED BY <2>2, <2>3, <3>1
    <2> QED BY <2>1, <2>5, <2>6, DepthIs
  <1> QED BY <1>2

LEMMA ChildrenDiffer ==
  ASSUME Branching, NEW t \in Spawning!Threads, ~Spawning!IsLeaf(t),
         NEW u \in Spawning!Threads, ~Spawning!IsLeaf(u),
         NEW i \in 0 .. Spawning!Outer(t) - 1, NEW j \in 0 .. Spawning!Outer(u) - 1,
         Spawning!Child(t, i) = Spawning!Child(u, j)
  PROVE  t = u /\ i = j
  <1>1. PICK l \in 1 .. Depth :
           /\ Spawning!Level(t) = l - 1 /\ Spawning!Outer(t) = program.dims[l]
           /\ program.dims[l] \in Nat \ {0} /\ Width[l] = Width[l - 1] * program.dims[l]
           /\ Start[l] = Start[l - 1] + Width[l - 1]
           /\ Start[l] \in Nat /\ Start[l - 1] \in Nat /\ Width[l - 1] \in Nat /\ Width[l] \in Nat
           /\ t - Start[l - 1] \in 0 .. Width[l - 1] - 1
           /\ \A k : Spawning!Child(t, k) = Start[l] + (t - Start[l - 1]) * program.dims[l] + k
    BY InnerIs
  <1>2. PICK m \in 1 .. Depth :
           /\ Spawning!Level(u) = m - 1 /\ Spawning!Outer(u) = program.dims[m]
           /\ program.dims[m] \in Nat \ {0} /\ Width[m] = Width[m - 1] * program.dims[m]
           /\ Start[m] = Start[m - 1] + Width[m - 1]
           /\ Start[m] \in Nat /\ Start[m - 1] \in Nat /\ Width[m - 1] \in Nat /\ Width[m] \in Nat
           /\ u - Start[m - 1] \in 0 .. Width[m - 1] - 1
           /\ \A k : Spawning!Child(u, k) = Start[m] + (u - Start[m - 1]) * program.dims[m] + k
    BY InnerIs
  <1>4. PICK x, y, o : x = t - Start[l - 1] /\ y = u - Start[l - 1] /\ o = program.dims[l]
    OBVIOUS
  <1>5. /\ x \in Nat /\ y \in Nat /\ o \in Nat \ {0} /\ i \in 0 .. o - 1 /\ j \in 0 .. o - 1
        /\ Start[l] \in Nat /\ x * o \in Nat /\ y * o \in Nat
        /\ Start[l] + x * o + i = Start[l] + y * o + j
    BY <1>1, <1>2, <1>4, ChildIs, DepthIs
  <1>7. x = y /\ i = j
    BY <1>5, OneRow
  <1>8. t \in Nat /\ u \in Nat
    BY LevelIs, StartIs
  <1>9. Start[l - 1] \in Nat
    BY <1>1
  <1> QED BY <1>4, <1>7, <1>8, <1>9

(* Which thread of its parent's a thread is, and the cell a leaf stands for,  *)
(* whether or not they have been started.                                     *)
IndexOf(t) == CHOOSE i \in 0 .. Spawning!Outer(Spawning!Parent(t)) - 1 :
                Spawning!Child(Spawning!Parent(t), i) = t
CellOf(t) == [l \in 1 .. Len(Spawning!Path[t]) |-> IndexOf(Spawning!Path[t][l])]
Leaves == {t \in Spawning!Threads : Spawning!IsLeaf(t)}
DoneLeaves == {t \in Leaves : pc[t] = "done"}

SpawnTypes ==
  /\ pc \in [Spawning!Threads -> {"unborn", "start", "join", "call", "done"}]
  /\ started \in [Spawning!Threads -> Nat] /\ joined \in [Spawning!Threads -> Nat]
  /\ captured \in [Spawning!Threads -> Nat]
  /\ \A t \in Spawning!Threads : joined[t] <= started[t]
  /\ processed \in Seq(Seq(Nat)) /\ Len(processed) <= Spawning!Width[Spawning!Depth]
  /\ aborted \in BOOLEAN

(* A thread that starts others has started its first ones and joined the      *)
(* first of these.                                                            *)
GrowsAt(t) ==
  /\ pc[t] \in {"unborn", "start", "join", "done"}
  /\ started[t] \in 0 .. Spawning!Outer(t)
  /\ pc[t] = "unborn" => started[t] = 0
  /\ pc[t] = "start" => started[t] < Spawning!Outer(t)
  /\ pc[t] = "join" => joined[t] < started[t]
  /\ pc[t] = "done" => joined[t] = Spawning!Outer(t)
  /\ \A i \in 0 .. Spawning!Outer(t) - 1 :
       LET child == Spawning!Child(t, i) IN
       /\ i < started[t] => pc[child] # "unborn" /\ captured[child] = i
       /\ i >= started[t] => pc[child] = "unborn"
       /\ i < joined[t] => pc[child] = "done"
TreeGrows ==
  /\ pc[0] # "unborn"
  /\ \A t \in Spawning!Threads : IF Spawning!IsLeaf(t) THEN pc[t] \in {"unborn", "call", "done"}
                                 ELSE GrowsAt(t)
CellsCalled ==
  /\ Len(processed) = Cardinality(DoneLeaves)
  /\ Spawning!IsInjective(processed)
  /\ \A k \in 1 .. Len(processed) : \E t \in DoneLeaves : processed[k] = CellOf(t)

Interrupted == (aborted \/ program.throws) /\ \A t \in Spawning!Threads : pc[t] = "done"
SpawnInv == /\ program \in Spawning!Mine
            /\ SpawnTypes
            /\ Interrupted \/ (~aborted /\ TreeGrows /\ CellsCalled)

(* Every thread but main has a parent, of the level above.                    *)
LEMMA ParentIs ==
  ASSUME Branching, NEW t \in Spawning!Threads \ {0}
  PROVE  /\ Spawning!Parent(t) \in Spawning!Threads /\ ~Spawning!IsLeaf(Spawning!Parent(t))
         /\ Spawning!Parent(t) < t /\ Spawning!Level(Spawning!Parent(t)) + 1 = Spawning!Level(t)
         /\ \E i \in 0 .. Spawning!Outer(Spawning!Parent(t)) - 1 :
              Spawning!Child(Spawning!Parent(t), i) = t
  <1>1. PICK l : l = Spawning!Level(t)
    OBVIOUS
  <1>2. l \in 0 .. Depth /\ t \in Start[l] .. Start[l] + Width[l] - 1
    BY <1>1, LevelIs
  <1>4. l \in 1 .. Depth /\ l - 1 \in 0 .. Depth /\ l - 1 # Depth /\ (l - 1) + 1 = l
    BY <1>2, DepthIs, StartIs, WidthIs
  <1>5. /\ Start[l] \in Nat /\ Start[l - 1] \in Nat /\ Width[l - 1] \in Nat /\ Width[l] \in Nat
        /\ Width[l] = Width[l - 1] * program.dims[l] /\ program.dims[l] \in Nat \ {0}
        /\ Start[l] = Start[l - 1] + Width[l - 1]
    BY <1>2, <1>4, DepthIs, WidthIs, StartIs
  <1>6. PICK k, w, o : k = t - Start[l] /\ w = Width[l - 1] /\ o = program.dims[l]
    OBVIOUS
  <1>7. k \in 0 .. w * o - 1 /\ w \in Nat /\ o \in Nat \ {0}
    BY <1>2, <1>5, <1>6
  <1>8. PICK x \in 0 .. w - 1, i \in 0 .. o - 1 : k = x * o + i
    BY <1>7, Rows
  <1>9. PICK p : p = Start[l - 1] + x
    OBVIOUS
  <1>10. p \in Start[l - 1] .. Start[l - 1] + Width[l - 1] - 1 /\ p - Start[l - 1] = x
    BY <1>5, <1>6, <1>7, <1>9
  <1>11. p \in Spawning!Threads /\ Spawning!Level(p) = l - 1
    BY <1>4, <1>10, OneLevel
  <1>12. Spawning!Outer(p) = o
    BY <1>4, <1>6, <1>11 DEF Spawning!Outer
  <1>13. Spawning!Child(p, i) = t
    <2>1. Spawning!Child(p, i) = Start[l] + x * o + i
      BY <1>4, <1>10, <1>11, <1>12 DEF Spawning!Child, Start
    <2>2. x * o \in Nat /\ t \in Nat /\ x * o + i = t - Start[l]
      BY <1>2, <1>5, <1>6, <1>7, <1>8
    <2> QED BY <1>5, <1>7, <1>8, <2>1, <2>2
  <1>14. /\ Spawning!Parent(t) \in Spawning!Threads
         /\ Spawning!Level(Spawning!Parent(t)) + 1 = Spawning!Level(t)
         /\ \E j \in 0 .. Spawning!Outer(Spawning!Parent(t)) - 1 :
              Spawning!Child(Spawning!Parent(t), j) = t
    <2>1. Spawning!Level(p) + 1 = Spawning!Level(t) /\ \E j \in 0 .. Spawning!Outer(p) - 1 : Spawning!Child(p, j) = t
      BY <1>1, <1>4, <1>11, <1>12, <1>13
    <2>2. Spawning!Parent(t) = CHOOSE q_ \in Spawning!Threads :
            Spawning!Level(q_) + 1 = Spawning!Level(t)
            /\ \E j \in 0 .. Spawning!Outer(q_) - 1 : Spawning!Child(q_, j) = t
      BY DEF Spawning!Parent
    <2> QED BY <1>11, <2>1, <2>2, Zenon
  <1>15. ~Spawning!IsLeaf(Spawning!Parent(t))
    BY <1>14, LevelIs, <1>1, <1>4, DepthIs DEF Spawning!IsLeaf, Depth
  <1> QED BY <1>14, <1>15, ChildIs

(* So a child's parent is the thread it is a child of.                        *)
LEMMA ParentOfChild ==
  ASSUME Branching, NEW t \in Spawning!Threads, ~Spawning!IsLeaf(t),
         NEW i \in 0 .. Spawning!Outer(t) - 1
  PROVE  /\ Spawning!Child(t, i) \in Spawning!Threads \ {0}
         /\ Spawning!Parent(Spawning!Child(t, i)) = t
  <1>2. t \in Nat
    BY LevelIs, StartIs
  <1>3. Spawning!Child(t, i) \in Spawning!Threads \ {0}
    BY <1>2, ChildIs
  <1> QED BY <1>3, ParentIs, ChildrenDiffer

LEMMA MainIs ==
  ASSUME Branching
  PROVE  /\ 0 \in Spawning!Threads /\ Spawning!Threads \subseteq Nat
         /\ Spawning!Level(0) = 0 /\ ~Spawning!IsLeaf(0)
  <1>1. Depth \in Nat \ {0} /\ 0 \in 0 .. Depth /\ 0 \in Start[0] .. Start[0] + Width[0] - 1
    BY DepthIs, WidthIs, StartIs
  <1>2. 0 \in Spawning!Threads /\ Spawning!Level(0) = 0
    BY <1>1, OneLevel
  <1> QED BY <1>2, <1>1 DEF Spawning!Threads, Spawning!IsLeaf, Depth

(* There are as many leaves as the last level is wide.                        *)
LEMMA LeavesAre ==
  ASSUME Branching
  PROVE  IsFiniteSet(Leaves) /\ Cardinality(Leaves) = Width[Depth]
  <1>1. PICK a, b : a = Start[Depth] /\ b = Start[Depth] + Width[Depth] - 1
    OBVIOUS
  <1>2. Depth \in 0 .. Depth /\ a \in Nat /\ Width[Depth] \in Nat \ {0} /\ b \in Nat /\ b - a + 1 = Width[Depth] /\ a <= b
    BY <1>1, DepthIs, WidthIs, StartIs
  <1>4. IsFiniteSet(a .. b) /\ Cardinality(a .. b) = b - a + 1
    <2>1. a \in Int /\ b \in Int /\ ~(a > b)
      BY <1>2
    <2> QED BY <2>1, FS_Interval
  <1> QED BY <1>2, <1>4, <1>1, LevelIs, OneLevel DEF Leaves, Spawning!IsLeaf, Depth

(* Path: the threads from main down to a thread, main left out.               *)
LEMMA PathIs ==
  ASSUME Branching
  PROVE  /\ Spawning!Path \in [Spawning!Threads -> Seq(Spawning!Threads \ {0})]
         /\ Spawning!Path[0] = <<>>
         /\ \A t \in Spawning!Threads \ {0} : Spawning!Path[t] = Append(Spawning!Path[Spawning!Parent(t)], t)
  <1>0. PICK m, R : m = Start[Depth] + Width[Depth] - 1 /\ R = Spawning!Threads \ {0}
    OBVIOUS
  <1>1. m \in Nat /\ Spawning!Threads = 0 .. m /\ R = 1 .. m
    BY DepthIs, WidthIs, StartIs, <1>0 DEF Spawning!Threads, Start, Width, Depth
  <1> DEFINE D(f) == [t \in 0 .. m |-> IF t = 0 THEN <<>> ELSE Append(f[Spawning!Parent(t)], t)]
  <1>2. PICK p : p = [t \in 1 .. m |-> Spawning!Parent(t)]
    OBVIOUS
  <1>3. PICK g : g = [t \in 1 .. m |-> [x \in Seq(R) |-> Append(x, t)]]
    OBVIOUS
  <1>4. \A t \in 1 .. m : p[t] = Spawning!Parent(t) /\ p[t] \in 0 .. m /\ p[t] < t
    <2> SUFFICES ASSUME NEW t \in 1 .. m
                 PROVE  p[t] = Spawning!Parent(t) /\ p[t] \in 0 .. m /\ p[t] < t
      OBVIOUS
    <2>2. Spawning!Parent(t) \in Spawning!Threads /\ Spawning!Parent(t) < t
      BY ParentIs, <1>0, <1>1
    <2> QED BY <1>1, <1>2, <2>2
  <1>5. \A t \in 1 .. m : \A x \in Seq(R) : g[t][x] = Append(x, t) /\ Append(x, t) \in Seq(R)
    BY <1>1, <1>3
  <1>6. Decreases(p, m) /\ Closed(g, Seq(R), m) /\ <<>> \in Seq(R)
    <2>2. Closed(g, Seq(R), m)
      BY <1>5 DEF Closed
    <2> QED BY <2>2, <1>1, <1>4 DEF Decreases
  <1>7. PICK f \in [0 .. m -> Seq(R)] : Recurs(f, <<>>, p, g, m)
    <2> HIDE DEF D
    <2> QED BY <1>6, Recurrence
  <1>8. f[0] = <<>> /\ \A t \in 1 .. m : f[t] = Append(f[p[t]], t)
    BY <1>7, <1>4, <1>5 DEF Recurs
  <1>9. f = D(f)
    <2>2. ASSUME NEW t \in 0 .. m PROVE f[t] = IF t = 0 THEN <<>> ELSE Append(f[Spawning!Parent(t)], t)
      <3>1. CASE t = 0
        BY <1>8, <3>1
      <3>2. CASE t # 0
        <4> QED BY <1>4, <1>8, <3>2
      <3> QED BY <3>1, <3>2
    <2> QED BY <2>2, <1>7
  <1>10. PICK h : h = Spawning!Path
    OBVIOUS
  <1>11. h = D(h)
    <2>1. \E x : x = D(x)
      BY <1>9
    <2>2. h = CHOOSE x : x = D(x)
      BY <1>1, <1>10 DEF Spawning!Path
    <2> HIDE DEF D
    <2> QED BY <2>1, <2>2, Zenon
  <1>12. \A t \in 0 .. m : h[t] = IF t = 0 THEN <<>> ELSE Append(h[Spawning!Parent(t)], t)
    BY <1>11, Zenon
  <1>13. h[0] = <<>> /\ \A t \in 1 .. m : h[t] = Append(h[Spawning!Parent(t)], t)
    <2>1. 0 \in 0 .. m /\ \A t \in 1 .. m : t \in 0 .. m /\ t # 0
      BY <1>1
    <2> QED BY <1>12, <2>1, Zenon
  <1>14. Same(f, h, m)
    <2>2. Agree(f, h, p, m)
      BY <1>8, <1>13, <1>4 DEF Agree
    <2> HIDE DEF D
    <2> QED BY <1>6, <2>2, Unrolled
  <1>15. h = f
    BY <1>11, <1>7, <1>14 DEF Same
  <1> QED BY <1>0, <1>1, <1>7, <1>10, <1>13, <1>15

LEMMA IndexIs ==
  ASSUME Branching, NEW t \in Spawning!Threads \ {0}
  PROVE  /\ IndexOf(t) \in 0 .. Spawning!Outer(Spawning!Parent(t)) - 1 /\ IndexOf(t) \in Nat
         /\ Spawning!Child(Spawning!Parent(t), IndexOf(t)) = t
  <1>1. \E i \in 0 .. Spawning!Outer(Spawning!Parent(t)) - 1 : Spawning!Child(Spawning!Parent(t), i) = t
    BY ParentIs
  <1>2. /\ IndexOf(t) \in 0 .. Spawning!Outer(Spawning!Parent(t)) - 1
        /\ Spawning!Child(Spawning!Parent(t), IndexOf(t)) = t
    BY <1>1, Zenon DEF IndexOf
  <1> QED BY <1>2, ParentIs, ChildIs

LEMMA CellIs ==
  ASSUME Branching
  PROVE  /\ \A t \in Spawning!Threads : CellOf(t) \in Seq(Nat)
         /\ CellOf(0) = <<>>
         /\ \A t \in Spawning!Threads \ {0} : CellOf(t) = Append(CellOf(Spawning!Parent(t)), IndexOf(t))
  <1>1. \A t \in Spawning!Threads : Spawning!Path[t] \in Seq(Spawning!Threads \ {0})
    BY PathIs
  <1>2. ASSUME NEW t \in Spawning!Threads PROVE CellOf(t) \in Seq(Nat)
    <2>1. PICK s : s = Spawning!Path[t]
      OBVIOUS
    <2>2. Len(s) \in Nat /\ \A l \in 1 .. Len(s) : s[l] \in Spawning!Threads \ {0}
      BY <1>1, <2>1
    <2>4. CellOf(t) = [l \in 1 .. Len(s) |-> IndexOf(s[l])]
      BY <2>1 DEF CellOf
    <2> QED BY <2>2, <2>4, IndexIs
  <1>3. CellOf(0) = <<>>
    BY PathIs DEF CellOf
  <1>4. ASSUME NEW t \in Spawning!Threads \ {0}
        PROVE  CellOf(t) = Append(CellOf(Spawning!Parent(t)), IndexOf(t))
    <2>1. PICK s, r : s = Spawning!Path[t] /\ r = Spawning!Path[Spawning!Parent(t)]
      OBVIOUS
    <2>2. s = Append(r, t) /\ r \in Seq(Spawning!Threads \ {0}) /\ Spawning!Parent(t) \in Spawning!Threads
      BY <1>1, <2>1, PathIs, ParentIs
    <2>3. /\ Len(r) \in Nat /\ Len(s) = Len(r) + 1 /\ s[Len(r) + 1] = t
          /\ \A l \in 1 .. Len(r) : s[l] = r[l]
      BY <2>2
    <2>4. PICK cell, d : cell = CellOf(t) /\ d = CellOf(Spawning!Parent(t))
      OBVIOUS
    <2>5. cell = [l \in 1 .. Len(s) |-> IndexOf(s[l])] /\ d = [l \in 1 .. Len(r) |-> IndexOf(r[l])]
      BY <2>1, <2>4 DEF CellOf
    <2>6. cell \in Seq(Nat) /\ d \in Seq(Nat) /\ IndexOf(t) \in Nat
      BY <1>2, <2>2, <2>4, IndexIs
    <2>7. Len(cell) = Len(r) + 1 /\ Len(d) = Len(r)
      BY <2>3, <2>5
    <2>9. cell[Len(r) + 1] = IndexOf(t)
      BY <2>3, <2>5
    <2>10. PICK e : e = Append(d, IndexOf(t))
      OBVIOUS
    <2>11. e \in Seq(Nat) /\ Len(e) = Len(r) + 1 /\ e[Len(r) + 1] = IndexOf(t) /\ \A l \in 1 .. Len(r) : e[l] = d[l]
      BY <2>6, <2>7, <2>10
    <2>12. \A l \in 1 .. Len(cell) : cell[l] = e[l]
      BY <2>3, <2>7, <2>9, <2>11, <2>5
    <2>13. cell = e
      BY <2>6, <2>7, <2>11, <2>12, EqualSequences
    <2> QED BY <2>4, <2>10, <2>13
  <1> QED BY <1>2, <1>3, <1>4

(* Two threads of a level stand for different cells.                          *)
LEMMA LastsDiffer ==
  ASSUME NEW s \in Seq(Nat), NEW r \in Seq(Nat), NEW i \in Nat, NEW j \in Nat,
         Append(s, i) = Append(r, j)
  PROVE  s = r /\ i = j
  <1>1. Len(Append(s, i)) = Len(s) + 1 /\ Len(Append(r, j)) = Len(r) + 1
    OBVIOUS
  <1>2. Len(s) = Len(r) /\ Len(s) \in Nat
    BY <1>1
  <1>3. \A l \in 1 .. Len(s) : Append(s, i)[l] = s[l] /\ Append(r, j)[l] = r[l]
    <2>1. \A l \in 1 .. Len(s) : Append(s, i)[l] = s[l]
      OBVIOUS
    <2>2. \A l \in 1 .. Len(r) : Append(r, j)[l] = r[l]
      OBVIOUS
    <2> QED BY <1>2, <2>1, <2>2
  <1>4. Append(s, i)[Len(s) + 1] = i /\ Append(r, j)[Len(r) + 1] = j
    OBVIOUS
  <1>5. s = r
    BY <1>2, <1>3, EqualSequences
  <1> QED BY <1>2, <1>4, <1>5

LEMMA CellsDiffer ==
  ASSUME Branching
  PROVE  \A t, u \in Spawning!Threads :
           Spawning!Level(t) = Spawning!Level(u) /\ CellOf(t) = CellOf(u) => t = u
  <1> DEFINE Ok(t) == \A u \in Spawning!Threads :
                        Spawning!Level(t) = Spawning!Level(u) /\ CellOf(t) = CellOf(u) => t = u
             T == {t \in Spawning!Threads : ~Ok(t)}
  <1> SUFFICES ASSUME T # {} PROVE FALSE
    OBVIOUS
  <1>1. PICK t \in T : \A l \in T : t <= l
    <2>1. T \subseteq Nat
      BY MainIs
    <2> HIDE DEF T
    <2> QED BY <2>1, LeastNat
  <1>2. PICK u \in Spawning!Threads : Spawning!Level(t) = Spawning!Level(u) /\ CellOf(t) = CellOf(u) /\ t # u
    BY <1>1
  <1>3. \A x \in Spawning!Threads : Spawning!Level(x) = 0 => x = 0
    <2> SUFFICES ASSUME NEW x \in Spawning!Threads, Spawning!Level(x) = 0 PROVE x = 0
      OBVIOUS
    <2>1. x \in Start[0] .. Start[0] + Width[0] - 1
      BY LevelIs
    <2> QED BY <2>1, StartIs, WidthIs
  <1>4. \A x \in Spawning!Threads \ {0} : Spawning!Level(x) # 0
    BY <1>3
  <1>5. t \in Spawning!Threads \ {0} /\ u \in Spawning!Threads \ {0}
    BY <1>1, <1>2, <1>3, MainIs
  <1>6. PICK v, x : v = Spawning!Parent(t) /\ x = Spawning!Parent(u)
    OBVIOUS
  <1>7. /\ v \in Spawning!Threads /\ x \in Spawning!Threads /\ v < t
        /\ Spawning!Level(v) + 1 = Spawning!Level(t) /\ Spawning!Level(x) + 1 = Spawning!Level(u)
        /\ Spawning!Child(v, IndexOf(t)) = t /\ Spawning!Child(x, IndexOf(u)) = u
    BY <1>5, <1>6, ParentIs, IndexIs
  <1>8. Spawning!Level(v) = Spawning!Level(x)
    BY <1>7, LevelIs, DepthIs, <1>2
  <1>9. CellOf(v) = CellOf(x) /\ IndexOf(t) = IndexOf(u)
    <2>1. /\ Append(CellOf(v), IndexOf(t)) = Append(CellOf(x), IndexOf(u))
          /\ CellOf(v) \in Seq(Nat) /\ CellOf(x) \in Seq(Nat)
          /\ IndexOf(t) \in Nat /\ IndexOf(u) \in Nat
      BY <1>2, <1>5, <1>6, <1>7, CellIs, IndexIs
    <2> QED BY <2>1, LastsDiffer
  <1>10. v \notin T
    <2>2. ~(t <= v)
      BY <1>7, <1>1, MainIs
    <2> HIDE DEF T
    <2> QED BY <1>1, <2>2
  <1> QED BY <1>2, <1>7, <1>9, <1>8, <1>10

(* The programs, and what their trees depend on.                              *)
TreeNumbers == Grids \subseteq Seq(Nat \ {0}) \ {<<>>} /\ NumThreads \in Nat \ {0}

LEMMA SpawningPrograms ==
  ASSUME TreeNumbers, program \in Spawning!Mine
  PROVE  Branching /\ Spawning!Runs /\ program.throws \in BOOLEAN /\ program.inTurn \in BOOLEAN
  <1> USE DEF TreeNumbers, Spawning!Runs, Branching
  <1>1. ASSUME NEW k \in Nat \ {0} PROVE <<k>> \in Seq(Nat \ {0}) /\ <<k>> # <<>>
    OBVIOUS
  <1>2. CASE \E grid \in Grids : program = Spawning!Unroll(grid)
    BY <1>2 DEF Spawning!Unroll
  <1>3. CASE program = Spawning!FiboWorkers
    BY <1>3, <1>1 DEF Spawning!FiboWorkers
  <1>4. CASE program = Spawning!RunnerTrue
    BY <1>1, <1>4 DEF Spawning!RunnerTrue
  <1>5. CASE program = Spawning!ThreadLocal
    <2>2. 2 \in Nat \ {0}
      OBVIOUS
    <2> QED BY <1>1, <1>5, <2>2 DEF Spawning!ThreadLocal
  <1>6. CASE program = Spawning!ManagingThread
    BY <1>1, <1>6 DEF Spawning!ManagingThread
  <1> QED BY <1>2, <1>3, <1>4, <1>5, <1>6 DEF Spawning!Mine

(* The tree does not change.                                                  *)
LEMMA SameTree ==
  ASSUME UNCHANGED program
  PROVE  /\ Spawning!Threads' = Spawning!Threads /\ Leaves' = Leaves
         /\ Spawning!Width[Spawning!Depth]' = Spawning!Width[Spawning!Depth]
         /\ Spawning!Path' = Spawning!Path /\ Spawning!Mine' = Spawning!Mine
         /\ \A t : /\ Spawning!IsLeaf(t)' = Spawning!IsLeaf(t) /\ Spawning!Outer(t)' = Spawning!Outer(t)
                   /\ CellOf(t)' = CellOf(t)
         /\ \A t, i : Spawning!Child(t, i)' = Spawning!Child(t, i)
  <1>1. Spawning!Mine' = Spawning!Mine
    BY DEF Spawning!Mine, Spawning!Unroll, Spawning!FiboWorkers, Spawning!RunnerTrue,
           Spawning!ThreadLocal, Spawning!ManagingThread
  <1> USE DEF Spawning!Threads, Spawning!Width, Spawning!Start, Spawning!Depth, Spawning!Level,
              Spawning!Child, Spawning!Outer
  <1>2. \A t, i : Spawning!Child(t, i)' = Spawning!Child(t, i) /\ Spawning!Outer(t)' = Spawning!Outer(t)
    OBVIOUS
  <1>3. Spawning!Width[Spawning!Depth]' = Spawning!Width[Spawning!Depth]
    OBVIOUS
  <1>4. \A t : Spawning!IsLeaf(t)' = Spawning!IsLeaf(t)
    BY DEF Spawning!IsLeaf
  <1>5. Spawning!Threads' = Spawning!Threads /\ Leaves' = Leaves
    BY DEF Spawning!IsLeaf, Leaves
  <1>6. Spawning!Path' = Spawning!Path
    BY DEF Spawning!Parent, Spawning!Path
  <1>7. \A t : IndexOf(t)' = IndexOf(t)
    BY DEF Spawning!Parent, IndexOf
  <1> HIDE DEF Spawning!Threads, Spawning!Width, Spawning!Start, Spawning!Depth, Spawning!Level,
              Spawning!Child, Spawning!Outer
  <1>8. \A t : CellOf(t)' = CellOf(t)
    BY <1>6, <1>7 DEF CellOf
  <1> QED BY <1>1, <1>2, <1>3, <1>4, <1>5, <1>6, <1>8

LEMMA SpawnInvInit == TreeNumbers /\ Spawning!Init => SpawnInv
  <1> SUFFICES ASSUME TreeNumbers, Spawning!Init PROVE SpawnInv
    OBVIOUS
  <1>1. program \in Spawning!Mine /\ Branching
    BY SpawningPrograms DEF Spawning!Init
  <1> /\ pc = [t \in Spawning!Threads |-> IF t = 0 THEN "start" ELSE "unborn"]
      /\ captured = [t \in Spawning!Threads |-> 0]
      /\ started = [t \in Spawning!Threads |-> 0] /\ joined = [t \in Spawning!Threads |-> 0]
      /\ processed = <<>> /\ aborted = FALSE
    BY DEF Spawning!Init
  <1>3. Len(processed) = 0 /\ processed \in Seq(Seq(Nat)) /\ 1 .. Len(processed) = {}
    OBVIOUS
  <1>4. SpawnTypes
    <2>2. 0 <= Spawning!Width[Spawning!Depth]
      BY <1>1, WidthIs, DepthIs DEF Width, Depth
    <2>3. /\ pc \in [Spawning!Threads -> {"unborn", "start", "join", "call", "done"}]
          /\ captured \in [Spawning!Threads -> Nat] /\ started \in [Spawning!Threads -> Nat]
          /\ joined \in [Spawning!Threads -> Nat]
          /\ \A t \in Spawning!Threads : joined[t] <= started[t]
      OBVIOUS
    <2> QED BY <1>3, <2>2, <2>3 DEF SpawnTypes
  <1>6. ASSUME NEW t \in Spawning!Threads, ~Spawning!IsLeaf(t) PROVE GrowsAt(t)
    BY <1>1, <1>6, ChildIs, ParentOfChild DEF GrowsAt
  <1>7. TreeGrows
    BY <1>6, <1>1, MainIs DEF TreeGrows
  <1>8. CellsCalled
    BY <1>3, FS_EmptySet DEF DoneLeaves, Leaves, Spawning!IsInjective, CellsCalled
  <1> QED BY <1>1, <1>4, <1>7, <1>8 DEF SpawnInv

(* A thread whose own state a step leaves alone: its children may move on, but*)
(* do not become unborn.                                                      *)
LEMMA GrowsElsewhere ==
  ASSUME UNCHANGED program, NEW u, GrowsAt(u), Spawning!Outer(u) \in Nat,
         pc'[u] = pc[u], started'[u] = started[u], joined'[u] = joined[u],
         \A i \in 0 .. Spawning!Outer(u) - 1 :
           /\ captured'[Spawning!Child(u, i)] = captured[Spawning!Child(u, i)]
           /\ \/ pc'[Spawning!Child(u, i)] = pc[Spawning!Child(u, i)]
              \/ /\ pc[Spawning!Child(u, i)] \notin {"unborn", "done"}
                 /\ pc'[Spawning!Child(u, i)] # "unborn"
  PROVE  GrowsAt(u)'
  <1> QED BY SameTree DEF GrowsAt

(* A thread that has been started is below threads that have been started, so *)
(* when it looks its indices up each holds what it was given.                 *)
LEMMA ParentBorn ==
  ASSUME Branching, TreeGrows, NEW t \in Spawning!Threads \ {0}, pc[t] # "unborn"
  PROVE  captured[t] = IndexOf(t) /\ pc[Spawning!Parent(t)] # "unborn"
  <1>1. PICK p, i : p = Spawning!Parent(t) /\ i = IndexOf(t)
    OBVIOUS
  <1>2. /\ p \in Spawning!Threads /\ ~Spawning!IsLeaf(p) /\ i \in 0 .. Spawning!Outer(p) - 1
        /\ i \in Nat /\ Spawning!Child(p, i) = t
    BY <1>1, ParentIs, IndexIs
  <1>3. GrowsAt(p)
    BY <1>2 DEF TreeGrows
  <1>4. started[p] \in Nat /\ (i >= started[p] => pc[t] = "unborn") /\ (i < started[p] => captured[t] = i)
    BY <1>2, <1>3, ChildIs DEF GrowsAt
  <1> QED BY <1>1, <1>3, <1>4, <1>2 DEF GrowsAt

LEMMA PathBorn ==
  ASSUME Branching, TreeGrows, NEW t \in Spawning!Threads, pc[t] # "unborn"
  PROVE  \A l \in 1 .. Len(Spawning!Path[t]) : pc[Spawning!Path[t][l]] # "unborn"
  <1> DEFINE Ok(u) == \A l \in 1 .. Len(Spawning!Path[u]) : pc[Spawning!Path[u][l]] # "unborn"
             T == {u \in Spawning!Threads : pc[u] # "unborn" /\ ~Ok(u)}
  <1> SUFFICES ASSUME T # {} PROVE FALSE
    OBVIOUS
  <1>1. PICK u \in T : \A l \in T : u <= l
    <2>1. T \subseteq Nat
      BY MainIs
    <2> HIDE DEF T
    <2> QED BY <2>1, LeastNat
  <1>2. u # 0
    BY <1>1, PathIs
  <1>3. PICK p, s, r : p = Spawning!Parent(u) /\ s = Spawning!Path[u] /\ r = Spawning!Path[p]
    OBVIOUS
  <1>4. /\ u \in Spawning!Threads \ {0} /\ p \in Spawning!Threads /\ p < u
        /\ s = Append(r, u) /\ r \in Seq(Spawning!Threads \ {0}) /\ pc[u] # "unborn" /\ pc[p] # "unborn"
    BY <1>1, <1>2, <1>3, PathIs, ParentIs, ParentBorn
  <1>5. p \notin T
    <2>2. ~(u <= p)
      BY <1>4, MainIs
    <2> HIDE DEF T
    <2> QED BY <1>1, <2>2
  <1>7. \A l \in 1 .. Len(s) : (l \in 1 .. Len(r) /\ s[l] = r[l]) \/ s[l] = u
    BY <1>4
  <1>8. Ok(u)
    BY <1>3, <1>4, <1>7, <1>5
  <1> QED BY <1>1, <1>8

LEMMA CellFound ==
  ASSUME Branching, TreeGrows, NEW t \in Spawning!Threads, pc[t] # "unborn"
  PROVE  Spawning!Cell(t) = CellOf(t)
  <1>1. PICK s : s = Spawning!Path[t]
    OBVIOUS
  <1>2. s \in Seq(Spawning!Threads \ {0}) /\ \A l \in 1 .. Len(s) : pc[s[l]] # "unborn"
    BY <1>1, PathIs, PathBorn
  <1>3. \A l \in 1 .. Len(s) : captured[s[l]] = IndexOf(s[l])
    BY <1>2, ParentBorn
  <1> QED BY <1>1, <1>3 DEF Spawning!Cell, CellOf

(* What the steps leave alone: the leaves that are done and their cells.      *)
LEMMA CellsStay ==
  ASSUME UNCHANGED <<program, processed>>, CellsCalled, DoneLeaves' = DoneLeaves
  PROVE  CellsCalled'
  <1> QED BY SameTree DEF CellsCalled, Spawning!IsInjective

LEMMA SpawnStep ==
  ASSUME Branching, SpawnTypes, TreeGrows, CellsCalled, UNCHANGED program,
         NEW t \in Spawning!Threads, Spawning!Spawn(t)
  PROVE  SpawnTypes' /\ TreeGrows' /\ CellsCalled' /\ UNCHANGED aborted
  <1>1. PICK k, child : k = started[t] /\ child = Spawning!Child(t, k)
    OBVIOUS
  <1>2. PICK w : w = IF k + 1 = Spawning!Outer(t) \/ program.inTurn THEN "join" ELSE "start"
    OBVIOUS
  <1>3. /\ pc[t] = "start" /\ k < Spawning!Outer(t)
        /\ captured' = [captured EXCEPT ![child] = k]
        /\ pc' = [pc EXCEPT ![child] = Spawning!Begins(child), ![t] = w]
        /\ started' = [started EXCEPT ![t] = k + 1]
        /\ UNCHANGED <<joined, processed, aborted>>
    BY <1>1, <1>2 DEF Spawning!Spawn
  <1>4. ~Spawning!IsLeaf(t) /\ GrowsAt(t)
    BY <1>3 DEF TreeGrows
  <1>5. Spawning!Outer(t) \in Nat \ {0} /\ k \in Nat /\ k \in 0 .. Spawning!Outer(t) - 1
    BY <1>1, <1>3, <1>4, ChildIs DEF GrowsAt
  <1>6. child \in Spawning!Threads \ {0} /\ t # child /\ pc[child] = "unborn"
    BY <1>1, <1>4, <1>5, ChildIs, ParentOfChild, MainIs DEF GrowsAt
  <1>7. PICK b : b = Spawning!Begins(child)
    OBVIOUS
  <1>8. /\ b = IF Spawning!IsLeaf(child) THEN "call" ELSE "start"
        /\ w \in {"join", "start"} /\ (w = "start" => k + 1 # Spawning!Outer(t))
    BY <1>2, <1>7 DEF Spawning!Begins
  <1>9. /\ pc' \in [Spawning!Threads -> {"unborn", "start", "join", "call", "done"}]
        /\ pc'[t] = w /\ pc'[child] = b
        /\ \A u \in Spawning!Threads \ {t, child} : pc'[u] = pc[u]
    BY <1>3, <1>6, <1>7, <1>8 DEF SpawnTypes
  <1>10. /\ started' \in [Spawning!Threads -> Nat] /\ started'[t] = k + 1
         /\ \A u \in Spawning!Threads \ {t} : started'[u] = started[u]
    BY <1>3, <1>5 DEF SpawnTypes
  <1>11. /\ captured' \in [Spawning!Threads -> Nat] /\ captured'[child] = k
         /\ \A u \in Spawning!Threads \ {child} : captured'[u] = captured[u]
    BY <1>3, <1>5, <1>6 DEF SpawnTypes
  <1>12. Spawning!Threads' = Spawning!Threads /\ \A u : Spawning!IsLeaf(u)' = Spawning!IsLeaf(u)
    BY SameTree
  <1>13. \A u \in Spawning!Threads : joined'[u] <= started'[u]
    BY <1>1, <1>5, <1>3, <1>10 DEF SpawnTypes
  <1>14. SpawnTypes'
    BY SameTree, <1>3, <1>9, <1>10, <1>11, <1>12, <1>13 DEF SpawnTypes
  <1>15. ASSUME NEW u \in Spawning!Threads, ~Spawning!IsLeaf(u) PROVE GrowsAt(u)'
    <2>1. GrowsAt(u) /\ Spawning!Outer(u) \in Nat
      BY <1>15, ChildIs DEF TreeGrows
    <2>2. ASSUME NEW i \in 0 .. Spawning!Outer(u) - 1
          PROVE  /\ Spawning!Child(u, i) \in Spawning!Threads /\ Spawning!Child(u, i) # u
                 /\ Spawning!Child(u, i) = child => u = t /\ i = k
      BY <1>15, ChildIs, MainIs, <1>1, <1>4, <1>5, ChildrenDiffer
    <2>3. CASE u = t
      <3>1. Spawning!Outer(t)' = Spawning!Outer(t) /\ \A i : Spawning!Child(t, i)' = Spawning!Child(t, i)
        BY SameTree
      <3>2. joined'[t] = joined[t] /\ joined[t] \in Nat /\ joined[t] <= k
        BY <1>1, <1>3 DEF SpawnTypes
      <3>3. ASSUME NEW i \in 0 .. Spawning!Outer(t) - 1
            PROVE  LET x == Spawning!Child(t, i) IN
                   /\ i < k + 1 => pc'[x] # "unborn" /\ captured'[x] = i
                   /\ i >= k + 1 => pc'[x] = "unborn"
                   /\ i < joined[t] => pc'[x] = "done"
        <4>1. PICK x : x = Spawning!Child(t, i)
          OBVIOUS
        <4>2. CASE i = k
          BY <1>1, <1>5, <1>8, <3>2, <4>1, <4>2, <1>9, <1>11
        <4>3. CASE i # k
          BY <2>2, <2>3, <4>1, <4>3, <1>9, <1>11, <1>5, <1>1, <1>4 DEF GrowsAt
        <4> QED BY <4>2, <4>3
      <3>4. k + 1 \in 0 .. Spawning!Outer(t)
        BY <1>5
      <3>5. /\ w = "start" => k + 1 < Spawning!Outer(t)
            /\ w = "join" => joined[t] < k + 1
        BY <1>5, <1>8, <3>2
      <3> QED BY <1>8, <1>9, <1>10, <2>3, <3>1, <3>2, <3>3, <3>4, <3>5 DEF GrowsAt
    <2>4. CASE u = child
      <3>1. started'[u] = 0 /\ joined'[u] = 0 /\ pc'[u] = "start" /\ joined[u] = 0 /\ started[u] = 0
        BY <1>6, <2>1, <2>4, <1>3, <1>8, <1>9, <1>10, <1>15 DEF GrowsAt, SpawnTypes
      <3>3. ASSUME NEW i \in 0 .. Spawning!Outer(u) - 1 PROVE pc'[Spawning!Child(u, i)] = "unborn"
        BY <2>2, <2>4, <1>1, <1>4, <1>5, <1>15, ChildIs, MainIs, <2>1, <3>1, <1>9 DEF GrowsAt
      <3>4. 0 \in 0 .. Spawning!Outer(u) /\ 0 < Spawning!Outer(u)
        BY <1>15, ChildIs
      <3> QED BY <3>1, <3>3, <3>4, SameTree DEF GrowsAt
    <2>5. CASE u # t /\ u # child
      BY <1>3, <1>9, <1>10, <2>5, <2>2, <1>11, <1>8, <2>1, GrowsElsewhere
    <2> QED BY <2>3, <2>4, <2>5
  <1>16. ASSUME NEW u \in Spawning!Threads, Spawning!IsLeaf(u)
         PROVE  pc'[u] \in {"unborn", "call", "done"} /\ (pc'[u] = "done" <=> pc[u] = "done")
    BY <1>4, <1>16, <1>6, <1>8, <1>9 DEF TreeGrows
  <1>17. TreeGrows'
    BY <1>6, MainIs, <1>8, <1>9, <1>12, <1>15, <1>16 DEF TreeGrows
  <1>18. CellsCalled'
    <2>1. DoneLeaves' = DoneLeaves
      <3> QED BY <1>16, SameTree DEF DoneLeaves, Leaves
    <2> QED BY <1>3, <2>1, CellsStay
  <1> QED BY <1>3, <1>14, <1>17, <1>18

LEMMA JoinStep ==
  ASSUME Branching, SpawnTypes, TreeGrows, CellsCalled, UNCHANGED program,
         NEW t \in Spawning!Threads, Spawning!Join(t)
  PROVE  SpawnTypes' /\ TreeGrows' /\ CellsCalled' /\ UNCHANGED aborted
  <1> PICK k, w : /\ k = joined[t]
                  /\ w = IF k + 1 = Spawning!Outer(t) THEN "done"
                         ELSE IF k + 1 = started[t] THEN "start" ELSE "join"
    OBVIOUS
  <1>2. /\ joined \in [Spawning!Threads -> Nat] /\ started \in [Spawning!Threads -> Nat]
        /\ \A u \in Spawning!Threads : joined[u] <= started[u]
        /\ k \in Nat
    BY DEF SpawnTypes
  <1> /\ pc[t] = "join" /\ pc[Spawning!Child(t, k)] = "done"
      /\ joined' = [joined EXCEPT ![t] = k + 1]
      /\ UNCHANGED <<captured, started, processed, aborted>>
    BY DEF Spawning!Join, Spawning!NextJoin
  <1>4. joined'[t] = k + 1 /\ \A u \in Spawning!Threads \ {t} : joined'[u] = joined[u]
    BY <1>2
  <1>6. ~Spawning!IsLeaf(t) /\ GrowsAt(t)
    BY DEF TreeGrows
  <1>7. /\ Spawning!Outer(t) \in Nat /\ started[t] \in Nat /\ k < started[t]
        /\ started[t] <= Spawning!Outer(t)
    BY <1>2, <1>6, ChildIs DEF GrowsAt
  <1>8. /\ w \in {"done", "start", "join"}
        /\ w = "start" => started[t] < Spawning!Outer(t)
        /\ w = "join" => k + 1 < started[t]
        /\ w = "done" => k + 1 = Spawning!Outer(t)
    BY <1>2, <1>7
  <1> /\ pc' \in [Spawning!Threads -> {"unborn", "start", "join", "call", "done"}]
      /\ pc'[t] = w /\ \A u \in Spawning!Threads \ {t} : pc'[u] = pc[u]
    BY <1>8, <1>4 DEF SpawnTypes, Spawning!Join, Spawning!NextJoin
  <1>10. Spawning!Threads' = Spawning!Threads /\ \A u : Spawning!IsLeaf(u)' = Spawning!IsLeaf(u)
    BY SameTree
  <1>11. SpawnTypes'
    <2>2. joined' \in [Spawning!Threads -> Nat] /\ \A u \in Spawning!Threads : joined'[u] <= started[u]
      BY <1>2, <1>4, <1>7
    <2> QED BY <1>10, <2>2, SameTree DEF SpawnTypes
  <1>12. ASSUME NEW u \in Spawning!Threads, ~Spawning!IsLeaf(u) PROVE GrowsAt(u)'
    <2>1. GrowsAt(u) /\ Spawning!Outer(u) \in Nat
      BY <1>12, ChildIs DEF TreeGrows
    <2>2. ASSUME NEW i \in 0 .. Spawning!Outer(u) - 1
          PROVE  Spawning!Child(u, i) \in Spawning!Threads /\ Spawning!Child(u, i) # u
      BY <1>12, ChildIs, MainIs
    <2>3. CASE u = t
      <3>1. Spawning!Outer(t)' = Spawning!Outer(t) /\ \A i : Spawning!Child(t, i)' = Spawning!Child(t, i)
        BY SameTree
      <3>2. ASSUME NEW i \in 0 .. Spawning!Outer(t) - 1
            PROVE  LET x == Spawning!Child(t, i) IN
                   /\ i < started[t] => pc'[x] # "unborn" /\ captured'[x] = i
                   /\ i >= started[t] => pc'[x] = "unborn"
                   /\ i < k + 1 => pc'[x] = "done"
        <4>1. PICK x : x = Spawning!Child(t, i)
          OBVIOUS
        <4>2. pc'[x] = pc[x] /\ captured'[x] = captured[x]
          BY <2>2, <2>3, <4>1
        <4>3. i < k + 1 => i < k \/ i = k
          BY <1>2
        <4> QED BY <1>6, <4>1, <4>2, <4>3 DEF GrowsAt
      <3>3. started'[t] = started[t] /\ started[t] \in 0 .. Spawning!Outer(t)
        BY <1>7
      <3> QED BY <1>4, <1>6, <1>8, <2>3, <3>1, <3>2, <3>3 DEF GrowsAt
    <2>4. CASE u # t
      BY <1>4, <2>4, <1>8, <2>2, <2>1, GrowsElsewhere
    <2> QED BY <2>3, <2>4
  <1>13. ASSUME NEW u \in Spawning!Threads, Spawning!IsLeaf(u) PROVE pc'[u] = pc[u]
    BY <1>6, <1>13
  <1>14. TreeGrows'
    BY <1>8, MainIs, <1>10, <1>12, <1>13 DEF TreeGrows
  <1>15. CellsCalled'
    <2>1. DoneLeaves' = DoneLeaves
      <3> QED BY <1>13, SameTree DEF DoneLeaves, Leaves
    <2> QED BY <2>1, CellsStay
  <1> QED BY <1>11, <1>14, <1>15

LEMMA CallStep ==
  ASSUME Branching, SpawnTypes, TreeGrows, CellsCalled, UNCHANGED program,
         NEW t \in Spawning!Threads, Spawning!Call(t)
  PROVE  SpawnTypes' /\ TreeGrows' /\ CellsCalled' /\ UNCHANGED aborted
  <1>1. /\ pc[t] = "call" /\ pc' = [pc EXCEPT ![t] = "done"]
        /\ processed' = Append(processed, Spawning!Cell(t))
        /\ UNCHANGED <<captured, started, joined, aborted>>
    BY DEF Spawning!Call
  <1>2. Spawning!IsLeaf(t)
    BY <1>1 DEF TreeGrows, GrowsAt
  <1>3. PICK cell : cell = CellOf(t)
    OBVIOUS
  <1>5. /\ pc' \in [Spawning!Threads -> {"unborn", "start", "join", "call", "done"}]
        /\ pc'[t] = "done" /\ \A u \in Spawning!Threads \ {t} : pc'[u] = pc[u]
    BY <1>1 DEF SpawnTypes
  <1>6. Spawning!Threads' = Spawning!Threads /\ Leaves' = Leaves
        /\ \A u : Spawning!IsLeaf(u)' = Spawning!IsLeaf(u) /\ CellOf(u)' = CellOf(u)
    BY SameTree
  <1>7. TreeGrows'
    BY <1>2, ChildIs, <1>1, <1>5, GrowsElsewhere, MainIs, <1>6 DEF TreeGrows
  <1>8. t \in Leaves /\ t \notin DoneLeaves /\ DoneLeaves' = DoneLeaves \cup {t}
    BY <1>1, <1>2, <1>5, <1>6 DEF Leaves, DoneLeaves
  <1>9. processed \in Seq(Seq(Nat))
    BY DEF SpawnTypes
  <1>10. /\ Len(processed) \in Nat /\ Len(processed') = Len(processed) + 1
         /\ processed' \in Seq(Seq(Nat)) /\ processed'[Len(processed) + 1] = cell
         /\ \A k \in 1 .. Len(processed) : processed'[k] = processed[k]
    BY <1>9, <1>1, <1>3, CellFound, CellIs
  <1>11. \A k \in 1 .. Len(processed) : processed[k] # cell
    <2> SUFFICES ASSUME NEW k \in 1 .. Len(processed), processed[k] = cell PROVE FALSE
      OBVIOUS
    <2>1. PICK u \in DoneLeaves : processed[k] = CellOf(u)
      BY DEF CellsCalled
    <2>3. u = t
      BY CellsDiffer, <1>2, <1>3, <2>1 DEF DoneLeaves, Leaves, Spawning!IsLeaf
    <2> QED BY <1>8, <2>3
  <1>12. CellsCalled'
    <2>2. Cardinality(DoneLeaves') = Cardinality(DoneLeaves) + 1
      BY <1>8, FS_AddElement, LeavesAre, FS_Subset, FS_CardinalityType DEF DoneLeaves
    <2>4. \A j, k \in 1 .. Len(processed) : processed[j] = processed[k] => j = k
      <3>2. Spawning!IsInjective(processed)
        BY DEF CellsCalled
      <3> QED BY <3>2, <1>9 DEF Spawning!IsInjective
    <2>5. \A k \in 1 .. Len(processed') : k \in 1 .. Len(processed) \/ k = Len(processed) + 1
      BY <1>10
    <2>7. DOMAIN processed' = 1 .. Len(processed')
      BY <1>10
    <2>8. Spawning!IsInjective(processed')
      BY <2>7, <1>10, <1>11, <2>4, <2>5 DEF Spawning!IsInjective
    <2>9. \A k \in 1 .. Len(processed') : \E u \in DoneLeaves' : processed'[k] = CellOf(u)
      BY <1>3, <1>8, <1>10, <2>5 DEF CellsCalled
    <2> QED BY <1>6, <2>8, <2>9, <1>10, <2>2 DEF CellsCalled
  <1>13. SpawnTypes'
    BY SameTree, <1>8, LeavesAre, FS_Subset, <1>12, <1>1, <1>5, <1>6, <1>10 DEF DoneLeaves,
       CellsCalled, Width, Depth, SpawnTypes
  <1> QED BY <1>1, <1>7, <1>12, <1>13

LEMMA SpawnInvStep == TreeNumbers /\ SpawnInv /\ SpawningMoves => SpawnInv'
  <1> SUFFICES ASSUME TreeNumbers, SpawnInv, SpawningMoves PROVE SpawnInv'
    OBVIOUS
  <1>1. program \in Spawning!Mine /\ Branching /\ program.throws \in BOOLEAN /\ UNCHANGED program
    BY SpawningPrograms DEF SpawnInv, SpawningMoves, Spawning!Run
  <1>2. /\ Spawning!Threads' = Spawning!Threads /\ Leaves' = Leaves /\ Spawning!Mine' = Spawning!Mine
        /\ Spawning!Width[Spawning!Depth]' = Spawning!Width[Spawning!Depth]
        /\ \A u : Spawning!IsLeaf(u)' = Spawning!IsLeaf(u) /\ Spawning!Outer(u)' = Spawning!Outer(u)
                  /\ CellOf(u)' = CellOf(u)
        /\ \A u, i : Spawning!Child(u, i)' = Spawning!Child(u, i)
    BY <1>1, SameTree
  <1>3. CASE UNCHANGED <<program, pc, captured, started, joined, processed, aborted>>
    BY <1>2, <1>3, CellsStay, <1>1 DEF SpawnInv, SpawnTypes, Interrupted, TreeGrows, GrowsAt,
       DoneLeaves
  <1>4. ASSUME NEW t \in Spawning!Threads,
               Spawning!Spawn(t) \/ Spawning!Throw(t) \/ Spawning!Join(t) \/ Spawning!Call(t)
        PROVE  SpawnInv'
    <2>2. SpawnTypes /\ TreeGrows /\ CellsCalled /\ ~aborted
      BY <1>4 DEF SpawnInv, Interrupted, Spawning!Spawn, Spawning!Throw, Spawning!Join,
         Spawning!Call
    <2>3. CASE Spawning!Throw(t)
      BY <1>1, <2>3, <1>2, <2>2 DEF Spawning!Throw, SpawnTypes, SpawnInv, Interrupted
    <2> QED BY <1>1, <1>2, <1>4, <2>2, <2>3, SpawnStep, JoinStep, CallStep DEF SpawnInv
  <1> QED BY <1>3, <1>4 DEF SpawningMoves, Spawning!Run

(* When main is done so are all threads.                                      *)
LEMMA MainEndsLast ==
  ASSUME Branching, TreeGrows, pc[0] = "done"
  PROVE  \A t \in Spawning!Threads : pc[t] = "done"
  <1> DEFINE T == {t \in Spawning!Threads : pc[t] # "done"}
  <1> SUFFICES ASSUME T # {} PROVE FALSE
    OBVIOUS
  <1>1. PICK t \in T : \A l \in T : t <= l
    <2>1. T \subseteq Nat
      BY MainIs
    <2> HIDE DEF T
    <2> QED BY <2>1, LeastNat
  <1>2. t \in Spawning!Threads \ {0}
    BY <1>1
  <1>3. PICK p, i : p = Spawning!Parent(t) /\ i = IndexOf(t)
    OBVIOUS
  <1>4. /\ p \in Spawning!Threads /\ ~Spawning!IsLeaf(p) /\ i \in 0 .. Spawning!Outer(p) - 1
        /\ Spawning!Child(p, i) = t /\ p < t
    BY <1>2, <1>3, ParentIs, IndexIs
  <1>5. p \notin T
    <2>2. ~(t <= p)
      BY <1>4, <1>2, MainIs
    <2> HIDE DEF T
    <2> QED BY <1>1, <2>2
  <1> QED BY <1>1, <1>4, ChildIs, <1>5 DEF TreeGrows, GrowsAt

(* ParentsEndLast: no thread ends before the threads it has started, so the   *)
(* indices read through references are still there, and when main has ended   *)
(* the function has been called once for each cell of the grid.               *)
THEOREM ThreadsEndLeavesFirst ==
  ASSUME Grids \subseteq Seq(Nat \ {0}) \ {<<>>}, NumThreads \in Nat \ {0}
  PROVE  Spec => []ParentsEndLast
  <1> DEFINE J == Spawning!Runs => SpawnInv
  <1>0. TreeNumbers
    BY DEF TreeNumbers
  <1>1. Init => J
    BY <1>0, SpawnInvInit DEF Init
  <1>2. J /\ [Next]_vars => J'
    <2> SUFFICES ASSUME J, [Next]_vars, Spawning!Runs' PROVE SpawnInv'
      OBVIOUS
    <2> QED BY <1>0, OneModuleRuns, SpawnInvStep, ProgramStays DEF Spawning!Runs
  <1>3. J => ParentsEndLast
    <2> SUFFICES ASSUME SpawnInv, ~aborted, ~program.throws PROVE Spawning!ParentsEndLast
      BY DEF ParentsEndLast, Spawning!ParentsEndLast
    <2>1. Branching /\ TreeGrows /\ CellsCalled
      BY <1>0, SpawningPrograms DEF SpawnInv, Interrupted
    <2>2. ASSUME NEW t \in Spawning!Threads \ {0}, pc[Spawning!Parent(t)] = "done"
          PROVE  pc[t] = "done"
      <3>1. PICK p, i : p = Spawning!Parent(t) /\ i = IndexOf(t)
        OBVIOUS
      <3>2. /\ p \in Spawning!Threads /\ ~Spawning!IsLeaf(p) /\ i \in 0 .. Spawning!Outer(p) - 1
            /\ Spawning!Child(p, i) = t
        BY <2>1, <3>1, ParentIs, IndexIs
      <3> QED BY <2>1, <3>2, ChildIs, <2>2, <3>1 DEF TreeGrows, GrowsAt
    <2>3. pc[0] = "done" => Len(processed) = Spawning!Width[Spawning!Depth]
      <3> SUFFICES ASSUME pc[0] = "done" PROVE Len(processed) = Spawning!Width[Spawning!Depth]
        OBVIOUS
      <3> QED BY <2>1, LeavesAre, MainEndsLast DEF CellsCalled, Width, Depth, DoneLeaves, Leaves
    <2> QED BY <2>1, <2>2, <2>3 DEF Spawning!ParentsEndLast, CellsCalled
  <1> HIDE DEF J
  <1> QED BY <1>1, <1>2, <1>3, PTL DEF Spec
--------------------------------------------------------------------------------
(* Sums over finite sets: they are defined by a function that takes out an    *)
(* element of the set at a time.                                              *)
Total(f, S) == Locking!SumFunctionOnSet(f, S)
Pick(S) == CHOOSE x \in S : TRUE
SumsAt(h, f, S) == h[S] = IF S = {} THEN 0 ELSE f[Pick(S)] + h[S \ {Pick(S)}]
Sums(h, f, S) == h \in [SUBSET S -> Nat] /\ \A s \in SUBSET S : SumsAt(h, f, s)
Countable(f, S) == IsFiniteSet(S) /\ \A x \in S : f[x] \in Nat

(* The subsets of a finite set can be taken smaller ones first.               *)
Smallest(s, T, S) == \A x \in s : s \ {x} \in SUBSET S /\ s \ {x} \notin T
LEMMA SmallestSubset ==
  ASSUME NEW S, IsFiniteSet(S), NEW T, T \subseteq SUBSET S, T # {}
  PROVE  \E s \in T : Smallest(s, T, S)
  <1>1. \A s \in T : IsFiniteSet(s) /\ Cardinality(s) \in Nat
    BY FS_Subset, FS_CardinalityType
  <1>2. PICK R : R = {Cardinality(s) : s \in T}
    OBVIOUS
  <1>3. R \subseteq Nat /\ R # {}
    BY <1>1, <1>2
  <1>4. PICK n \in R : \A m \in R : n <= m
    BY <1>3, LeastNat
  <1>5. PICK s \in T : Cardinality(s) = n
    BY <1>2, <1>4
  <1>6. ASSUME NEW x \in s PROVE s \ {x} \in SUBSET S /\ s \ {x} \notin T
    <2>1. Cardinality(s \ {x}) = Cardinality(s) - 1
      BY <1>1, FS_RemoveElement
    <2>2. ~(n <= Cardinality(s \ {x}))
      BY <1>1, <1>5, <2>1
    <2> QED BY <1>2, <1>4, <2>2
  <1> QED BY <1>6 DEF Smallest

LEMMA SumExists == ASSUME NEW S, NEW f, Countable(f, S) PROVE \E h : Sums(h, f, S)
  <1> DEFINE CountsTo(h, n) == /\ h \in [SUBSET S -> Nat]
                               /\ \A s \in SUBSET S : Cardinality(s) <= n => SumsAt(h, f, s)
             T == {n \in Nat : ~\E h : CountsTo(h, n)}
  <1> /\ IsFiniteSet(S) /\ \A x \in S : f[x] \in Nat
      /\ \A s \in SUBSET S : IsFiniteSet(s) /\ Cardinality(s) \in Nat
    BY FS_Subset, FS_CardinalityType DEF Countable
  <1>1. T = {}
    <2> SUFFICES ASSUME T # {} PROVE FALSE
      OBVIOUS
    <2> PICK n \in T : \A m \in T : n <= m
      <3>1. T \subseteq Nat
        OBVIOUS
      <3> HIDE DEF T
      <3> QED BY <3>1, LeastNat
    <2>2. CASE n = 0
      <3>1. PICK h : h = [s \in SUBSET S |-> 0]
        OBVIOUS
      <3>3. CountsTo(h, 0)
        BY <3>1, FS_EmptySet DEF SumsAt
      <3> QED BY <2>2, <3>3
    <2>3. CASE n # 0
      <3>1. n - 1 \in Nat /\ n - 1 \notin T
        <4>1. n - 1 \in Nat /\ ~(n <= n - 1)
          BY <2>3
        <4> HIDE DEF T
        <4> QED BY <4>1
      <3>2. PICK g : CountsTo(g, n - 1)
        BY <3>1
      <3>3. PICK h : h = [s \in SUBSET S |-> IF Cardinality(s) = n THEN f[Pick(s)] + g[s \ {Pick(s)}]
                                            ELSE g[s]]
        OBVIOUS
      <3>4. ASSUME NEW s \in SUBSET S, s # {}
            PROVE  /\ Pick(s) \in S /\ s \ {Pick(s)} \in SUBSET S
                   /\ Cardinality(s \ {Pick(s)}) = Cardinality(s) - 1
        <4> QED BY FS_RemoveElement, <3>4 DEF Pick
      <3>5. \A s \in SUBSET S : Cardinality(s) = n => s # {}
        BY <2>3, FS_EmptySet
      <3>6. h \in [SUBSET S -> Nat]
        BY <3>2, <3>4, <3>5, <3>3
      <3>7. ASSUME NEW s \in SUBSET S, Cardinality(s) <= n PROVE SumsAt(h, f, s)
        <4>1. CASE s = {}
          BY <3>1, <4>1, FS_EmptySet, <2>3, <3>2, <3>3 DEF SumsAt
        <4>2. CASE s # {}
          <5>1. PICK r : r = s \ {Pick(s)}
            OBVIOUS
          <5>2. r \in SUBSET S /\ Cardinality(r) # n /\ h[r] = g[r]
            BY <3>3, <3>4, <3>7, <4>2, <5>1
          <5>3. CASE Cardinality(s) = n
            BY <3>3, <4>2, <5>1, <5>2, <5>3 DEF SumsAt
          <5>4. CASE Cardinality(s) # n
            BY <3>7, <5>4, <3>2, <3>3, <4>2, <5>1, <5>2 DEF SumsAt
          <5> QED BY <5>3, <5>4
        <4> QED BY <4>1, <4>2
      <3> QED BY <3>6, <3>7
    <2> QED BY <2>2, <2>3
  <1>2. PICK h : CountsTo(h, Cardinality(S))
    BY <1>1
  <1> QED BY <1>2, FS_Subset DEF Sums

LEMMA SumIs == ASSUME NEW S, NEW f, Countable(f, S) PROVE \E h : Sums(h, f, S) /\ Total(f, S) = h[S]
  <1> DEFINE D(h) == [s \in SUBSET S |-> IF s = {} THEN 0 ELSE f[Pick(s)] + h[s \ {Pick(s)}]]
  <1>1. PICK g : Sums(g, f, S)
    BY SumExists
  <1>2. g = D(g)
    BY <1>1 DEF Sums, SumsAt
  <1>3. PICK h : h = CHOOSE r : r = D(r)
    OBVIOUS
  <1>4. h = D(h)
    <2> HIDE DEF D
    <2> QED BY <1>2, <1>3, Zenon
  <1>6. \A s \in SUBSET S : SumsAt(h, f, s)
    BY <1>4, Zenon DEF SumsAt
  <1>7. \A s \in SUBSET S : h[s] = g[s]
    <2> DEFINE T == {s \in SUBSET S : h[s] # g[s]}
    <2> SUFFICES ASSUME T # {} PROVE FALSE
      OBVIOUS
    <2>1. PICK s \in T : \A x \in s : s \ {x} \in SUBSET S /\ s \ {x} \notin T
      <3>2. PICK R : R = T
        OBVIOUS
      <3>3. R \subseteq SUBSET S /\ R # {} /\ IsFiniteSet(S)
        BY <3>2 DEF Countable
      <3> HIDE DEF T
      <3> QED BY <3>2, <3>3, SmallestSubset DEF Smallest
    <2>3. s # {} => Pick(s) \in s
      BY DEF Pick
    <2> QED BY <2>1, <2>3, <1>1, <1>6 DEF SumsAt, Sums
  <1>8. h \in [SUBSET S -> Nat]
    BY <1>4, <1>1, <1>7 DEF Sums
  <1> QED BY <1>6, <1>8, <1>3 DEF Sums, Total, Pick, Locking!SumFunctionOnSet,
             Locking!FoldFunctionOnSet, Locking!MapThenFoldSet

(* An element may be taken out of the sum first, whichever it is.             *)
LEMMA TakenOut ==
  ASSUME NEW S, NEW f, Countable(f, S), NEW h, Sums(h, f, S)
  PROVE  \A s \in SUBSET S : \A x \in s : h[s] = f[x] + h[s \ {x}]
  <1> DEFINE T == {s \in SUBSET S : \E x \in s : h[s] # f[x] + h[s \ {x}]}
  <1> SUFFICES ASSUME T # {} PROVE FALSE
    OBVIOUS
  <1>1. PICK s \in T : \A x \in s : s \ {x} \in SUBSET S /\ s \ {x} \notin T
    <2>1. PICK R : R = T
      OBVIOUS
    <2>3. \E s \in R : Smallest(s, R, S)
      BY SmallestSubset, <2>1 DEF Countable
    <2> HIDE DEF T
    <2> QED BY <2>1, <2>3 DEF Smallest
  <1>2. PICK x \in s : h[s] # f[x] + h[s \ {x}]
    BY <1>1
  <1>3. PICK p : p = Pick(s)
    OBVIOUS
  <1>4. p \in s /\ h[s] = f[p] + h[s \ {p}]
    BY <1>1, <1>2, <1>3 DEF Sums, SumsAt, Pick
  <1>6. /\ h[s \ {p}] = f[x] + h[(s \ {p}) \ {x}]
        /\ h[s \ {x}] = f[p] + h[(s \ {x}) \ {p}]
    BY <1>1, <1>2, <1>4
  <1>7. PICK r : r = (s \ {p}) \ {x}
    OBVIOUS
  <1>8. (s \ {x}) \ {p} = r /\ r \in SUBSET S
    BY <1>1, <1>7
  <1>9. f[x] \in Nat /\ f[p] \in Nat /\ h[r] \in Nat
    BY <1>1, <1>2, <1>4, <1>8 DEF Countable, Sums
  <1>10. h[s \ {p}] = f[x] + h[r] /\ h[s \ {x}] = f[p] + h[r]
    BY <1>6, <1>7, <1>8
  <1>11. h[s] = f[x] + h[s \ {x}]
    <2>1. PICK a, b, e : a = f[x] /\ b = f[p] /\ e = h[r]
      OBVIOUS
    <2>2. h[s] = b + (a + e) /\ h[s \ {x}] = b + e /\ a \in Nat /\ b \in Nat /\ e \in Nat
      BY <1>4, <1>9, <1>10, <2>1
    <2> QED BY <2>1, <2>2
  <1> QED BY <1>2, <1>11

(* What sums depend on.                                                       *)
LEMMA SumsAgree ==
  ASSUME NEW S, NEW R, R \subseteq S, NEW f, Countable(f, S), NEW g, Countable(g, R),
         \A x \in R : f[x] = g[x], NEW h, Sums(h, f, S), NEW k, Sums(k, g, R)
  PROVE  h[R] = k[R]
  <1> DEFINE T == {s \in SUBSET R : h[s] # k[s]}
  <1> SUFFICES ASSUME T # {} PROVE FALSE
    OBVIOUS
  <1>1. PICK s \in T : \A x \in s : s \ {x} \in SUBSET R /\ s \ {x} \notin T
    <2>1. PICK Q : Q = T
      OBVIOUS
    <2>3. \E s \in Q : Smallest(s, Q, R)
      BY SmallestSubset, <2>1 DEF Countable
    <2> HIDE DEF T
    <2> QED BY <2>1, <2>3 DEF Smallest
  <1>3. s # {} => Pick(s) \in s
    BY DEF Pick
  <1> QED BY <1>1, <1>3 DEF SumsAt, Sums

LEMMA TotalOf ==
  ASSUME NEW S, NEW f, Countable(f, S), NEW x \in S
  PROVE  /\ Total(f, S) \in Nat /\ Total(f, S \ {x}) \in Nat /\ f[x] \in Nat
         /\ Total(f, S) = f[x] + Total(f, S \ {x})
  <1>1. PICK h : Sums(h, f, S) /\ Total(f, S) = h[S]
    BY SumIs
  <1>2. PICK R : R = S \ {x}
    OBVIOUS
  <1>3. Countable(f, R) /\ R \subseteq S
    BY <1>2, FS_Subset DEF Countable
  <1>4. PICK k : Sums(k, f, R) /\ Total(f, R) = k[R]
    BY <1>3, SumIs
  <1>5. h[R] = k[R]
    BY <1>1, <1>3, <1>4, SumsAgree
  <1>6. h[S] = f[x] + h[R]
    BY <1>1, <1>2, TakenOut
  <1>7. h[S] \in Nat /\ h[R] \in Nat /\ f[x] \in Nat
    BY <1>1, <1>3 DEF Sums, Countable
  <1> QED BY <1>1, <1>2, <1>4, <1>5, <1>6, <1>7

LEMMA TotalNone == \A f : Total(f, {}) = 0
  <1> SUFFICES ASSUME NEW f PROVE Total(f, {}) = 0
    OBVIOUS
  <1>1. Countable(f, {})
    BY FS_EmptySet DEF Countable
  <1>2. PICK h : Sums(h, f, {}) /\ Total(f, {}) = h[{}]
    BY <1>1, SumIs
  <1> QED BY <1>2 DEF Sums, SumsAt

LEMMA TotalSame ==
  ASSUME NEW S, NEW f, NEW g, Countable(f, S), \A x \in S : f[x] = g[x]
  PROVE  Total(f, S) = Total(g, S) /\ Total(f, S) \in Nat
  <1>1. Countable(g, S) /\ S \subseteq S
    BY DEF Countable
  <1>2. PICK h : Sums(h, f, S) /\ Total(f, S) = h[S]
    BY SumIs
  <1>3. PICK k : Sums(k, g, S) /\ Total(g, S) = k[S]
    BY <1>1, SumIs
  <1>5. h[S] \in Nat
    BY <1>2 DEF Sums
  <1> QED BY <1>2, <1>3, <1>5, <1>1, SumsAgree

(* One of the numbers that are added up grows.                                *)
LEMMA TotalGrows ==
  ASSUME NEW S, NEW f, NEW g, Countable(f, S), Countable(g, S), NEW t \in S,
         \A x \in S \ {t} : f[x] = g[x], NEW d \in Nat, g[t] = f[t] + d
  PROVE  Total(g, S) = Total(f, S) + d
  <1>1. PICK R : R = S \ {t}
    OBVIOUS
  <1>3. Total(f, R) = Total(g, R)
    BY <1>1, TotalSame, FS_Subset DEF Countable
  <1> QED BY <1>3, <1>1, TotalOf

(* The first n numbers of a sequence, and the next one.                       *)
LEMMA TotalUpto ==
  ASSUME NEW f, NEW n \in Nat, \A k \in 1 .. n + 1 : f[k] \in Nat
  PROVE  /\ Total(f, 1 .. n) \in Nat /\ f[n + 1] \in Nat
         /\ Total(f, 1 .. n + 1) = Total(f, 1 .. n) + f[n + 1]
  <1>1. PICK S : S = 1 .. n + 1
    OBVIOUS
  <1>3. Countable(f, S)
    BY <1>1, FS_Interval DEF Countable
  <1>4. PICK a, b : a = f[n + 1] /\ b = Total(f, 1 .. n)
    OBVIOUS
  <1>5. b \in Nat /\ a \in Nat /\ Total(f, S) = a + b
    BY <1>3, <1>4, TotalOf, <1>1
  <1> QED BY <1>1, <1>4, <1>5

--------------------------------------------------------------------------------
(* Critical sections.                                                         *)
SectionNumbers == Sharers \in Nat /\ Repeats \in Nat \ {0}
FitsIn(d) == /\ d.depth \in Seq(Nat \ {0}) /\ d.depth # <<>>
             /\ d.updates \in [1 .. Len(d.depth) -> Nat]
             /\ d.delta \in Nat /\ d.shared \in BOOLEAN
             /\ d.shared => \A k \in 1 .. Len(d.depth) : d.updates[k] = 0
Sharing == DOMAIN program.does
ProgramFits == /\ program.initial \in Nat /\ IsFiniteSet(Sharing)
               /\ \A t \in Sharing : FitsIn(program.does[t])

LockTypes == /\ pc \in [Sharing -> {"lock", "load", "store", "unlock", "done"}]
             /\ amount \in Nat /\ loaded \in [Sharing -> Nat] /\ held \in [Sharing -> Nat]
             /\ section \in [Sharing -> Nat] /\ stores \in [Sharing -> Nat]
(* Where a thread is tells how often it holds the mutex and what it has done  *)
(* in its section; the value it has loaded is still that of the amount.       *)
SectionAt(t) ==
  /\ section[t] <= Len(program.does[t].depth)
  /\ pc[t] = "done" <=> section[t] = Len(program.does[t].depth)
  /\ pc[t] = "done" => held[t] = 0 /\ stores[t] = 0
  /\ pc[t] = "lock" => held[t] < Locking!Depth(t) /\ stores[t] = 0
  /\ pc[t] \in {"load", "store"} => held[t] = Locking!Depth(t) /\ stores[t] < Locking!Updates(t)
  /\ pc[t] = "unlock" => held[t] \in 1 .. Locking!Depth(t) /\ stores[t] = Locking!Updates(t)
  /\ pc[t] = "store" => loaded[t] = amount
HoldApart == \A t, u \in Sharing : t # u /\ held[t] > 0 /\ held[u] > 0 =>
               program.does[t].shared /\ program.does[u].shared
(* What a thread has added, in the sections it has left and in this one.      *)
Share(t) == Locking!Added(t) + program.does[t].delta * stores[t]
AmountIs == amount = program.initial + Total([t \in Sharing |-> Share(t)], Sharing)
LockInv == /\ program \in Locking!Mine
           /\ LockTypes /\ (\A t \in Sharing : SectionAt(t)) /\ HoldApart /\ AmountIs

LEMMA SectionPrograms ==
  ASSUME SectionNumbers, program \in Locking!Mine
  PROVE  ProgramFits /\ Locking!Runs
  <1> USE DEF ProgramFits, Sharing, SectionNumbers
  <1>1. \A x \in Nat : FitsIn(Locking!Writer(x))
    BY DEF FitsIn, Locking!Writer
  <1>2. FitsIn(Locking!Reader)
    BY DEF FitsIn, Locking!Writer, Locking!Reader
  <1> \A n \in Nat : IsFiniteSet(1 .. n)
    BY FS_Interval
  <1>4. CASE program = Locking!TestThread
    BY <1>4, <1>1 DEF Locking!TestThread, Locking!Runs
  <1>5. CASE program \in {Locking!Shopper, Locking!AtomicShopper}
    <2>1. PICK w : w = [Locking!Writer(1) EXCEPT !.updates = <<Repeats>>]
      OBVIOUS
    <2>2. FitsIn(w)
      BY <2>1 DEF FitsIn, Locking!Writer
    <2>3. PICK e : e = [t \in 1 .. 2 |-> w]
      OBVIOUS
    <2>4. Locking!Shopper = [name |-> "shopper", initial |-> 0, does |-> e]
      BY <2>1, <2>3, Zenon DEF Locking!Shopper
    <2>5. PICK p : p = [name |-> "shopper", initial |-> 0, does |-> e]
      OBVIOUS
    <2>7. /\ p.initial = 0 /\ p.name = "shopper" /\ p.does = e
          /\ Locking!AtomicShopper.initial = 0 /\ Locking!AtomicShopper.does = e
          /\ Locking!AtomicShopper.name = "atomic shopper"
      BY <2>5, <2>4 DEF Locking!AtomicShopper
    <2>8. program.initial = 0 /\ program.name \in {"shopper", "atomic shopper"} /\ program.does = e
      BY <1>5, <2>4, <2>5, <2>7
    <2>9. DOMAIN e = 1 .. 2 /\ \A t \in 1 .. 2 : e[t] = w
      BY <2>3
    <2>10. Sharing = 1 .. 2 /\ program.initial \in Nat
      <3>1. DOMAIN program.does = DOMAIN e
        BY <2>8, Zenon
      <3>2. 0 \in Nat
        OBVIOUS
      <3> QED BY <2>8, <2>9, <3>1, <3>2, Zenon
    <2>11. \A t \in Sharing : FitsIn(program.does[t])
      <3>1. ASSUME NEW t \in Sharing PROVE program.does[t] = w
        BY <2>8, <2>9, <2>10, Zenon
      <3> QED BY <2>2, <3>1
    <2> QED BY <2>8, <2>10, <2>11 DEF Locking!Runs
  <1>6. CASE program = Locking!PrintTask
    <2>1. PICK s : s = [k \in 1 .. Repeats |-> 1]
      OBVIOUS
    <2>4. FitsIn([Locking!Writer(1) EXCEPT !.depth = s, !.updates = s])
      BY <2>1 DEF FitsIn, Locking!Writer
    <2> QED BY <2>4, <1>6, <2>1 DEF Locking!Runs, Locking!PrintTask
  <1>7. CASE program = Locking!SpinTask
    BY <1>7, <1>1 DEF Locking!SpinTask, Locking!Runs
  <1>8. CASE program = Locking!TimedTasks
    BY <1>8, <1>1 DEF Locking!TimedTasks, Locking!Runs
  <1>9. CASE program = Locking!ReadWrite
    <2>1. program.initial \in Nat /\ Sharing = 1 .. Sharers + 2 /\ program.name = "read and write"
          /\ \A t \in 1 .. Sharers + 2 : program.does[t] \in {Locking!Writer(1), Locking!Reader}
      BY <1>9 DEF Locking!ReadWrite
    <2>3. \A t \in Sharing : FitsIn(program.does[t])
      BY <1>2, <2>1, <1>1
    <2>5. IsFiniteSet(1 .. Sharers + 2)
      OBVIOUS
    <2> QED BY <2>1, <2>3, <2>5 DEF Locking!Runs
  <1>10. CASE program = Locking!Factorial
    <2>1. program.initial \in Nat /\ Sharing = 1 .. Sharers /\ program.name = "factorial"
          /\ \A t \in 1 .. Sharers : program.does[t] = [Locking!Writer(1) EXCEPT
               !.depth = <<3 + ((t - 1) % 3), 1>>, !.updates = <<0, 1>>]
      BY <1>10 DEF Locking!Factorial
    <2>2. ASSUME NEW n \in Nat \ {0}
          PROVE  FitsIn([Locking!Writer(1) EXCEPT !.depth = <<n, 1>>, !.updates = <<0, 1>>])
      BY DEF FitsIn, Locking!Writer
    <2>3. ASSUME NEW t \in Sharing
          PROVE  FitsIn(program.does[t])
      <3> t \in 1 .. Sharers
        BY <2>1
      <3>1. PICK n : n = 3 + ((t - 1) % 3)
        OBVIOUS
      <3>2. n \in Nat \ {0}
        BY <3>1
      <3>3. program.does[t] = [Locking!Writer(1) EXCEPT !.depth = <<n, 1>>, !.updates = <<0, 1>>]
        BY <2>1, <3>1, Zenon
      <3> QED BY <2>2, <3>2, <3>3
    <2> QED BY <2>1, <2>3 DEF Locking!Runs
  <1> QED BY <1>4, <1>5, <1>6, <1>7, <1>8, <1>9, <1>10 DEF Locking!Mine

LEMMA UpdatesAdded ==
  ASSUME NEW d, FitsIn(d), NEW n \in 0 .. Len(d.depth)
  PROVE  /\ Total(d.updates, 1 .. n) \in Nat
         /\ n < Len(d.depth) =>
              /\ d.updates[n + 1] \in Nat
              /\ Total(d.updates, 1 .. n + 1) = Total(d.updates, 1 .. n) + d.updates[n + 1]
  <1>1. Len(d.depth) \in Nat /\ d.updates \in [1 .. Len(d.depth) -> Nat] /\ n \in Nat
    BY DEF FitsIn
  <1>2. CASE n < Len(d.depth)
    BY <1>1, <1>2, TotalUpto
  <1>3. CASE n = Len(d.depth)
    <2>2. n # 0 => n - 1 \in Nat /\ (n - 1) + 1 = n
      BY <1>1
    <2>3. \A k \in 1 .. n : d.updates[k] \in Nat
      BY <1>1, <1>3
    <2>4. n # 0 => Countable(d.updates, 1 .. n)
      BY <1>1, <2>3, FS_Interval DEF Countable
    <2>5. Total(d.updates, 1 .. n) \in Nat
      BY <2>4, TotalNone, TotalSame
    <2> QED BY <1>3, <2>5
  <1> QED BY <1>1, <1>2, <1>3

(* What a thread's place in its sections says.                                *)
LEMMA ThreadIs ==
  ASSUME ProgramFits, LockTypes, NEW t \in Sharing, SectionAt(t)
  PROVE  /\ program.does[t].delta \in Nat /\ Locking!Does(t) = program.does[t]
         /\ Locking!Added(t) \in Nat /\ Share(t) \in Nat
         /\ pc[t] # "done" => /\ section[t] \in 0 .. Len(program.does[t].depth)
                              /\ section[t] < Len(program.does[t].depth)
                              /\ Locking!Depth(t) \in Nat \ {0} /\ Locking!Updates(t) \in Nat
                              /\ program.does[t].shared => Locking!Updates(t) = 0
  <1>1. PICK d, n : d = program.does[t] /\ n = section[t]
    OBVIOUS
  <1>2. FitsIn(d) /\ n \in 0 .. Len(d.depth) /\ d.delta \in Nat /\ stores[t] \in Nat
        /\ Len(d.depth) \in Nat
    BY <1>1 DEF ProgramFits, LockTypes, SectionAt, FitsIn
  <1>3. Total(d.updates, 1 .. n) \in Nat
    BY <1>2, UpdatesAdded
  <1>4. Locking!Added(t) = d.delta * Total(d.updates, 1 .. n)
    BY <1>1 DEF Locking!Added, Locking!Does, Total
  <1>5. \A x, y \in Nat : x * y \in Nat
    OBVIOUS
  <1>6. Locking!Added(t) \in Nat /\ Share(t) \in Nat
    BY <1>1, <1>2, <1>3, <1>4, <1>5 DEF Share
  <1>8. n < Len(d.depth) => n + 1 \in 1 .. Len(d.depth)
    BY <1>2
  <1>9. n < Len(d.depth) => /\ d.depth[n + 1] \in Nat \ {0} /\ d.updates[n + 1] \in Nat
                            /\ d.shared => d.updates[n + 1] = 0
    BY <1>2, <1>8 DEF FitsIn
  <1>10. Locking!Depth(t) = d.depth[n + 1] /\ Locking!Updates(t) = d.updates[n + 1]
    BY <1>1 DEF Locking!Depth, Locking!Updates, Locking!Does
  <1> QED BY <1>1, <1>2, <1>6, <1>9, <1>10 DEF Locking!Does, SectionAt


LEMMA TotalZero ==
  ASSUME NEW S, NEW f, Countable(f, S), \A x \in S : f[x] = 0
  PROVE  Total(f, S) = 0
  <1>1. PICK h : h = [s \in SUBSET S |-> 0]
    OBVIOUS
  <1>3. Sums(h, f, S) /\ h[S] = 0 /\ S \subseteq S
    BY <1>1 DEF Sums, Pick, SumsAt
  <1>4. PICK k : Sums(k, f, S) /\ Total(f, S) = k[S]
    BY SumIs
  <1> QED BY <1>3, <1>4, SumsAgree

(* The amount is what it was, or one thread has added to it.                  *)
LEMMA AmountStays ==
  ASSUME UNCHANGED <<program, amount>>, AmountIs, \A t \in Sharing : Share(t)' = Share(t)
  PROVE  AmountIs'
  <1>1. Sharing' = Sharing /\ program'.initial = program.initial
    BY DEF Sharing
  <1> QED BY <1>1 DEF AmountIs

LEMMA AmountAdds ==
  ASSUME ProgramFits, LockTypes, \A u \in Sharing : SectionAt(u), AmountIs,
         UNCHANGED program, NEW t \in Sharing, NEW d \in Nat,
         \A u \in Sharing \ {t} : Share(u)' = Share(u), Share(t)' = Share(t) + d,
         amount' = amount + d
  PROVE  AmountIs'
  <1>1. PICK f : f = [u \in Sharing |-> Share(u)]
    OBVIOUS
  <1>2. PICK g : g = [u \in Sharing |-> Share(u)']
    OBVIOUS
  <1>3. Sharing' = Sharing /\ program'.initial = program.initial
    BY DEF Sharing
  <1>4. \A u \in Sharing : Share(u) \in Nat
    BY ThreadIs
  <1>5. IsFiniteSet(Sharing) /\ program.initial \in Nat /\ amount \in Nat
    BY DEF ProgramFits, LockTypes
  <1>7. Countable(f, Sharing) /\ f[t] = Share(t)
    BY <1>1, <1>4, <1>5 DEF Countable
  <1>8. \A u \in Sharing : g[u] \in Nat /\ (u # t => g[u] = f[u])
    BY <1>1, <1>2, <1>4
  <1>10. Total(g, Sharing) = Total(f, Sharing) + d
    BY <1>7, <1>8, TotalGrows, <1>2, <1>5 DEF Countable
  <1>11. Total(f, Sharing) \in Nat
    BY <1>7, TotalSame
  <1>13. amount' = program'.initial + Total(g, Sharing')
    BY <1>3, <1>5, <1>10, <1>11, <1>1 DEF AmountIs
  <1> QED BY <1>13, <1>2, <1>3 DEF AmountIs

LEMMA LockInvInit ==
  ASSUME SectionNumbers, Locking!Init
  PROVE  LockInv
  <1>1. program \in Locking!Mine /\ ProgramFits
    BY SectionPrograms DEF Locking!Init
  <1>2. /\ pc = [t \in Sharing |-> "lock"] /\ amount = program.initial
        /\ loaded = [t \in Sharing |-> 0] /\ held = [t \in Sharing |-> 0]
        /\ section = [t \in Sharing |-> 0] /\ stores = [t \in Sharing |-> 0]
    BY DEF Locking!Init, Sharing
  <1>4. HoldApart
    BY <1>2 DEF HoldApart
  <1>5. ASSUME NEW t \in Sharing PROVE SectionAt(t) /\ Share(t) = 0
    <2>1. PICK d : d = program.does[t]
      OBVIOUS
    <2>3. Len(d.depth) \in Nat \ {0} /\ d.depth[1] \in Nat \ {0} /\ d.delta \in Nat
      BY <1>1, <2>1 DEF FitsIn, ProgramFits
    <2>4. section[t] = 0 /\ stores[t] = 0 /\ held[t] = 0 /\ pc[t] = "lock"
      BY <1>2
    <2>6. SectionAt(t)
      BY <2>1, <2>3, <2>4 DEF SectionAt, Locking!Depth, Locking!Does
    <2>7. Total(d.updates, 1 .. section[t]) = 0
      <3> QED BY TotalNone, <2>4
    <2>9. Locking!Added(t) = 0
      BY <2>3, <2>7, <2>1 DEF Locking!Added, Locking!Does, Total
    <2> QED BY <2>1, <2>3, <2>4, <2>6, <2>9 DEF Share
  <1>6. PICK f : f = [t \in Sharing |-> Share(t)]
    OBVIOUS
  <1>7. \A t \in Sharing : f[t] = 0
    BY <1>5, <1>6
  <1>9. Total(f, Sharing) = 0
    BY <1>7, TotalZero, <1>1 DEF Countable, ProgramFits
  <1>10. AmountIs
    BY <1>1, <1>2, <1>6, <1>9 DEF AmountIs, ProgramFits
  <1> QED BY <1>1, <1>4, <1>5, <1>10, <1>2 DEF LockInv, LockTypes, ProgramFits

(* What the others have not touched stays as it was.                          *)
LEMMA SectionElsewhere ==
  ASSUME LockInv, UNCHANGED program, NEW u \in Sharing,
         pc'[u] = pc[u], loaded'[u] = loaded[u], held'[u] = held[u],
         section'[u] = section[u], stores'[u] = stores[u],
         pc[u] # "store" \/ amount' = amount
  PROVE  SectionAt(u)' /\ Share(u)' = Share(u)
  <1>2. /\ Locking!Depth(u)' = Locking!Depth(u) /\ Locking!Updates(u)' = Locking!Updates(u)
        /\ Locking!Added(u)' = Locking!Added(u)
    BY DEF Locking!Depth, Locking!Updates, Locking!Added, Locking!Does
  <1>4. SectionAt(u)'
    BY <1>2 DEF SectionAt, LockInv
  <1> QED BY <1>4, <1>2 DEF Share

(* Only one thread is in a section that stores.                               *)
LEMMA StoresAlone ==
  ASSUME LockInv, ProgramFits, NEW t \in Sharing, NEW u \in Sharing, t # u,
         pc[t] \in {"load", "store"}
  PROVE  pc[u] \notin {"load", "store"}
  <1> SUFFICES ASSUME pc[u] \in {"load", "store"} PROVE FALSE
    OBVIOUS
  <1>1. LockTypes /\ SectionAt(t) /\ SectionAt(u) /\ HoldApart
    BY DEF LockInv
  <1>2. /\ Locking!Depth(t) \in Nat \ {0} /\ Locking!Updates(t) \in Nat
        /\ Locking!Depth(u) \in Nat \ {0} /\ Locking!Updates(u) \in Nat
        /\ program.does[t].shared => Locking!Updates(t) = 0
    BY <1>1, ThreadIs
  <1>3. held[t] = Locking!Depth(t) /\ held[u] = Locking!Depth(u) /\ stores[t] < Locking!Updates(t)
        /\ stores[t] \in Nat
    BY <1>1 DEF SectionAt, LockTypes
  <1> QED BY <1>2, <1>3, <1>1 DEF HoldApart

(* One thread moves: what is left to show is its own part.                    *)
LEMMA OneThreadMoves ==
  ASSUME ProgramFits, LockInv, NEW t \in Sharing, UNCHANGED program,
         LockTypes', SectionAt(t)', HoldApart',
         \A u \in Sharing \ {t} : /\ pc'[u] = pc[u] /\ loaded'[u] = loaded[u] /\ held'[u] = held[u]
                                  /\ section'[u] = section[u] /\ stores'[u] = stores[u],
         NEW d \in Nat, amount' = amount + d, Share(t)' = Share(t) + d,
         d = 0 \/ pc[t] \in {"load", "store"}
  PROVE  LockInv'
  <1>1. LockTypes /\ (\A u \in Sharing : SectionAt(u)) /\ AmountIs /\ amount \in Nat
    BY DEF LockInv, LockTypes
  <1>2. ASSUME NEW u \in Sharing \ {t} PROVE SectionAt(u)' /\ Share(u)' = Share(u)
    BY <1>1, StoresAlone, SectionElsewhere
  <1>4. Sharing' = Sharing /\ Locking!Mine' = Locking!Mine
    BY DEF Sharing, Locking!Mine, Locking!TestThread, Locking!Shopper, Locking!AtomicShopper,
       Locking!PrintTask, Locking!SpinTask, Locking!TimedTasks, Locking!ReadWrite, Locking!Factorial,
       Locking!Writer, Locking!Reader
  <1>5. \A u \in Sharing' : SectionAt(u)'
    BY <1>2, <1>4
  <1> QED BY <1>4, <1>5, <1>1, <1>2, AmountAdds DEF LockInv

LEMMA LockKeeps ==
  ASSUME ProgramFits, LockInv, NEW t \in Sharing, Locking!Lock(t), UNCHANGED program
  PROVE  LockInv'
  <1> LockTypes /\ SectionAt(t) /\ HoldApart
    BY DEF LockInv
  <1>2. /\ Locking!Depth(t) \in Nat \ {0} /\ Locking!Updates(t) \in Nat /\ Share(t) \in Nat
        /\ amount \in Nat
    BY ThreadIs DEF Locking!Lock, LockTypes
  <1> /\ pc[t] = "lock" /\ Locking!Free(t) /\ UNCHANGED <<amount, loaded, section, stores>>
      /\ held' = [held EXCEPT ![t] = held[t] + 1] /\ held[t] \in Nat
      /\ pc' = [pc EXCEPT ![t] = IF held'[t] < Locking!Depth(t) THEN "lock"
                                 ELSE IF Locking!Updates(t) = 0 THEN "unlock" ELSE "load"]
    BY DEF Locking!Lock, Locking!Goto, LockTypes
  <1>4. held'[t] = held[t] + 1 /\ Sharing' = Sharing
    BY DEF LockTypes, Sharing
  <1>5. LockTypes'
    BY <1>4 DEF LockTypes
  <1>6. \A u \in Sharing \ {t} : pc'[u] = pc[u] /\ held'[u] = held[u]
    BY DEF LockTypes
  <1>7. /\ Locking!Depth(t)' = Locking!Depth(t) /\ Locking!Updates(t)' = Locking!Updates(t)
        /\ Locking!Added(t)' = Locking!Added(t)
    BY DEF Locking!Depth, Locking!Updates, Locking!Added, Locking!Does
  <1>9. pc'[t] = IF held'[t] < Locking!Depth(t) THEN "lock"
                 ELSE IF Locking!Updates(t) = 0 THEN "unlock" ELSE "load"
    BY DEF LockTypes
  <1>10. held[t] < Locking!Depth(t) /\ stores[t] = 0 /\ section'[t] = section[t] /\ stores'[t] = 0
         /\ section[t] # Len(program.does[t].depth) /\ section[t] <= Len(program.does[t].depth)
    BY DEF SectionAt
  <1>11. SectionAt(t)'
    BY <1>2, <1>4, <1>7, <1>9, <1>10 DEF SectionAt
  <1>13. HoldApart'
    BY <1>4, <1>6 DEF HoldApart, Locking!Free, Locking!Does, LockTypes
  <1>14. 0 \in Nat /\ amount' = amount + 0 /\ Share(t)' = Share(t) + 0
    BY <1>2, <1>7 DEF Share
  <1> QED BY <1>5, <1>6, <1>11, <1>13, <1>14, OneThreadMoves

LEMMA LoadKeeps ==
  ASSUME ProgramFits, LockInv, NEW t \in Sharing, Locking!Load(t), UNCHANGED program
  PROVE  LockInv'
  <1> LockTypes /\ SectionAt(t) /\ HoldApart
    BY DEF LockInv
  <1> /\ pc[t] = "load" /\ UNCHANGED <<amount, held, section, stores>>
      /\ loaded' = [loaded EXCEPT ![t] = amount] /\ pc' = [pc EXCEPT ![t] = "store"]
    BY DEF Locking!Load, Locking!Goto
  <1>4. Sharing' = Sharing /\ pc'[t] = "store" /\ loaded'[t] = amount
    BY DEF LockTypes, Sharing
  <1>5. LockTypes'
    BY <1>4 DEF LockTypes
  <1>6. \A u \in Sharing \ {t} : pc'[u] = pc[u] /\ loaded'[u] = loaded[u]
    BY DEF LockTypes
  <1>7. /\ Locking!Depth(t)' = Locking!Depth(t) /\ Locking!Updates(t)' = Locking!Updates(t)
        /\ Locking!Added(t)' = Locking!Added(t)
    BY DEF Locking!Depth, Locking!Updates, Locking!Added, Locking!Does
  <1>8. Share(t)' = Share(t)
    BY <1>7 DEF Share
  <1>9. SectionAt(t)'
    BY <1>4, <1>7 DEF SectionAt
  <1>10. HoldApart'
    BY <1>4 DEF HoldApart
  <1>11. 0 \in Nat /\ amount' = amount + 0 /\ Share(t)' = Share(t) + 0
    BY <1>8, ThreadIs DEF LockTypes
  <1> QED BY <1>5, <1>6, <1>9, <1>10, <1>11, OneThreadMoves

(* A store is of the value loaded plus the delta, a fetch_add of the amount   *)
(* plus the delta: both add the delta, in a section no other thread stores in.*)
LEMMA StoreKeeps ==
  ASSUME ProgramFits, LockInv, NEW t \in Sharing, UNCHANGED program,
         Locking!Store(t) \/ Locking!FetchAdd(t)
  PROVE  LockInv'
  <1>1. LockTypes /\ SectionAt(t) /\ HoldApart
    BY DEF LockInv
  <1>2. PICK d : d = program.does[t].delta
    OBVIOUS
  <1>3. /\ pc[t] \in {"load", "store"} /\ UNCHANGED <<loaded, held, section>>
        /\ amount' = amount + d /\ stores' = [stores EXCEPT ![t] = stores[t] + 1]
        /\ pc' = [pc EXCEPT ![t] = IF stores'[t] < Locking!Updates(t) THEN "load" ELSE "unlock"]
    BY <1>1, <1>2 DEF Locking!Store, Locking!FetchAdd, Locking!Goto, Locking!Does, SectionAt
  <1>4. /\ Share(t) \in Nat /\ amount \in Nat /\ d \in Nat /\ Locking!Depth(t) \in Nat \ {0}
        /\ Locking!Updates(t) \in Nat /\ Locking!Added(t) \in Nat
    BY <1>1, <1>2, <1>3, ThreadIs DEF LockTypes
  <1>5. stores[t] \in Nat /\ stores[t] < Locking!Updates(t) /\ held[t] = Locking!Depth(t)
        /\ section[t] <= Len(program.does[t].depth) /\ section[t] # Len(program.does[t].depth)
    BY <1>1, <1>3 DEF SectionAt, LockTypes
  <1>6. /\ Sharing' = Sharing /\ stores'[t] = stores[t] + 1 /\ held'[t] = held[t]
        /\ pc'[t] = IF stores'[t] < Locking!Updates(t) THEN "load" ELSE "unlock"
    BY <1>1, <1>3 DEF LockTypes, Sharing
  <1>8. LockTypes'
    BY <1>1, <1>3, <1>6, <1>4, <1>5 DEF LockTypes
  <1>9. \A u \in Sharing \ {t} : pc'[u] = pc[u] /\ stores'[u] = stores[u]
    BY <1>1, <1>3 DEF LockTypes
  <1>10. /\ Locking!Depth(t)' = Locking!Depth(t) /\ Locking!Updates(t)' = Locking!Updates(t)
         /\ Locking!Added(t)' = Locking!Added(t)
    BY <1>3 DEF Locking!Depth, Locking!Updates, Locking!Added, Locking!Does
  <1>11. Share(t)' = Share(t) + d
    <2>2. d * (stores[t] + 1) = d * stores[t] + d /\ d * stores[t] \in Nat
      BY <1>4, <1>5
    <2> QED BY <1>4, <2>2, <1>2, <1>6, <1>10 DEF Share
  <1>12. SectionAt(t)'
    BY <1>3, <1>4, <1>5, <1>6, <1>10 DEF SectionAt
  <1>13. HoldApart'
    BY <1>1, <1>3, <1>6 DEF HoldApart
  <1> QED BY <1>3, <1>4, <1>8, <1>9, <1>11, <1>12, <1>13, OneThreadMoves

LEMMA UnlockKeeps ==
  ASSUME ProgramFits, LockInv, NEW t \in Sharing, Locking!Unlock(t), UNCHANGED program
  PROVE  LockInv'
  <1>1. LockTypes /\ SectionAt(t) /\ HoldApart
    BY DEF LockInv
  <1>2. /\ pc[t] = "unlock" /\ UNCHANGED <<amount, loaded>> /\ held' = [held EXCEPT ![t] = held[t] - 1]
    BY DEF Locking!Unlock
  <1>3. /\ Share(t) \in Nat /\ amount \in Nat /\ Locking!Depth(t) \in Nat \ {0}
        /\ Locking!Updates(t) \in Nat /\ held[t] \in 1 .. Locking!Depth(t)
        /\ stores[t] = Locking!Updates(t) /\ section[t] \in Nat
        /\ section[t] < Len(program.does[t].depth) /\ section[t] \in 0 .. Len(program.does[t].depth)
    BY <1>1, <1>2, ThreadIs DEF LockTypes, SectionAt
  <1>4. held[t] - 1 \in Nat /\ held[t] \in Nat /\ held'[t] = held[t] - 1 /\ Sharing' = Sharing
        /\ section[t] + 1 \in Nat
    BY <1>1, <1>2, <1>3 DEF LockTypes, Sharing
  <1>5. HoldApart'
    <2>1. ASSUME NEW u \in Sharing, held'[u] > 0 PROVE held[u] > 0
      BY <1>1, <1>2, <1>3, <2>1 DEF LockTypes
    <2> QED BY <1>1, <1>4, <2>1 DEF HoldApart
  <1>6. 0 \in Nat /\ amount' = amount + 0
    BY <1>2, <1>3
  <1>7. CASE held[t] > 1 /\ UNCHANGED <<pc, section, stores>>
    <2>1. LockTypes'
      BY <1>1, <1>2, <1>4, <1>7 DEF LockTypes
    <2>2. \A u \in Sharing \ {t} : held'[u] = held[u]
      BY <1>1, <1>2 DEF LockTypes
    <2>3. /\ Locking!Depth(t)' = Locking!Depth(t) /\ Locking!Updates(t)' = Locking!Updates(t)
          /\ Locking!Added(t)' = Locking!Added(t)
      BY <1>7 DEF Locking!Depth, Locking!Updates, Locking!Added, Locking!Does
    <2>5. SectionAt(t)'
      BY <1>1, <1>2, <1>3, <1>4, <1>7, <2>3 DEF SectionAt
    <2>6. Share(t)' = Share(t) + 0
      BY <1>3, <1>7, <2>3 DEF Share
    <2> QED BY <1>2, <1>5, <1>6, <1>7, <2>1, <2>2, <2>5, <2>6, OneThreadMoves
  <1>8. CASE /\ held[t] = 1 /\ section' = [section EXCEPT ![t] = section[t] + 1]
             /\ stores' = [stores EXCEPT ![t] = 0]
             /\ pc' = [pc EXCEPT ![t] = IF section'[t] = Len(program.does[t].depth) THEN "done" ELSE "lock"]
    <2>1. LockTypes'
      BY <1>1, <1>2, <1>4, <1>8 DEF LockTypes
    <2>2. \A u \in Sharing \ {t} : /\ pc'[u] = pc[u] /\ held'[u] = held[u] /\ section'[u] = section[u]
                                   /\ stores'[u] = stores[u]
      BY <1>1, <1>2, <1>8 DEF LockTypes
    <2>3. PICK d, n : d = program.does[t] /\ n = section[t]
      OBVIOUS
    <2>4. /\ section'[t] = n + 1 /\ stores'[t] = 0 /\ held'[t] = 0
          /\ pc'[t] = IF n + 1 = Len(d.depth) THEN "done" ELSE "lock"
      BY <1>1, <1>2, <1>8, <2>3 DEF LockTypes
    <2>5. FitsIn(d) /\ n \in 0 .. Len(d.depth) /\ n < Len(d.depth) /\ Len(d.depth) \in Nat /\ d.delta \in Nat
      <3>1. FitsIn(d)
        BY <2>3 DEF ProgramFits
      <3> QED BY <1>3, <2>3, <3>1 DEF FitsIn
    <2>6. /\ Total(d.updates, 1 .. n) \in Nat /\ d.updates[n + 1] \in Nat
          /\ Total(d.updates, 1 .. n + 1) = Total(d.updates, 1 .. n) + d.updates[n + 1]
      BY <2>5, UpdatesAdded
    <2>8. Share(t) = d.delta * Total(d.updates, 1 .. n) + d.delta * d.updates[n + 1]
      BY <2>3, <1>3 DEF Share, Locking!Added, Locking!Does, Total, Locking!Updates
    <2>9. Share(t)' = d.delta * Total(d.updates, 1 .. n + 1) + d.delta * 0
      BY <2>3, <2>4 DEF Share, Locking!Added, Locking!Does, Total
    <2>10. ASSUME NEW x \in Nat, NEW y \in Nat, NEW z \in Nat
           PROVE  x * (y + z) + x * 0 = x * y + x * z
      OBVIOUS
    <2>11. Share(t)' = Share(t)
      <3>1. PICK x, y, z : x = d.delta /\ y = Total(d.updates, 1 .. n) /\ z = d.updates[n + 1]
        OBVIOUS
      <3>3. Share(t) = x * y + x * z /\ Share(t)' = x * (y + z) + x * 0
        BY <2>6, <2>8, <2>9, <3>1, Zenon
      <3> QED BY <3>3, <2>5, <2>6, <2>10, <3>1
    <2>12. n + 1 < Len(d.depth) => Locking!Depth(t)' > 0
      <3> SUFFICES ASSUME n + 1 < Len(d.depth) PROVE Locking!Depth(t)' > 0
        OBVIOUS
      <3>1. Locking!Depth(t)' = d.depth[n + 2]
        BY <2>3, <2>4, <2>5 DEF Locking!Depth, Locking!Does
      <3>2. n + 2 \in 1 .. Len(d.depth)
        BY <2>5
      <3> QED BY <2>5, <3>1, <3>2 DEF FitsIn
    <2>13. SectionAt(t)'
      BY <2>3, <2>4, <2>5, <2>12 DEF SectionAt
    <2>14. Share(t)' = Share(t) + 0
      BY <1>3, <2>11
    <2> QED BY <1>2, <1>5, <1>6, <2>1, <2>2, <2>13, <2>14, OneThreadMoves
  <1> QED BY <1>7, <1>8 DEF Locking!Unlock, Locking!Goto, Locking!Does

LEMMA LockInvStep ==
  ASSUME SectionNumbers, LockInv, LockingMoves
  PROVE  LockInv'
  <1>1. ProgramFits /\ UNCHANGED program
    BY SectionPrograms DEF LockInv, LockingMoves, Locking!Run
  <1>2. CASE UNCHANGED <<pc, amount, loaded, held, section, stores>>
    <2>1. Sharing' = Sharing /\ Locking!Mine' = Locking!Mine
      BY <1>1 DEF Sharing, Locking!Mine, Locking!TestThread, Locking!Shopper, Locking!AtomicShopper,
         Locking!PrintTask, Locking!SpinTask, Locking!TimedTasks, Locking!ReadWrite, Locking!Factorial,
         Locking!Writer, Locking!Reader
    <2>3. ASSUME NEW u \in Sharing PROVE SectionAt(u)' /\ Share(u)' = Share(u)
      BY <1>1, <1>2, SectionElsewhere
    <2>4. AmountIs'
      BY <1>1, <1>2, <2>3, AmountStays DEF LockInv
    <2> QED BY <1>1, <2>1, <2>3, <2>4, <1>2 DEF LockInv, LockTypes, HoldApart
  <1>3. ASSUME NEW t \in DOMAIN pc, Locking!Run(t)
        PROVE  LockInv'
    BY <1>1, LockKeeps, <1>2, LoadKeeps, StoreKeeps, UnlockKeeps, <1>3 DEF LockInv, LockTypes,
       Locking!TryAgain, Locking!own, Locking!Run
  <1> QED BY <1>2, <1>3 DEF LockingMoves

(* No update of the value a mutex protects is lost (objects.cpp,              *)
(* mutex_example_1.cpp, unique_mtx.cpp, atomic_example.cpp, spin_lock.cpp,    *)
(* unique_mtx2, read_write.cpp, recursive_mutex): whatever the interleaving,  *)
(* the number of threads and of rounds, while no thread holds the mutex the   *)
(* value is the initial one and everything the sections left have added.      *)
THEOREM UpdatesAreKept ==
  ASSUME Sharers \in Nat, Repeats \in Nat \ {0}
  PROVE  Spec => []NoUpdateLost
  <1> DEFINE J == Locking!Runs => LockInv
  <1>0. SectionNumbers
    BY DEF SectionNumbers
  <1>1. Init => J
    BY <1>0, LockInvInit DEF Init
  <1>2. J /\ [Next]_vars => J'
    <2> SUFFICES ASSUME J, [Next]_vars, Locking!Runs' PROVE LockInv'
      OBVIOUS
    <2> QED BY <1>0, OneModuleRuns, LockInvStep, ProgramStays DEF Locking!Runs
  <1>3. J => NoUpdateLost
    <2> SUFFICES ASSUME LockInv, \A t \in DOMAIN pc : held[t] = 0
                 PROVE  amount = program.initial
                                 + Locking!SumFunction([t \in DOMAIN pc |-> Locking!Added(t)])
      BY DEF NoUpdateLost, Locking!NoUpdateLost
    <2>1. ProgramFits /\ LockTypes /\ (\A t \in Sharing : SectionAt(t)) /\ AmountIs
      BY <1>0, SectionPrograms DEF LockInv
    <2>2. DOMAIN pc = Sharing
      BY <2>1 DEF LockTypes
    <2>3. ASSUME NEW t \in Sharing PROVE Share(t) = Locking!Added(t) /\ Locking!Added(t) \in Nat
      <3>3. stores[t] = 0
        BY <2>1, <2>2, ThreadIs DEF SectionAt, LockTypes
      <3> QED BY <3>3, <2>1, ThreadIs DEF Share
    <2>4. PICK f : f = [t \in Sharing |-> Share(t)]
      OBVIOUS
    <2>5. f = [t \in DOMAIN pc |-> Locking!Added(t)] /\ DOMAIN f = Sharing
      BY <2>2, <2>3, <2>4
    <2> QED BY <2>1, <2>4, <2>5 DEF AmountIs, Locking!SumFunction, Total
  <1> HIDE DEF J
  <1> QED BY <1>1, <1>2, <1>3, PTL DEF Spec
--------------------------------------------------------------------------------
(* Kernels.                                                                   *)
(* A power of two: all its divisors but 1 are even.                           *)
PowerOfTwo(x) == x \in Nat \ {0} /\ \A d \in 2 .. x : x % d = 0 => d % 2 = 0
DeviceNumbers == /\ Elements \subseteq Nat \ {0}
                 /\ Dimensions \subseteq (Nat \ {0}) \X (Nat \ {0}) \X (Nat \ {0})
                 /\ PowerOfTwo(GroupSize) /\ GroupSize > 1 /\ PowerOfTwo(Tile) /\ Tile > 1

(* Where the items of a kernel are, for the kernel that runs and the others.  *)
ItemsOf(k) == 0 .. k.global - 1
GroupOf(k, i) == i \div k.local
LidOf(k, i) == i % k.local
RowOf(k, i) == LidOf(k, i) \div Tile
ColOf(k, i) == LidOf(k, i) % Tile
TileColsOf(k) == Device!RoundUp(k.n, Tile) \div Tile
TileRounds(k) == Device!RoundUp(k.k, Tile) \div Tile
GlobalRowOf(k, i) == Tile * (GroupOf(k, i) \div TileColsOf(k)) + RowOf(k, i)
GlobalColOf(k, i) == Tile * (GroupOf(k, i) % TileColsOf(k)) + ColOf(k, i)
WritesOf(k, i) == /\ GlobalRowOf(k, i) < k.m /\ GlobalColOf(k, i) < k.n
                  /\ k.shuffles => LidOf(k, i) = 0
PlaceOf(k, i) == GlobalRowOf(k, i) * k.n + GlobalColOf(k, i)

MapFits(k) == k.does = "map" /\ k.begins = "map"
ReduceFits(k) == /\ k.does = "reduce" /\ k.begins = "load" /\ k.body = "fetch" /\ k.again = "fetch"
                 /\ k.after = "write" /\ k.n \in Nat \ {0} /\ k.local = GroupSize
                 /\ k.global = Device!RoundUp(k.n, GroupSize)
TilesFits(k) == /\ k.does = "tiles" /\ k.begins = "load" /\ k.body = "accumulate" /\ k.again = "load"
                /\ k.shuffles \in BOOLEAN /\ k.after = (IF k.shuffles THEN "shuffle" ELSE "write")
                /\ k.m \in Nat \ {0} /\ k.n \in Nat \ {0} /\ k.k \in Nat \ {0}
                /\ k.global = Device!RoundUp(k.m, Tile) * Device!RoundUp(k.n, Tile)
                /\ k.local = Tile * Tile
                /\ k.shuffles => k.m = 2 * Tile /\ k.n = 2 * Tile
KernelFits(k) == /\ k.global \in Nat \ {0} /\ k.local \in Nat \ {0}
                 /\ MapFits(k) \/ ReduceFits(k) \/ TilesFits(k)
Kernel(h) == Device!Kernels[h]
DeviceFits == /\ Device!Last \in {1, 2} /\ DOMAIN Device!Kernels = 1 .. Device!Last
              /\ \A h \in 1 .. Device!Last : KernelFits(Kernel(h))
              /\ \A h \in 1 .. Device!Last : Kernel(h).does = "reduce" =>
                   h = 2 /\ Kernel(1) = Device!Everywhere(Kernel(2).n)
              /\ program.reads \in BOOLEAN /\ (program.reads \/ program.finishes)

(* The items of a group go through the phases of a kernel together.           *)
Phase(loc) == IF loc = "waiting" THEN 1 ELSE IF loc \in {"load", "loaded"} THEN 2
              ELSE IF loc \in {"fetch", "add", "turned", "accumulate"} THEN 3 ELSE 4
Together(k) == \A i, j \in ItemsOf(k) : GroupOf(k, i) = GroupOf(k, j) =>
                 /\ Phase(at[i]) = Phase(at[j])
                 /\ Phase(at[i]) < 4 => round[i] = round[j]
ItemTypes(k) == /\ DOMAIN at = ItemsOf(k) /\ DOMAIN round = ItemsOf(k)
                /\ DOMAIN shared = ItemsOf(k) /\ DOMAIN private = ItemsOf(k)
                /\ \A i \in ItemsOf(k) : DOMAIN shared[i] = {"a", "b"} /\ round[i] \in Nat

MapInv(h, k) == \A i \in ItemsOf(k) :
  /\ at[i] \in {"waiting", "map", "finished"}
  /\ \A j \in ItemsOf(k) : GroupOf(k, i) = GroupOf(k, j) => Phase(at[i]) = Phase(at[j])
  /\ buffer[h][i] = IF at[i] = "finished" THEN Device!Expected(k, i) ELSE Device!Before

(* The elements of group g whose place in it is l, modulo the stride.         *)
Part(n, g, l, stride) ==
  Device!Of({j \in 0 .. n - 1 : j \div GroupSize = g /\ (j % GroupSize) % stride = l})
ReducesTo(k, i, l, stride) == shared[i].a = Part(k.n, GroupOf(k, i), l, stride)
ReduceAt(k, i, l) ==
  /\ at[i] \in {"waiting", "load", "loaded", "fetch", "add", "turned", "write", "finished"}
  /\ Phase(at[i]) = 2 => round[i] = GroupSize \div 2
  /\ at[i] = "loaded" => ReducesTo(k, i, l, GroupSize)
  /\ Phase(at[i]) = 3 => /\ PowerOfTwo(round[i]) /\ 2 * round[i] <= GroupSize
                         /\ l < round[i] /\ at[i] = "turned" => ReducesTo(k, i, l, round[i])
                         /\ l < 2 * round[i] /\ ~(l < round[i] /\ at[i] = "turned")
                              => ReducesTo(k, i, l, 2 * round[i])
  /\ at[i] = "add" => /\ l < round[i]
                      /\ private[i] = Part(k.n, GroupOf(k, i), l + round[i], 2 * round[i])
  /\ Phase(at[i]) = 4 /\ l = 0 => ReducesTo(k, i, 0, 1)
ReduceInv(h, k) ==
  /\ Together(k) /\ \A i \in ItemsOf(k) : ReduceAt(k, i, LidOf(k, i))
  /\ \A g \in ItemsOf(k) : buffer[h][g] =
       IF g * GroupSize \in ItemsOf(k) /\ at[g * GroupSize] = "finished" THEN Part(k.n, g, 0, 1)
       ELSE Device!Before

(* What an item has loaded, and has accumulated before round t.               *)
TileA(k, i, t) == IF GlobalRowOf(k, i) < k.m /\ Tile * t + ColOf(k, i) < k.k
                  THEN Device!Of({Tile * t + ColOf(k, i)}) ELSE Device!EmptyBag
TileB(k, i, t) == IF GlobalColOf(k, i) < k.n /\ Tile * t + RowOf(k, i) < k.k
                  THEN Device!Of({Tile * t + RowOf(k, i)}) ELSE Device!EmptyBag
Loaded(k, i, t) == shared[i].a = TileA(k, i, t) /\ shared[i].b = TileB(k, i, t)
Upto(k, i, t) == IF GlobalRowOf(k, i) < k.m /\ GlobalColOf(k, i) < k.n
                 THEN Device!Of({x \in 0 .. k.k - 1 : x < Tile * t}) ELSE Device!EmptyBag
Times(k, count) == [x \in DOMAIN Device!Of(0 .. k.k - 1) |-> count]
TilesAt(k, i) ==
  /\ at[i] \in {"waiting", "load", "loaded", "accumulate", "turned", "shuffle", "write", "finished"}
  /\ at[i] = "shuffle" => k.shuffles
  /\ Phase(at[i]) = 1 => round[i] = 0
  /\ Phase(at[i]) < 4 => round[i] < TileRounds(k)
  /\ at[i] = "loaded" \/ Phase(at[i]) = 3 => Loaded(k, i, round[i])
  /\ Phase(at[i]) < 4 => private[i] = Upto(k, i, IF at[i] = "turned" THEN round[i] + 1 ELSE round[i])
  /\ at[i] = "shuffle" => /\ PowerOfTwo(round[i])
                          /\ \E count \in 1 .. Tile : count * (2 * round[i]) = Tile
                                                     /\ private[i] = Times(k, count)
  /\ at[i] \in {"write", "finished"} => private[i] = IF k.shuffles THEN Times(k, Tile)
                                                     ELSE Upto(k, i, TileRounds(k))
Product(k) == IF k.shuffles THEN Device!(+)(Device!Before, Times(k, Tile))
              ELSE Device!Of(0 .. k.k - 1)
TilesInv(h, k) ==
  /\ Together(k) /\ \A i \in ItemsOf(k) : TilesAt(k, i)
  /\ \A p \in ItemsOf(k) : buffer[h][p] =
       IF \E i \in ItemsOf(k) : WritesOf(k, i) /\ PlaceOf(k, i) = p /\ at[i] = "finished"
       THEN Product(k) ELSE Device!Before

KernelRuns(h, k) == /\ ItemTypes(k)
                    /\ k.does = "map" => MapInv(h, k)
                    /\ k.does = "reduce" => ReduceInv(h, k)
                    /\ k.does = "tiles" => TilesInv(h, k)

(* The commands left when d kernels are done and e enqueued, and reads read.  *)
Commands(d, e, reads) == [i \in 1 .. (e - d) + reads |-> IF i <= e - d THEN d + i ELSE Device!Read]
Fresh(h) == \A i \in DOMAIN buffer[h] : buffer[h][i] = Device!Before
Computed(h) == \A i \in DOMAIN buffer[h] : buffer[h][i] = Device!Expected(Kernel(h), i)
HostAt(d, reads) ==
  /\ pc[0] = "setup" => enqueued = 0
  /\ pc[0] = "enqueue" => enqueued < Device!Last
  /\ pc[0] \in {"finish", "read", "wait", "done"} => enqueued = Device!Last
  /\ pc[0] \in {"read", "wait"} => program.reads
  /\ reads = 1 => pc[0] = "wait"
  /\ pc[0] = "wait" /\ reads = 0 => d = Device!Last /\ host = buffer[Device!Last]
  /\ pc[0] = "done" => d = Device!Last /\ (program.reads => host = buffer[Device!Last])
  /\ pc[0] \in {"setup", "enqueue", "finish", "read", "wait", "done"}
DeviceAt(d, reads) ==
  /\ DOMAIN buffer = 1 .. Device!Last
  /\ \A h \in 1 .. Device!Last : DOMAIN buffer[h] = ItemsOf(Kernel(h))
  /\ d <= enqueued /\ enqueued \in 0 .. Device!Last /\ commands = Commands(d, enqueued, reads)
  /\ HostAt(d, reads)
  /\ \A h \in 1 .. d : Computed(h)
  /\ \A h \in d + 1 .. Device!Last : Fresh(h) \/ (h = d + 1 /\ at # <<>>)
  /\ at # <<>> => d < enqueued /\ KernelRuns(d + 1, Kernel(d + 1))
DeviceInv == /\ DeviceFits /\ DOMAIN pc = {0, 1}
             /\ status = "ok" => \E d \in 0 .. Device!Last, reads \in {0, 1} : DeviceAt(d, reads)

(* Quotients and remainders.                                                  *)
LEMMA DivModIs ==
  ASSUME NEW x \in Nat, NEW m \in Nat \ {0}
  PROVE  \E y \in Nat, z \in 0 .. m - 1 : y = x \div m /\ z = x % m /\ x = y * m + z
  <1>1. PICK y, z : y = x \div m /\ z = x % m
    OBVIOUS
  <1>2. y \in Nat /\ z \in 0 .. m - 1 /\ z \in Nat
    BY <1>1
  <1>4. m * y = y * m
    BY <1>2
  <1>5. x = y * m + z
    BY <1>4, <1>1, <1>2
  <1> QED BY <1>1, <1>2, <1>5, Zenon

LEMMA DivModOf ==
  ASSUME NEW m \in Nat \ {0}, NEW y \in Nat, NEW z \in 0 .. m - 1
  PROVE  (y * m + z) \div m = y /\ (y * m + z) % m = z
  <1>1. PICK x : x = y * m + z
    OBVIOUS
  <1>3. x \div m = y /\ x % m = z
    BY <1>1
  <1> QED BY <1>1, <1>3

LEMMA HalfIs ==
  ASSUME NEW x, PowerOfTwo(x), x # 1
  PROVE  x \div 2 \in Nat \ {0} /\ 2 * (x \div 2) = x /\ x > x \div 2 /\ PowerOfTwo(x \div 2)
  <1>1. x \in Nat \ {0} /\ x \in 2 .. x /\ x % x = 0
    BY DEF PowerOfTwo
  <1>3. PICK y : y = x \div 2
    OBVIOUS
  <1>4. y \in Nat \ {0} /\ x = 2 * y /\ x > y
    BY <1>1, <1>3 DEF PowerOfTwo
  <1>5. ASSUME NEW d \in 2 .. y, y % d = 0 PROVE d % 2 = 0
    <2>1. d \in Nat \ {0} /\ y \in Nat
      BY <1>4
    <2>2. PICK n \in Nat, z \in 0 .. d - 1 : z = y % d /\ y = n * d + z
      BY <2>1, DivModIs, Zenon
    <2>3. x = (2 * n) * d + 0 /\ 2 * n \in Nat
      BY <1>4, <1>5, <2>1, <2>2
    <2>4. x % d = 0
      BY <2>1, <2>3, DivModOf
    <2> QED BY <2>4, <1>4 DEF PowerOfTwo
  <1> QED BY <1>3, <1>4, <1>5 DEF PowerOfTwo

LEMMA HalfOfOne == 1 \div 2 = 0
  OBVIOUS

LEMMA RoundUpIs ==
  ASSUME NEW n \in Nat \ {0}, NEW m \in Nat \ {0}
  PROVE  /\ Device!RoundUp(n, m) \in Nat \ {0} /\ Device!RoundUp(n, m) \div m \in Nat \ {0}
         /\ Device!RoundUp(n, m) = (Device!RoundUp(n, m) \div m) * m
         /\ Device!RoundUp(n, m) >= n /\ Device!RoundUp(n, m) < n + m
  <1>1. PICK x : x = n + m - 1
    OBVIOUS
  <1>2. x \in Nat
    BY <1>1
  <1>3. PICK y \in Nat, z \in 0 .. m - 1 : y = x \div m /\ x = y * m + z
    BY <1>2, DivModIs, Zenon
  <1>4. y * m >= n /\ y * m < n + m /\ y * m \in Nat \ {0}
    BY <1>1, <1>3
  <1>6. (y * m + 0) \div m = y
    BY <1>3, DivModOf
  <1>7. y * m + 0 = y * m
    BY <1>3
  <1>8. Device!RoundUp(n, m) = y * m
    BY <1>1, <1>3 DEF Device!RoundUp
  <1> QED BY <1>3, <1>4, <1>6, <1>7, <1>8

LEMMA TimesLess ==
  ASSUME NEW x \in Nat, NEW y \in Nat, NEW m \in Nat, x < y
  PROVE  x * m + m <= y * m
  OBVIOUS

(* Bags of terms: a sum of sets that have nothing in common, of copies of the *)
(* same set, and of nothing.                                                  *)
LEMMA JoinSets ==
  ASSUME NEW S, NEW T, S \cap T = {}
  PROVE  Device!(+)(Device!Of(S), Device!Of(T)) = Device!Of(S \cup T)
  <1>1. PICK e, f : e = {<<j, j>> : j \in S} /\ f = {<<j, j>> : j \in T}
    OBVIOUS
  <1>2. e \cap f = {} /\ {<<j, j>> : j \in S \cup T} = e \cup f
    BY <1>1
  <1>4. Device!Of(S \cup T) = [x \in e \cup f |-> 1]
    BY <1>2 DEF Device!Of, Device!SetToBag
  <1>5. Device!(+)([x \in e |-> 1], [x \in f |-> 1]) = [x \in e \cup f |-> 1]
    BY <1>2 DEF Device!(+)
  <1> QED BY <1>4, <1>5, <1>1 DEF Device!Of, Device!SetToBag

LEMMA EmptyIs == Device!EmptyBag = Device!Of({})
  BY DEF Device!EmptyBag, Device!Of, Device!SetToBag

LEMMA JoinSame ==
  ASSUME NEW k, NEW x \in Nat, NEW y \in Nat
  PROVE  Device!(+)(Times(k, x), Times(k, y)) = Times(k, x + y)
  <1>1. PICK e : e = DOMAIN Device!Of(0 .. k.k - 1)
    OBVIOUS
  <1> QED BY <1>1 DEF Times, Device!(+)

LEMMA TimesOne == ASSUME NEW k PROVE Device!Of(0 .. k.k - 1) = Times(k, 1)
  <1>1. PICK e : e = {<<j, j>> : j \in 0 .. k.k - 1}
    OBVIOUS
  <1> QED BY <1>1 DEF Times, Device!Of, Device!SetToBag

LEMMA JoinSwaps ==
  ASSUME NEW k, NEW x \in Nat
  PROVE  Device!(+)(Times(k, x), Device!Before) = Device!(+)(Device!Before, Times(k, x))
  <1>1. PICK e, f : e = DOMAIN Device!Of(0 .. k.k - 1) /\ f = {<<-1, -1>>}
    OBVIOUS
  <1> QED BY <1>1 DEF Times, Device!Before, Device!SetToBag, Device!(+)

(* The kernels of the programs.                                               *)
LEMMA MapKernels ==
  ASSUME DeviceNumbers, NEW n \in Nat \ {0}, NEW range, NEW reach, NEW inPlace
  PROVE  /\ KernelFits(Device!Map(range, reach, inPlace, n, n))
         /\ KernelFits(Device!Everywhere(n)) /\ KernelFits(Device!InPlace(n))
         /\ KernelFits(Device!Blocks(n)) /\ KernelFits([Device!Blocks(n) EXCEPT !.inPlace = FALSE])
         /\ Device!Map(range, reach, inPlace, n, n).does = "map" /\ Device!Everywhere(n).does = "map"
         /\ Device!InPlace(n).does = "map" /\ Device!Blocks(n).does = "map"
         /\ [Device!Blocks(n) EXCEPT !.inPlace = FALSE].does = "map"
  <1>1. GroupSize \in Nat \ {0}
    BY DEF DeviceNumbers, PowerOfTwo
  <1>2. PICK x : x = Device!RoundUp(n, GroupSize)
    OBVIOUS
  <1>5. /\ Device!Blocks(n).does = "map" /\ KernelFits(Device!Blocks(n))
        /\ [Device!Blocks(n) EXCEPT !.inPlace = FALSE].does = "map"
        /\ KernelFits([Device!Blocks(n) EXCEPT !.inPlace = FALSE])
    BY <1>1, <1>2, RoundUpIs DEF Device!Blocks, Device!Map, KernelFits, MapFits
  <1> QED BY <1>5 DEF Device!Everywhere, Device!InPlace, Device!Map, KernelFits, MapFits

LEMMA OneKernel ==
  ASSUME NEW k, KernelFits(k), k.does # "reduce", program.kernels = <<k>>,
         program.reads \in BOOLEAN, program.reads \/ program.finishes
  PROVE  DeviceFits
  BY DEF DeviceFits, Device!Kernels, Device!Last, Kernel

LEMMA SolvePrograms ==
  ASSUME NEW k, KernelFits(k), k.does # "reduce", NEW name, program = Device!Solve(name, k)
  PROVE  DeviceFits /\ program.name = name
  <1> QED BY OneKernel DEF Device!Solve

LEMMA OpenCLPrograms ==
  ASSUME NEW k, KernelFits(k), k.does # "reduce", NEW name, NEW checks,
         program = Device!OpenCL(name, <<k>>, checks)
  PROVE  DeviceFits /\ program.name = name
  <1> QED BY OneKernel DEF Device!OpenCL

LEMMA TilesKernels ==
  ASSUME DeviceNumbers, NEW m \in Nat \ {0}, NEW n \in Nat \ {0}, NEW kk \in Nat \ {0},
         NEW shuffles \in BOOLEAN, shuffles => m = 2 * Tile /\ n = 2 * Tile
  PROVE  KernelFits(Device!Tiles(m, n, kk, shuffles)) /\ Device!Tiles(m, n, kk, shuffles).does = "tiles"
  <1>1. Tile \in Nat \ {0}
    BY DEF DeviceNumbers, PowerOfTwo
  <1>2. PICK x, y : x = Device!RoundUp(m, Tile) /\ y = Device!RoundUp(n, Tile)
    OBVIOUS
  <1>3. x \in Nat \ {0} /\ y \in Nat \ {0}
    BY <1>1, <1>2, RoundUpIs
  <1>4. x * y \in Nat \ {0} /\ Tile * Tile \in Nat \ {0}
    BY <1>1, <1>3
  <1>5. PICK k : k = Device!Tiles(m, n, kk, shuffles)
    OBVIOUS
  <1>6. /\ k.does = "tiles" /\ k.begins = "load" /\ k.body = "accumulate" /\ k.again = "load"
        /\ k.shuffles = shuffles /\ k.after = (IF shuffles THEN "shuffle" ELSE "write")
        /\ k.m = m /\ k.n = n /\ k.k = kk /\ k.global = x * y /\ k.local = Tile * Tile
    BY <1>2, <1>5 DEF Device!Tiles
  <1> QED BY <1>4, <1>5, <1>6, <1>2 DEF KernelFits, TilesFits

LEMMA ReduceKernels ==
  ASSUME DeviceNumbers, NEW n \in Nat \ {0}
  PROVE  KernelFits(Device!Reduce(n)) /\ Device!Reduce(n).n = n /\ Device!Reduce(n).does = "reduce"
  <1>1. GroupSize \in Nat \ {0}
    BY DEF DeviceNumbers, PowerOfTwo
  <1> QED BY <1>1, RoundUpIs DEF Device!Reduce, KernelFits, ReduceFits

LEMMA DevicePrograms ==
  ASSUME DeviceNumbers, program \in Device!Mine
  PROVE  DeviceFits /\ Device!Runs
  <1> USE DEF Device!Runs
  <1> \A n \in Elements : n \in Nat \ {0}
    BY DEF DeviceNumbers
  <1>1. CASE program \in Device!DotProduct
    <2>1. PICK n \in Elements : program = Device!OpenCL("dot product",
                    <<Device!Everywhere(n), Device!Reduce(n)>>, {"platform", "call"})
      BY <1>1 DEF Device!DotProduct
    <2>2. PICK j, k : j = Device!Everywhere(n) /\ k = Device!Reduce(n)
      OBVIOUS
    <2>3. KernelFits(j) /\ KernelFits(k) /\ j.does = "map" /\ k.n = n
      BY <2>2, MapKernels, ReduceKernels
    <2>4. program.kernels = <<j, k>> /\ program.reads = TRUE /\ program.name = "dot product"
      BY <2>1, <2>2 DEF Device!OpenCL
    <2>5. Device!Kernels = <<j, k>> /\ Device!Last = 2 /\ Kernel(1) = j /\ Kernel(2) = k
      <3>1. Device!Kernels = <<j, k>>
        BY <2>4 DEF Device!Kernels
      <3> QED BY <3>1 DEF Kernel, Device!Last
    <2>6. DOMAIN Device!Kernels = 1 .. 2 /\ \A h \in 1 .. 2 : h = 1 \/ h = 2
      BY <2>5
    <2> QED BY <2>4, <2>5, <2>6, <2>2, <2>3 DEF DeviceFits
  <1>2. CASE program \in Device!Saxpy
    <2>1. PICK n \in Elements : program = Device!OpenCL("saxpy", <<Device!InPlace(n)>>,
                                                        {"platform", "device", "call"})
      BY <1>2 DEF Device!Saxpy
    <2> QED BY <2>1, OpenCLPrograms, MapKernels
  <1>3. CASE program \in Device!Nonlinear
    <2>1. PICK n \in Elements : program = Device!OpenCL("nonlinear", <<Device!Everywhere(n)>>,
                                                        {"platform", "device", "call"})
      BY <1>3 DEF Device!Nonlinear
    <2> QED BY <2>1, OpenCLPrograms, MapKernels
  <1>4. CASE program \in Device!Stencil
    <2>1. PICK n \in Elements : program = Device!OpenCL("stencil1d",
                    <<Device!Map(1 .. n - 2, 1, FALSE, n, n)>>, {"platform", "device", "call"})
      BY <1>4 DEF Device!Stencil
    <2> DEFINE k == Device!Map(1 .. n - 2, 1, FALSE, n, n)
    <2> QED BY <2>1, OpenCLPrograms, MapKernels
  <1>5. CASE program \in Device!VectorAdd
    <2>1. PICK n \in Elements : program = [Device!OpenCL("vector_add", <<Device!Everywhere(n)>>, {"file"})
                                            EXCEPT !.fails = @ \cup {"file"}]
      BY <1>5 DEF Device!VectorAdd
    <2>3. program.kernels = <<Device!Everywhere(n)>> /\ program.reads = TRUE /\ program.name = "vector_add"
      BY <2>1 DEF Device!OpenCL
    <2> QED BY <2>3, OneKernel, MapKernels
  <1>6. CASE program \in Device!DoubleKernel \cup Device!InvertKernel
    <2>1. PICK n \in Elements, name \in {"double_kernel", "invert_kernel"} :
            program = Device!Solve(name, Device!Blocks(n))
      BY <1>6 DEF Device!DoubleKernel, Device!InvertKernel
    <2> QED BY <2>1, SolvePrograms, MapKernels
  <1>7. CASE program \in Device!ZeroKernel
    <2>1. PICK n \in Elements :
            program = Device!Solve("zero_kernel", [Device!Blocks(n) EXCEPT !.inPlace = FALSE])
      BY <1>7 DEF Device!ZeroKernel
    <2> DEFINE k == [Device!Blocks(n) EXCEPT !.inPlace = FALSE]
    <2> QED BY <2>1, SolvePrograms, MapKernels
  <1>8. CASE program \in Device!Matmul
    <2>1. PICK d \in Dimensions : program = Device!OpenCL("matmul",
                    <<Device!Tiles(d[1], d[2], d[3], FALSE)>>, {"platform", "device", "call"})
      BY <1>8 DEF Device!Matmul
    <2> DEFINE k == Device!Tiles(d[1], d[2], d[3], FALSE)
    <2>3. KernelFits(k) /\ k.does = "tiles"
      BY <2>1, TilesKernels DEF DeviceNumbers
    <2> QED BY <2>1, <2>3, OpenCLPrograms
  <1>9. CASE program \in Device!FusedMatmul
    <2>1. PICK k, p : k = Device!Tiles(2 * Tile, 2 * Tile, 2 * Tile, TRUE) /\ p = Device!Solve("fused matmul", k)
      OBVIOUS
    <2>4. 2 * Tile \in Nat \ {0}
      BY DEF DeviceNumbers, PowerOfTwo
    <2>6. program.kernels = <<k>> /\ program.reads = TRUE /\ program.name = "fused matmul"
      BY <2>1, <1>9 DEF Device!Solve, Device!FusedMatmul
    <2> QED BY <2>6, OneKernel, <2>1, <2>4, TilesKernels
  <1> QED BY <1>1, <1>2, <1>3, <1>4, <1>5, <1>6, <1>7, <1>8, <1>9 DEF Device!Mine

(* The classes modulo a stride, and modulo its double.                        *)
SplitsAt(x, r, l) == x % r = l <=> x % (2 * r) = l \/ x % (2 * r) = l + r
LEMMA HalfMod ==
  ASSUME NEW x \in Nat, NEW r \in Nat \ {0}, NEW l \in 0 .. r - 1
  PROVE  SplitsAt(x, r, l)
  <1> USE DEF SplitsAt
  <1>1. 2 * r \in Nat \ {0}
    OBVIOUS
  <1>2. PICK y \in Nat, z \in 0 .. 2 * r - 1 : z = x % (2 * r) /\ x = y * (2 * r) + z
    BY <1>1, DivModIs, Zenon
  <1>3. CASE z < r
    <2>1. x = (2 * y) * r + z /\ 2 * y \in Nat /\ z \in 0 .. r - 1
      BY <1>2, <1>3
    <2>2. x % r = z
      BY <2>1, DivModOf
    <2> QED BY <1>2, <1>3, <2>2
  <1>4. CASE z >= r
    <2>1. x = (2 * y + 1) * r + (z - r) /\ 2 * y + 1 \in Nat /\ z - r \in 0 .. r - 1
      BY <1>2, <1>4
    <2>2. x % r = z - r
      BY <2>1, DivModOf
    <2> QED BY <1>2, <1>4, <2>2
  <1> QED BY <1>2, <1>3, <1>4

LEMMA HalvesJoin ==
  ASSUME GroupSize \in Nat \ {0}, NEW n \in Nat, NEW g, NEW r \in Nat \ {0}, NEW l \in 0 .. r - 1
  PROVE  Device!(+)(Part(n, g, l, 2 * r), Part(n, g, l + r, 2 * r)) = Part(n, g, l, r)
  <1> DEFINE Class(s, u) == {j \in 0 .. n - 1 : j \div GroupSize = g /\ (j % GroupSize) % s = u}
  <1>1. ASSUME NEW j \in 0 .. n - 1
        PROVE  (j % GroupSize) % r = l
                 <=> (j % GroupSize) % (2 * r) = l \/ (j % GroupSize) % (2 * r) = l + r
    <2>1. PICK x : x = j % GroupSize
      OBVIOUS
    <2>3. SplitsAt(x, r, l)
      BY HalfMod, <2>1
    <2> QED BY <2>1, <2>3 DEF SplitsAt
  <1>2. Class(r, l) = Class(2 * r, l) \cup Class(2 * r, l + r)
    BY <1>1
  <1>3. Class(2 * r, l) \cap Class(2 * r, l + r) = {}
    <2> QED OBVIOUS
  <1>4. \A s, u : Part(n, g, u, s) = Device!Of(Class(s, u))
    BY DEF Part
  <1> HIDE DEF Class
  <1> QED BY <1>2, <1>3, <1>4, JoinSets

LEMMA PartIsGroup ==
  ASSUME GroupSize \in Nat \ {0}, NEW n \in Nat, NEW g
  PROVE  Part(n, g, 0, 1) = Device!Of({j \in 0 .. n - 1 : j \div GroupSize = g})
  <1>1. ASSUME NEW j \in 0 .. n - 1 PROVE (j % GroupSize) % 1 = 0
    <2> QED BY DivModIs
  <1> QED BY <1>1 DEF Part

LEMMA PartIsElement ==
  ASSUME GroupSize \in Nat \ {0}, NEW n \in Nat, NEW g \in Nat, NEW l \in 0 .. GroupSize - 1,
         NEW i, i = g * GroupSize + l
  PROVE  Part(n, g, l, GroupSize) = IF i < n THEN Device!Of({i}) ELSE Device!EmptyBag
  <1>1. ASSUME NEW j \in 0 .. n - 1
        PROVE  (j \div GroupSize = g /\ (j % GroupSize) % GroupSize = l) <=> j = i
    <2>0. j \in Nat
      OBVIOUS
    <2>1. PICK y \in Nat, z \in 0 .. GroupSize - 1 :
            y = j \div GroupSize /\ z = j % GroupSize /\ j = y * GroupSize + z
      BY <2>0, DivModIs, Zenon
    <2>3. z % GroupSize = z
      BY DivModOf
    <2>4. i \div GroupSize = g /\ i % GroupSize = l
      BY DivModOf
    <2> QED BY <2>1, <2>3, <2>4
  <1>2. i \in Nat
    OBVIOUS
  <1>3. {j \in 0 .. n - 1 : j \div GroupSize = g /\ (j % GroupSize) % GroupSize = l}
          = IF i < n THEN {i} ELSE {}
    BY <1>1, <1>2
  <1> QED BY <1>3, EmptyIs DEF Part

(* The places of the items.                                                   *)
LEMMA Geometry ==
  ASSUME NEW k, Device!Running = k, NEW i
  PROVE  /\ Device!Group(i) = GroupOf(k, i) /\ Device!Lid(i) = LidOf(k, i)
         /\ Device!Row(i) = RowOf(k, i) /\ Device!Col(i) = ColOf(k, i)
         /\ Device!GlobalRow(i) = GlobalRowOf(k, i) /\ Device!GlobalCol(i) = GlobalColOf(k, i)
         /\ Device!First(i) = GroupOf(k, i) * k.local
  BY DEF Device!Group, Device!Lid, Device!Row, Device!Col, Device!GlobalRow, Device!GlobalCol, Device!First,
     GroupOf, LidOf, RowOf, ColOf, GlobalRowOf, GlobalColOf, Device!TileCols, TileColsOf

LEMMA PeersAre ==
  ASSUME NEW k, Device!Running = k, ItemTypes(k), NEW i
  PROVE  Device!WorkItems = ItemsOf(k)
         /\ Device!Peers(i) = {j \in ItemsOf(k) : GroupOf(k, j) = GroupOf(k, i)}
  BY Geometry DEF Device!Peers, Device!WorkItems, ItemTypes

LEMMA ItemIs ==
  ASSUME NEW k, KernelFits(k), NEW i \in ItemsOf(k)
  PROVE  /\ i \in Nat /\ GroupOf(k, i) \in Nat /\ LidOf(k, i) \in 0 .. k.local - 1
         /\ LidOf(k, i) \in Nat /\ i = GroupOf(k, i) * k.local + LidOf(k, i)
  <1>1. i \in Nat /\ k.local \in Nat \ {0}
    BY DEF KernelFits, ItemsOf
  <1>2. PICK y \in Nat, z \in 0 .. k.local - 1 : y = i \div k.local /\ z = i % k.local /\ i = y * k.local + z
    BY <1>1, DivModIs, Zenon
  <1> QED BY <1>1, <1>2 DEF GroupOf, LidOf

LEMMA WholeGroups ==
  ASSUME DeviceNumbers, NEW k, KernelFits(k), k.does \in {"reduce", "tiles"}
  PROVE  \E groups \in Nat \ {0} : k.global = groups * k.local
  <1>1. Tile \in Nat \ {0} /\ GroupSize \in Nat \ {0}
    BY DEF DeviceNumbers, PowerOfTwo
  <1>2. CASE ReduceFits(k)
    <2>1. Device!RoundUp(k.n, GroupSize) \div GroupSize \in Nat \ {0}
          /\ k.global = (Device!RoundUp(k.n, GroupSize) \div GroupSize) * GroupSize
      BY <1>1, <1>2, RoundUpIs DEF ReduceFits
    <2> QED BY <1>2, <2>1 DEF ReduceFits
  <1>3. CASE TilesFits(k)
    <2>1. PICK x, y : x = Device!RoundUp(k.m, Tile) \div Tile /\ y = Device!RoundUp(k.n, Tile) \div Tile
      OBVIOUS
    <2>2. x \in Nat \ {0} /\ y \in Nat \ {0} /\ Device!RoundUp(k.m, Tile) = x * Tile
          /\ Device!RoundUp(k.n, Tile) = y * Tile
      BY <1>1, <1>3, <2>1, RoundUpIs DEF TilesFits
    <2> QED BY <1>3, <2>2, <1>1 DEF TilesFits
  <1> QED BY <1>2, <1>3 DEF KernelFits, MapFits

(* The items of a group fill it.                                              *)
LEMMA PeerAt ==
  ASSUME DeviceNumbers, NEW k, KernelFits(k), k.does \in {"reduce", "tiles"},
         NEW i \in ItemsOf(k), NEW z \in 0 .. k.local - 1, NEW j, j = GroupOf(k, i) * k.local + z
  PROVE  j \in ItemsOf(k) /\ GroupOf(k, j) = GroupOf(k, i) /\ LidOf(k, j) = z
  <1>1. PICK g, l : g = GroupOf(k, i) /\ l = LidOf(k, i)
    OBVIOUS
  <1>2. g \in Nat /\ l \in 0 .. k.local - 1 /\ i = g * k.local + l /\ k.local \in Nat \ {0}
    BY <1>1, ItemIs DEF KernelFits
  <1>4. PICK groups \in Nat \ {0} : k.global = groups * k.local
    BY WholeGroups
  <1>5. i < k.global /\ k.global \in Nat
    BY DEF KernelFits, ItemsOf
  <1>6. g < groups
    <2> SUFFICES ASSUME groups <= g PROVE FALSE
      BY <1>2
    <2> QED BY <1>2, <1>4, <1>5
  <1>8. j \in 0 .. k.global - 1
    BY <1>1, <1>2, <1>4, <1>6, TimesLess
  <1> QED BY <1>1, <1>8, <1>2, DivModOf DEF ItemsOf, GroupOf, LidOf

(* A step of an item, of the kernel h that runs.                              *)
ItemStep(i) == \/ Device!StartGroup(i) \/ Device!Elementwise(i) \/ Device!Load(i) \/ Device!Fetch(i)
               \/ Device!Add(i) \/ Device!Accumulate(i) \/ Device!Barrier(i) \/ Device!Shuffle(i)
               \/ Device!Write(i)
Kept(h, k) == /\ DOMAIN buffer = 1 .. Device!Last /\ h \in 1 .. Device!Last
              /\ DOMAIN buffer[h] = ItemsOf(k)
              /\ Device!Running = k /\ Head(commands) = h /\ KernelFits(k) /\ ItemTypes(k)

LEMMA ItemKeepsTypes ==
  ASSUME DeviceNumbers, NEW h, NEW k, Kept(h, k), NEW i \in ItemsOf(k), ItemStep(i)
  PROVE  ItemTypes(k)'
  <1> Device!WorkItems = ItemsOf(k) /\ i \in DOMAIN at /\ i \in DOMAIN shared /\ i \in DOMAIN private
    BY PeersAre DEF Kept, ItemTypes
  <1>2. \A r \in Nat : r \div 2 \in Nat /\ r + 1 \in Nat
    OBVIOUS
  <1>3. Tile \div 2 \in Nat /\ (k.does = "reduce" => k.local \div 2 \in Nat)
    BY DEF DeviceNumbers, PowerOfTwo, Kept, KernelFits
  <1> ItemTypes(k)
    BY DEF Kept
  <1>6. CASE Device!StartGroup(i)
    BY <1>3, <1>6 DEF Device!StartGroup, ItemTypes, Kept
  <1>7. CASE Device!Elementwise(i)
    BY <1>7 DEF Device!Elementwise, ItemTypes, Device!Moves
  <1>8. CASE Device!Load(i)
    BY <1>8 DEF Device!Load, Device!Moves, Device!LoadElement, ItemTypes, Device!LoadTiles
  <1>9. CASE Device!Fetch(i)
    BY <1>9 DEF Device!Fetch, ItemTypes, Device!Moves
  <1>10. CASE Device!Add(i)
    BY <1>10 DEF Device!Add, ItemTypes, Device!Moves
  <1>11. CASE Device!Accumulate(i)
    BY <1>11 DEF Device!Accumulate, ItemTypes, Device!Moves
  <1>12. CASE Device!Barrier(i)
    BY <1>12, <1>2, <1>3 DEF Device!Barrier, ItemTypes, Device!NextRound, Kept
  <1>13. CASE Device!Shuffle(i)
    BY <1>2, <1>13 DEF Device!Shuffle, ItemTypes
  <1>14. CASE Device!Write(i)
    BY <1>14 DEF Device!Write, ItemTypes, Device!Moves
  <1> QED BY <1>6, <1>7, <1>8, <1>9, <1>10, <1>11, <1>12, <1>13, <1>14 DEF ItemStep

LEMMA ItemKeepsBuffers ==
  ASSUME NEW h, NEW k, Kept(h, k), NEW i \in ItemsOf(k), ItemStep(i)
  PROVE  /\ DOMAIN buffer' = DOMAIN buffer
         /\ \A j \in DOMAIN buffer : DOMAIN buffer'[j] = DOMAIN buffer[j] /\ (j # h => buffer'[j] = buffer[j])
  <1>1. Head(commands) = h
    BY DEF Kept
  <1>2. CASE UNCHANGED buffer
    BY <1>2
  <1>3. ASSUME NEW p, NEW x, buffer' = [buffer EXCEPT ![h] = [buffer[h] EXCEPT ![p] = x]]
        PROVE  /\ DOMAIN buffer' = DOMAIN buffer
               /\ \A j \in DOMAIN buffer : DOMAIN buffer'[j] = DOMAIN buffer[j] /\ (j # h => buffer'[j] = buffer[j])
    BY <1>3
  <1>4. CASE Device!Elementwise(i)
    BY <1>1, <1>4, <1>2, <1>3 DEF Device!Elementwise
  <1>5. CASE Device!Write(i)
    BY <1>1, <1>5, <1>2, <1>3 DEF Device!Write
  <1> QED BY <1>2, <1>4, <1>5 DEF ItemStep, Device!StartGroup, Device!Load, Device!Fetch, Device!Add,
            Device!Accumulate, Device!Barrier, Device!Shuffle

(* Maps.                                                                      *)
LEMMA MapStep ==
  ASSUME NEW h, NEW k, Kept(h, k), MapFits(k), MapInv(h, k), NEW i \in ItemsOf(k), ItemStep(i)
  PROVE  MapInv(h, k)'
  <1>1. Device!WorkItems = ItemsOf(k) /\ DOMAIN at = ItemsOf(k) /\ Device!Running = k /\ Head(commands) = h
    BY PeersAre DEF Kept, ItemTypes
  <1>2. at[i] \in {"waiting", "map", "finished"}
    BY DEF MapInv
  <1>3. CASE Device!StartGroup(i)
    BY <1>1, <1>3, PeersAre DEF Device!StartGroup, MapFits, Kept, MapInv, Phase
  <1>4. CASE Device!Elementwise(i)
    BY <1>4, <1>1 DEF Device!Elementwise, Device!Moves, MapInv, Device!Expected, MapFits, Kept,
       Phase
  <1>5. i \in Device!Warp(i)
    BY <1>1, PeersAre DEF Device!Warp, Kept
  <1> QED BY <1>2, <1>3, <1>4, <1>5 DEF ItemStep, Device!Load, Device!Fetch, Device!Add,
            Device!Accumulate, Device!Barrier, Device!Shuffle, Device!Write

(* An item that moves alone stays in the phase of its group.                  *)
MovesAlone(k, i) ==
  /\ \A j \in ItemsOf(k) \ {i} : /\ at'[j] = at[j] /\ shared'[j] = shared[j] /\ private'[j] = private[j]
  /\ \A j \in ItemsOf(k) : round'[j] = round[j]
  /\ Phase(at'[i]) = Phase(at[i])
LEMMA StayTogether ==
  ASSUME NEW k, NEW i \in ItemsOf(k), Together(k), MovesAlone(k, i)
  PROVE  Together(k)'
  <1> QED BY DEF Together, MovesAlone

(* A group that moves together: into the phase and the round it is given.     *)
GroupMoves(k, i) ==
  /\ \A j \in ItemsOf(k) : GroupOf(k, j) # GroupOf(k, i) => at'[j] = at[j] /\ round'[j] = round[j]
  /\ \A j \in ItemsOf(k) : GroupOf(k, j) = GroupOf(k, i) => at'[j] = at'[i] /\ round'[j] = round'[i]
LEMMA MoveTogether ==
  ASSUME NEW k, NEW i \in ItemsOf(k), Together(k), GroupMoves(k, i)
  PROVE  Together(k)'
  <1> SUFFICES ASSUME NEW u \in ItemsOf(k), NEW v \in ItemsOf(k), GroupOf(k, u) = GroupOf(k, v)
               PROVE  Phase(at'[u]) = Phase(at'[v]) /\ (Phase(at'[u]) < 4 => round'[u] = round'[v])
    BY DEF Together
  <1>1. CASE GroupOf(k, u) = GroupOf(k, i)
    BY <1>1 DEF GroupMoves
  <1>2. CASE GroupOf(k, u) # GroupOf(k, i)
    BY <1>2 DEF GroupMoves, Together
  <1> QED BY <1>1, <1>2

(* Reductions.                                                                *)
Inputs(h, k) == \A j \in 0 .. k.n - 1 : buffer[h - 1][j] = Device!Of({j})
ReduceRuns(h, k) == DeviceNumbers /\ Kept(h, k) /\ ReduceFits(k) /\ ReduceInv(h, k) /\ Inputs(h, k)
Reduced(h, k) == \A g \in ItemsOf(k) : buffer[h][g] =
  IF g * GroupSize \in ItemsOf(k) /\ at[g * GroupSize] = "finished" THEN Part(k.n, g, 0, 1) ELSE Device!Before

LEMMA ReduceKnown ==
  ASSUME NEW h, NEW k, ReduceRuns(h, k), NEW i \in ItemsOf(k)
  PROVE  /\ Device!WorkItems = ItemsOf(k) /\ DOMAIN at = ItemsOf(k) /\ DOMAIN round = ItemsOf(k)
         /\ DOMAIN shared = ItemsOf(k) /\ DOMAIN private = ItemsOf(k) /\ "a" \in DOMAIN shared[i]
         /\ round[i] \in Nat /\ Device!Running = k /\ Head(commands) = h
         /\ k.local = GroupSize /\ GroupSize \in Nat \ {0} /\ k.does = "reduce" /\ k.n \in Nat \ {0}
         /\ Together(k) /\ ReduceAt(k, i, LidOf(k, i)) /\ Reduced(h, k)
         /\ LidOf(k, i) \in Nat /\ LidOf(k, i) < GroupSize /\ GroupOf(k, i) \in Nat
         /\ i = GroupOf(k, i) * GroupSize + LidOf(k, i) /\ i \in Nat
         /\ Device!Group(i) = GroupOf(k, i) /\ Device!Lid(i) = LidOf(k, i)
         /\ Device!Peers(i) = {j \in ItemsOf(k) : GroupOf(k, j) = GroupOf(k, i)}
         /\ KernelFits(k) /\ DeviceNumbers
  <1>1. ItemTypes(k) /\ KernelFits(k) /\ Device!Running = k /\ Head(commands) = h
    BY DEF ReduceRuns, Kept
  <1>2. k.local = GroupSize /\ GroupSize \in Nat \ {0}
    BY DEF ReduceRuns, ReduceFits, DeviceNumbers, PowerOfTwo
  <1>3. /\ LidOf(k, i) \in Nat /\ LidOf(k, i) < GroupSize /\ GroupOf(k, i) \in Nat
        /\ i = GroupOf(k, i) * GroupSize + LidOf(k, i) /\ i \in Nat
    BY <1>1, <1>2, ItemIs
  <1>4. Device!WorkItems = ItemsOf(k) /\ Device!Peers(i) = {j \in ItemsOf(k) : GroupOf(k, j) = GroupOf(k, i)}
    BY <1>1, PeersAre
  <1>5. Device!Group(i) = GroupOf(k, i) /\ Device!Lid(i) = LidOf(k, i)
    BY <1>1, Geometry
  <1> QED BY <1>1, <1>2, <1>3, <1>4, <1>5 DEF ReduceRuns, ReduceFits, ItemTypes, ReduceInv, Reduced

LEMMA ReduceElsewhere ==
  ASSUME NEW k, NEW j, NEW l, ReduceAt(k, j, l),
         at'[j] = at[j], round'[j] = round[j], shared'[j] = shared[j], private'[j] = private[j]
  PROVE  ReduceAt(k, j, l)'
  BY DEF ReduceAt, ReducesTo

(* What is left to show of a step that writes no result.                      *)
LEMMA ReduceSilent ==
  ASSUME NEW h, NEW k, ReduceRuns(h, k), NEW i \in ItemsOf(k), UNCHANGED buffer, Together(k)',
         \A j \in ItemsOf(k) : at'[j] = "finished" <=> at[j] = "finished",
         \A j \in ItemsOf(k) : ReduceAt(k, j, LidOf(k, j))'
  PROVE  ReduceInv(h, k)'
  <1> QED BY ReduceKnown DEF ReduceInv, Reduced

LEMMA ReduceAlone ==
  ASSUME NEW h, NEW k, ReduceRuns(h, k), NEW i \in ItemsOf(k), UNCHANGED buffer, MovesAlone(k, i),
         at[i] # "finished", at'[i] # "finished", ReduceAt(k, i, LidOf(k, i))'
  PROVE  ReduceInv(h, k)'
  <1>2. \A j \in ItemsOf(k) : at'[j] = "finished" <=> at[j] = "finished"
    BY DEF MovesAlone
  <1>3. ASSUME NEW j \in ItemsOf(k) PROVE ReduceAt(k, j, LidOf(k, j))'
    BY ReduceKnown, ReduceElsewhere DEF MovesAlone
  <1> QED BY <1>2, <1>3, ReduceSilent, ReduceKnown, StayTogether

LEMMA ReduceStart ==
  ASSUME NEW h, NEW k, ReduceRuns(h, k), NEW i \in ItemsOf(k), Device!StartGroup(i)
  PROVE  ReduceInv(h, k)'
  <1>1. /\ UNCHANGED <<buffer, shared, private>> /\ at[i] = "waiting"
        /\ \A j \in ItemsOf(k) : at'[j] = IF GroupOf(k, j) = GroupOf(k, i) THEN "load" ELSE at[j]
        /\ \A j \in ItemsOf(k) : round'[j] = IF GroupOf(k, j) = GroupOf(k, i) THEN GroupSize \div 2 ELSE round[j]
    BY ReduceKnown DEF Device!StartGroup, ReduceRuns, ReduceFits
  <1>2. Together(k)'
    BY <1>1, ReduceKnown, MoveTogether DEF GroupMoves
  <1>4. \A j \in ItemsOf(k) : at'[j] = "finished" <=> at[j] = "finished"
    BY <1>1, ReduceKnown DEF Together, Phase
  <1>5. ASSUME NEW j \in ItemsOf(k) PROVE ReduceAt(k, j, LidOf(k, j))'
    <2>1. CASE GroupOf(k, j) = GroupOf(k, i)
      BY <1>1, <2>1 DEF ReduceAt, Phase
    <2>2. CASE GroupOf(k, j) # GroupOf(k, i)
      BY ReduceKnown, <1>1, <2>2, ReduceElsewhere
    <2> QED BY <2>1, <2>2
  <1> QED BY <1>1, <1>2, <1>4, <1>5, ReduceSilent

LEMMA ReduceLoad ==
  ASSUME NEW h, NEW k, ReduceRuns(h, k), NEW i \in ItemsOf(k), Device!Load(i)
  PROVE  ReduceInv(h, k)'
  <1>1. PICK x : x = IF i < k.n THEN buffer[h - 1][i] ELSE Device!EmptyBag
    OBVIOUS
  <1>2. /\ at[i] = "load" /\ at' = [at EXCEPT ![i] = "loaded"] /\ UNCHANGED <<buffer, round, private>>
        /\ shared' = [shared EXCEPT ![i] = [shared[i] EXCEPT !.a = x]]
    BY <1>1, ReduceKnown DEF Device!Load, Device!Moves, Device!LoadElement, Device!LoadTiles
  <1>3. /\ at'[i] = "loaded" /\ shared'[i].a = x /\ round'[i] = round[i]
        /\ \A j \in ItemsOf(k) \ {i} : at'[j] = at[j] /\ shared'[j] = shared[j]
    BY <1>2, ReduceKnown
  <1>4. x = Part(k.n, GroupOf(k, i), LidOf(k, i), GroupSize)
    <2>1. i < k.n => buffer[h - 1][i] = Device!Of({i})
      <3>1. i < k.n => i \in 0 .. k.n - 1
        BY ReduceKnown
      <3> QED BY <3>1 DEF ReduceRuns, Inputs
    <2>2. /\ GroupSize \in Nat \ {0} /\ k.n \in Nat /\ GroupOf(k, i) \in Nat
          /\ LidOf(k, i) \in 0 .. GroupSize - 1 /\ i = GroupOf(k, i) * GroupSize + LidOf(k, i)
      BY ReduceKnown
    <2> QED BY <1>1, <2>1, <2>2, PartIsElement
  <1>5. ReduceAt(k, i, LidOf(k, i))'
    BY ReduceKnown, <1>2, <1>3, <1>4 DEF ReduceAt, ReducesTo, Phase
  <1> QED BY <1>2, <1>3, <1>5, ReduceAlone DEF MovesAlone, Phase

LEMMA ReduceFetch ==
  ASSUME NEW h, NEW k, ReduceRuns(h, k), NEW i \in ItemsOf(k), Device!Fetch(i)
  PROVE  ReduceInv(h, k)'
  <1> PICK l, r, g : l = LidOf(k, i) /\ r = round[i] /\ g = GroupOf(k, i)
    OBVIOUS
  <1>2. at[i] = "fetch" /\ UNCHANGED <<buffer, round, shared>>
    BY DEF Device!Fetch
  <1>3. /\ PowerOfTwo(r) /\ r \in Nat \ {0} /\ 2 * r <= GroupSize /\ l \in Nat /\ ReduceAt(k, i, l)
        /\ k.local = GroupSize /\ GroupSize \in Nat \ {0} /\ g \in Nat /\ i = g * GroupSize + l
    BY <1>2, ReduceKnown DEF ReduceAt, Phase, PowerOfTwo
  <1>4. CASE l < r /\ private' = [private EXCEPT ![i] = shared[i + r].a] /\ at' = [at EXCEPT ![i] = "add"]
    <2>1. l + r \in 0 .. k.local - 1 /\ i + r = g * k.local + (l + r)
      BY <1>3, <1>4
    <2>2. i + r \in ItemsOf(k) /\ GroupOf(k, i + r) = g /\ LidOf(k, i + r) = l + r
      BY <2>1, ReduceKnown, PeerAt
    <2>4. l + r < 2 * r /\ ~(l + r < r)
      BY <1>3, <1>4
    <2>5. shared[i + r].a = Part(k.n, g, l + r, 2 * r)
      BY <2>2, ReduceKnown, <2>4, <1>2 DEF ReduceAt, ReducesTo, Together, Phase
    <2>6. /\ at'[i] = "add" /\ private'[i] = Part(k.n, g, l + r, 2 * r)
          /\ \A j \in ItemsOf(k) \ {i} : at'[j] = at[j] /\ private'[j] = private[j]
      BY <1>4, <2>5, ReduceKnown
    <2>7. ReduceAt(k, i, l)'
      BY <1>2, <1>3, <1>4, <2>6 DEF ReduceAt, ReducesTo, Phase
    <2> QED BY <1>2, <2>6, <2>7, ReduceAlone DEF MovesAlone, Phase
  <1>5. CASE ~(l < r) /\ at' = [at EXCEPT ![i] = "turned"] /\ UNCHANGED private
    BY <1>5, ReduceKnown, <1>2, <1>3, ReduceAlone DEF ReduceAt, ReducesTo, Phase, MovesAlone
  <1> QED BY <1>4, <1>5, ReduceKnown DEF Device!Fetch, Device!Moves

LEMMA ReduceAdd ==
  ASSUME NEW h, NEW k, ReduceRuns(h, k), NEW i \in ItemsOf(k), Device!Add(i)
  PROVE  ReduceInv(h, k)'
  <1> PICK l, r, g, x : /\ l = LidOf(k, i) /\ r = round[i] /\ g = GroupOf(k, i)
                        /\ x = Device!(+)(shared[i].a, private[i])
    OBVIOUS
  <1>2. /\ at[i] = "add" /\ at' = [at EXCEPT ![i] = "turned"] /\ UNCHANGED <<buffer, round, private>>
        /\ shared' = [shared EXCEPT ![i] = [shared[i] EXCEPT !.a = x]]
    BY DEF Device!Add, Device!Moves
  <1>3. /\ PowerOfTwo(r) /\ r \in Nat \ {0} /\ 2 * r <= GroupSize /\ l \in Nat /\ ReduceAt(k, i, l)
        /\ l < r /\ GroupSize \in Nat \ {0} /\ k.n \in Nat
    BY <1>2, ReduceKnown DEF ReduceAt, Phase, PowerOfTwo
  <1>5. shared[i].a = Part(k.n, g, l, 2 * r) /\ private[i] = Part(k.n, g, l + r, 2 * r)
    BY <1>2, <1>3 DEF ReduceAt, ReducesTo, Phase
  <1>7. x = Part(k.n, g, l, r)
    BY <1>3, <1>5, HalvesJoin
  <1>8. /\ at'[i] = "turned" /\ shared'[i].a = x /\ round'[i] = round[i]
        /\ \A j \in ItemsOf(k) \ {i} : at'[j] = at[j] /\ shared'[j] = shared[j]
    BY <1>2, ReduceKnown
  <1>9. ReduceAt(k, i, l)'
    BY <1>2, <1>3, <1>7, <1>8 DEF ReduceAt, ReducesTo, Phase
  <1> QED BY <1>2, <1>8, <1>9, ReduceAlone DEF MovesAlone, Phase

LEMMA ReduceBarrier ==
  ASSUME NEW h, NEW k, ReduceRuns(h, k), NEW i \in ItemsOf(k), Device!Barrier(i)
  PROVE  ReduceInv(h, k)'
  <1>1. PICK r : r = round[i]
    OBVIOUS
  <1> /\ UNCHANGED <<buffer, shared, private>> /\ at[i] \in {"loaded", "turned"}
      /\ \A j \in ItemsOf(k) : GroupOf(k, j) = GroupOf(k, i) => at[j] = at[i]
      /\ \A j \in ItemsOf(k) : at'[j] = IF GroupOf(k, j) = GroupOf(k, i) THEN Device!AfterBarrier(j) ELSE at[j]
      /\ \A j \in ItemsOf(k) : round'[j] = IF GroupOf(k, j) = GroupOf(k, i) /\ at[i] = "turned"
                                          THEN Device!NextRound(j) ELSE round[j]
    BY ReduceKnown DEF Device!Barrier
  <1>3. /\ k.does = "reduce" /\ k.body = "fetch" /\ k.again = "fetch" /\ k.after = "write"
        /\ Device!Running = k
    BY ReduceKnown DEF ReduceRuns, ReduceFits
  <1>4. \A j \in ItemsOf(k) : GroupOf(k, j) = GroupOf(k, i) => round[j] = r
    BY <1>1, ReduceKnown DEF Together, Phase
  <1>5. ASSUME NEW j \in ItemsOf(k), GroupOf(k, j) # GroupOf(k, i)
        PROVE  at'[j] = at[j] /\ ReduceAt(k, j, LidOf(k, j))'
    BY ReduceKnown, <1>5, ReduceElsewhere
  <1>6. CASE at[i] = "loaded"
    <2>1. \A j \in ItemsOf(k) : GroupOf(k, j) = GroupOf(k, i) => at'[j] = "fetch" /\ round'[j] = r
      BY <1>3, <1>4, <1>6 DEF Device!AfterBarrier
    <2>2. Together(k)'
      BY <2>1, ReduceKnown, MoveTogether DEF GroupMoves
    <2>4. PowerOfTwo(r) /\ 2 * r = GroupSize /\ r \in Nat \ {0}
      BY HalfIs, <1>1, <1>6, ReduceKnown DEF ReduceRuns, DeviceNumbers, ReduceAt, Phase
    <2>5. ASSUME NEW j \in ItemsOf(k), GroupOf(k, j) = GroupOf(k, i) PROVE ReduceAt(k, j, LidOf(k, j))'
      <3>1. ReduceAt(k, j, LidOf(k, j)) /\ at[j] = "loaded" /\ at'[j] = "fetch" /\ round'[j] = r
        BY <1>6, <2>1, <2>5, ReduceKnown
      <3>3. GroupSize \in Nat
        BY ReduceKnown
      <3> QED BY <2>4, <3>1, <3>3 DEF ReduceAt, ReducesTo, Phase
    <2>6. \A j \in ItemsOf(k) : at'[j] = "finished" <=> at[j] = "finished"
      BY <1>5, <1>6, <2>1
    <2> QED BY <1>5, <2>2, <2>5, <2>6, ReduceSilent
  <1>7. CASE at[i] = "turned"
    <2>1. PowerOfTwo(r) /\ r \in Nat \ {0} /\ 2 * r <= GroupSize /\ GroupSize \in Nat
      BY <1>1, <1>7, ReduceKnown DEF ReduceAt, Phase, PowerOfTwo
    <2>2. \A j \in ItemsOf(k) : GroupOf(k, j) = GroupOf(k, i) =>
            at'[j] = (IF r > 1 THEN "fetch" ELSE "write") /\ round'[j] = r \div 2 /\ at[j] = "turned"
      BY <1>3, <1>4, <1>7 DEF Device!AfterBarrier, Device!Again, Device!NextRound
    <2>3. Together(k)'
      BY <2>2, ReduceKnown, MoveTogether DEF GroupMoves
    <2>4. \A j \in ItemsOf(k) : at'[j] = "finished" <=> at[j] = "finished"
      BY <1>5, <1>7, <2>2
    <2>5. ASSUME NEW j \in ItemsOf(k), GroupOf(k, j) = GroupOf(k, i) PROVE ReduceAt(k, j, LidOf(k, j))'
      <3>1. PICK l : l = LidOf(k, j)
        OBVIOUS
      <3>2. l \in Nat /\ ReduceAt(k, j, l) /\ at[j] = "turned" /\ round[j] = r /\ round'[j] = r \div 2
            /\ shared'[j] = shared[j]
        BY <1>4, <2>2, <2>5, <3>1, ReduceKnown
      <3>3. l < r => ReducesTo(k, j, l, r)
        BY <3>2 DEF ReduceAt, Phase
      <3>4. CASE r > 1
        <4>1. PICK s : s = r \div 2
          OBVIOUS
        <4>2. PowerOfTwo(s) /\ 2 * s = r /\ s \in Nat \ {0}
          <5>2. PowerOfTwo(r \div 2) /\ 2 * (r \div 2) = r /\ r \div 2 \in Nat \ {0}
            BY <2>1, HalfIs, <3>4
          <5> QED BY <4>1, <5>2
        <4>3. at'[j] = "fetch" /\ round'[j] = s /\ 2 * s <= GroupSize
          BY <2>1, <2>2, <2>5, <3>2, <3>4, <4>1, <4>2
        <4> QED BY <3>1, <4>2, <4>3, <3>2, <3>3 DEF ReduceAt, Phase, ReducesTo
      <3>5. CASE ~(r > 1)
        BY <2>1, <2>2, <2>5, <3>5, <3>2, <3>3, <3>1 DEF ReducesTo, ReduceAt, Phase
      <3> QED BY <3>4, <3>5
    <2> QED BY <1>5, <2>3, <2>4, <2>5, ReduceSilent
  <1> QED BY <1>6, <1>7

LEMMA ReduceWrite ==
  ASSUME NEW h, NEW k, ReduceRuns(h, k), NEW i \in ItemsOf(k), Device!Write(i)
  PROVE  ReduceInv(h, k)'
  <1>1. PICK l, g : l = LidOf(k, i) /\ g = GroupOf(k, i)
    OBVIOUS
  <1>2. at[i] = "write" /\ at' = [at EXCEPT ![i] = "finished"] /\ UNCHANGED <<round, shared, private>>
    BY DEF Device!Write, Device!Moves
  <1>3. at'[i] = "finished" /\ \A j \in ItemsOf(k) \ {i} : at'[j] = at[j]
    BY <1>2, ReduceKnown
  <1>5. Together(k)'
    BY ReduceKnown, StayTogether, <1>2, <1>3 DEF MovesAlone, Phase
  <1>6. ASSUME NEW j \in ItemsOf(k) PROVE ReduceAt(k, j, LidOf(k, j))'
    BY ReduceKnown, <1>2, <1>3, ReduceElsewhere DEF ReduceAt, ReducesTo, Phase
  <1>7. i = g * GroupSize + l /\ l \in Nat /\ l < GroupSize /\ g \in Nat /\ GroupSize \in Nat \ {0} /\ i \in Nat
    BY <1>1, ReduceKnown
  <1>8. Reduced(h, k) /\ Device!Running = k /\ Head(commands) = h /\ k.does = "reduce"
    BY ReduceKnown
  <1>9. Device!Writes(i) <=> l = 0
    BY <1>1, <1>8, ReduceKnown DEF Device!Writes
  <1>10. CASE l = 0
    <2>1. i = g * GroupSize /\ g <= i
      BY <1>7, <1>10
    <2>2. g \in ItemsOf(k)
      <3>1. i < k.global /\ k.global \in Nat
        BY ReduceKnown DEF KernelFits, ItemsOf
      <3> QED BY <1>7, <2>1, <3>1 DEF ItemsOf
    <2>3. shared[i].a = Part(k.n, g, 0, 1)
      <3>1. ReduceAt(k, i, 0) /\ GroupOf(k, i) = g
        BY <1>1, <1>10, ReduceKnown
      <3> QED BY <1>2, <3>1 DEF ReduceAt, ReducesTo, Phase
    <2>4. Device!Place(i) = g /\ Device!Output(i, buffer[h][g]) = shared[i].a
      BY <1>1, <1>8, ReduceKnown DEF Device!Place, Device!Output
    <2>5. buffer' = [buffer EXCEPT ![h] = [buffer[h] EXCEPT ![g] = shared[i].a]]
      BY <1>8, <1>9, <1>10, <2>4 DEF Device!Write
    <2>6. buffer'[h][g] = Part(k.n, g, 0, 1) /\ \A p \in ItemsOf(k) \ {g} : buffer'[h][p] = buffer[h][p]
      BY <2>2, <2>3, <2>5 DEF ReduceRuns, Kept
    <2>7. ASSUME NEW p \in ItemsOf(k) \ {g} PROVE p * GroupSize # i
      BY <2>1, <1>7, DivModOf DEF ItemsOf
    <2>8. Reduced(h, k)'
      BY <1>3, <1>8, <2>1, <2>6, <2>7 DEF Reduced
    <2> QED BY <1>5, <1>6, <2>8 DEF ReduceInv, Reduced
  <1>11. CASE l # 0
    <2>2. ASSUME NEW p \in ItemsOf(k) PROVE p * GroupSize # i
      <3>1. p \in Nat
        BY DEF ItemsOf
      <3>2. (p * GroupSize + 0) % GroupSize = 0 /\ (g * GroupSize + l) % GroupSize = l
        <4>1. 0 \in 0 .. GroupSize - 1 /\ l \in 0 .. GroupSize - 1
          BY <1>7
        <4> QED BY <1>7, <3>1, <4>1, DivModOf
      <3> QED BY <1>7, <1>11, <3>2, <3>1
    <2>3. Reduced(h, k)'
      BY <1>3, <1>8, <2>2, <1>9, <1>11 DEF Reduced, Device!Write
    <2> QED BY <1>5, <1>6, <2>3 DEF ReduceInv, Reduced
  <1> QED BY <1>10, <1>11

LEMMA ReduceStep ==
  ASSUME NEW h, NEW k, ReduceRuns(h, k), NEW i \in ItemsOf(k), ItemStep(i)
  PROVE  ReduceInv(h, k)'
  <1>2. i \in Device!Warp(i)
    BY ReduceKnown DEF Device!Warp
  <1>3. ~Device!Elementwise(i) /\ ~Device!Accumulate(i) /\ ~Device!Shuffle(i)
    BY <1>2, ReduceKnown DEF Device!Elementwise, Device!Accumulate, Device!Shuffle, ReduceAt
  <1> QED BY <1>3, ReduceStart, ReduceLoad, ReduceFetch, ReduceAdd, ReduceBarrier, ReduceWrite DEF ItemStep

(* When all items have finished, the array is the one expected.               *)
LEMMA ReduceEnds ==
  ASSUME NEW h, NEW k, ReduceRuns(h, k), \A i \in ItemsOf(k) : at[i] = "finished", NEW g \in ItemsOf(k)
  PROVE  buffer[h][g] = Device!Expected(k, g)
  <1> /\ GroupSize \in Nat \ {0} /\ k.n \in Nat \ {0} /\ k.does = "reduce" /\ Reduced(h, k)
      /\ k.global = Device!RoundUp(k.n, GroupSize) /\ g \in Nat
    BY ReduceKnown DEF ReduceRuns, ReduceFits, ItemsOf
  <1>2. PICK groups : groups = Device!RoundUp(k.n, GroupSize) \div GroupSize
    OBVIOUS
  <1>9. /\ groups \in Nat \ {0} /\ k.global = groups * GroupSize /\ groups * GroupSize >= k.n
        /\ groups * GroupSize < k.n + GroupSize
    BY <1>2, RoundUpIs
  <1>4. g * GroupSize < groups * GroupSize => g * GroupSize < k.n
    BY <1>9, TimesLess
  <1>5. ~(g * GroupSize < groups * GroupSize) => g * GroupSize >= k.n
    BY <1>9
  <1>7. buffer[h][g] = IF g * GroupSize \in ItemsOf(k) THEN Part(k.n, g, 0, 1) ELSE Device!Before
    BY DEF Reduced
  <1>8. g * GroupSize \in ItemsOf(k) <=> ~(g * GroupSize >= k.n)
    BY <1>4, <1>5, <1>9 DEF ItemsOf
  <1> QED BY <1>7, <1>8, PartIsGroup DEF Device!Expected

(* Products of matrices.  The places of the items in their tiles, and of the  *)
(* tiles in the matrices.                                                     *)
TilesOf(k) == DeviceNumbers /\ KernelFits(k) /\ TilesFits(k)
LEMMA TileSizes ==
  ASSUME NEW k, TilesOf(k)
  PROVE  /\ Tile \in Nat /\ Tile > 1 /\ k.local = Tile * Tile /\ k.local \in Nat \ {0}
         /\ k.m \in Nat \ {0} /\ k.n \in Nat \ {0} /\ k.k \in Nat \ {0}
         /\ TileColsOf(k) \in Nat \ {0} /\ TileColsOf(k) * Tile >= k.n
         /\ TileRounds(k) \in Nat \ {0} /\ TileRounds(k) * Tile >= k.k
         /\ \E rows \in Nat \ {0} :
              /\ rows * Tile >= k.m /\ k.global = (rows * TileColsOf(k)) * (Tile * Tile)
              /\ k.shuffles => rows = 2 /\ TileColsOf(k) = 2
  <1> /\ Tile \in Nat \ {0} /\ Tile > 1 /\ k.local = Tile * Tile /\ k.local \in Nat \ {0}
      /\ k.m \in Nat \ {0} /\ k.n \in Nat \ {0} /\ k.k \in Nat \ {0}
      /\ k.global = Device!RoundUp(k.m, Tile) * Device!RoundUp(k.n, Tile)
      /\ k.shuffles => k.m = 2 * Tile /\ k.n = 2 * Tile
    BY DEF TilesOf, DeviceNumbers, PowerOfTwo, KernelFits, TilesFits
  <1>2. PICK x, y, z : /\ x = Device!RoundUp(k.m, Tile) \div Tile /\ y = Device!RoundUp(k.n, Tile) \div Tile
                       /\ z = Device!RoundUp(k.k, Tile) \div Tile
    OBVIOUS
  <1>3. x \in Nat \ {0} /\ Device!RoundUp(k.m, Tile) = x * Tile /\ x * Tile >= k.m /\ x * Tile < k.m + Tile
    <2>1. PICK r : r = Device!RoundUp(k.m, Tile)
      OBVIOUS
    <2>2. /\ r \in Nat \ {0} /\ r \div Tile \in Nat \ {0} /\ r = (r \div Tile) * Tile
          /\ r >= k.m /\ r < k.m + Tile
      BY <2>1, RoundUpIs, Zenon
    <2>3. x = r \div Tile
      BY <1>2, <2>1
    <2> QED BY <2>1, <2>2, <2>3
  <1>4. y \in Nat \ {0} /\ Device!RoundUp(k.n, Tile) = y * Tile /\ y * Tile >= k.n /\ y * Tile < k.n + Tile
    <2>1. PICK r : r = Device!RoundUp(k.n, Tile)
      OBVIOUS
    <2>2. /\ r \in Nat \ {0} /\ r \div Tile \in Nat \ {0} /\ r = (r \div Tile) * Tile
          /\ r >= k.n /\ r < k.n + Tile
      BY <2>1, RoundUpIs, Zenon
    <2>3. y = r \div Tile
      BY <1>2, <2>1
    <2> QED BY <2>1, <2>2, <2>3
  <1>5. z \in Nat \ {0} /\ z * Tile >= k.k
    <2>1. PICK r : r = Device!RoundUp(k.k, Tile)
      OBVIOUS
    <2>2. r \in Nat \ {0} /\ r \div Tile \in Nat \ {0} /\ r = (r \div Tile) * Tile /\ r >= k.k
      BY <2>1, RoundUpIs, Zenon
    <2>3. z = r \div Tile
      BY <1>2, <2>1
    <2> QED BY <2>2, <2>3
  <1>6. (x * Tile) * (y * Tile) = (x * y) * (Tile * Tile)
    BY <1>3, <1>4
  <1>7. ASSUME NEW u \in Nat \ {0}, u * Tile >= 2 * Tile, u * Tile < 2 * Tile + Tile PROVE u = 2
    <2>1. u >= 2
      <3> SUFFICES ASSUME u < 2 PROVE FALSE
        OBVIOUS
      <3> QED BY <1>7
    <2>2. u <= 2
      <3> SUFFICES ASSUME u >= 3 PROVE FALSE
        OBVIOUS
      <3> QED BY <1>7
    <2> QED BY <2>1, <2>2
  <1>8. k.shuffles => x = 2 /\ y = 2
    BY <1>3, <1>4, <1>7
  <1> QED BY <1>2, <1>3, <1>4, <1>5, <1>6, <1>8 DEF TileColsOf, TileRounds

LEMMA TilePlace ==
  ASSUME NEW k, TilesOf(k), NEW i \in ItemsOf(k)
  PROVE  /\ RowOf(k, i) \in 0 .. Tile - 1 /\ ColOf(k, i) \in 0 .. Tile - 1
         /\ LidOf(k, i) = RowOf(k, i) * Tile + ColOf(k, i)
         /\ GroupOf(k, i) \in Nat /\ i = GroupOf(k, i) * k.local + LidOf(k, i)
         /\ GlobalRowOf(k, i) \in Nat /\ GlobalColOf(k, i) \in Nat
         /\ \E u \in Nat, v \in 0 .. TileColsOf(k) - 1 :
              /\ GroupOf(k, i) = u * TileColsOf(k) + v
              /\ GlobalRowOf(k, i) = Tile * u + RowOf(k, i) /\ GlobalColOf(k, i) = Tile * v + ColOf(k, i)
  <1>1. PICK g, l, w : g = GroupOf(k, i) /\ l = LidOf(k, i) /\ w = TileColsOf(k)
    OBVIOUS
  <1> Tile \in Nat \ {0} /\ k.local = Tile * Tile /\ w \in Nat \ {0}
    BY <1>1, TileSizes
  <1>3. g \in Nat /\ l \in Nat /\ l < Tile * Tile /\ i = g * k.local + l
    BY <1>1, ItemIs DEF TilesOf
  <1>4. PICK y \in Nat, z \in 0 .. Tile - 1 : y = l \div Tile /\ z = l % Tile /\ l = y * Tile + z
    BY <1>3, DivModIs, Zenon
  <1>5. y < Tile
    <2> SUFFICES ASSUME Tile <= y PROVE FALSE
      BY <1>4
    <2> QED BY <1>3, <1>4
  <1>6. PICK u \in Nat, v \in 0 .. w - 1 : u = g \div w /\ v = g % w /\ g = u * w + v
    BY <1>3, DivModIs, Zenon
  <1>8. y \in 0 .. Tile - 1 /\ Tile * u + y \in Nat /\ Tile * v + z \in Nat
    BY <1>4, <1>5, <1>6
  <1> QED BY <1>1, <1>3, <1>4, <1>6, <1>8 DEF RowOf, ColOf, GlobalRowOf, GlobalColOf

(* The item at a place of a tile of a group, and what its place determines.   *)
AtPlace(k, g, row, col) == g * k.local + (row * Tile + col)
PlacedAt(k, j, g, row, col) ==
  /\ GroupOf(k, j) = g /\ LidOf(k, j) = row * Tile + col /\ row * Tile + col \in 0 .. k.local - 1
  /\ RowOf(k, j) = row /\ ColOf(k, j) = col
LEMMA TileItem ==
  ASSUME NEW k, TilesOf(k), NEW g \in Nat, NEW row \in 0 .. Tile - 1, NEW col \in 0 .. Tile - 1,
         NEW j, j = AtPlace(k, g, row, col)
  PROVE  PlacedAt(k, j, g, row, col)
  <1>1. Tile \in Nat \ {0} /\ k.local = Tile * Tile /\ k.local \in Nat \ {0}
    BY TileSizes
  <1>2. PICK l : l = row * Tile + col
    OBVIOUS
  <1>4. l \in 0 .. k.local - 1
    BY <1>1, <1>2, TimesLess
  <1>6. l \div Tile = row /\ l % Tile = col
    <2>1. row \in Nat
      OBVIOUS
    <2>2. (row * Tile + col) \div Tile = row /\ (row * Tile + col) % Tile = col
      BY <1>1, <2>1, DivModOf, Zenon
    <2> QED BY <1>2, <2>2
  <1> QED BY <1>2, <1>4, <1>6, <1>1, DivModOf DEF RowOf, ColOf, PlacedAt, GroupOf, LidOf, AtPlace

IsCell(k, i, row, col, j) ==
  /\ j \in ItemsOf(k) /\ GroupOf(k, j) = GroupOf(k, i) /\ RowOf(k, j) = row /\ ColOf(k, j) = col
  /\ j = GroupOf(k, i) * k.local + (row * Tile + col)
LEMMA CellAt ==
  ASSUME NEW k, TilesOf(k), Device!Running = k, NEW i \in ItemsOf(k),
         NEW row \in 0 .. Tile - 1, NEW col \in 0 .. Tile - 1, NEW j, j = Device!Cell(i, row, col)
  PROVE  IsCell(k, i, row, col, j)
  <1>1. Tile \in Nat \ {0} /\ k.local \in Nat \ {0} /\ GroupOf(k, i) \in Nat
    BY TileSizes, TilePlace
  <1>2. j = GroupOf(k, i) * k.local + row * Tile + col
    BY Geometry DEF Device!Cell
  <1>3. j = GroupOf(k, i) * k.local + (row * Tile + col)
    <2>1. PICK x, y : x = GroupOf(k, i) * k.local /\ y = row * Tile
      OBVIOUS
    <2> QED BY <1>2, <2>1, <1>1
  <1>4. j = AtPlace(k, GroupOf(k, i), row, col)
    BY <1>3 DEF AtPlace
  <1>5. GroupOf(k, j) = GroupOf(k, i) /\ RowOf(k, j) = row /\ ColOf(k, j) = col
        /\ row * Tile + col \in 0 .. k.local - 1
    BY <1>1, <1>4, TileItem DEF PlacedAt
  <1> QED BY <1>3, <1>5, PeerAt DEF IsCell, TilesOf, TilesFits

(* What is known of an item of a product that runs.                           *)
TilesRuns(h, k) == DeviceNumbers /\ Kept(h, k) /\ TilesFits(k) /\ TilesInv(h, k)
Written(h, k) == \A p \in ItemsOf(k) : buffer[h][p] =
  IF \E i \in ItemsOf(k) : WritesOf(k, i) /\ PlaceOf(k, i) = p /\ at[i] = "finished"
  THEN Product(k) ELSE Device!Before

LEMMA TilesKnown ==
  ASSUME NEW h, NEW k, TilesRuns(h, k), NEW i \in ItemsOf(k)
  PROVE  /\ Device!WorkItems = ItemsOf(k) /\ DOMAIN at = ItemsOf(k) /\ DOMAIN round = ItemsOf(k)
         /\ DOMAIN shared = ItemsOf(k) /\ DOMAIN private = ItemsOf(k)
         /\ round[i] \in Nat /\ Device!Running = k /\ Head(commands) = h /\ k.does = "tiles"
         /\ Together(k) /\ TilesAt(k, i) /\ Written(h, k) /\ TilesOf(k)
         /\ Device!Peers(i) = {j \in ItemsOf(k) : GroupOf(k, j) = GroupOf(k, i)}
         /\ Device!Row(i) = RowOf(k, i) /\ Device!Col(i) = ColOf(k, i)
         /\ Device!GlobalRow(i) = GlobalRowOf(k, i) /\ Device!GlobalCol(i) = GlobalColOf(k, i)
  <1>1. ItemTypes(k) /\ KernelFits(k) /\ Device!Running = k /\ Head(commands) = h
    BY DEF TilesRuns, Kept
  <1>3. Device!WorkItems = ItemsOf(k) /\ Device!Peers(i) = {j \in ItemsOf(k) : GroupOf(k, j) = GroupOf(k, i)}
    BY <1>1, PeersAre
  <1>4. /\ Device!Row(i) = RowOf(k, i) /\ Device!Col(i) = ColOf(k, i)
        /\ Device!GlobalRow(i) = GlobalRowOf(k, i) /\ Device!GlobalCol(i) = GlobalColOf(k, i)
    BY <1>1, Geometry
  <1>5. Together(k) /\ TilesAt(k, i) /\ Written(h, k)
    BY DEF TilesRuns, TilesInv, Written
  <1> QED BY <1>1, <1>3, <1>4, <1>5 DEF ItemTypes, TilesRuns, TilesFits, TilesOf

LEMMA TilesElsewhere ==
  ASSUME NEW k, NEW j, TilesAt(k, j),
         at'[j] = at[j], round'[j] = round[j], shared'[j] = shared[j], private'[j] = private[j]
  PROVE  TilesAt(k, j)'
  BY DEF TilesAt, Loaded

(* What is left to show of a step that writes no result.                      *)
LEMMA TilesSilent ==
  ASSUME NEW h, NEW k, TilesRuns(h, k), NEW i \in ItemsOf(k), UNCHANGED buffer, Together(k)',
         \A j \in ItemsOf(k) : at'[j] = "finished" <=> at[j] = "finished",
         \A j \in ItemsOf(k) : TilesAt(k, j)'
  PROVE  TilesInv(h, k)'
  <1> QED BY TilesKnown DEF TilesInv, Written

LEMMA TilesAlone ==
  ASSUME NEW h, NEW k, TilesRuns(h, k), NEW i \in ItemsOf(k), UNCHANGED buffer, MovesAlone(k, i),
         at[i] # "finished", at'[i] # "finished", TilesAt(k, i)'
  PROVE  TilesInv(h, k)'
  <1>2. \A j \in ItemsOf(k) : at'[j] = "finished" <=> at[j] = "finished"
    BY DEF MovesAlone
  <1>3. ASSUME NEW j \in ItemsOf(k) PROVE TilesAt(k, j)'
    <2>1. CASE j = i
      BY <2>1
    <2>2. CASE j # i
      <3> QED BY <2>2, TilesElsewhere, TilesKnown DEF MovesAlone
    <2> QED BY <2>1, <2>2
  <1> QED BY <1>2, <1>3, TilesSilent, TilesKnown, StayTogether

LEMMA TilesStart ==
  ASSUME NEW h, NEW k, TilesRuns(h, k), NEW i \in ItemsOf(k), Device!StartGroup(i)
  PROVE  TilesInv(h, k)'
  <1>1. /\ UNCHANGED <<buffer, shared, private>> /\ at[i] = "waiting"
        /\ \A j \in ItemsOf(k) : at'[j] = IF GroupOf(k, j) = GroupOf(k, i) THEN "load" ELSE at[j]
        /\ \A j \in ItemsOf(k) : round'[j] = round[j]
    BY TilesKnown DEF Device!StartGroup, TilesRuns, TilesFits
  <1>2. \A j \in ItemsOf(k) : GroupOf(k, j) = GroupOf(k, i) => at[j] = "waiting" /\ round[j] = round[i]
    BY <1>1, TilesKnown DEF Together, Phase
  <1>3. Together(k)'
    BY <1>1, <1>2, TilesKnown, MoveTogether DEF GroupMoves
  <1>5. ASSUME NEW j \in ItemsOf(k) PROVE TilesAt(k, j)'
    BY TilesKnown, <1>1, <1>2, TilesElsewhere DEF TilesAt, Phase
  <1> QED BY <1>1, <1>3, <1>5, TilesSilent, <1>2

LEMMA TilesLoad ==
  ASSUME NEW h, NEW k, TilesRuns(h, k), NEW i \in ItemsOf(k), Device!Load(i)
  PROVE  TilesInv(h, k)'
  <1>1. PICK t : t = round[i]
    OBVIOUS
  <1>2. /\ at[i] = "load" /\ at' = [at EXCEPT ![i] = "loaded"] /\ UNCHANGED <<buffer, round, private>>
        /\ Device!LoadTiles(i)
    BY TilesKnown DEF Device!Load, Device!Moves, Device!LoadElement
  <1>3. shared' = [shared EXCEPT ![i] = [a |-> TileA(k, i, t), b |-> TileB(k, i, t)]]
    <2>1. /\ Device!GlobalRow(i) = GlobalRowOf(k, i) /\ Device!GlobalCol(i) = GlobalColOf(k, i)
          /\ Device!Row(i) = RowOf(k, i) /\ Device!Col(i) = ColOf(k, i) /\ Device!Running = k
      BY TilesKnown
    <2>2. TileA(k, i, t) = IF Device!GlobalRow(i) < k.m /\ Tile * round[i] + Device!Col(i) < k.k
                           THEN Device!Of({Tile * round[i] + Device!Col(i)}) ELSE Device!EmptyBag
      BY <1>1, <2>1 DEF TileA
    <2>3. TileB(k, i, t) = IF Device!GlobalCol(i) < k.n /\ Tile * round[i] + Device!Row(i) < k.k
                           THEN Device!Of({Tile * round[i] + Device!Row(i)}) ELSE Device!EmptyBag
      BY <1>1, <2>1 DEF TileB
    <2> QED BY <1>2, <2>1, <2>2, <2>3, Zenon DEF Device!LoadTiles
  <1>4. /\ at'[i] = "loaded" /\ shared'[i].a = TileA(k, i, t) /\ shared'[i].b = TileB(k, i, t)
        /\ \A j \in ItemsOf(k) \ {i} : at'[j] = at[j] /\ shared'[j] = shared[j]
    BY <1>2, <1>3, TilesKnown
  <1>5. TilesAt(k, i)'
    <2> QED BY <1>1, <1>2, <1>4, TilesKnown DEF TilesAt, Loaded, Phase
  <1> QED BY <1>2, <1>4, <1>5, TilesAlone DEF MovesAlone, Phase

(* The terms of a tile: each the product of two cells that hold the same k.   *)
LEMMA ProductsAre ==
  ASSUME NEW h, NEW k, TilesRuns(h, k), NEW i \in ItemsOf(k), at[i] = "accumulate", NEW t, t = round[i]
  PROVE  Device!SetToBag(Device!Products(i)) =
           IF GlobalRowOf(k, i) < k.m /\ GlobalColOf(k, i) < k.n
           THEN Device!Of({x \in 0 .. k.k - 1 : Tile * t <= x /\ x < Tile * (t + 1)}) ELSE Device!EmptyBag
  <1> /\ Device!Running = k /\ TilesOf(k) /\ Device!Row(i) = RowOf(k, i) /\ Device!Col(i) = ColOf(k, i)
      /\ t \in Nat /\ Tile \in Nat \ {0} /\ k.k \in Nat /\ RowOf(k, i) \in 0 .. Tile - 1
      /\ ColOf(k, i) \in 0 .. Tile - 1
    BY TilesKnown, TileSizes, TilePlace
  <1>2. \A j \in ItemsOf(k) : GroupOf(k, j) = GroupOf(k, i) => Loaded(k, j, t)
    BY TilesKnown DEF Together, Phase, TilesAt
  <1>3. \A y : Device!BagToSet(Device!Of({y})) = {<<y, y>>}
    BY DEF Device!BagToSet, Device!Of, Device!SetToBag
  <1>4. Device!BagToSet(Device!EmptyBag) = {}
    BY DEF Device!BagToSet, Device!EmptyBag, Device!SetToBag
  <1>5. ASSUME NEW x \in 0 .. Tile - 1, Tile * t + x < k.k
        PROVE  /\ Device!BagToSet(shared[Device!Cell(i, Device!Row(i), x)].a) =
                    IF GlobalRowOf(k, i) < k.m THEN {<<Tile * t + x, Tile * t + x>>} ELSE {}
               /\ Device!BagToSet(shared[Device!Cell(i, x, Device!Col(i))].b) =
                    IF GlobalColOf(k, i) < k.n THEN {<<Tile * t + x, Tile * t + x>>} ELSE {}
    <2>1. PICK u, v : u = Device!Cell(i, RowOf(k, i), x) /\ v = Device!Cell(i, x, ColOf(k, i))
      OBVIOUS
    <2>2. u \in ItemsOf(k) /\ GroupOf(k, u) = GroupOf(k, i) /\ RowOf(k, u) = RowOf(k, i) /\ ColOf(k, u) = x
      BY <2>1, CellAt DEF IsCell
    <2>3. v \in ItemsOf(k) /\ GroupOf(k, v) = GroupOf(k, i) /\ RowOf(k, v) = x /\ ColOf(k, v) = ColOf(k, i)
      BY <2>1, CellAt DEF IsCell
    <2>4. GlobalRowOf(k, u) = GlobalRowOf(k, i) /\ GlobalColOf(k, v) = GlobalColOf(k, i)
      BY <2>2, <2>3 DEF GlobalRowOf, GlobalColOf
    <2>5. shared[u].a = IF GlobalRowOf(k, i) < k.m THEN Device!Of({Tile * t + x}) ELSE Device!EmptyBag
      BY <1>2, <1>5, <2>2, <2>4 DEF Loaded, TileA
    <2>6. shared[v].b = IF GlobalColOf(k, i) < k.n THEN Device!Of({Tile * t + x}) ELSE Device!EmptyBag
      BY <1>2, <1>5, <2>3, <2>4 DEF Loaded, TileB
    <2> QED BY <1>3, <1>4, <2>1, <2>5, <2>6
  <1> DEFINE In == GlobalRowOf(k, i) < k.m /\ GlobalColOf(k, i) < k.n
  <1>6. ASSUME NEW x \in 0 .. Tile - 1, Tile * t + x < k.k
        PROVE  Device!BagToSet(shared[Device!Cell(i, Device!Row(i), x)].a)
                 \X Device!BagToSet(shared[Device!Cell(i, x, Device!Col(i))].b) =
               IF In THEN {<<<<Tile * t + x, Tile * t + x>>, <<Tile * t + x, Tile * t + x>>>>} ELSE {}
    <2>1. PICK y, a, b : /\ y = <<Tile * t + x, Tile * t + x>>
                         /\ a = Device!BagToSet(shared[Device!Cell(i, Device!Row(i), x)].a)
                         /\ b = Device!BagToSet(shared[Device!Cell(i, x, Device!Col(i))].b)
      OBVIOUS
    <2>2. a = (IF GlobalRowOf(k, i) < k.m THEN {y} ELSE {}) /\ b = (IF GlobalColOf(k, i) < k.n THEN {y} ELSE {})
      BY <1>5, <1>6, <2>1
    <2>3. a \X b = IF In THEN {<<y, y>>} ELSE {}
      BY <2>2
    <2> QED BY <2>1, <2>3
  <1>7. Device!Products(i) =
          IF In THEN {<<Tile * t + x, Tile * t + x>> : x \in {y \in 0 .. Tile - 1 : Tile * t + y < k.k}} ELSE {}
    <2>1. Device!Products(i) = {<<pair[1][1], pair[2][2]>> : pair \in
            UNION {Device!BagToSet(shared[Device!Cell(i, Device!Row(i), x)].a)
                     \X Device!BagToSet(shared[Device!Cell(i, x, Device!Col(i))].b) :
                   x \in {y \in 0 .. Tile - 1 : Tile * t + y < k.k}}}
      BY DEF Device!Products
    <2> HIDE DEF In
    <2>2. UNION {Device!BagToSet(shared[Device!Cell(i, Device!Row(i), x)].a)
                   \X Device!BagToSet(shared[Device!Cell(i, x, Device!Col(i))].b) :
                 x \in {y \in 0 .. Tile - 1 : Tile * t + y < k.k}} =
          UNION {IF In THEN {<<<<Tile * t + x, Tile * t + x>>, <<Tile * t + x, Tile * t + x>>>>} ELSE {} :
                 x \in {y \in 0 .. Tile - 1 : Tile * t + y < k.k}}
      BY <1>6
    <2>3. CASE In
      <3>1. PICK X : X = {y \in 0 .. Tile - 1 : Tile * t + y < k.k}
        OBVIOUS
      <3>3. Device!Products(i) = {<<pair[1][1], pair[2][2]>> : pair \in
              {<<<<Tile * t + x, Tile * t + x>>, <<Tile * t + x, Tile * t + x>>>> : x \in X}}
        BY <2>1, <2>2, <2>3, <3>1
      <3>4. {<<pair[1][1], pair[2][2]>> : pair \in
              {<<<<Tile * t + x, Tile * t + x>>, <<Tile * t + x, Tile * t + x>>>> : x \in X}} =
            {<<Tile * t + x, Tile * t + x>> : x \in X}
        <4> DEFINE Pair(x) == <<<<Tile * t + x, Tile * t + x>>, <<Tile * t + x, Tile * t + x>>>>
                   Term(pair) == <<pair[1][1], pair[2][2]>>
        <4>1. \A x \in X : Term(Pair(x)) = <<Tile * t + x, Tile * t + x>>
          OBVIOUS
        <4> HIDE DEF Pair, Term
        <4>2. {Term(pair) : pair \in {Pair(x) : x \in X}} = {<<Tile * t + x, Tile * t + x>> : x \in X}
          BY <4>1
        <4> QED BY <4>2 DEF Pair, Term
      <3> QED BY <2>3, <3>1, <3>3, <3>4
    <2>4. CASE ~In
      BY <2>1, <2>2, <2>4
    <2> QED BY <2>3, <2>4
  <1>8. {Tile * t + x : x \in {y \in 0 .. Tile - 1 : Tile * t + y < k.k}} =
        {x \in 0 .. k.k - 1 : Tile * t <= x /\ x < Tile * (t + 1)}
    <2>1. PICK y : y = Tile * t
      OBVIOUS
    <2>2. y \in Nat /\ Tile * (t + 1) = y + Tile
      BY <2>1
    <2>3. ASSUME NEW x \in 0 .. k.k - 1, y <= x, x < y + Tile
          PROVE  x - y \in 0 .. Tile - 1 /\ y + (x - y) = x
      BY <2>2, <2>3
    <2>4. {y + x : x \in {z \in 0 .. Tile - 1 : y + z < k.k}} = {x \in 0 .. k.k - 1 : y <= x /\ x < y + Tile}
      BY <2>2, <2>3
    <2> QED BY <2>1, <2>2, <2>4
  <1>9. \A S : {<<Tile * t + x, Tile * t + x>> : x \in S} = {<<j, j>> : j \in {Tile * t + x : x \in S}}
    OBVIOUS
  <1> HIDE DEF In
  <1>10. CASE In
    BY <1>7, <1>8, <1>9, <1>10 DEF Device!Of, In
  <1>11. CASE ~In
    BY <1>7, <1>11, EmptyIs DEF In, Device!EmptyBag
  <1> QED BY <1>10, <1>11

LEMMA TilesAccumulate ==
  ASSUME NEW h, NEW k, TilesRuns(h, k), NEW i \in ItemsOf(k), Device!Accumulate(i)
  PROVE  TilesInv(h, k)'
  <1> PICK t, x : t = round[i] /\ x = Device!(+)(private[i], Device!SetToBag(Device!Products(i)))
    OBVIOUS
  <1> /\ at[i] = "accumulate" /\ at' = [at EXCEPT ![i] = "turned"] /\ UNCHANGED <<buffer, round, shared>>
      /\ private' = [private EXCEPT ![i] = x]
    BY DEF Device!Accumulate, Device!Moves
  <1>3. /\ at'[i] = "turned" /\ private'[i] = x
        /\ \A j \in ItemsOf(k) \ {i} : at'[j] = at[j] /\ private'[j] = private[j]
    BY TilesKnown
  <1>4. TilesAt(k, i) /\ t \in Nat /\ Tile \in Nat \ {0} /\ k.k \in Nat
    BY TilesKnown, TileSizes
  <1>5. private[i] = Upto(k, i, t)
    BY <1>4 DEF TilesAt, Phase
  <1>6. x = Upto(k, i, t + 1)
    <2>1. CASE GlobalRowOf(k, i) < k.m /\ GlobalColOf(k, i) < k.n
      <3>1. PICK y : y = Tile * t
        OBVIOUS
      <3> DEFINE S == {u \in 0 .. k.k - 1 : u < Tile * t}
                 T == {u \in 0 .. k.k - 1 : Tile * t <= u /\ u < Tile * (t + 1)}
      <3>3. S \cap T = {} /\ S \cup T = {u \in 0 .. k.k - 1 : u < Tile * (t + 1)}
        BY <1>4, <3>1
      <3>4. private[i] = Device!Of(S) /\ Upto(k, i, t + 1) = Device!Of({u \in 0 .. k.k - 1 : u < Tile * (t + 1)})
        BY <1>5, <2>1 DEF Upto
      <3>5. Device!SetToBag(Device!Products(i)) = Device!Of(T)
        BY <2>1, ProductsAre
      <3> HIDE DEF S, T
      <3> QED BY <3>3, <3>4, <3>5, JoinSets
    <2>2. CASE ~(GlobalRowOf(k, i) < k.m /\ GlobalColOf(k, i) < k.n)
      <3>1. private[i] = Device!EmptyBag /\ Upto(k, i, t + 1) = Device!EmptyBag
        BY <1>5, <2>2 DEF Upto
      <3>2. Device!SetToBag(Device!Products(i)) = Device!EmptyBag
        BY <2>2, ProductsAre
      <3> QED BY <3>1, <3>2, EmptyIs, JoinSets
    <2> QED BY <2>1, <2>2
  <1>7. TilesAt(k, i)'
    BY <1>3, <1>4, <1>6 DEF TilesAt, Loaded, Phase
  <1> QED BY <1>3, <1>7, TilesAlone DEF MovesAlone, Phase

(* All terms are there after the last tile; and the items of fused matmul all *)
(* have an element.                                                           *)
LEMMA UptoAll ==
  ASSUME NEW k, TilesOf(k), NEW i, GlobalRowOf(k, i) < k.m /\ GlobalColOf(k, i) < k.n
  PROVE  Upto(k, i, TileRounds(k)) = Device!Of(0 .. k.k - 1)
  <1>1. PICK y : y = TileRounds(k)
    OBVIOUS
  <1>2. y \in Nat /\ y * Tile >= k.k /\ Tile \in Nat /\ k.k \in Nat
    BY <1>1, TileSizes
  <1>4. {x \in 0 .. k.k - 1 : x < Tile * y} = 0 .. k.k - 1
    BY <1>2
  <1> QED BY <1>1, <1>4 DEF Upto

LEMMA FusedInRange ==
  ASSUME NEW k, TilesOf(k), k.shuffles, NEW i \in ItemsOf(k)
  PROVE  GlobalRowOf(k, i) < k.m /\ GlobalColOf(k, i) < k.n
  <1>1. /\ k.m = 2 * Tile /\ k.n = 2 * Tile /\ Tile \in Nat \ {0} /\ k.local = Tile * Tile /\ TileColsOf(k) = 2
        /\ k.global = (2 * 2) * (Tile * Tile)
    <2>1. PICK rows \in Nat \ {0} :
            /\ k.global = (rows * TileColsOf(k)) * (Tile * Tile)
            /\ k.shuffles => rows = 2 /\ TileColsOf(k) = 2
      BY TileSizes
    <2>3. Tile \in Nat /\ Tile > 1 /\ k.local = Tile * Tile
      BY TileSizes
    <2>4. rows = 2 /\ TileColsOf(k) = 2
      BY <2>1, Zenon
    <2>5. k.global = (2 * 2) * (Tile * Tile)
      BY <2>1, <2>4, Zenon
    <2> QED BY <2>3, <2>4, <2>5 DEF TilesOf, TilesFits
  <1>2. PICK u \in Nat, v \in 0 .. TileColsOf(k) - 1 :
          /\ GroupOf(k, i) = u * TileColsOf(k) + v
          /\ GlobalRowOf(k, i) = Tile * u + RowOf(k, i) /\ GlobalColOf(k, i) = Tile * v + ColOf(k, i)
    BY TilePlace
  <1>3. PICK g, l, row, col : /\ g = GroupOf(k, i) /\ l = LidOf(k, i)
                              /\ row = RowOf(k, i) /\ col = ColOf(k, i)
    OBVIOUS
  <1>4. g \in Nat /\ l \in Nat /\ i = g * k.local + l /\ row \in 0 .. Tile - 1 /\ col \in 0 .. Tile - 1
    BY <1>3, TilePlace, ItemIs DEF TilesOf
  <1>5. PICK s : s = Tile * Tile
    OBVIOUS
  <1>6. s \in Nat \ {0} /\ g * s <= i /\ i < 4 * s
    BY <1>1, <1>4, <1>5 DEF ItemsOf
  <1>7. g < 4
    <2> SUFFICES ASSUME g >= 4 PROVE FALSE
      BY <1>4
    <2> QED BY <1>4, <1>6 DEF ItemsOf
  <1>9. Tile * u <= Tile /\ Tile * v <= Tile
    BY <1>1, <1>2, <1>3, <1>4, <1>7
  <1> QED BY <1>1, <1>2, <1>3, <1>4, <1>9

LEMMA TilesBarrier ==
  ASSUME NEW h, NEW k, TilesRuns(h, k), NEW i \in ItemsOf(k), Device!Barrier(i)
  PROVE  TilesInv(h, k)'
  <1>1. PICK r : r = round[i]
    OBVIOUS
  <1> /\ UNCHANGED <<buffer, shared, private>> /\ at[i] \in {"loaded", "turned"}
      /\ \A j \in ItemsOf(k) : GroupOf(k, j) = GroupOf(k, i) => at[j] = at[i]
      /\ \A j \in ItemsOf(k) : at'[j] = IF GroupOf(k, j) = GroupOf(k, i) THEN Device!AfterBarrier(j) ELSE at[j]
      /\ \A j \in ItemsOf(k) : round'[j] = IF GroupOf(k, j) = GroupOf(k, i) /\ at[i] = "turned"
                                          THEN Device!NextRound(j) ELSE round[j]
    BY TilesKnown DEF Device!Barrier
  <1> /\ k.does = "tiles" /\ k.body = "accumulate" /\ k.again = "load" /\ k.shuffles \in BOOLEAN
      /\ k.after = (IF k.shuffles THEN "shuffle" ELSE "write") /\ Device!Running = k /\ TilesOf(k)
    BY TilesKnown DEF TilesRuns, TilesFits
  <1>4. \A j \in ItemsOf(k) : GroupOf(k, j) = GroupOf(k, i) => round[j] = r
    BY <1>1, TilesKnown DEF Together, Phase
  <1>5. ASSUME NEW j \in ItemsOf(k), GroupOf(k, j) # GroupOf(k, i)
        PROVE  at'[j] = at[j] /\ TilesAt(k, j)'
    <2> QED BY <1>5, TilesElsewhere, TilesKnown
  <1>6. CASE at[i] = "loaded"
    BY <1>4, <1>6, TilesKnown, MoveTogether, <1>5, TilesSilent DEF Device!AfterBarrier, GroupMoves,
       TilesAt, Loaded, Phase
  <1>7. CASE at[i] = "turned"
    <2>1. r \in Nat /\ TileRounds(k) \in Nat \ {0} /\ r < TileRounds(k)
      BY <1>1, <1>7, TilesKnown, TileSizes DEF TilesAt, Phase
    <2> \A j \in ItemsOf(k) : GroupOf(k, j) = GroupOf(k, i) =>
          /\ at[j] = "turned" /\ round[j] = r
          /\ at'[j] = IF r + 1 < TileRounds(k) THEN "load" ELSE k.after
          /\ round'[j] = IF r + 1 < TileRounds(k) THEN r + 1 ELSE Tile \div 2
      BY <1>4, <1>7 DEF Device!AfterBarrier, Device!Again, Device!NextRound, TileRounds
    <2>3. Together(k)'
      BY TilesKnown, MoveTogether DEF GroupMoves
    <2>4. \A j \in ItemsOf(k) : at'[j] = "finished" <=> at[j] = "finished"
      BY <1>5, <1>7
    <2>5. ASSUME NEW j \in ItemsOf(k), GroupOf(k, j) = GroupOf(k, i) PROVE TilesAt(k, j)'
      <3>1. TilesAt(k, j) /\ at[j] = "turned" /\ round[j] = r /\ private'[j] = private[j]
        BY <2>5, TilesKnown
      <3>2. private[j] = Upto(k, j, r + 1)
        BY <3>1 DEF TilesAt, Phase
      <3>3. CASE r + 1 < TileRounds(k)
        BY <2>5, <3>3, <3>1, <3>2 DEF TilesAt, Phase
      <3>4. CASE ~(r + 1 < TileRounds(k)) /\ ~k.shuffles
        BY <2>1, <2>5, <3>4, <3>1, <3>2 DEF TilesAt, Phase
      <3>5. CASE ~(r + 1 < TileRounds(k)) /\ k.shuffles
        <4>1. PICK s : s = Tile \div 2
          OBVIOUS
        <4>2. PowerOfTwo(s) /\ 2 * s = Tile /\ s \in Nat \ {0}
          BY HalfIs, <4>1 DEF TilesOf, DeviceNumbers
        <4>3. at'[j] = "shuffle" /\ round'[j] = s /\ r + 1 = TileRounds(k)
          BY <2>1, <2>5, <3>5, <4>1
        <4>4. private'[j] = Times(k, 1)
          BY <3>5, FusedInRange, <3>1, <3>2, <4>3, UptoAll, TimesOne
        <4> QED BY <3>5, <4>2, <4>3, <4>4 DEF TilesAt, Phase
      <3> QED BY <3>3, <3>4, <3>5
    <2> QED BY <1>5, <2>3, <2>4, <2>5, TilesSilent
  <1> QED BY <1>6, <1>7

LEMMA TilesShuffle ==
  ASSUME NEW h, NEW k, TilesRuns(h, k), NEW i \in ItemsOf(k), Device!Shuffle(i)
  PROVE  TilesInv(h, k)'
  <1>1. PICK r, W : r = round[i] /\ W = Device!Warp(i)
    OBVIOUS
  <1> /\ k.does = "tiles" /\ Device!Running = k /\ TilesOf(k) /\ Device!WorkItems = ItemsOf(k)
      /\ Tile \in Nat \ {0} /\ RowOf(k, i) \in 0 .. Tile - 1 /\ GroupOf(k, i) \in Nat
    BY TilesKnown, TileSizes, TilePlace
  <1>3. W = {j \in ItemsOf(k) : GroupOf(k, j) = GroupOf(k, i) /\ RowOf(k, j) = RowOf(k, i)}
    BY <1>1, TilesKnown DEF Device!Warp
  <1> \A j \in W : at[j] = "shuffle" /\ round[j] = r
    BY <1>1 DEF Device!Shuffle
  <1> /\ i \in W /\ W \subseteq ItemsOf(k) /\ UNCHANGED <<buffer, shared>>
      /\ \A j \in ItemsOf(k) : private'[j] =
           IF j \notin W THEN private[j]
           ELSE Device!(+)(private[j],
                           private[IF Device!Col(j) + round[j] < Tile THEN j + round[j] ELSE j])
      /\ \A j \in ItemsOf(k) : round'[j] = IF j \in W THEN round[j] \div 2 ELSE round[j]
      /\ \A j \in ItemsOf(k) : at'[j] = IF j \in W /\ round'[j] = 0 THEN "write" ELSE at[j]
    BY <1>1, <1>3 DEF Device!Shuffle
  <1> PowerOfTwo(r) /\ r \in Nat \ {0} /\ k.shuffles
    BY TilesKnown DEF TilesAt, PowerOfTwo
  <1>7. PICK count \in 1 .. Tile : count * (2 * r) = Tile /\ private[i] = Times(k, count)
    BY TilesKnown DEF TilesAt
  <1>8. ASSUME NEW j \in W PROVE private[j] = Times(k, count)
    <2>1. PICK other \in 1 .. Tile : other * (2 * r) = Tile /\ private[j] = Times(k, other)
      BY TilesKnown DEF TilesAt
    <2>2. other = count
      <3>1. other * (2 * r) = count * (2 * r) /\ 2 * r \in Nat \ {0}
        BY <1>7, <2>1
      <3>2. PICK s \in Nat \ {0} : s = 2 * r
        BY <3>1
      <3> QED BY <3>2, <3>1
    <2> QED BY <2>1, <2>2
  <1>9. ASSUME NEW j \in W PROVE (IF Device!Col(j) + round[j] < Tile THEN j + round[j] ELSE j) \in W
    <2>1. CASE Device!Col(j) + round[j] < Tile
      <3>1. PICK col, row, g : col = ColOf(k, j) /\ row = RowOf(k, j) /\ g = GroupOf(k, j)
        OBVIOUS
      <3>2. /\ col \in 0 .. Tile - 1 /\ row \in 0 .. Tile - 1 /\ g \in Nat
            /\ j = g * k.local + (row * Tile + col)
            /\ Device!Col(j) = col /\ row = RowOf(k, i) /\ g = GroupOf(k, i)
        BY <1>3, <3>1, TilePlace, TilesKnown
      <3>3. col + r \in 0 .. Tile - 1 /\ round[j] = r
        BY <1>9, <2>1, <3>2
      <3>4. PICK u, z : z = col + r /\ u = Device!Cell(i, row, z)
        OBVIOUS
      <3>5. /\ u \in ItemsOf(k) /\ GroupOf(k, u) = GroupOf(k, i) /\ RowOf(k, u) = row
            /\ u = GroupOf(k, i) * k.local + (row * Tile + z)
        <4>2. TilesOf(k) /\ Device!Running = k /\ row \in 0 .. Tile - 1
          BY <3>2
        <4>3. IsCell(k, i, row, z, u)
          BY <3>4, <4>2, CellAt, <3>3
        <4> QED BY <4>3 DEF IsCell
      <3>6. u = j + r
        <4>1. PICK x, y : x = GroupOf(k, i) * k.local /\ y = row * Tile
          OBVIOUS
        <4>2. x \in Nat /\ y \in Nat
          BY <3>2, <4>1, TileSizes
        <4> QED BY <3>2, <3>4, <3>5, <4>1, <4>2
      <3> QED BY <1>3, <2>1, <3>2, <3>3, <3>5, <3>6
    <2> QED BY <2>1
  <1>10. ASSUME NEW j \in W PROVE private'[j] = Times(k, count + count)
    <2>1. PICK u : u = IF Device!Col(j) + round[j] < Tile THEN j + round[j] ELSE j
      OBVIOUS
    <2>2. j \in ItemsOf(k) /\ u \in W
      BY <1>9, <2>1
    <2>4. private[j] = Times(k, count) /\ private[u] = Times(k, count)
      BY <1>8, <2>2
    <2>5. Device!(+)(Times(k, count), Times(k, count)) = Times(k, count + count)
      <3> QED BY JoinSame
    <2> QED BY <2>4, <2>5, <2>1, <2>2
  <1>11. Together(k)'
    BY TilesKnown DEF Phase, Together
  <1>13. (count + count) * r = Tile
    BY <1>7
  <1>14. ASSUME NEW j \in ItemsOf(k) PROVE TilesAt(k, j)'
    <2>1. CASE j \notin W
      <3> QED BY <2>1, TilesElsewhere, TilesKnown
    <2>2. CASE j \in W /\ r = 1
      BY <2>2, HalfOfOne, <1>13, <1>10 DEF TilesAt, Phase
    <2>3. CASE j \in W /\ r # 1
      <3>1. PICK s : s = r \div 2
        OBVIOUS
      <3>2. PowerOfTwo(s) /\ 2 * s = r /\ s \in Nat \ {0}
        BY <2>3, HalfIs, <3>1
      <3>3. at'[j] = "shuffle" /\ round'[j] = s
        BY <2>3, <3>1, <3>2
      <3>4. (count + count) * (2 * s) = Tile
        BY <1>13, <3>2
      <3>5. count + count \in 1 .. Tile
        BY <1>13
      <3> QED BY <1>10, <2>3, <3>2, <3>3, <3>4, <3>5 DEF TilesAt, Phase
    <2> QED BY <2>1, <2>2, <2>3
  <1> QED BY <1>11, <1>14, TilesSilent

(* Two items that write never have the same place, if only the first of a     *)
(* group writes.                                                              *)
LEMMA PlacesDiffer ==
  ASSUME NEW k, TilesOf(k), k.shuffles, NEW i \in ItemsOf(k), NEW j \in ItemsOf(k),
         WritesOf(k, i), WritesOf(k, j), PlaceOf(k, i) = PlaceOf(k, j)
  PROVE  i = j
  <1>1. PICK a, b, c1, d : /\ a = GlobalRowOf(k, i) /\ b = GlobalColOf(k, i)
                          /\ c1 = GlobalRowOf(k, j) /\ d = GlobalColOf(k, j)
    OBVIOUS
  <1>2. /\ a \in Nat /\ c1 \in Nat /\ b \in 0 .. k.n - 1 /\ d \in 0 .. k.n - 1 /\ k.n \in Nat \ {0}
        /\ a * k.n + b = c1 * k.n + d
    BY <1>1, TilePlace, TileSizes DEF WritesOf, PlaceOf
  <1>3. a = c1 /\ b = d
    <2>1. (a * k.n + b) \div k.n = a /\ (a * k.n + b) % k.n = b
      BY <1>2, DivModOf, Zenon
    <2>2. (c1 * k.n + d) \div k.n = c1 /\ (c1 * k.n + d) % k.n = d
      BY <1>2, DivModOf, Zenon
    <2> QED BY <1>2, <2>1, <2>2
  <1>4. LidOf(k, i) = 0 /\ LidOf(k, j) = 0
    BY DEF WritesOf
  <1>5. RowOf(k, i) = RowOf(k, j) /\ ColOf(k, i) = ColOf(k, j)
    BY <1>4 DEF RowOf, ColOf
  <1>6. PICK w, row, col : w = TileColsOf(k) /\ row = RowOf(k, i) /\ col = ColOf(k, i)
    OBVIOUS
  <1>7. Tile \in Nat \ {0} /\ row \in Nat /\ col \in Nat /\ w \in Nat
    BY <1>6, TileSizes, TilePlace
  <1>8. PICK u \in Nat, v \in 0 .. w - 1 : GroupOf(k, i) = u * w + v /\ a = Tile * u + row /\ b = Tile * v + col
    BY <1>1, <1>6, TilePlace
  <1>9. PICK x \in Nat, y \in 0 .. w - 1 : GroupOf(k, j) = x * w + y /\ c1 = Tile * x + row /\ d = Tile * y + col
    BY <1>1, <1>5, <1>6, TilePlace
  <1>10. u = x /\ v = y
    <2>1. PICK e, f, p, o : e = Tile * u /\ f = Tile * x /\ p = Tile * v /\ o = Tile * y
      OBVIOUS
    <2>2. e \in Int /\ f \in Int /\ p \in Int /\ o \in Int
      BY <1>7, <1>8, <1>9, <2>1
    <2>3. a = e + row /\ c1 = f + row /\ b = p + col /\ d = o + col
      BY <1>8, <1>9, <2>1
    <2>4. e = f /\ p = o
      <3>1. e + row = f + row /\ p + col = o + col
        BY <1>3, <2>3
      <3>2. \A x1, y1 \in Int, z \in Nat : x1 + z = y1 + z => x1 = y1
        OBVIOUS
      <3> QED BY <1>7, <2>2, <3>1, <3>2, Zenon
    <2> QED BY <1>7, <1>8, <1>9, <2>1, <2>4
  <1> QED BY <1>4, TilePlace, <1>8, <1>9, <1>10

LEMMA TilesWrite ==
  ASSUME NEW h, NEW k, TilesRuns(h, k), NEW i \in ItemsOf(k), Device!Write(i)
  PROVE  TilesInv(h, k)'
  <1>1. at[i] = "write" /\ at' = [at EXCEPT ![i] = "finished"] /\ UNCHANGED <<round, shared, private>>
    BY DEF Device!Write, Device!Moves
  <1>2. at'[i] = "finished" /\ \A j \in ItemsOf(k) \ {i} : at'[j] = at[j]
    BY <1>1, TilesKnown
  <1>4. Together(k)'
    BY TilesKnown, StayTogether, <1>1, <1>2 DEF MovesAlone, Phase
  <1>5. ASSUME NEW j \in ItemsOf(k) PROVE TilesAt(k, j)'
    BY TilesKnown, <1>1, <1>2, TilesElsewhere DEF TilesAt, Loaded, Phase
  <1>6. Written(h, k) /\ Device!Running = k /\ Head(commands) = h /\ k.does = "tiles" /\ TilesOf(k)
    BY TilesKnown
  <1>7. Device!Writes(i) <=> WritesOf(k, i)
    BY <1>6, Geometry, TilesKnown DEF Device!Writes, WritesOf
  <1>8. CASE ~WritesOf(k, i)
    BY <1>7, <1>8, <1>2, <1>6, <1>4, <1>5 DEF Device!Write, Written, TilesInv
  <1>9. CASE WritesOf(k, i)
    <2>1. PICK place, out : place = PlaceOf(k, i) /\ out = Device!Output(i, buffer[h][place])
      OBVIOUS
    <2>3. buffer' = [buffer EXCEPT ![h] = [buffer[h] EXCEPT ![place] = out]]
      BY <1>6, <1>7, <1>9, <2>1, TilesKnown DEF Device!Write, Device!Place, PlaceOf
    <2>4. /\ place \in ItemsOf(k) => buffer'[h][place] = out
          /\ \A p \in ItemsOf(k) \ {place} : buffer'[h][p] = buffer[h][p]
      BY <2>3 DEF TilesRuns, Kept
    <2>5. ASSUME place \in ItemsOf(k) PROVE out = Product(k)
      BY <1>1, TilesKnown, <1>6, <1>9, UptoAll, <2>1, PlacesDiffer, <2>5 DEF TilesAt, WritesOf,
         Device!Output, Product, Written
    <2>6. ASSUME NEW p \in ItemsOf(k)
          PROVE  buffer'[h][p] =
                   IF \E j \in ItemsOf(k) : WritesOf(k, j) /\ PlaceOf(k, j) = p /\ at'[j] = "finished"
                   THEN Product(k) ELSE Device!Before
      BY <1>2, <1>9, <2>1, <2>4, <2>5, <1>6 DEF Written
    <2> QED BY <1>4, <1>5, <2>6 DEF TilesInv, Written
  <1> QED BY <1>8, <1>9

LEMMA TilesStep ==
  ASSUME NEW h, NEW k, TilesRuns(h, k), NEW i \in ItemsOf(k), ItemStep(i)
  PROVE  TilesInv(h, k)'
  <1>2. ~Device!Elementwise(i) /\ ~Device!Fetch(i) /\ ~Device!Add(i)
    BY TilesKnown DEF Device!Elementwise, Device!Fetch, Device!Add, TilesAt
  <1> QED BY <1>2, TilesStart, TilesLoad, TilesAccumulate, TilesBarrier, TilesShuffle, TilesWrite DEF ItemStep

LEMMA LessOfTimes ==
  ASSUME NEW x \in Nat, NEW y \in Nat, NEW m \in Nat, x * m < y * m
  PROVE  x < y
  <1> SUFFICES ASSUME y <= x PROVE FALSE
    OBVIOUS
  <1> QED OBVIOUS

(* Every element of the result is the place of an item.                       *)
WriterOf(k, p, i) ==
  /\ GlobalRowOf(k, i) = p \div k.n /\ GlobalColOf(k, i) = p % k.n
  /\ GlobalRowOf(k, i) < k.m /\ GlobalColOf(k, i) < k.n /\ PlaceOf(k, i) = p
  /\ LidOf(k, i) = ((p \div k.n) % Tile) * Tile + ((p % k.n) % Tile)
LEMMA ElementsHaveWriters ==
  ASSUME NEW k, TilesOf(k), NEW p \in Nat, p < k.m * k.n
  PROVE  \E i \in ItemsOf(k) : WriterOf(k, p, i)
  <1>1. PICK T, m, n, w : T = Tile /\ m = k.m /\ n = k.n /\ w = TileColsOf(k)
    OBVIOUS
  <1>2. /\ T \in Nat \ {0} /\ m \in Nat \ {0} /\ n \in Nat \ {0} /\ w \in Nat \ {0} /\ w * T >= n
        /\ k.local = T * T /\ T * T \in Nat \ {0}
    BY <1>1, TileSizes
  <1>3. PICK rows \in Nat \ {0} : rows * T >= m /\ k.global = (rows * w) * (T * T)
    BY <1>1, TileSizes
  <1>4. PICK y \in Nat, z \in 0 .. n - 1 : y = p \div n /\ z = p % n /\ p = y * n + z
    BY <1>2, DivModIs, Zenon
  <1>5. PICK u \in Nat, row \in 0 .. T - 1 : u = y \div T /\ row = y % T /\ y = u * T + row
    BY <1>2, <1>4, DivModIs, Zenon
  <1>6. z \in Nat
    BY <1>2, <1>4
  <1>7. PICK v \in Nat, col \in 0 .. T - 1 : v = z \div T /\ col = z % T /\ z = v * T + col
    BY <1>2, <1>6, DivModIs, Zenon
  <1>8. y < m
    <2>1. p < m * n
      BY <1>1
    <2>2. y * n < m * n
      BY <1>2, <1>4, <2>1
    <2> QED BY <1>2, <1>4, <2>2, LessOfTimes
  <1>9. u < rows /\ v < w
    <2>0. PICK e, f, d, o : e = u * T /\ f = rows * T /\ d = v * T /\ o = w * T
      OBVIOUS
    <2>1. e \in Nat /\ f \in Nat /\ d \in Nat /\ o \in Nat
      BY <1>2, <1>3, <1>5, <1>7, <2>0
    <2>2. y = e + row /\ y < m /\ m <= f /\ z = d + col /\ z < n /\ n <= o
      <3>1. y = e + row /\ z = d + col
        BY <1>5, <1>7, <2>0, Zenon
      <3>2. m <= f /\ n <= o
        BY <1>2, <1>3, <2>0, <2>1
      <3> QED BY <1>8, <3>1, <3>2, <1>2
    <2>4. u * T < rows * T /\ v * T < w * T
      BY <2>0, <1>2, <2>1, <2>2
    <2> QED BY <1>2, <1>3, <1>5, <1>7, <2>4, LessOfTimes
  <1>10. PICK g, i : g = u * w + v /\ i = AtPlace(k, g, row, col)
    OBVIOUS
  <1>11. g \in Nat /\ g \div w = u /\ g % w = v
    <2>1. v \in 0 .. w - 1
      BY <1>2, <1>7, <1>9
    <2>2. (u * w + v) \div w = u /\ (u * w + v) % w = v
      BY <1>2, <1>5, <2>1, DivModOf, Zenon
    <2> QED BY <1>10, <2>2, <1>2, <1>5, <1>7
  <1>12. PlacedAt(k, i, g, row, col)
    BY <1>1, <1>10, <1>11, TileItem
  <1>13. i \in ItemsOf(k)
    <2>1. g < rows * w
      BY <1>2, <1>3, <1>5, <1>9, TimesLess, <1>7, <1>10
    <2>2. PICK s, e : s = T * T /\ e = rows * w
      OBVIOUS
    <2>3. s \in Nat /\ e \in Nat
      BY <1>2, <1>3, <2>2
    <2>4. g * s + s <= e * s
      BY <1>11, <2>1, <2>2, <2>3, TimesLess
    <2>5. i = g * s + (row * Tile + col) /\ row * Tile + col \in 0 .. s - 1
      BY <1>2, <1>10, <1>12, <2>2 DEF AtPlace, PlacedAt
    <2>6. k.global = e * s /\ g * s \in Nat
      BY <1>3, <1>11, <2>2, <2>3
    <2> QED BY <2>3, <2>4, <2>5, <2>6 DEF ItemsOf
  <1>14. GlobalRowOf(k, i) = y /\ GlobalColOf(k, i) = z
    <2>1. GlobalRowOf(k, i) = T * u + row /\ GlobalColOf(k, i) = T * v + col
      BY <1>1, <1>11, <1>12 DEF GlobalRowOf, GlobalColOf, PlacedAt
    <2> QED BY <1>2, <1>5, <1>7, <2>1
  <1>15. PlaceOf(k, i) = p
    BY <1>1, <1>4, <1>14 DEF PlaceOf
  <1>16. z < n
    BY <1>2, <1>4
  <1>17. LidOf(k, i) = row * T + col
    BY <1>1, <1>12 DEF PlacedAt
  <1>18. WriterOf(k, p, i)
    BY <1>1, <1>4, <1>5, <1>7, <1>8, <1>14, <1>15, <1>16, <1>17, Zenon DEF WriterOf
  <1> QED BY <1>13, <1>18

LEMMA WritersHaveElements ==
  ASSUME NEW k, TilesOf(k), NEW i \in ItemsOf(k), WritesOf(k, i), NEW p, p = PlaceOf(k, i)
  PROVE  /\ p \in Nat /\ p < k.m * k.n
         /\ k.shuffles => (p \div k.n) % Tile = 0 /\ (p % k.n) % Tile = 0
  <1>1. PICK m, n, r, d : m = k.m /\ n = k.n /\ r = GlobalRowOf(k, i) /\ d = GlobalColOf(k, i)
    OBVIOUS
  <1> m \in Nat \ {0} /\ n \in Nat \ {0} /\ Tile \in Nat \ {0} /\ r \in Nat /\ d \in Nat
    BY <1>1, TileSizes, TilePlace
  <1>3. r < m /\ d < n /\ p = r * n + d
    BY <1>1 DEF WritesOf, PlaceOf
  <1>5. p \in Nat /\ p < m * n
    BY <1>3, TimesLess
  <1>6. ASSUME k.shuffles PROVE (p \div n) % Tile = 0 /\ (p % n) % Tile = 0
    <2>1. p \div n = r /\ p % n = d
      <3>1. d \in 0 .. n - 1
        BY <1>3
      <3>2. (r * n + d) \div n = r /\ (r * n + d) % n = d
        BY <3>1, DivModOf, Zenon
      <3> QED BY <1>3, <3>2
    <2>3. 0 \in 0 .. Tile - 1 /\ 0 * Tile + 0 = 0 /\ 0 \in Nat
      OBVIOUS
    <2>4. 0 \div Tile = 0 /\ 0 % Tile = 0
      <3>1. (0 * Tile + 0) \div Tile = 0 /\ (0 * Tile + 0) % Tile = 0
        BY <2>3, DivModOf, Zenon
      <3> QED BY <2>3, <3>1
    <2>5. RowOf(k, i) = 0 /\ ColOf(k, i) = 0
      BY <2>4, <1>6 DEF RowOf, ColOf, WritesOf
    <2>6. PICK u \in Nat, v \in 0 .. TileColsOf(k) - 1 :
            GlobalRowOf(k, i) = Tile * u + RowOf(k, i) /\ GlobalColOf(k, i) = Tile * v + ColOf(k, i)
      BY TilePlace
    <2>7. v \in Nat
      BY TileSizes
    <2>8. r = u * Tile + 0 /\ d = v * Tile + 0
      BY <1>1, <2>5, <2>6, <2>7
    <2>9. r % Tile = 0 /\ d % Tile = 0
      BY <2>3, <2>6, <2>7, <2>8, DivModOf
    <2> QED BY <2>1, <2>9
  <1> QED BY <1>1, <1>5, <1>6

(* When all items have finished, the array is the one expected.               *)
LEMMA TilesEnds ==
  ASSUME NEW h, NEW k, TilesRuns(h, k), \A i \in ItemsOf(k) : at[i] = "finished", NEW p \in ItemsOf(k)
  PROVE  buffer[h][p] = Device!Expected(k, p)
  <1> Written(h, k) /\ TilesOf(k) /\ k.does = "tiles" /\ k.shuffles \in BOOLEAN
    BY TilesKnown DEF TilesRuns, TilesFits
  <1>2. buffer[h][p] = IF \E i \in ItemsOf(k) : WritesOf(k, i) /\ PlaceOf(k, i) = p
                       THEN Product(k) ELSE Device!Before
    BY DEF Written
  <1>3. p \in Nat
    BY DEF ItemsOf, TilesOf, KernelFits
  <1>4. CASE ~k.shuffles
    BY WritersHaveElements, <1>3, <1>4, ElementsHaveWriters, <1>2 DEF WriterOf, WritesOf,
       Device!Expected, Product
  <1>5. CASE k.shuffles
    <2>1. p < k.m * k.n
      <3>1. PICK rows \in Nat \ {0} :
              /\ k.global = (rows * TileColsOf(k)) * (Tile * Tile)
              /\ k.shuffles => rows = 2 /\ TileColsOf(k) = 2
        BY TileSizes
      <3>2. Tile \in Nat /\ k.m = 2 * Tile /\ k.n = 2 * Tile /\ rows = 2 /\ TileColsOf(k) = 2
        BY <1>5, <3>1, TileSizes DEF TilesOf, TilesFits
      <3>3. k.global = (2 * 2) * (Tile * Tile) /\ k.m * k.n = (2 * Tile) * (2 * Tile)
        BY <3>1, <3>2, Zenon
      <3> QED BY <3>2, <3>3 DEF ItemsOf
    <2>2. (\E i \in ItemsOf(k) : WritesOf(k, i) /\ PlaceOf(k, i) = p)
            => (p \div k.n) % Tile = 0 /\ (p % k.n) % Tile = 0
      BY <1>5, WritersHaveElements
    <2>3. (p \div k.n) % Tile = 0 /\ (p % k.n) % Tile = 0
            => \E i \in ItemsOf(k) : WritesOf(k, i) /\ PlaceOf(k, i) = p
      <3> SUFFICES ASSUME (p \div k.n) % Tile = 0, (p % k.n) % Tile = 0
                   PROVE  \E i \in ItemsOf(k) : WritesOf(k, i) /\ PlaceOf(k, i) = p
        OBVIOUS
      <3>1. PICK i \in ItemsOf(k) : WriterOf(k, p, i)
        BY <1>3, <2>1, ElementsHaveWriters
      <3>2. LidOf(k, i) = 0 * Tile + 0
        BY <3>1, Zenon DEF WriterOf
      <3>4. LidOf(k, i) = 0
        BY <3>2, TileSizes
      <3> QED BY <3>1, <3>4 DEF WriterOf, WritesOf
    <2>4. Device!Expected(k, p) = IF (p \div k.n) % Tile # 0 \/ (p % k.n) % Tile # 0 THEN Device!Before
            ELSE Device!(+)([x \in Device!BagToSet(Device!Of(0 .. k.k - 1)) |-> Tile], Device!Before)
      BY <1>5 DEF Device!Expected
    <2>6. Device!(+)(Times(k, Tile), Device!Before) = Product(k)
      <3> QED BY <1>5, JoinSwaps, TileSizes DEF Product
    <2> QED BY <1>2, <2>2, <2>3, <2>4, <2>6 DEF Device!BagToSet, Times
  <1> QED BY <1>4, <1>5

(* A kernel that starts, goes on and ends.                                    *)
LEMMA KernelStarts ==
  ASSUME DeviceNumbers, NEW h, NEW k, KernelFits(k), DOMAIN buffer[h] = ItemsOf(k), Fresh(h),
         UNCHANGED buffer, at' = [i \in ItemsOf(k) |-> "waiting"], round' = [i \in ItemsOf(k) |-> 0],
         shared' = [i \in ItemsOf(k) |-> [a |-> Device!Before, b |-> Device!Before]],
         private' = [i \in ItemsOf(k) |-> Device!EmptyBag]
  PROVE  KernelRuns(h, k)'
  <1>1. \A i \in ItemsOf(k) : /\ at'[i] = "waiting" /\ round'[i] = 0 /\ private'[i] = Device!EmptyBag
                              /\ buffer'[h][i] = Device!Before
    BY DEF Fresh
  <1>3. Together(k)'
    BY <1>1 DEF Together, Phase
  <1>4. MapInv(h, k)'
    BY <1>1 DEF MapInv, Phase
  <1>5. ASSUME k.does = "reduce" PROVE ReduceInv(h, k)'
    BY <1>1, <1>3 DEF ReduceAt, Phase, Reduced, ReduceInv
  <1>6. ASSUME k.does = "tiles" PROVE TilesInv(h, k)'
    <2>1. TilesOf(k)
      BY <1>6 DEF TilesOf, KernelFits, MapFits, ReduceFits
    <2>2. TileRounds(k) \in Nat \ {0} /\ Tile \in Nat
      BY <2>1, TileSizes
    <2>3. ASSUME NEW i \in ItemsOf(k) PROVE Upto(k, i, 0) = Device!EmptyBag
      <3>1. {x \in 0 .. k.k - 1 : x < Tile * 0} = {}
        BY <2>1, <2>2, TileSizes
      <3> QED BY <3>1, EmptyIs DEF Upto
    <2>5. \A i \in ItemsOf(k) : TilesAt(k, i)'
      BY <1>1, <2>3, <2>2 DEF TilesAt, Phase
    <2> QED BY <1>3, <2>5, <1>1 DEF TilesInv, Written
  <1> QED BY <1>4, <1>5, <1>6 DEF KernelRuns, ItemTypes

Fed(h, k) == k.does = "reduce" => Inputs(h, k)
LEMMA KernelGoesOn ==
  ASSUME DeviceNumbers, NEW h, NEW k, Kept(h, k), KernelRuns(h, k), Fed(h, k),
         NEW i \in ItemsOf(k), ItemStep(i)
  PROVE  KernelRuns(h, k)'
  <1>2. ASSUME k.does = "map" PROVE MapInv(h, k)'
    <2> QED BY MapStep, <1>2 DEF Kept, KernelFits, ReduceFits, TilesFits, KernelRuns
  <1>3. ASSUME k.does = "reduce" PROVE ReduceInv(h, k)'
    <2>1. ReduceRuns(h, k)
      BY <1>3 DEF ReduceRuns, Kept, KernelFits, MapFits, TilesFits, KernelRuns, Fed
    <2> QED BY <2>1, ReduceStep
  <1>4. ASSUME k.does = "tiles" PROVE TilesInv(h, k)'
    <2> QED BY TilesStep, <1>4 DEF TilesRuns, Kept, KernelFits, MapFits, ReduceFits, KernelRuns
  <1> QED BY <1>2, <1>3, <1>4, ItemKeepsTypes DEF KernelRuns

LEMMA KernelEnds ==
  ASSUME DeviceNumbers, NEW h, NEW k, Kept(h, k), KernelRuns(h, k), Fed(h, k),
         \A i \in ItemsOf(k) : at[i] = "finished", NEW p \in ItemsOf(k)
  PROVE  buffer[h][p] = Device!Expected(k, p)
  <1>1. CASE k.does = "map"
    BY <1>1 DEF KernelRuns, MapInv
  <1>2. CASE k.does = "reduce"
    <2>1. ReduceRuns(h, k)
      BY <1>2 DEF ReduceRuns, Kept, KernelFits, MapFits, TilesFits, KernelRuns, Fed
    <2> QED BY <2>1, ReduceEnds
  <1>3. CASE k.does = "tiles"
    <2> QED BY TilesEnds, <1>3 DEF TilesRuns, Kept, KernelFits, MapFits, ReduceFits, KernelRuns
  <1> QED BY <1>1, <1>2, <1>3 DEF Kept, KernelFits, MapFits, ReduceFits, TilesFits

(* The queue of commands.                                                     *)
IsQueue(s, d, e, reads) ==
  /\ s \in Seq(Nat) /\ Len(s) = (e - d) + reads
  /\ \A i \in 1 .. (e - d) + reads : s[i] = IF i <= e - d THEN d + i ELSE 0
LEMMA QueueIs ==
  ASSUME NEW d \in Nat, NEW e \in Nat, d <= e, NEW reads \in {0, 1}
  PROVE  IsQueue(Commands(d, e, reads), d, e, reads)
  <1>2. PICK s : s = Commands(d, e, reads)
    OBVIOUS
  <1>3. s = [i \in 1 .. (e - d) + reads |-> IF i <= e - d THEN d + i ELSE 0]
    BY <1>2 DEF Commands, Device!Read
  <1>4. s \in Seq(Nat) /\ Len(s) = (e - d) + reads
    BY <1>3
  <1> QED BY <1>2, <1>3, <1>4 DEF IsQueue

LEMMA QueueHead ==
  ASSUME NEW d \in Nat, NEW e \in Nat, d <= e, NEW reads \in {0, 1}, NEW s, s = Commands(d, e, reads)
  PROVE  /\ s = <<>> <=> d = e /\ reads = 0
         /\ d < e => Head(s) = d + 1
         /\ d = e /\ reads = 1 => Head(s) = 0
  <1>1. IsQueue(s, d, e, reads)
    BY QueueIs
  <1>2. s \in Seq(Nat) /\ Len(s) = (e - d) + reads
    BY <1>1 DEF IsQueue
  <1>4. s # <<>> => Head(s) = s[1]
    BY <1>2
  <1> QED BY <1>1, <1>2, <1>4 DEF IsQueue

LEMMA QueueGrows ==
  ASSUME NEW d \in Nat, NEW e \in Nat, d <= e
  PROVE  /\ Append(Commands(d, e, 0), e + 1) = Commands(d, e + 1, 0)
         /\ Append(Commands(d, e, 0), Device!Read) = Commands(d, e, 1)
  <1>1. PICK s, u, v : s = Commands(d, e, 0) /\ u = Commands(d, e + 1, 0) /\ v = Commands(d, e, 1)
    OBVIOUS
  <1>3. IsQueue(s, d, e, 0) /\ IsQueue(u, d, e + 1, 0) /\ IsQueue(v, d, e, 1)
    BY <1>1, QueueIs
  <1>4. s \in Seq(Nat) /\ Len(s) = e - d /\ \A i \in 1 .. e - d : s[i] = d + i
    BY <1>3 DEF IsQueue
  <1>5. u \in Seq(Nat) /\ Len(u) = e - d + 1 /\ \A i \in 1 .. e - d + 1 : u[i] = d + i
    BY <1>3 DEF IsQueue
  <1>6. v \in Seq(Nat) /\ Len(v) = e - d + 1 /\ \A i \in 1 .. e - d + 1 : v[i] = IF i <= e - d THEN d + i ELSE 0
    BY <1>3 DEF IsQueue
  <1>7. Append(s, e + 1) = u
    BY <1>4, <1>5
  <1>8. Append(s, 0) = v
    BY <1>4, <1>6
  <1> QED BY <1>1, <1>7, <1>8 DEF Device!Read

LEMMA QueueShrinks ==
  ASSUME NEW d \in Nat, NEW e \in Nat, d <= e, NEW reads \in {0, 1}
  PROVE  /\ d < e => Tail(Commands(d, e, reads)) = Commands(d + 1, e, reads)
         /\ Tail(Commands(d, d, 1)) = Commands(d, d, 0)
  <1>1. ASSUME d < e PROVE Tail(Commands(d, e, reads)) = Commands(d + 1, e, reads)
    <2>1. PICK s, u : s = Commands(d, e, reads) /\ u = Commands(d + 1, e, reads)
      OBVIOUS
    <2>3. IsQueue(s, d, e, reads) /\ IsQueue(u, d + 1, e, reads)
      BY <2>1, QueueIs, <1>1
    <2>4. s \in Seq(Nat) /\ Len(s) = (e - d) + reads
          /\ \A i \in 1 .. (e - d) + reads : s[i] = IF i <= e - d THEN d + i ELSE 0
      BY <2>3 DEF IsQueue
    <2>5. u \in Seq(Nat) /\ Len(u) = (e - d) + reads - 1
          /\ \A i \in 1 .. (e - d) + reads - 1 : u[i] = IF i <= e - d - 1 THEN d + 1 + i ELSE 0
      BY <1>1, <2>3 DEF IsQueue
    <2>6. Tail(s) = u
      BY <1>1, <2>4, <2>5
    <2> QED BY <2>1, <2>6
  <1>2. Tail(Commands(d, d, 1)) = Commands(d, d, 0)
    <2>1. PICK s, u : s = Commands(d, d, 1) /\ u = Commands(d, d, 0)
      OBVIOUS
    <2>2. IsQueue(s, d, d, 1) /\ IsQueue(u, d, d, 0)
      BY <2>1, QueueIs
    <2>3. s \in Seq(Nat) /\ Len(s) = 1 /\ u \in Seq(Nat) /\ Len(u) = 0
      BY <2>2 DEF IsQueue
    <2>4. Tail(s) = u
      <3>1. Tail(s) \in Seq(Nat) /\ Len(Tail(s)) = 0
        BY <2>3
      <3>2. \A l \in 1 .. Len(u) : Tail(s)[l] = u[l]
        BY <2>3
      <3> QED BY <2>3, <3>1, <3>2, EqualSequences
    <2> QED BY <2>1, <2>4
  <1> QED BY <1>1, <1>2


(* The programs of the device: a state of a program that has gone well.       *)
DeviceWell(d, reads) == /\ DeviceNumbers /\ DeviceFits /\ DOMAIN pc = {0, 1} /\ status = "ok"
                        /\ d \in 0 .. Device!Last /\ reads \in {0, 1} /\ DeviceAt(d, reads)

LEMMA FitsStays ==
  ASSUME DeviceFits, UNCHANGED program
  PROVE  /\ DeviceFits' /\ Device!Last' = Device!Last /\ Device!Kernels' = Device!Kernels
         /\ \A h : Kernel(h)' = Kernel(h)
  BY DEF DeviceFits, Device!Kernels, Device!Last, Kernel

LEMMA DeviceKnown ==
  ASSUME NEW d, NEW reads, DeviceWell(d, reads)
  PROVE  /\ Device!Last \in {1, 2} /\ d \in Nat /\ enqueued \in Nat /\ d <= enqueued
         /\ enqueued <= Device!Last /\ commands = Commands(d, enqueued, reads)
         /\ commands = <<>> <=> d = enqueued /\ reads = 0
         /\ d < enqueued => /\ Head(commands) = d + 1 /\ d + 1 \in 1 .. Device!Last
                            /\ Device!Running = Kernel(d + 1)
         /\ d = enqueued /\ reads = 1 => Head(commands) = Device!Read
         /\ \A h \in 1 .. Device!Last : KernelFits(Kernel(h))
  <1>1. Device!Last \in {1, 2} /\ \A h \in 1 .. Device!Last : KernelFits(Kernel(h))
    BY DEF DeviceWell, DeviceFits
  <1>2. /\ d \in Nat /\ d <= enqueued /\ enqueued \in Nat /\ enqueued <= Device!Last
        /\ reads \in {0, 1} /\ commands = Commands(d, enqueued, reads)
    BY <1>1 DEF DeviceWell, DeviceAt
  <1>4. d < enqueued => d + 1 \in 1 .. Device!Last
    BY <1>1, <1>2
  <1> QED BY <1>1, <1>2, <1>4, QueueHead DEF Device!Running, Kernel, Device!Read

(* A kernel that runs, with what it reads.                                    *)
LEMMA DeviceRuns ==
  ASSUME NEW d, NEW reads, DeviceWell(d, reads), at # <<>>
  PROVE  /\ d < enqueued /\ Kept(d + 1, Kernel(d + 1)) /\ KernelRuns(d + 1, Kernel(d + 1))
         /\ Fed(d + 1, Kernel(d + 1))
  <1>1. /\ d < enqueued /\ KernelRuns(d + 1, Kernel(d + 1)) /\ DOMAIN buffer = 1 .. Device!Last
        /\ \A h \in 1 .. Device!Last : DOMAIN buffer[h] = ItemsOf(Kernel(h))
        /\ \A h \in 1 .. d : Computed(h)
    BY DEF DeviceWell, DeviceAt
  <1>3. ASSUME Kernel(d + 1).does = "reduce" PROVE Inputs(d + 1, Kernel(d + 1))
    <2>1. PICK n : n = Kernel(d + 1).n
      OBVIOUS
    <2>3. d + 1 = 2 /\ Kernel(1) = Device!Everywhere(Kernel(2).n)
      BY <1>3, <1>1, DeviceKnown DEF DeviceWell, DeviceFits
    <2>4. d = 1 /\ Kernel(1) = Device!Everywhere(n)
      BY <2>1, <2>3, DeviceKnown
    <2>5. DOMAIN buffer[1] = 0 .. n - 1
      BY <1>1, <2>4, DeviceKnown DEF ItemsOf, Device!Everywhere, Device!Map
    <2>6. ASSUME NEW j \in 0 .. n - 1 PROVE buffer[1][j] = Device!Of({j})
      <3>1. buffer[1][j] = Device!Expected(Device!Everywhere(n), j)
        <4>1. Computed(1)
          <5> QED BY <1>1, <2>4
        <4> QED BY <2>4, <4>1, <2>5 DEF Computed
      <3>3. (j - 0 .. j + 0) = {j}
        BY <2>6
      <3>4. Device!(+)(Device!Of({}), Device!Of({j})) = Device!Of({j})
        BY JoinSets
      <3> QED BY <3>1, <3>3, <3>4, EmptyIs, <2>6 DEF Device!Expected, Device!Everywhere, Device!Map
    <2>7. PICK h, k : h = d + 1 /\ k = Kernel(d + 1)
      OBVIOUS
    <2>9. Inputs(h, k)
      BY <2>6, <2>1, <2>4, <2>7 DEF Inputs
    <2> QED BY <2>7, <2>9
  <1> QED BY <1>1, <1>3, DeviceKnown DEF Fed, Kept, KernelRuns

(* The host.                                                                  *)
LEMMA HostStep ==
  ASSUME NEW d, NEW reads, DeviceWell(d, reads), UNCHANGED program, Device!Host, status' = "ok"
  PROVE  DOMAIN pc' = {0, 1} /\ \E e \in {0, 1} : DeviceAt(d, e)'
  <1>1. UNCHANGED <<buffer, at, round, shared, private>>
    BY DEF Device!Host, Device!deviceVars
  <1> /\ DeviceFits /\ DOMAIN pc = {0, 1} /\ DeviceAt(d, reads) /\ HostAt(d, reads) /\ status = "ok"
      /\ Device!Last \in {1, 2} /\ program.reads \in BOOLEAN /\ (program.reads \/ program.finishes)
    BY DEF DeviceWell, DeviceAt, DeviceFits
  <1> Device!Last' = Device!Last /\ \A h : Kernel(h)' = Kernel(h)
    BY FitsStays (* What is left to show: the host's own variables. *)
  <1>4. ASSUME NEW e \in {0, 1}, enqueued' \in 0 .. Device!Last, enqueued <= enqueued',
               commands' = Commands(d, enqueued', e), HostAt(d, e)'
        PROVE  DeviceAt(d, e)'
    BY <1>4, DeviceKnown, <1>1 DEF KernelRuns, ItemTypes, MapInv, ReduceInv, TilesInv, Together,
       ReduceAt, ReducesTo, TilesAt, Loaded, Computed, Fresh, DeviceAt
  <1>5. ASSUME NEW what, NEW goOn, Device!Fails(what, goOn) PROVE FALSE
    BY <1>5 DEF Device!Fails
  <1>6. CASE Device!Setup
    BY <1>5, <1>6, <1>4, DeviceKnown DEF Device!Setup, Device!Goto, HostAt, DeviceWell
  <1>7. CASE Device!Enqueue
    <2>1. /\ pc[0] = "enqueue" /\ enqueued' = enqueued + 1 /\ commands' = Append(commands, enqueued')
          /\ pc' = [pc EXCEPT ![0] = Device!AfterEnqueue] /\ UNCHANGED host
      BY <1>5, <1>7 DEF Device!Enqueue, Device!Goto
    <2>2. reads = 0 /\ enqueued < Device!Last
      BY <2>1 DEF HostAt, DeviceWell
    <2>3. DOMAIN pc' = {0, 1} /\ pc'[0] = (IF enqueued' < Device!Last THEN "enqueue"
                                          ELSE IF program.finishes THEN "finish" ELSE "read")
      BY <2>1 DEF Device!AfterEnqueue
    <2>4. enqueued' \in 0 .. Device!Last /\ enqueued <= enqueued'
      BY <2>1, <2>2, DeviceKnown
    <2>5. commands' = Commands(d, enqueued', 0)
      BY <2>1, <2>2, QueueGrows, DeviceKnown
    <2>7. HostAt(d, 0)'
      BY <2>3, <2>4 DEF HostAt
    <2> QED BY <1>4, <2>3, <2>4, <2>5, <2>7
  <1>8. CASE Device!Finish
    BY <1>8, DeviceKnown, <1>4 DEF Device!Finish, Device!Goto, HostAt
  <1>9. CASE Device!ReadBack
    <2>1. /\ pc[0] = "read" /\ commands' = Append(commands, Device!Read) /\ UNCHANGED <<enqueued, host>>
          /\ pc' = [pc EXCEPT ![0] = "wait"]
      BY <1>5, <1>9 DEF Device!ReadBack, Device!Goto
    <2>2. DOMAIN pc' = {0, 1} /\ pc'[0] = "wait"
      BY <2>1
    <2>3. reads = 0 /\ enqueued = Device!Last /\ program.reads
      BY <2>1 DEF HostAt, DeviceWell
    <2>4. commands' = Commands(d, enqueued, 1)
      <3>1. d \in Nat /\ enqueued \in Nat /\ d <= enqueued /\ commands = Commands(d, enqueued, 0)
        BY <2>3, DeviceKnown
      <3> QED BY <2>1, <3>1, QueueGrows
    <2>5. HostAt(d, 1)'
      BY <2>1, <2>2, <2>3 DEF HostAt
    <2> QED BY <1>4, <2>1, <2>2, <2>4, <2>5, DeviceKnown
  <1>10. CASE Device!Wait
    BY <1>10, DeviceKnown, <1>1, <1>4 DEF Device!Wait, Device!Goto, HostAt
  <1> QED BY <1>6, <1>7, <1>8, <1>9, <1>10 DEF Device!Host

(* The device.  What is left to show of a step of a kernel: the kernels after *)
(* it.                                                                        *)
LEMMA DeviceServes ==
  ASSUME NEW d, NEW reads, DeviceWell(d, reads), UNCHANGED <<program, pc, enqueued>>, d < enqueued,
         NEW e \in {d, d + 1}, commands' = Commands(e, enqueued, reads), DOMAIN buffer' = DOMAIN buffer,
         \A h \in DOMAIN buffer : DOMAIN buffer'[h] = DOMAIN buffer[h],
         \A h \in 1 .. e : Computed(h)',
         \A h \in e + 1 .. Device!Last : Fresh(h)' \/ (h = e + 1 /\ at' # <<>>),
         at' # <<>> => e < enqueued /\ KernelRuns(e + 1, Kernel(e + 1))'
  PROVE  e \in 0 .. Device!Last /\ DeviceAt(e, reads)'
  <1>1. /\ DeviceFits /\ DeviceAt(d, reads) /\ HostAt(d, reads) /\ Device!Last \in {1, 2} /\ reads \in {0, 1}
    BY DEF DeviceWell, DeviceAt, DeviceFits
  <1>2. Device!Last' = Device!Last /\ \A h : Kernel(h)' = Kernel(h)
    BY <1>1, FitsStays
  <1>3. d \in Nat /\ enqueued \in Nat /\ enqueued <= Device!Last /\ d <= enqueued
    BY DeviceKnown
  <1>5. HostAt(e, reads)'
    BY <1>1, <1>2, <1>3 DEF HostAt
  <1>7. DOMAIN buffer = 1 .. Device!Last /\ \A h \in 1 .. Device!Last : DOMAIN buffer[h] = ItemsOf(Kernel(h))
    BY <1>1 DEF DeviceAt
  <1> QED BY <1>2, <1>5, <1>7, <1>1, <1>3 DEF DeviceAt

LEMMA LaunchStep ==
  ASSUME NEW d, NEW reads, DeviceWell(d, reads), UNCHANGED <<program, pc, enqueued>>, Device!Launch
  PROVE  DeviceAt(d, reads)'
  <1> commands # <<>> /\ Head(commands) # Device!Read /\ at = <<>> /\ UNCHANGED <<commands, host, buffer>>
    BY DEF Device!Launch
  <1> /\ DeviceFits /\ DeviceAt(d, reads) /\ Device!Last \in {1, 2} /\ reads \in {0, 1} /\ DeviceNumbers
    BY DEF DeviceWell, DeviceFits
  <1>3. d < enqueued
    BY DeviceKnown
  <1>4. PICK h, k : h = d + 1 /\ k = Kernel(d + 1)
    OBVIOUS
  <1>5. h \in 1 .. Device!Last /\ Device!Running = k /\ KernelFits(k)
    BY <1>3, <1>4, DeviceKnown
  <1>6. /\ at' = [i \in ItemsOf(k) |-> "waiting"] /\ round' = [i \in ItemsOf(k) |-> 0]
        /\ shared' = [i \in ItemsOf(k) |-> [a |-> Device!Before, b |-> Device!Before]]
        /\ private' = [i \in ItemsOf(k) |-> Device!EmptyBag]
    BY <1>5 DEF Device!Launch, ItemsOf
  <1>7. d + 1 \in d + 1 .. Device!Last
    BY <1>3, DeviceKnown
  <1>8. Fresh(h) /\ DOMAIN buffer[h] = ItemsOf(k)
    BY <1>4, <1>5, <1>7 DEF DeviceAt
  <1>9. KernelRuns(h, k)'
    BY <1>5, <1>6, <1>8, KernelStarts
  <1>11. at' # <<>>
    <2>1. DOMAIN at' = ItemsOf(k) /\ 0 \in ItemsOf(k)
      BY <1>5, <1>6 DEF KernelFits, ItemsOf
    <2>2. DOMAIN <<>> = {}
      OBVIOUS
    <2> QED BY <2>1, <2>2
  <1>12. \A j \in 1 .. d : Computed(j)'
    BY FitsStays DEF DeviceAt, Computed
  <1>13. \A j \in d + 1 .. Device!Last : Fresh(j)'
    BY DEF DeviceAt, Fresh
  <1>14. commands' = Commands(d, enqueued, reads)
    BY DeviceKnown
  <1>15. KernelRuns(d + 1, Kernel(d + 1))'
    BY <1>4, <1>9, FitsStays
  <1> QED BY <1>3, <1>12, <1>13, <1>14, <1>15, DeviceServes

LEMMA ItemsStep ==
  ASSUME NEW d, NEW reads, DeviceWell(d, reads), UNCHANGED <<program, pc, enqueued, commands, host>>,
         NEW i \in Device!WorkItems, ItemStep(i)
  PROVE  DeviceAt(d, reads)'
  <1>1. /\ DeviceFits /\ DeviceAt(d, reads) /\ Device!Last \in {1, 2} /\ reads \in {0, 1} /\ DeviceNumbers
    BY DEF DeviceWell, DeviceFits
  <1>2. at # <<>>
    <2> QED BY DEF Device!WorkItems
  <1>3. PICK h, k : h = d + 1 /\ k = Kernel(d + 1)
    OBVIOUS
  <1>4. d < enqueued /\ Kept(h, k) /\ KernelRuns(h, k) /\ Fed(h, k)
    BY <1>2, <1>3, DeviceRuns
  <1>5. i \in ItemsOf(k)
    BY <1>4, PeersAre DEF Kept
  <1>6. KernelRuns(h, k)'
    BY <1>1, <1>4, <1>5, KernelGoesOn
  <1>7. /\ DOMAIN buffer' = DOMAIN buffer
        /\ \A j \in DOMAIN buffer : DOMAIN buffer'[j] = DOMAIN buffer[j] /\ (j # h => buffer'[j] = buffer[j])
    BY <1>4, <1>5, ItemKeepsBuffers
  <1>8. \A j : Kernel(j)' = Kernel(j)
    BY <1>1, FitsStays
  <1>9. DOMAIN buffer = 1 .. Device!Last /\ d \in Nat
    BY <1>1, DeviceKnown DEF DeviceAt
  <1>10. ASSUME NEW j \in 1 .. d PROVE Computed(j)'
    BY <1>3, <1>4, <1>9, DeviceKnown, <1>1, <1>7, <1>8 DEF DeviceAt, Computed
  <1>11. at' # <<>>
    BY <1>6, <1>5 DEF KernelRuns, ItemTypes
  <1>12. ASSUME NEW j \in d + 1 .. Device!Last PROVE Fresh(j)' \/ (j = d + 1 /\ at' # <<>>)
    BY <1>11, <1>1, <1>9, <1>3, <1>7 DEF DeviceAt, Fresh
  <1>13. commands' = Commands(d, enqueued, reads)
    BY DeviceKnown
  <1>14. KernelRuns(d + 1, Kernel(d + 1))'
    BY <1>3, <1>6, <1>8
  <1> QED BY <1>4, <1>7, <1>10, <1>12, <1>13, <1>14, DeviceServes

LEMMA RetireStep ==
  ASSUME NEW d, NEW reads, DeviceWell(d, reads), UNCHANGED <<program, pc, enqueued>>, Device!Retire
  PROVE  d + 1 \in 0 .. Device!Last /\ DeviceAt(d + 1, reads)'
  <1> /\ at # <<>> /\ (\A i \in Device!WorkItems : at[i] = "finished") /\ commands' = Tail(commands)
      /\ at' = <<>> /\ UNCHANGED <<host, buffer>>
    BY DEF Device!Retire
  <1>2. /\ DeviceFits /\ DeviceAt(d, reads) /\ Device!Last \in {1, 2} /\ reads \in {0, 1} /\ DeviceNumbers
    BY DEF DeviceWell, DeviceFits
  <1>3. PICK h, k : h = d + 1 /\ k = Kernel(d + 1)
    OBVIOUS
  <1>4. d < enqueued /\ Kept(h, k) /\ KernelRuns(h, k) /\ Fed(h, k)
    BY <1>3, DeviceRuns
  <1>5. \A i \in ItemsOf(k) : at[i] = "finished"
    BY <1>4, PeersAre DEF Kept
  <1>6. Computed(h)
    BY <1>2, <1>4, <1>5, KernelEnds, <1>3 DEF Computed, Kept
  <1>7. \A j : Kernel(j)' = Kernel(j)
    BY <1>2, FitsStays
  <1>8. d \in Nat /\ enqueued \in Nat /\ d <= enqueued /\ commands = Commands(d, enqueued, reads)
        /\ enqueued <= Device!Last
    BY DeviceKnown
  <1>9. ASSUME NEW j \in 1 .. d + 1 PROVE Computed(j)'
    <2>1. Computed(j)
      <3>1. CASE j = d + 1
        BY <1>3, <1>6, <3>1
      <3>2. CASE j # d + 1
        <4> QED BY <1>2, <1>8, <3>2 DEF DeviceAt
      <3> QED BY <3>1, <3>2
    <2> QED BY <1>7, <2>1 DEF Computed
  <1>10. ASSUME NEW j \in (d + 1) + 1 .. Device!Last PROVE Fresh(j)'
    BY <1>2, <1>8 DEF DeviceAt, Fresh
  <1>11. commands' = Commands(d + 1, enqueued, reads)
    BY <1>2, <1>4, <1>8, QueueShrinks
  <1> QED BY <1>4, <1>9, <1>10, <1>11, DeviceServes

(* The read behind the kernels: all of them have computed.                    *)
LEMMA TransferStep ==
  ASSUME NEW d, NEW reads, DeviceWell(d, reads), UNCHANGED <<program, pc, enqueued>>, Device!Transfer
  PROVE  DeviceAt(d, 0)'
  <1> /\ commands # <<>> /\ Head(commands) = 0 /\ host' = buffer[Device!Last] /\ commands' = Tail(commands)
      /\ UNCHANGED <<buffer, at, round, shared, private>>
    BY DEF Device!Transfer, Device!Read, Device!deviceVars
  <1>2. /\ DeviceFits /\ DeviceAt(d, reads) /\ HostAt(d, reads) /\ Device!Last \in {1, 2} /\ reads \in {0, 1}
    BY DEF DeviceWell, DeviceAt, DeviceFits
  <1>3. d \in Nat /\ enqueued \in Nat /\ d <= enqueued /\ commands = Commands(d, enqueued, reads)
    BY DeviceKnown
  <1>4. d = enqueued /\ reads = 1
    <2>1. ~(d < enqueued)
      <3> SUFFICES ASSUME d < enqueued PROVE FALSE
        OBVIOUS
      <3> QED BY <1>3, DeviceKnown
    <2> QED BY <1>2, <1>3, <2>1, DeviceKnown
  <1>6. commands' = Commands(d, enqueued, 0)
    BY <1>3, QueueShrinks, <1>4
  <1>7. at = <<>>
    BY <1>2, <1>3, <1>4 DEF DeviceAt
  <1>8. Device!Last' = Device!Last /\ \A h : Kernel(h)' = Kernel(h)
    BY <1>2, FitsStays
  <1>9. HostAt(d, 0)'
    BY <1>2, <1>4, <1>8 DEF HostAt
  <1>10. \A h : (Computed(h) => Computed(h)') /\ (Fresh(h) => Fresh(h)')
    BY <1>8 DEF Computed, Fresh
  <1> QED BY <1>2, <1>6, <1>7, <1>8, <1>9, <1>10 DEF DeviceAt

LEMMA DeviceInvInit == DeviceNumbers /\ Device!Init => DeviceInv
  <1> SUFFICES ASSUME DeviceNumbers, Device!Init PROVE DeviceInv
    OBVIOUS
  <1>1. /\ pc = [t \in {0, 1} |-> IF t = 0 THEN "setup" ELSE "serve"]
        /\ commands = <<>> /\ enqueued = 0 /\ at = <<>>
        /\ buffer = [h \in DOMAIN Device!Kernels |->
                       [i \in 0 .. Kernel(h).global - 1 |-> Device!Before]]
    BY DEF Device!Init, Kernel
  <1>2. DeviceFits
    BY DevicePrograms DEF Device!Init
  <1>3. Device!Last \in {1, 2} /\ DOMAIN Device!Kernels = 1 .. Device!Last
    BY <1>2 DEF DeviceFits
  <1>5. commands = Commands(0, 0, 0)
    <2>1. PICK z : z = Commands(0, 0, 0)
      OBVIOUS
    <2> QED BY <1>1, <2>1, QueueHead
  <1>6. HostAt(0, 0)
    BY <1>1, <1>3 DEF HostAt
  <1>7. DeviceAt(0, 0)
    BY <1>1, <1>3, <1>5, <1>6 DEF DeviceAt, ItemsOf, Fresh
  <1> QED BY <1>1, <1>2, <1>3, <1>7 DEF DeviceInv

LEMMA DeviceInvStep == DeviceNumbers /\ DeviceInv /\ DeviceMoves => DeviceInv'
  <1> SUFFICES ASSUME DeviceNumbers, DeviceInv, DeviceMoves PROVE DeviceInv'
    OBVIOUS
  <1> /\ DeviceFits /\ DOMAIN pc = {0, 1}
      /\ status = "ok" => \E d \in 0 .. Device!Last, reads \in {0, 1} : DeviceAt(d, reads)
    BY DEF DeviceInv
  <1>2. UNCHANGED program
    BY DEF DeviceMoves, Device!Run
  <1>3. DeviceFits' /\ Device!Last' = Device!Last /\ \A h : Kernel(h)' = Kernel(h)
    BY <1>2, FitsStays (* A step that the kernels and the host's results do not see. *)
  <1>4. ASSUME NEW d, NEW reads, DeviceAt(d, reads), HostAt(d, reads)',
               UNCHANGED <<commands, enqueued, buffer, at, round, shared, private>>
        PROVE  DeviceAt(d, reads)'
    BY <1>3, <1>4 DEF KernelRuns, ItemTypes, MapInv, ReduceInv, TilesInv, Together, ReduceAt,
       ReducesTo, TilesAt, Loaded, Computed, Fresh, DeviceAt
  <1>5. CASE UNCHANGED <<program, pc, commands, enqueued, status, host, buffer, at, round, shared, private>>
    BY <1>3, <1>5, <1>4 DEF DeviceAt, HostAt, DeviceInv
  <1>6. ASSUME NEW t \in DOMAIN pc, Device!Run(t) PROVE DeviceInv'
    <2>1. \/ Device!Host
          \/ Device!Device /\ UNCHANGED <<pc, enqueued, status>>
          \/ Device!Stop
      BY <1>6 DEF Device!Run
    <2>2. DOMAIN pc' = {0, 1}
      BY <2>1 DEF Device!Goto, Device!Fails, Device!Host, Device!Setup, Device!Enqueue,
         Device!Finish, Device!ReadBack, Device!Wait, Device!Stop
    <2> SUFFICES ASSUME status' = "ok"
                 PROVE  \E d \in 0 .. Device!Last, reads \in {0, 1} : DeviceAt(d, reads)'
      BY <1>3, <2>2 DEF DeviceInv
    (* No step takes an error back.                                           *)
    <2>3. status = "ok"
      BY <2>1 DEF Device!Fails, Device!Host, Device!Setup, Device!Enqueue, Device!Finish,
         Device!ReadBack, Device!Wait, Device!Stop, Device!own
    <2>4. PICK d \in 0 .. Device!Last, reads \in {0, 1} : DeviceAt(d, reads)
      BY <2>3
    <2>5. DeviceWell(d, reads)
      BY <2>3, <2>4 DEF DeviceWell
    <2>6. CASE Device!Host
      BY <1>2, <2>4, <2>5, <2>6, HostStep
    <2>7. CASE Device!Device /\ UNCHANGED <<pc, enqueued, status>>
      BY <1>2, <2>4, <2>5, <2>7, LaunchStep, RetireStep, TransferStep, ItemsStep DEF ItemStep,
         Device!StartGroup, Device!Device
    <2>8. CASE Device!Stop
      BY <2>8, <1>2, <1>3, <2>4, <1>4 DEF Device!Stop, Device!own, DeviceAt, HostAt
    <2> QED BY <2>1, <2>6, <2>7, <2>8
  <1> QED BY <1>5, <1>6 DEF DeviceMoves

(* What a host that has seen no error holds when it has returned, or what is  *)
(* then in the memory of the device, is what the kernels were to compute from *)
(* the inputs (parallel_reduction.cpp, saxpy_kernel.cpp, convolution_1d.cpp,  *)
(* non_linear_transform.cpp, main.cpp of Vector Addition, main.c of Matrix    *)
(* Multiplication and the CUDA kernels): whatever the lengths and dimensions, *)
(* the powers of two that are the size of a group and the side of a tile, the *)
(* number of groups that run at a time, and the order of the items' steps.    *)
THEOREM HostsGetResults ==
  ASSUME Elements \subseteq Nat \ {0},
         Dimensions \subseteq (Nat \ {0}) \X (Nat \ {0}) \X (Nat \ {0}),
         PowerOfTwo(GroupSize), GroupSize > 1, PowerOfTwo(Tile), Tile > 1
  PROVE  Spec => []HostGetsResults
  <1> DEFINE J == Device!Runs => DeviceInv
  <1>0. DeviceNumbers
    BY DEF DeviceNumbers
  <1>1. Init => J
    BY <1>0, DeviceInvInit DEF Init
  <1>2. J /\ [Next]_vars => J'
    <2> SUFFICES ASSUME J, [Next]_vars, Device!Runs' PROVE DeviceInv'
      OBVIOUS
    <2> QED BY <1>0, OneModuleRuns, DeviceInvStep, ProgramStays DEF Device!Runs
  <1>3. J => HostGetsResults
    <2> SUFFICES ASSUME DeviceInv, pc[0] = "done", status = "ok",
                        NEW a, a = IF program.reads THEN host ELSE buffer[Device!Last]
                 PROVE  /\ DOMAIN a = DOMAIN buffer[Device!Last]
                        /\ \A i \in DOMAIN a : a[i] = Device!Expected(Kernel(Device!Last), i)
      BY DEF HostGetsResults, Device!HostGetsResults, Kernel
    <2>1. PICK d \in 0 .. Device!Last, reads \in {0, 1} : DeviceAt(d, reads)
      BY DEF DeviceInv
    <2>2. d = Device!Last /\ a = buffer[Device!Last]
      BY <2>1 DEF DeviceAt, HostAt
    <2>4. Computed(Device!Last)
      BY <2>1, <2>2 DEF DeviceAt, DeviceInv, DeviceFits
    <2> QED BY <2>2, <2>4 DEF Computed
  <1> HIDE DEF J
  <1> QED BY <1>1, <1>2, <1>3, PTL DEF Spec
================================================================================
