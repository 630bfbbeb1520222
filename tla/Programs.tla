-------------------------------- MODULE Programs --------------------------------
(***************************************************************************)
(* The small programs of the repository, one of which runs: each is a      *)
(* `program` of one of the modules below, which share the variables        *)
(* `program` and `pc` and keep the others to themselves.                   *)
(***************************************************************************)
EXTENDS Naturals

CONSTANTS Forks,                       (* Philosophers                      *)
          GetterThreads,               (* LazyInit                          *)
          CounterThreads, Rounds,      (* Counting                          *)
          Items,                       (* HandOver                          *)
          Limits, Sizes, Teams, Word,  (* ParallelLoops                     *)
          Sharers, Repeats,            (* Sections                          *)
          Elements, GroupSize, Tile, Dimensions, ComputeUnits, (* Kernels   *)
          Numbers,                     (* Tasks                             *)
          Grids, NumThreads,           (* SpawnTree                         *)
          Readers, Reads               (* Snapshots                         *)

VARIABLES program, pc,
          fork, mouthfuls,
          pointer, guard, made, got,
          value, asleep, announced, updates, seen, early,
          counter, register, turns, left, ready, winner, said,
          q, next, finished, updated, completed, output,
          is_prime, index, multiple, word, sum,
          amount, loaded, held, section, stores,
          commands, enqueued, status, host, buffer, at, round, shared, private,
          step, deferred, input, result, runs, fetched,
          captured, started, joined, processed, aborted,
          cfg, c, new_cfg, replaced, fields, updated_to, level, printed

Dining   == INSTANCE Philosophers
Lazy     == INSTANCE LazyInit WITH Threads <- GetterThreads
Waits    == INSTANCE Waiting
Counts   == INSTANCE Counting WITH Threads <- CounterThreads
Handing  == INSTANCE HandOver
Looping  == INSTANCE ParallelLoops
Locking  == INSTANCE Sections
Device   == INSTANCE Kernels
Fetching == INSTANCE Tasks
Spawning == INSTANCE SpawnTree
Config   == INSTANCE Snapshots

diningVars   == <<fork, mouthfuls>>
lazyVars     == <<pointer, guard, made, got>>
waitsVars    == <<value, asleep, announced, updates, seen, early>>
countsVars   == <<counter, register, turns, left, ready, winner, said>>
handingVars  == <<q, next, finished, updated, completed, output>>
loopingVars  == <<is_prime, index, multiple, word, sum>>
lockingVars  == <<amount, loaded, held, section, stores>>
deviceVars   == <<commands, enqueued, status, host, buffer, at, round, shared, private>>
fetchingVars == <<step, deferred, input, result, runs, fetched>>
spawningVars == <<captured, started, joined, processed, aborted>>
configVars   == <<cfg, c, new_cfg, replaced, fields, updated_to, level, printed>>
ownVars == <<diningVars, lazyVars, waitsVars, countsVars, handingVars, loopingVars, lockingVars,
             deviceVars, fetchingVars, spawningVars, configVars>>
vars == <<program, pc, ownVars>>

(* The variables of the programs that do not run. *)
Idle == 0
NoDining == fork = Idle /\ mouthfuls = Idle
NoLazy == pointer = Idle /\ guard = Idle /\ made = Idle /\ got = Idle
NoWaits == /\ value = Idle /\ asleep = Idle /\ announced = Idle /\ updates = Idle
           /\ seen = Idle /\ early = Idle
NoCounts == /\ counter = Idle /\ register = Idle /\ turns = Idle /\ left = Idle
            /\ ready = Idle /\ winner = Idle /\ said = Idle
NoHanding == /\ q = Idle /\ next = Idle /\ finished = Idle /\ updated = Idle
             /\ completed = Idle /\ output = Idle
NoLooping == is_prime = Idle /\ index = Idle /\ multiple = Idle /\ word = Idle /\ sum = Idle
NoLocking == amount = Idle /\ loaded = Idle /\ held = Idle /\ section = Idle /\ stores = Idle
NoDevice == /\ commands = Idle /\ enqueued = Idle /\ status = Idle /\ host = Idle
            /\ buffer = Idle /\ at = Idle /\ round = Idle /\ shared = Idle /\ private = Idle
NoFetching == /\ step = Idle /\ deferred = Idle /\ input = Idle /\ result = Idle
              /\ runs = Idle /\ fetched = Idle
NoSpawning == /\ captured = Idle /\ started = Idle /\ joined = Idle /\ processed = Idle
              /\ aborted = Idle
NoConfig == /\ cfg = Idle /\ c = Idle /\ new_cfg = Idle /\ replaced = Idle /\ fields = Idle
            /\ updated_to = Idle /\ level = Idle /\ printed = Idle

Init == /\ \/ program \in Dining!Mine \/ program \in Lazy!Mine \/ program \in Waits!Mine
           \/ program \in Counts!Mine \/ program \in Handing!Mine \/ program \in Looping!Mine
           \/ program \in Locking!Mine \/ program \in Device!Mine \/ program \in Fetching!Mine
           \/ program \in Spawning!Mine \/ program \in Config!Mine
        /\ IF Dining!Runs THEN Dining!Init ELSE NoDining
        /\ IF Lazy!Runs THEN Lazy!Init ELSE NoLazy
        /\ IF Waits!Runs THEN Waits!Init ELSE NoWaits
        /\ IF Counts!Runs THEN Counts!Init ELSE NoCounts
        /\ IF Handing!Runs THEN Handing!Init ELSE NoHanding
        /\ IF Looping!Runs THEN Looping!Init ELSE NoLooping
        /\ IF Locking!Runs THEN Locking!Init ELSE NoLocking
        /\ IF Device!Runs THEN Device!Init ELSE NoDevice
        /\ IF Fetching!Runs THEN Fetching!Init ELSE NoFetching
        /\ IF Spawning!Runs THEN Spawning!Init ELSE NoSpawning
        /\ IF Config!Runs THEN Config!Init ELSE NoConfig

(* A step of the program that runs changes its own variables only.          *)
OthersUnchanged == /\ IF Dining!Runs THEN TRUE ELSE UNCHANGED diningVars
                   /\ IF Lazy!Runs THEN TRUE ELSE UNCHANGED lazyVars
                   /\ IF Waits!Runs THEN TRUE ELSE UNCHANGED waitsVars
                   /\ IF Counts!Runs THEN TRUE ELSE UNCHANGED countsVars
                   /\ IF Handing!Runs THEN TRUE ELSE UNCHANGED handingVars
                   /\ IF Looping!Runs THEN TRUE ELSE UNCHANGED loopingVars
                   /\ IF Locking!Runs THEN TRUE ELSE UNCHANGED lockingVars
                   /\ IF Device!Runs THEN TRUE ELSE UNCHANGED deviceVars
                   /\ IF Fetching!Runs THEN TRUE ELSE UNCHANGED fetchingVars
                   /\ IF Spawning!Runs THEN TRUE ELSE UNCHANGED spawningVars
                   /\ IF Config!Runs THEN TRUE ELSE UNCHANGED configVars

Step(t) == /\ t \in DOMAIN pc
           /\ \/ Dining!Run(t) \/ Lazy!Run(t) \/ Waits!Run(t) \/ Counts!Run(t)
              \/ Handing!Run(t) \/ Looping!Run(t) \/ Locking!Run(t) \/ Device!Run(t)
              \/ Fetching!Run(t) \/ Spawning!Run(t) \/ Config!Run(t)
           /\ OthersUnchanged

(* A wait on a condition variable, an atomic or a future may return early.  *)
SpuriousWake == /\ Waits!Runs
                /\ \E t \in asleep : Waits!SpuriousWake(t)
                /\ OthersUnchanged

(* main has joined its threads and returns. *)
Ended == /\ \A t \in DOMAIN pc : pc[t] = "done"
         /\ UNCHANGED vars

Next == (\E t \in DOMAIN pc : Step(t)) \/ SpuriousWake \/ Ended

Spec == Init /\ [][Next]_vars

(* The threads are scheduled: MostThreads bounds the threads of a program.  *)
MostThreads == 6
FairSpec == Spec /\ \A t \in 0 .. MostThreads : WF_vars(Step(t))
--------------------------------------------------------------------------------
(* Every variable has the type its module gives it. *)
TypeOK == /\ Dining!TypeOK /\ Lazy!TypeOK /\ Waits!TypeOK
          /\ Counts!TypeOK /\ Handing!TypeOK /\ Looping!TypeOK /\ Locking!TypeOK
          /\ Device!TypeOK /\ Fetching!TypeOK /\ Spawning!TypeOK /\ Config!TypeOK

(* The properties of the modules, for the programs of each. *)
NeighboursEatApart   == Dining!NeighboursEatApart
CreatedOnce          == Lazy!CreatedOnce
NobodyGoesOnEarly    == Waits!NobodyGoesOnEarly
WaitersResume        == Waits!WaitersResume
CountsAddUp          == Counts!CountsAddUp
ItemsInOrder         == Handing!ItemsInOrder
LoopsAreExact        == Looping!SieveIsExact /\ Looping!EachAddedOnce
NoUpdateLost         == Locking!NoUpdateLost
HostGetsResults      == Device!HostGetsResults
ResultsInOrder       == Fetching!ResultsInOrder
ParentsEndLast       == Spawning!ParentsEndLast
SnapshotsAreWhole    == Config!SnapshotsAreWhole

(* The programs come to their end: no lock, fork, guard, flag, barrier,     *)
(* future or join is left that somebody waits for.  The exceptions are the  *)
(* philosophers that nobody has broken step with, the reader that waits     *)
(* without a test (WaitersResume), and the two threads that poll for ever.  *)
ProgramsEnd == ~Dining!MayDineForEver
                 ~> \/ \A t \in DOMAIN pc : pc[t] = "done"
                    \/ program = Waits!WithoutPredicate
                    \/ Handing!BarIsFull
================================================================================
