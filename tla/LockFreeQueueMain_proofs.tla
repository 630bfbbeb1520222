------------------------ MODULE LockFreeQueueMain_proofs -----------------------
(* The lock-free queue and its program, for any number of producers and       *)
(* consumers: the list, what is handed out and freed, and linearizability.    *)
EXTENDS LockFreeQueueMain, TLAPS, FiniteSetTheorems, WellFoundedInduction
LEMMA LeastNat == ASSUME NEW T, T \subseteq Nat, T # {} PROVE \E x \in T : \A y \in T : x <= y
  <1> DEFINE R == {ss \in Nat \X Nat : ss[1] < ss[2]}
  <1>1. IsWellFoundedOn(R, Nat)  BY NatLessThanWellFounded DEF OpToRel
  <1>3. PICK x \in T : \A y \in T : ~ (<<y, x>> \in R)  BY <1>1, WFMin, Zenon
  <1>2. \A y \in T : y \in Nat /\ x \in Nat /\ ~(y < x)  BY <1>3
  <1>4. \A y \in T : x <= y  BY <1>2
  <1> QED BY <1>4


LEMMA CountsAlike == \A S : Q!Cardinality(S) = Cardinality(S)
  BY DEF Q!Cardinality, Cardinality

(* The threads that consume, and where a call of produce or consume has not   *)
(* taken effect yet.                                                          *)
Takers == Consumers \cup {Main}
Producing == {"p_tail", "p_next", "p_check", "p_link", "p_help"}
Looking == {"c_head", "c_tail", "c_next", "c_check", "c_help", "c_data", "c_swing"}

(* s[1], ..., s[n] are the nodes linked so far, in the order of their links,  *)
(* s[h] the one at head and s[k] the one at tail, which is not behind head.   *)
Listed(s, n, h, k) ==
  /\ n \in Nat \ {0} /\ s \in [1 .. n -> Cells]
  /\ \A i, j \in 1 .. n : s[i] = s[j] => i = j
  /\ \A i \in 1 .. n : next[s[i]] = IF i = n THEN Null ELSE s[i + 1]
  /\ h \in 1 .. n /\ k \in h .. n
  /\ head = s[h] /\ tail = s[k]
  /\ s[1] = Q!Sentinel
  /\ \A i \in 1 .. n : s[i] \in used

(* Where the threads are in their loops and in the calls these make.          *)
Place(t, a, p) ==
  /\ t \in Producers => \/ a = "call" /\ p = "idle"
                        \/ a = "in" /\ p \in Producing \cup {"p_swing"}
                        \/ a = "quit" /\ p = "produced"
  /\ t \in Consumers => \/ a \in {"call", "load", "store"} /\ p \in {"idle", "consumed"}
                        \/ a = "in" /\ p \in Looking \cup {"c_delete"}
                        \/ a = "quit" /\ p = "missed"
  /\ t = Main => \/ a = "join" /\ p = "idle"
                 \/ a = "call" /\ p \in {"idle", "consumed"}
                 \/ a = "in" /\ p \in Looking \cup {"c_delete"}
                 \/ a \in {"delete", "done"} /\ p = "missed"
Places == /\ \A t \in Threads : Place(t, at[t], pc[t])
          /\ at[Main] # "join" => Joined

(* Each cell that was handed out carries the value of the producer that got   *)
(* it, and no two carry the same; the first is the sentinel.                  *)
Carried ==
  /\ Q!Sentinel \in used /\ data[Q!Sentinel] = NoValue
  /\ \A c \in used : c # Q!Sentinel => data[c] \in Producers /\ at[data[c]] # "call"
  /\ \A c, d \in used : data[c] = data[d] => c = d

(* What a producer knows: its new node is its own until it is linked, what it *)
(* took for the tail is or was one, and nxt followed it if it is not null.    *)
TailWas(t, s, n, j) ==
  /\ reg[t].oldTail = s[j]
  /\ pc[t] \in {"p_check", "p_help"} /\ reg[t].nxt # Null => j < n /\ reg[t].nxt = s[j + 1]
  /\ pc[t] = "p_swing" => j < n /\ reg[t].new = s[j + 1]

ProducerKnows(t, s, n, k) ==
  /\ pc[t] \in Producing => /\ reg[t].new \in used /\ data[reg[t].new] = t /\ reg[t].val = t
                            /\ next[reg[t].new] = Null
                            /\ \A i \in 1 .. n : s[i] # reg[t].new
  /\ pc[t] \in {"p_next", "p_check", "p_link", "p_help", "p_swing"} =>
       \E j \in 1 .. k : TailWas(t, s, n, j)
  /\ pc[t] = "p_help" => reg[t].nxt # Null
  /\ pc[t] \in {"p_swing", "produced"} => \E i \in 2 .. n : data[s[i]] = t

(* What a consumer knows: it loads tail after head, so its tail is not behind *)
(* its head, and when the two differ nxt is the node that follows its head.   *)
HeadWas(t, s, n, j, m) ==
  /\ reg[t].oldHead = s[j] /\ reg[t].oldTail = s[m] /\ j <= m
  /\ pc[t] = "c_check" => \/ reg[t].nxt = Null /\ m = j /\ t \in sawEmpty
                          \/ j < n /\ reg[t].nxt = s[j + 1]
  /\ pc[t] \in {"c_help", "c_data", "c_swing"} => j < n /\ reg[t].nxt = s[j + 1]
  /\ pc[t] = "c_help" => m = j
  /\ pc[t] \in {"c_data", "c_swing"} => j < m
  /\ pc[t] = "c_swing" => reg[t].val = data[s[j + 1]]

Deletes(t, s, j) == reg[t].oldHead = s[j] /\ reg[t].nxt = s[j + 1] /\ reg[t].val = data[s[j + 1]]

TakerKnows(t, s, n, h, k) ==
  /\ pc[t] = "c_tail" => \E j \in 1 .. h : reg[t].oldHead = s[j]
  /\ pc[t] \in Looking \ {"c_head", "c_tail"} =>
       \E j \in 1 .. h, m \in 1 .. k : HeadWas(t, s, n, j, m)
  /\ pc[t] = "c_delete" => \E j \in 1 .. h - 1 : Deletes(t, s, j)

(* The cells that are allocated: the list from head on, the new nodes of the  *)
(* producers and the old heads that consumers are about to delete.            *)
Allocated(s, n, h) ==
  /\ at[Main] = "done" => live = {}
  /\ at[Main] # "done" =>
       \A c \in Cells : c \in live <=> \/ \E i \in h .. n : c = s[i]
                                       \/ \E t \in Producers : pc[t] \in Producing /\ c = reg[t].new
                                       \/ \E t \in Takers : pc[t] = "c_delete" /\ c = reg[t].oldHead
  /\ \A t, u \in Takers : pc[t] = "c_delete" /\ pc[u] = "c_delete" /\ reg[t].oldHead = reg[u].oldHead
                            => t = u

(* The values handed out: those of the nodes up to head, each once, but for   *)
(* the ones whose consume has yet to return.                                  *)
HandedOut(s, h) ==
  /\ \A i, j \in DOMAIN delivered : delivered[i] = delivered[j] => i = j
  /\ \A v \in Producers :
       (\E i \in DOMAIN delivered : delivered[i] = v)
         <=> \E i \in 2 .. h : /\ data[s[i]] = v
                               /\ \A t \in Takers : pc[t] = "c_delete" => reg[t].nxt # s[i]

(* What emptiness leaves behind: it is noted for every consume that is        *)
(* looking, and once the drain has seen it there is nothing left.             *)
Emptied(s, n, h) ==
  /\ h = n => \A t \in Takers : pc[t] \in Looking => t \in sawEmpty
  /\ pc[Main] = "c_check" /\ reg[Main].nxt = Null => reg[Main].oldHead = s[n]
  /\ at[Main] \in {"delete", "done"} => h = n

Inv(s, n, h, k) ==
  /\ TypeOK /\ Places /\ Carried
  /\ Listed(s, n, h, k)
  /\ \A t \in Producers : ProducerKnows(t, s, n, k)
  /\ \A t \in Takers : TakerKnows(t, s, n, h, k)
  /\ Allocated(s, n, h) /\ HandedOut(s, h) /\ Emptied(s, n, h)

QueueInv == \E s, n, h, k : Inv(s, n, h, k)

LEMMA ChainIsRest ==
  ASSUME NEW s, NEW n, NEW h, NEW k, Listed(s, n, h, k)
  PROVE Q!Chain = [i \in 1 .. n - h + 1 |-> s[h + i - 1]]
  <1> DEFINE N == Cardinality(Cells)
             g == [i \in 1 .. N |-> IF i <= n - h + 1 THEN s[h + i - 1] ELSE Null]
             D(f) == [i \in 1 .. N |-> IF i = 1 THEN head
                                       ELSE IF f[i - 1] = Null THEN Null ELSE next[f[i - 1]]]
  <1>0. Null \notin Cells
    BY MainAssumption
  <1>1. N \in Nat
    BY FS_CardinalityType, MainAssumption
  <1>2. n <= N
    <2>1. IsFiniteSet(1 .. n) /\ Cardinality(1 .. n) = n
      BY FS_Interval DEF Listed
    <2>2. s \in Injection(1 .. n, Cells)
      BY DEF Listed, Injection, IsInjective
    <2> QED BY <2>1, <2>2, FS_Injection, MainAssumption
  <1>3. g = D(g)
    BY <1>0, <1>1, <1>2 DEF Listed
  <1>4. Q!Node = D(Q!Node)
    <2> HIDE DEF g
    <2>1. \E f : f = D(f)
      BY <1>3
    <2>2. Q!Node = CHOOSE f : f = D(f)
      BY CountsAlike DEF Q!Node
    <2> HIDE DEF D
    <2> QED BY <2>1, <2>2, Zenon
  <1>5. \A i \in 1 .. N : Q!Node[i] = g[i]
    <2> DEFINE T == {i \in 1 .. N : Q!Node[i] # g[i]}
    <2> SUFFICES ASSUME T # {} PROVE FALSE
      OBVIOUS
    <2>1. PICK i \in T : \A j \in T : i <= j
      <3>1. T \subseteq Nat
        OBVIOUS
      <3> HIDE DEF T
      <3> QED BY <3>1, LeastNat
    <2>2. i # 1 => Q!Node[i - 1] = g[i - 1] /\ i - 1 \in 1 .. N
      BY <2>1, <1>1
    <2> HIDE DEF g
    <2>3. /\ Q!Node[i] = IF i = 1 THEN head
                          ELSE IF Q!Node[i - 1] = Null THEN Null ELSE next[Q!Node[i - 1]]
      BY <1>4, <2>1
    <2>4. g[i] = IF i = 1 THEN head ELSE IF g[i - 1] = Null THEN Null ELSE next[g[i - 1]]
      BY <1>3, <2>1
    <2>5. Q!Node[i] = g[i]
      BY <2>2, <2>3, <2>4
    <2> QED BY <2>1, <2>5
  <1>6. DOMAIN Q!Node = 1 .. N
    BY <1>4
  <1>7. \A i \in 1 .. n - h + 1 : i \in 1 .. N /\ Q!Node[i] = s[h + i - 1] /\ Q!Node[i] # Null
    BY <1>1, <1>2, <1>5, <1>0 DEF Listed
  <1>8. \A i \in 1 .. N : i > n - h + 1 => Q!Node[i] = Null
    BY <1>1, <1>2, <1>5 DEF Listed
  <1>9. {j \in DOMAIN Q!Node : Q!Node[j] # Null} = 1 .. n - h + 1
    BY <1>1, <1>2, <1>6, <1>7, <1>8 DEF Listed
  <1> HIDE DEF g
  <1> QED BY <1>7, <1>9 DEF Q!Chain
--------------------------------------------------------------------------------
(* The threads of the queue, and what a step of one leaves alone.             *)
LEMMA TheThreads ==
  /\ Q!Threads = Threads /\ Threads = Producers \cup Takers
  /\ Main \in Takers /\ Main \notin Producers
  /\ \A t \in Takers : t \notin Producers
  BY MainAssumption DEF Threads, Q!Threads, Takers

OthersStay(t) == \A u \in Threads : u # t => /\ pc'[u] = pc[u] /\ reg'[u] = reg[u]
                                             /\ at'[u] = at[u]

Registers == [new : Cells \cup {Null}, oldHead : Cells \cup {Null}, oldTail : Cells \cup {Null},
              nxt : Cells \cup {Null}, val : Producers \cup {NoValue}]

(* What a call of consume that returns means to its caller.                   *)
Returns(t) == \/ /\ pc'[t] = "consumed" /\ delivered' = Append(delivered, reg[t].val)
                 /\ Goto(t, IF t = Main THEN "call" ELSE "load")
              \/ /\ pc'[t] = "missed" /\ UNCHANGED delivered
                 /\ Goto(t, IF t = Main THEN "delete" ELSE "quit")
              \/ pc'[t] \notin {"consumed", "missed"} /\ UNCHANGED <<at, delivered>>

(* What a thread does between two calls of consume, and the join of main.     *)
Outside == /\ UNCHANGED <<queueVars, delivered>>
           /\ \/ \E t \in Consumers : \/ at[t] = "load" /\ Goto(t, "store") /\ UNCHANGED consumed
                                         /\ temp' = [temp EXCEPT ![t] = consumed]
                                      \/ at[t] = "store" /\ Goto(t, "call") /\ UNCHANGED temp
                                         /\ consumed' = temp[t] + 1
              \/ at[Main] = "join" /\ Joined /\ Goto(Main, "call") /\ UNCHANGED <<consumed, temp>>
              \/ UNCHANGED <<at, consumed, temp>>

Calling(t) == at[t] = "call" /\ Goto(t, "in") /\ UNCHANGED <<consumed, temp, delivered>>

LEMMA KindsOfSteps ==
  ASSUME [Next]_vars
  PROVE  \/ \E t \in Producers : Calling(t) /\ Q!Produce(t, t)
         \/ \E t \in Producers :
              /\ at[t] = "in" /\ Q!ProduceStep(t) /\ UNCHANGED <<consumed, temp, delivered>>
              /\ IF pc'[t] = "produced" THEN Goto(t, "quit") ELSE UNCHANGED at
         \/ \E t \in Takers : Calling(t) /\ Q!Consume(t)
         \/ \E t \in Takers :
              at[t] = "in" /\ Q!ConsumeStep(t) /\ UNCHANGED <<consumed, temp>> /\ Returns(t)
         \/ Outside
         \/ DeleteSentinel
  <1>1. ASSUME NEW t \in Producers, ProducerRun(t)
        PROVE  \/ Calling(t) /\ Q!Produce(t, t)
               \/ /\ at[t] = "in" /\ Q!ProduceStep(t) /\ UNCHANGED <<consumed, temp, delivered>>
                  /\ IF pc'[t] = "produced" THEN Goto(t, "quit") ELSE UNCHANGED at
    BY <1>1 DEF ProducerRun, Calling
  <1>2. ASSUME NEW t \in Consumers, ConsumerRun(t)
        PROVE  \/ Calling(t) /\ Q!Consume(t)
               \/ at[t] = "in" /\ Q!ConsumeStep(t) /\ UNCHANGED <<consumed, temp>> /\ Returns(t)
               \/ Outside
    <2>1. t # Main
      BY MainAssumption
    <2> QED BY <1>2, <2>1 DEF ConsumerRun, Consuming, Calling, Returns, Outside
  <1>3. CASE MainDrain
    BY <1>3, TheThreads DEF MainDrain, Consuming, Calling, Returns
  <1>4. CASE MainJoin
    BY <1>4 DEF MainJoin, Outside
  <1>5. CASE UNCHANGED vars
    BY <1>5 DEF vars, Outside
  <1> QED BY <1>1, <1>2, <1>3, <1>4, <1>5 DEF Next, Takers

Spots == {"call", "in", "load", "store", "join", "delete", "quit", "done"}

(* Where a step of a call leaves its thread.                                  *)
LEMMA ProducePlaces ==
  ASSUME pc \in [Threads -> Q!Locations], NEW t \in Producers, Q!ProduceStep(t)
  PROVE  /\ pc' = [pc EXCEPT ![t] = pc'[t]]
         /\ pc[t] \in Producing \cup {"p_swing"}
         /\ pc'[t] \in Producing \cup {"p_swing", "produced"}
  BY TheThreads DEF Q!ProduceStep, Q!ProduceLoadTail, Q!ProduceLoadNext, Q!ProduceCheck, Q!Link,
       Q!ProduceSwing, Q!ProduceHelp, Q!Goto, Producing

LEMMA ConsumePlaces ==
  ASSUME pc \in [Threads -> Q!Locations], NEW t \in Takers, Q!ConsumeStep(t)
  PROVE  /\ pc' = [pc EXCEPT ![t] = pc'[t]]
         /\ pc[t] \in Looking \cup {"c_delete"}
         /\ pc'[t] \in Looking \cup {"c_delete", "consumed", "missed"}
         /\ pc[t] = "c_delete" => pc'[t] = "consumed" /\ Q!Delete(t)
         /\ pc'[t] = "consumed" => pc[t] = "c_delete"
  BY TheThreads DEF Q!ConsumeStep, Q!ConsumeLoadHead, Q!ConsumeLoadTail, Q!ConsumeLoadNext,
       Q!ConsumeCheck, Q!Verdict, Q!ConsumeHelp, Q!ReadData, Q!SwingHead, Q!Delete, Q!Goto, Looking

PlacesStay == /\ pc' \in [Threads -> Q!Locations] /\ at' \in [Threads -> Spots]
              /\ Places'
              /\ \A r \in Producers : at[r] # "call" => at'[r] # "call"

LEMMA OneMoves ==
  ASSUME pc \in [Threads -> Q!Locations], at \in [Threads -> Spots], Places,
         NEW t \in Threads, NEW a \in Spots, NEW p \in Q!Locations,
         at[t] \notin {"quit", "join"}, a # "join", Place(t, a, p), t \in Producers => a # "call",
         at' = [at EXCEPT ![t] = a], pc' = [pc EXCEPT ![t] = p]
  PROVE  PlacesStay
  <1>1. \A u \in Threads : /\ at'[u] = IF u = t THEN a ELSE at[u]
                           /\ pc'[u] = IF u = t THEN p ELSE pc[u]
    OBVIOUS
  <1>2. \A u \in Threads : Place(u, at'[u], pc'[u])
    BY <1>1 DEF Places
  <1>3. at'[Main] # "join" => Joined'
    BY <1>1, TheThreads DEF Places, Joined
  <1> QED BY <1>1, <1>2, <1>3, TheThreads DEF Places, PlacesStay

LEMMA PlacesStep ==
  ASSUME pc \in [Threads -> Q!Locations], at \in [Threads -> Spots], Places, [Next]_vars
  PROVE  PlacesStay
  <1>0. Q!Locations = Producing \cup Looking \cup {"p_swing", "c_delete", "idle", "produced",
                                                   "consumed", "missed"}
    BY DEF Q!Locations, Producing, Looking
  <1>1. ASSUME NEW t \in Producers, Calling(t), Q!Produce(t, t) PROVE PlacesStay
    <2>1. Place(t, "in", "p_tail")
      BY TheThreads, MainAssumption DEF Place, Producing
    <2>2. at' = [at EXCEPT ![t] = "in"] /\ pc' = [pc EXCEPT ![t] = "p_tail"] /\ at[t] = "call"
      BY <1>1 DEF Calling, Goto, Q!Produce, Q!Goto
    <2>3. "in" \in Spots /\ "p_tail" \in Q!Locations
      BY DEF Spots, Q!Locations
    <2> QED BY <2>1, <2>2, <2>3, OneMoves, TheThreads
  <1>2. ASSUME NEW t \in Producers, at[t] = "in", Q!ProduceStep(t),
               IF pc'[t] = "produced" THEN Goto(t, "quit") ELSE UNCHANGED at
        PROVE  PlacesStay
    <2> DEFINE a == IF pc'[t] = "produced" THEN "quit" ELSE "in"
    <2>1. /\ pc' = [pc EXCEPT ![t] = pc'[t]]
          /\ pc'[t] \in Producing \cup {"p_swing", "produced"}
      BY <1>2, ProducePlaces
    <2>2. PICK p : p = pc'[t]
      OBVIOUS
    <2>3. Place(t, a, p)
      BY <2>1, <2>2, TheThreads, MainAssumption DEF Place
    <2>4. at' = [at EXCEPT ![t] = a]
      BY <1>2 DEF Goto
    <2>5. p \in Q!Locations /\ a \in Spots /\ a \notin {"join", "call"}
      BY <2>1, <2>2, <1>0 DEF Spots
    <2> QED BY <1>2, <2>1, <2>2, <2>3, <2>4, <2>5, OneMoves, TheThreads
  <1>3. ASSUME NEW t \in Takers, Calling(t), Q!Consume(t) PROVE PlacesStay
    <2>1. Place(t, "in", "c_head")
      BY TheThreads, MainAssumption DEF Place, Looking
    <2>2. at' = [at EXCEPT ![t] = "in"] /\ pc' = [pc EXCEPT ![t] = "c_head"] /\ at[t] = "call"
      BY <1>3 DEF Calling, Goto, Q!Consume, Q!Goto
    <2>3. "in" \in Spots /\ "c_head" \in Q!Locations
      BY DEF Spots, Q!Locations
    <2> QED BY <2>1, <2>2, <2>3, OneMoves, TheThreads
  <1>4. ASSUME NEW t \in Takers, at[t] = "in", Q!ConsumeStep(t), Returns(t) PROVE PlacesStay
    <2>1. /\ pc' = [pc EXCEPT ![t] = pc'[t]]
          /\ pc'[t] \in Looking \cup {"c_delete", "consumed", "missed"}
      BY <1>4, ConsumePlaces
    <2>2. PICK p : p = pc'[t]
      OBVIOUS
    <2>3. PICK a : /\ at' = [at EXCEPT ![t] = a]
                   /\ a = IF p = "consumed" THEN IF t = Main THEN "call" ELSE "load"
                          ELSE IF p = "missed" THEN IF t = Main THEN "delete" ELSE "quit"
                          ELSE "in"
      BY <1>4, <2>2 DEF Returns, Goto
    <2>4. Place(t, a, p)
      BY <2>1, <2>2, <2>3, TheThreads, MainAssumption DEF Place, Looking
    <2>5. p \in Q!Locations /\ a \in Spots /\ a # "join"
      BY <2>1, <2>2, <2>3, <1>0 DEF Spots
    <2> QED BY <1>4, <2>1, <2>2, <2>3, <2>4, <2>5, OneMoves, TheThreads
  <1>5. CASE Outside
    <2>1. pc' = pc
      BY <1>5 DEF Outside, queueVars
    <2>2. ASSUME NEW t \in Consumers, NEW a \in {"store", "call"}, at[t] \in {"load", "store"},
                 at' = [at EXCEPT ![t] = a]
          PROVE  PlacesStay
      <3>1. t \in Threads /\ t \notin Producers /\ t # Main
        BY MainAssumption DEF Threads
      <3>2. pc[t] \in {"idle", "consumed"} /\ pc[t] \in Q!Locations
        BY <2>2, <3>1 DEF Places, Place
      <3>3. PICK p : p = pc[t] /\ pc' = [pc EXCEPT ![t] = p]
        BY <2>1
      <3>4. Place(t, a, p)
        BY <3>1, <3>2, <3>3 DEF Place
      <3>5. a \in Spots
        BY DEF Spots
      <3> QED BY <2>2, <3>1, <3>2, <3>3, <3>4, <3>5, OneMoves
    <2>3. CASE at[Main] = "join" /\ Joined /\ Goto(Main, "call")
      <3>1. Joined'
        BY <2>3, TheThreads DEF Joined, Goto
      <3>2. \A t \in Threads : Place(t, at[t], pc[t]) => Place(t, at'[t], pc'[t])
        BY <2>1, <2>3, TheThreads DEF Place, Goto
      <3> QED BY <2>1, <2>3, <3>1, <3>2, TheThreads DEF PlacesStay, Places, Goto, Spots
    <2>4. CASE UNCHANGED at
      BY <2>1, <2>4 DEF PlacesStay, Places, Joined
    <2> QED BY <1>5, <2>2, <2>3, <2>4 DEF Outside, Goto
  <1>6. CASE DeleteSentinel
    <2>1. Place(Main, "done", pc[Main])
      BY <1>6, TheThreads DEF DeleteSentinel, Places, Place
    <2>2. PICK p : p = pc[Main] /\ pc' = [pc EXCEPT ![Main] = p]
      BY <1>6 DEF DeleteSentinel
    <2> QED BY <1>6, <2>1, <2>2, OneMoves, TheThreads DEF DeleteSentinel, Goto, Spots
  <1> QED BY <1>1, <1>2, <1>3, <1>4, <1>5, <1>6, KindsOfSteps

AllTyped == /\ head \in Cells /\ tail \in Cells
            /\ next \in [Cells -> Cells \cup {Null}] /\ data \in [Cells -> Producers \cup {NoValue}]
            /\ live \subseteq used /\ used \subseteq Cells
            /\ pc \in [Threads -> Q!Locations] /\ reg \in [Threads -> Registers]
            /\ calls \in 0 .. Cardinality(Producers)
            /\ dangling \in BOOLEAN /\ sawEmpty \subseteq Takers
            /\ at \in [Threads -> Spots] /\ consumed \in Nat /\ temp \in [Consumers -> Nat]
            /\ delivered \in Seq(Producers)

LEMMA Typed == (TypeOK <=> AllTyped) /\ (TypeOK' <=> AllTyped')
  BY TheThreads, CountsAlike DEF TypeOK, Q!TypeOK, AllTyped, Registers, Spots, Takers
--------------------------------------------------------------------------------
(* What the other threads know stays true while the list grows and head and   *)
(* tail move along it.                                                        *)
LEMMA ProducersKnowStill ==
  ASSUME NEW s, NEW n, NEW k, NEW ss, NEW nn, NEW kk, NEW t \in Producers, ProducerKnows(t, s, n, k),
         n \in Nat, nn \in Nat, k \in 1 .. n, n <= nn, kk \in k .. nn,
         \A i \in 1 .. n : ss[i] = s[i] /\ s[i] \in used, \A c \in used : data'[c] = data[c],
         used \subseteq used', UNCHANGED <<pc[t], reg[t]>>,
         pc[t] \in Producing => /\ next'[reg[t].new] = Null
                                /\ \A i \in 1 .. nn : ss[i] # reg[t].new
  PROVE  ProducerKnows(t, ss, nn, kk)'
  <1>1. \A j \in 1 .. k : TailWas(t, s, n, j) => TailWas(t, ss, nn, j)' /\ j \in 1 .. kk
    <2> SUFFICES ASSUME NEW j \in 1 .. k, TailWas(t, s, n, j) PROVE TailWas(t, ss, nn, j)' /\ j \in 1 .. kk
      OBVIOUS
    <2>1. j \in 1 .. kk /\ j \in 1 .. n /\ (j < n => j < nn /\ j + 1 \in 1 .. n)
      OBVIOUS
    <2> QED BY <2>1 DEF TailWas
  <1>2. \A i \in 2 .. n : i \in 2 .. nn /\ data'[ss[i]] = data[s[i]]
    OBVIOUS
  <1> QED BY <1>1, <1>2 DEF ProducerKnows

LEMMA TakersKnowStill ==
  ASSUME NEW s, NEW n, NEW h, NEW k, NEW ss, NEW nn, NEW hh, NEW kk, NEW t \in Takers,
         TakerKnows(t, s, n, h, k), n \in Nat, nn \in Nat, n <= nn,
         h \in 1 .. n, hh \in h .. nn, k \in 1 .. n, kk \in k .. nn,
         \A i \in 1 .. n : ss[i] = s[i] /\ s[i] \in used, \A c \in used : data'[c] = data[c],
         UNCHANGED <<pc[t], reg[t]>>, t \in sawEmpty /\ pc[t] \in Looking => t \in sawEmpty'
  PROVE  TakerKnows(t, ss, nn, hh, kk)'
  <1>1. \A j \in 1 .. h, m \in 1 .. k :
          HeadWas(t, s, n, j, m) => HeadWas(t, ss, nn, j, m)' /\ j \in 1 .. hh /\ m \in 1 .. kk
    <2> SUFFICES ASSUME NEW j \in 1 .. h, NEW m \in 1 .. k, HeadWas(t, s, n, j, m)
                 PROVE  HeadWas(t, ss, nn, j, m)' /\ j \in 1 .. hh /\ m \in 1 .. kk
      OBVIOUS
    <2>1. /\ j \in 1 .. hh /\ j \in 1 .. n /\ m \in 1 .. kk /\ m \in 1 .. n
          /\ j < n => j < nn /\ j + 1 \in 1 .. n
      OBVIOUS
    <2>2. pc[t] = "c_check" => pc[t] \in Looking
      BY DEF Looking
    <2> QED BY <2>1, <2>2 DEF HeadWas
  <1>2. \A j \in 1 .. h - 1 : Deletes(t, s, j) => Deletes(t, ss, j)' /\ j \in 1 .. hh - 1
    <2> SUFFICES ASSUME NEW j \in 1 .. h - 1, Deletes(t, s, j)
                 PROVE  Deletes(t, ss, j)' /\ j \in 1 .. hh - 1
      OBVIOUS
    <2>1. j \in 1 .. hh - 1 /\ j \in 1 .. n /\ j + 1 \in 1 .. n
      OBVIOUS
    <2> QED BY <2>1 DEF Deletes
  <1>3. \A j \in 1 .. h : j \in 1 .. hh /\ ss[j] = s[j]
    OBVIOUS
  <1> QED BY <1>1, <1>2, <1>3 DEF TakerKnows
--------------------------------------------------------------------------------
(* A step that reads, or moves tail along the list, changes only what its     *)
(* thread knows.                                                              *)
Quiet(t) == /\ t \in Threads
            /\ UNCHANGED <<head, next, data, live, used, delivered>>
            /\ \A u \in Threads : u # t => /\ pc'[u] = pc[u] /\ reg'[u] = reg[u]
                                           /\ u \in sawEmpty => u \in sawEmpty'
            /\ pc[t] # "c_delete" /\ pc'[t] # "c_delete"
            /\ at[Main] = "done" <=> at'[Main] = "done"

LEMMA QuietStep ==
  ASSUME NEW s, NEW n, NEW h, NEW k, Inv(s, n, h, k), NEW kk \in k .. n, tail' = s[kk],
         NEW t, Quiet(t), TypeOK', PlacesStay,
         t \in Producers => /\ ProducerKnows(t, s, n, kk)'
                            /\ pc[t] \in Producing <=> pc'[t] \in Producing
                            /\ pc[t] \in Producing => reg'[t].new = reg[t].new,
         t \in Takers => TakerKnows(t, s, n, h, kk)',
         Emptied(s, n, h)'
  PROVE  Inv(s, n, h, kk)'
  <1> USE DEF Quiet
  <1>0. Listed(s, n, h, k) /\ TypeOK /\ Carried
    BY DEF Inv
  <1>1. Listed(s, n, h, kk)'
    BY <1>0 DEF Listed
  <1>2. Carried'
    BY <1>0 DEF Carried, PlacesStay
  <1>3. /\ n \in Nat /\ n <= n /\ h \in 1 .. n /\ h \in h .. n /\ k \in 1 .. n
        /\ \A i \in 1 .. n : s[i] = s[i] /\ s[i] \in used
    BY <1>0 DEF Listed
  <1>4. ASSUME NEW u \in Producers PROVE ProducerKnows(u, s, n, kk)'
    <2>1. CASE u = t
      BY <2>1
    <2>2. CASE u # t
      <3>1. ProducerKnows(u, s, n, k) /\ UNCHANGED <<pc[u], reg[u]>>
        BY <2>2, TheThreads DEF Inv
      <3>2. pc[u] \in Producing => next'[reg[u].new] = Null /\ \A i \in 1 .. n : s[i] # reg[u].new
        BY <3>1 DEF ProducerKnows
      <3> QED BY <1>3, <3>1, <3>2, ProducersKnowStill
    <2> QED BY <2>1, <2>2
  <1>5. ASSUME NEW u \in Takers PROVE TakerKnows(u, s, n, h, kk)'
    <2>1. CASE u = t
      BY <2>1
    <2>2. CASE u # t
      <3>1. TakerKnows(u, s, n, h, k) /\ UNCHANGED <<pc[u], reg[u]>> /\ (u \in sawEmpty => u \in sawEmpty')
        BY <2>2, TheThreads DEF Inv
      <3> QED BY <1>3, <3>1, TakersKnowStill
    <2> QED BY <2>1, <2>2
  <1>6. Allocated(s, n, h)'
    <2>1. \A u \in Producers : /\ pc[u] \in Producing <=> pc'[u] \in Producing
                               /\ pc[u] \in Producing => reg'[u].new = reg[u].new
      BY TheThreads
    <2>2. \A u \in Takers : /\ pc[u] = "c_delete" <=> pc'[u] = "c_delete"
                            /\ pc[u] = "c_delete" => reg'[u] = reg[u]
      BY TheThreads
    <2> QED BY <2>1, <2>2 DEF Inv, Allocated
  <1>7. HandedOut(s, h)'
    <2>2. \A u \in Takers : /\ pc[u] = "c_delete" <=> pc'[u] = "c_delete"
                            /\ pc[u] = "c_delete" => reg'[u] = reg[u]
      BY TheThreads
    <2> QED BY <2>2 DEF Inv, HandedOut
  <1> QED BY <1>1, <1>2, <1>4, <1>5, <1>6, <1>7 DEF Inv, PlacesStay

LEMMA ProducerMoves ==
  ASSUME NEW s, NEW n, NEW h, NEW k, Inv(s, n, h, k), NEW kk \in k .. n, tail' = s[kk],
         NEW t \in Producers, NEW p, NEW r \in Registers, PlacesStay, at'[Main] = at[Main],
         UNCHANGED <<head, next, data, live, used, calls, sawEmpty, consumed, temp, delivered>>,
         dangling' \in BOOLEAN, pc' = [pc EXCEPT ![t] = p], reg' = [reg EXCEPT ![t] = r],
         pc[t] \in Producing <=> p \in Producing, pc[t] \in Producing => r.new = reg[t].new,
         ProducerKnows(t, s, n, kk)'
  PROVE  Inv(s, n, h, kk)'
  <1>0. Listed(s, n, h, k) /\ TypeOK /\ Places
    BY DEF Inv
  <1>1. /\ \A u \in Threads : u # t => pc'[u] = pc[u] /\ reg'[u] = reg[u]
        /\ pc'[t] = p /\ reg'[t] = r /\ t \in Threads /\ reg' \in [Threads -> Registers]
    BY <1>0, Typed, TheThreads DEF AllTyped
  <1>2. pc[t] # "c_delete" /\ pc'[t] # "c_delete"
    BY <1>0, <1>1 DEF Places, Place, PlacesStay, Producing
  <1>3. TypeOK'
    <2>1. tail' \in Cells
      BY <1>0 DEF Listed
    <2> QED BY <1>0, <1>1, <2>1, Typed DEF AllTyped, PlacesStay
  <1>4. Quiet(t)
    BY <1>1, <1>2 DEF Quiet
  <1>5. Emptied(s, n, h)'
    <2>1. \A u \in Takers : pc'[u] = pc[u] /\ reg'[u] = reg[u]
      BY <1>1, TheThreads
    <2> QED BY <2>1, TheThreads DEF Inv, Emptied
  <1>6. t \notin Takers
    BY TheThreads
  <1> QED BY <1>1, <1>3, <1>4, <1>5, <1>6, QuietStep

LEMMA ProduceReads ==
  ASSUME NEW s, NEW n, NEW h, NEW k, Inv(s, n, h, k), NEW t \in Producers, PlacesStay, at'[Main] = at[Main],
         UNCHANGED <<consumed, temp, delivered>>,
         Q!ProduceLoadTail(t) \/ Q!ProduceLoadNext(t) \/ Q!ProduceCheck(t)
  PROVE  Inv(s, n, h, k)'
  <1>0. /\ Listed(s, n, h, k) /\ TypeOK /\ Places /\ Carried /\ ProducerKnows(t, s, n, k)
        /\ reg \in [Threads -> Registers] /\ pc \in [Threads -> Q!Locations] /\ t \in Threads
    BY Typed, TheThreads DEF Inv, AllTyped
  <1>1. k \in k .. n /\ tail = s[k] /\ tail \in Cells /\ k \in 1 .. n
    BY <1>0 DEF Listed
  <1>2. UNCHANGED <<head, tail, next, data, live, used, calls, sawEmpty>> /\ dangling' \in BOOLEAN
    BY <1>0, Typed DEF AllTyped, Q!ProduceLoadTail, Q!ProduceLoadNext, Q!ProduceCheck, Q!memory, Q!Touch
  <1>3. CASE Q!ProduceLoadTail(t)
    <2>1. PICK r \in Registers : r = [reg[t] EXCEPT !.oldTail = tail]
      BY <1>0, <1>1 DEF Registers
    <2>2. pc' = [pc EXCEPT ![t] = "p_next"] /\ reg' = [reg EXCEPT ![t] = r] /\ pc[t] = "p_tail"
      BY <1>0, <1>3, <2>1 DEF Q!ProduceLoadTail, Q!Load, Q!Goto
    <2>3. reg'[t] = r /\ pc'[t] = "p_next"
      BY <1>0, <2>2
    <2>4. r.oldTail = s[k] /\ r.new = reg[t].new /\ r.val = reg[t].val
      BY <1>0, <1>1, <2>1 DEF Registers
    <2>5. TailWas(t, s, n, k)'
      BY <2>3, <2>4 DEF TailWas
    <2>6. ProducerKnows(t, s, n, k)'
      BY <1>0, <1>1, <1>2, <2>2, <2>3, <2>4, <2>5 DEF ProducerKnows, Producing
    <2> QED BY <1>1, <1>2, <2>2, <2>4, <2>6, ProducerMoves DEF Producing
  <1>4. CASE Q!ProduceLoadNext(t)
    <2>0. pc[t] = "p_next"
      BY <1>4 DEF Q!ProduceLoadNext
    <2>1. PICK j \in 1 .. k : TailWas(t, s, n, j)
      BY <1>0, <2>0 DEF ProducerKnows
    <2>2. j \in 1 .. n /\ reg[t].oldTail = s[j] /\ next[s[j]] = (IF j = n THEN Null ELSE s[j + 1])
      BY <1>0, <1>1, <2>1 DEF TailWas, Listed
    <2>3. PICK x : x = next[reg[t].oldTail]
      OBVIOUS
    <2>4. x \in Cells \cup {Null} /\ (x # Null => j < n /\ x = s[j + 1])
      BY <1>0, <2>2, <2>3 DEF Listed
    <2>5. PICK r \in Registers : r = [reg[t] EXCEPT !.nxt = x]
      BY <1>0, <2>4 DEF Registers
    <2>6. pc' = [pc EXCEPT ![t] = "p_check"] /\ reg' = [reg EXCEPT ![t] = r]
      BY <1>0, <1>4, <2>3, <2>5 DEF Q!ProduceLoadNext, Q!Load, Q!Goto
    <2>7. reg'[t] = r /\ pc'[t] = "p_check"
      BY <1>0, <2>6
    <2>8. r.nxt = x /\ r.oldTail = reg[t].oldTail /\ r.new = reg[t].new /\ r.val = reg[t].val
      BY <1>0, <2>5 DEF Registers
    <2>9. TailWas(t, s, n, j)'
      BY <2>2, <2>4, <2>7, <2>8 DEF TailWas
    <2>10. ProducerKnows(t, s, n, k)'
      BY <1>0, <1>2, <2>0, <2>7, <2>8, <2>9 DEF ProducerKnows, Producing
    <2> QED BY <1>1, <1>2, <2>0, <2>6, <2>8, <2>10, ProducerMoves DEF Producing
  <1>5. CASE Q!ProduceCheck(t)
    <2>0. pc[t] = "p_check"
      BY <1>5 DEF Q!ProduceCheck
    <2>1. CASE Q!Goto(t, "p_tail") /\ Q!Keep(t, {"new", "val"})
      <3>1. PICK r \in Registers : r = [Q!NoRegs EXCEPT !.new = reg[t].new, !.val = reg[t].val]
        BY <1>0 DEF Registers, Q!NoRegs
      <3>2. pc' = [pc EXCEPT ![t] = "p_tail"] /\ reg' = [reg EXCEPT ![t] = r]
        BY <1>0, <2>1, <3>1 DEF Q!Goto, Q!Keep, Q!NoRegs, Registers
      <3>3. reg'[t] = r /\ pc'[t] = "p_tail" /\ r.new = reg[t].new /\ r.val = reg[t].val
        BY <1>0, <3>1, <3>2 DEF Q!NoRegs
      <3>4. ProducerKnows(t, s, n, k)'
        BY <1>0, <1>2, <2>0, <3>3 DEF ProducerKnows, Producing
      <3> QED BY <1>1, <1>2, <2>0, <3>2, <3>3, <3>4, ProducerMoves DEF Producing
    <2>2. CASE UNCHANGED reg /\ Q!Goto(t, IF reg[t].nxt = Null THEN "p_link" ELSE "p_help")
      <3>1. PICK r \in Registers : r = reg[t]
        BY <1>0
      <3>2. PICK p : p = IF reg[t].nxt = Null THEN "p_link" ELSE "p_help"
        OBVIOUS
      <3>3. /\ pc' = [pc EXCEPT ![t] = p] /\ reg' = [reg EXCEPT ![t] = r]
            /\ pc'[t] = p /\ reg'[t] = r /\ reg'[t] = reg[t] /\ p \in {"p_link", "p_help"}
        BY <1>0, <2>2, <3>1, <3>2 DEF Q!Goto
      <3>4. PICK j \in 1 .. k : TailWas(t, s, n, j)
        BY <1>0, <2>0 DEF ProducerKnows
      <3>5. TailWas(t, s, n, j)'
        BY <2>0, <3>3, <3>4 DEF TailWas
      <3>6. ProducerKnows(t, s, n, k)'
        BY <1>0, <1>2, <2>0, <3>2, <3>3, <3>5 DEF ProducerKnows, Producing
      <3> QED BY <1>1, <1>2, <2>0, <3>1, <3>3, <3>6, ProducerMoves DEF Producing
    <2> QED BY <1>5, <2>1, <2>2 DEF Q!ProduceCheck
  <1> QED BY <1>3, <1>4, <1>5

(* Moving tail from where a producer or consumer found it, to the node behind.*)
LEMMA TailMoves ==
  ASSUME NEW s, NEW n, NEW h, NEW k, Listed(s, n, h, k), NEW t, NEW to, Q!SwingTail(t, to),
         NEW j \in 1 .. k, j < n, reg[t].oldTail = s[j], to = s[j + 1]
  PROVE  \E kk \in k .. n : tail' = s[kk]
  <1>1. k \in 1 .. n /\ n \in Nat /\ tail = s[k] /\ \A i, m \in 1 .. n : s[i] = s[m] => i = m
    BY DEF Listed
  <1>2. CASE UNCHANGED tail
    BY <1>1, <1>2
  <1>3. CASE tail = reg[t].oldTail /\ tail' = to
    <2>0. j \in 1 .. n /\ s[j] = s[k]
      BY <1>1, <1>3
    <2>1. j = k /\ k + 1 \in k .. n
      BY <1>1, <2>0
    <2> QED BY <1>3, <2>1
  <1> QED BY <1>2, <1>3 DEF Q!SwingTail

LEMMA ProduceSwings ==
  ASSUME NEW s, NEW n, NEW h, NEW k, Inv(s, n, h, k), NEW t \in Producers, PlacesStay, at'[Main] = at[Main],
         UNCHANGED <<consumed, temp, delivered>>, Q!ProduceSwing(t) \/ Q!ProduceHelp(t)
  PROVE  \E kk \in k .. n : Inv(s, n, h, kk)'
  <1>0. /\ Listed(s, n, h, k) /\ TypeOK /\ Places /\ Carried /\ ProducerKnows(t, s, n, k)
        /\ reg \in [Threads -> Registers] /\ pc \in [Threads -> Q!Locations] /\ t \in Threads
    BY Typed, TheThreads DEF Inv, AllTyped
  <1>1. UNCHANGED <<head, next, data, live, used, calls, sawEmpty>> /\ dangling' \in BOOLEAN
    BY <1>0, Typed DEF AllTyped, Q!ProduceSwing, Q!ProduceHelp
  <1>2. \A kk \in k .. n : kk \in Nat /\ (k <= kk)
    BY <1>0 DEF Listed
  <1>3. CASE Q!ProduceSwing(t)
    <2>0. pc[t] = "p_swing" /\ Q!SwingTail(t, reg[t].new)
      BY <1>3 DEF Q!ProduceSwing
    <2>1. PICK j \in 1 .. k : TailWas(t, s, n, j)
      BY <1>0, <2>0 DEF ProducerKnows
    <2>2. j < n /\ reg[t].oldTail = s[j] /\ reg[t].new = s[j + 1]
      BY <2>0, <2>1 DEF TailWas
    <2>3. PICK kk \in k .. n : tail' = s[kk]
      BY <1>0, <2>0, <2>2, TailMoves
    <2>4. PICK r \in Registers : r = Q!NoRegs
      BY DEF Registers, Q!NoRegs
    <2>5. pc' = [pc EXCEPT ![t] = "produced"] /\ reg' = [reg EXCEPT ![t] = r]
      BY <1>0, <1>3, <2>4 DEF Q!ProduceSwing, Q!Goto
    <2>6. pc'[t] = "produced"
      BY <1>0, <2>5
    <2>7. ProducerKnows(t, s, n, kk)'
      BY <1>0, <1>1, <2>0, <2>6 DEF ProducerKnows, Producing
    <2>8. Inv(s, n, h, kk)'
      BY <1>1, <2>0, <2>3, <2>5, <2>7, ProducerMoves DEF Producing
    <2> QED BY <2>8
  <1>4. CASE Q!ProduceHelp(t)
    <2>0. pc[t] = "p_help" /\ Q!SwingTail(t, reg[t].nxt)
      BY <1>4 DEF Q!ProduceHelp
    <2>1. PICK j \in 1 .. k : TailWas(t, s, n, j)
      BY <1>0, <2>0 DEF ProducerKnows
    <2>2. j < n /\ reg[t].oldTail = s[j] /\ reg[t].nxt = s[j + 1]
      BY <1>0, <2>0, <2>1 DEF TailWas, ProducerKnows
    <2>3. PICK kk \in k .. n : tail' = s[kk]
      BY <1>0, <2>0, <2>2, TailMoves
    <2>4. PICK r \in Registers : r = [Q!NoRegs EXCEPT !.new = reg[t].new, !.val = reg[t].val]
      BY <1>0 DEF Registers, Q!NoRegs
    <2>5. pc' = [pc EXCEPT ![t] = "p_tail"] /\ reg' = [reg EXCEPT ![t] = r]
      BY <1>0, <1>4, <2>4 DEF Q!ProduceHelp, Q!Goto, Q!Keep, Q!NoRegs, Registers
    <2>6. pc'[t] = "p_tail" /\ reg'[t] = r /\ r.new = reg[t].new /\ r.val = reg[t].val
      BY <1>0, <2>4, <2>5 DEF Q!NoRegs
    <2>7. ProducerKnows(t, s, n, kk)'
      BY <1>0, <1>1, <2>0, <2>6 DEF ProducerKnows, Producing
    <2>8. Inv(s, n, h, kk)'
      BY <1>1, <2>0, <2>3, <2>5, <2>6, <2>7, ProducerMoves DEF Producing
    <2> QED BY <2>8
  <1> QED BY <1>3, <1>4

(* The successful compare-exchange of produce: its node is now the last.      *)
LEMMA LinkStep ==
  ASSUME NEW s, NEW n, NEW h, NEW k, Inv(s, n, h, k), NEW t \in Producers, PlacesStay, at'[Main] = at[Main],
         UNCHANGED <<consumed, temp, delivered>>, Q!Link(t), pc'[t] = "p_swing"
  PROVE  \E ss : /\ Inv(ss, n + 1, h, k)' /\ \A i \in 1 .. n : ss[i] = s[i]
                 /\ ss[n + 1] = reg[t].new /\ data[ss[n + 1]] = t /\ reg[t].val = t
  <1>a. PICK x : x = reg[t].new
    OBVIOUS
  <1>b. PICK ss : ss = [i \in 1 .. n + 1 |-> IF i = n + 1 THEN x ELSE s[i]]
    OBVIOUS
  <1>0. /\ Listed(s, n, h, k) /\ TypeOK /\ Places /\ Carried /\ ProducerKnows(t, s, n, k)
        /\ reg \in [Threads -> Registers] /\ pc \in [Threads -> Q!Locations] /\ t \in Threads
    BY Typed, TheThreads DEF Inv, AllTyped
  <1>1. /\ pc[t] = "p_link" /\ next[reg[t].oldTail] = Null
        /\ next' = [next EXCEPT ![reg[t].oldTail] = reg[t].new]
        /\ pc' = [pc EXCEPT ![t] = "p_swing"] /\ UNCHANGED reg
    BY <1>0 DEF Q!Link, Q!Goto
  <1>2. /\ UNCHANGED <<head, tail, data, live, used, calls, sawEmpty>> /\ dangling' \in BOOLEAN
    BY <1>0, Typed DEF Q!Link, Q!Touch, AllTyped
  <1>3. /\ n \in Nat /\ h \in 1 .. n /\ k \in 1 .. n /\ s \in [1 .. n -> Cells]
        /\ \A i \in 1 .. n : s[i] \in used /\ s[i] \in Cells /\ s[i] # Null
        /\ \A i \in 1 .. n : i + 1 <= n => i + 1 \in 1 .. n
    BY <1>0, MainAssumption DEF Listed
  <1>4. /\ x \in used /\ data[x] = t /\ reg[t].val = t /\ next[x] = Null /\ x \in Cells
        /\ \A i \in 1 .. n : s[i] # x
    <2>1. pc[t] \in Producing
      BY <1>1 DEF Producing
    <2> QED BY <1>a, <1>0, <2>1, Typed DEF ProducerKnows, AllTyped
  <1>5. reg[t].oldTail = s[n] /\ k = n
    <2>1. PICK j \in 1 .. k : TailWas(t, s, n, j)
      BY <1>0, <1>1 DEF ProducerKnows
    <2>2. j \in 1 .. n /\ reg[t].oldTail = s[j]
      BY <1>3, <2>1 DEF TailWas
    <2>3. next[s[j]] = IF j = n THEN Null ELSE s[j + 1]
      BY <1>0, <2>2 DEF Listed
    <2>4. j = n
      BY <1>1, <1>3, <2>2, <2>3
    <2> QED BY <1>3, <2>1, <2>2, <2>4
  <1>6. \A u \in Threads : u # t => pc'[u] = pc[u] /\ reg'[u] = reg[u]
    BY <1>0, <1>1
  <1>7. /\ ss \in [1 .. n + 1 -> Cells] /\ ss[n + 1] = x
        /\ \A i \in 1 .. n : ss[i] = s[i] /\ i \in 1 .. n + 1
    <2>1. \A i \in 1 .. n : i \in 1 .. n + 1 /\ i # n + 1
      BY <1>3
    <2>2. n + 1 \in 1 .. n + 1 /\ \A i \in 1 .. n + 1 : i = n + 1 \/ i \in 1 .. n
      BY <1>3
    <2>3. \A i \in 1 .. n + 1 : (IF i = n + 1 THEN x ELSE s[i]) \in Cells
      BY <1>3, <1>4, <2>2
    <2> QED BY <1>b, <2>1, <2>2, <2>3
  <1>8. next' = [next EXCEPT ![s[n]] = x] /\ next \in [Cells -> Cells \cup {Null}]
    BY <1>a, <1>0, <1>1, <1>5, Typed DEF AllTyped
  <1>9. TypeOK'
    <2>1. next' \in [Cells -> Cells \cup {Null}]
      BY <1>4, <1>8
    <2> QED BY <1>0, <1>1, <1>2, <2>1, Typed DEF AllTyped, PlacesStay
  <1>10. Listed(ss, n + 1, h, k)'
    <2>1. \A i, j \in 1 .. n + 1 : ss[i] = ss[j] => i = j
      <3>1. \A i \in 1 .. n + 1 : i \in 1 .. n \/ i = n + 1
        BY <1>3
      <3>2. \A i, j \in 1 .. n : s[i] = s[j] => i = j
        BY <1>0 DEF Listed
      <3> QED BY <1>4, <1>7, <3>1, <3>2
    <2>2. ASSUME NEW i \in 1 .. n + 1 PROVE next'[ss[i]] = IF i = n + 1 THEN Null ELSE ss[i + 1]
      <3>1. CASE i = n + 1
        <4>1. x # s[n] /\ next'[x] = next[x]
          BY <1>3, <1>4, <1>8
        <4> QED BY <1>4, <1>7, <3>1, <4>1
      <3>2. CASE i = n
        <4>1. next'[s[n]] = x
          BY <1>3, <1>8
        <4> QED BY <1>3, <1>7, <3>2, <4>1
      <3>3. CASE i \in 1 .. n /\ i # n
        <4>1. s[i] # s[n] /\ next[s[i]] = s[i + 1] /\ i + 1 \in 1 .. n
          BY <1>0, <1>3, <3>3 DEF Listed
        <4>2. next'[s[i]] = s[i + 1]
          BY <1>3, <1>8, <3>3, <4>1
        <4> QED BY <1>3, <1>7, <3>3, <4>1, <4>2
      <3> QED BY <1>3, <3>1, <3>2, <3>3
    <2>3. ss[1] = Q!Sentinel /\ head = ss[h] /\ tail = ss[k]
      BY <1>0, <1>3, <1>7 DEF Listed
    <2>4. \A i \in 1 .. n + 1 : ss[i] \in used
      BY <1>3, <1>4, <1>7
    <2>5. n + 1 \in Nat \ {0} /\ h \in 1 .. n + 1 /\ k \in h .. n + 1
      BY <1>0, <1>3 DEF Listed
    <2> QED BY <1>2, <1>7, <2>1, <2>2, <2>3, <2>4, <2>5 DEF Listed
  <1>11. Carried'
    BY <1>0, <1>2 DEF Carried, PlacesStay
  <1>12. /\ n \in Nat /\ n + 1 \in Nat /\ n <= n + 1 /\ h \in 1 .. n /\ h \in h .. n + 1
         /\ k \in 1 .. n /\ k \in k .. n + 1
         /\ \A i \in 1 .. n : ss[i] = s[i] /\ s[i] \in used
    BY <1>3, <1>7
  <1>13. ASSUME NEW u \in Producers PROVE ProducerKnows(u, ss, n + 1, k)'
    <2>1. CASE u = t
      <3>1. TailWas(t, ss, n + 1, n)'
        BY <1>a, <1>0, <1>1, <1>3, <1>5, <1>7 DEF TailWas
      <3>2. n \in 1 .. k /\ n + 1 \in 2 .. n + 1 /\ data'[ss[n + 1]] = t
        BY <1>2, <1>3, <1>4, <1>5, <1>7
      <3> QED BY <1>0, <1>1, <2>1, <3>1, <3>2 DEF ProducerKnows, Producing
    <2>2. CASE u # t
      <3>1. ProducerKnows(u, s, n, k) /\ UNCHANGED <<pc[u], reg[u]>>
        BY <1>6, <2>2, TheThreads DEF Inv
      <3>2. ASSUME pc[u] \in Producing
            PROVE  next'[reg[u].new] = Null /\ \A i \in 1 .. n + 1 : ss[i] # reg[u].new
        <4>1. /\ reg[u].new \in used /\ data[reg[u].new] = u /\ next[reg[u].new] = Null
              /\ \A i \in 1 .. n : s[i] # reg[u].new
          BY <3>1, <3>2 DEF ProducerKnows
        <4>2. reg[u].new # x
          BY <1>4, <2>2, <4>1
        <4>3. reg[u].new \in Cells /\ reg[u].new # s[n]
          BY <1>0, <1>3, <4>1, Typed DEF AllTyped
        <4>4. next'[reg[u].new] = Null
          BY <1>8, <4>1, <4>3
        <4> QED BY <1>3, <1>7, <4>1, <4>2, <4>4
      <3> QED BY <1>2, <1>12, <3>1, <3>2, ProducersKnowStill
    <2> QED BY <2>1, <2>2
  <1>14. ASSUME NEW u \in Takers PROVE TakerKnows(u, ss, n + 1, h, k)'
    <2>1. TakerKnows(u, s, n, h, k) /\ UNCHANGED <<pc[u], reg[u]>>
      BY <1>6, TheThreads DEF Inv
    <2> QED BY <1>2, <1>12, <2>1, TakersKnowStill
  <1>15. Allocated(ss, n + 1, h)'
    <2>1. \A u \in Takers : pc'[u] = pc[u] /\ reg'[u] = reg[u]
      BY <1>6, TheThreads
    <2>2. pc[t] \in Producing /\ pc'[t] \notin Producing
      BY <1>0, <1>1 DEF Producing
    <2>3. ASSUME NEW c, c \in Cells
          PROVE  (\E i \in h .. n + 1 : c = ss[i]) <=> (\E i \in h .. n : c = s[i]) \/ c = x
      <3>1. \A i \in h .. n + 1 : i \in h .. n \/ i = n + 1
        BY <1>3
      <3>2. \A i \in h .. n : i \in h .. n + 1 /\ i \in 1 .. n
        BY <1>3
      <3>3. n + 1 \in h .. n + 1
        BY <1>3
      <3> QED BY <1>7, <3>1, <3>2, <3>3
    <2>4. ASSUME NEW c, c \in Cells
          PROVE  (\E u \in Producers : pc[u] \in Producing /\ c = reg[u].new)
                   <=> (\E u \in Producers : pc'[u] \in Producing /\ c = reg'[u].new) \/ c = x
      BY <1>a, <1>6, <2>2, TheThreads
    <2> QED BY <1>2, <2>1, <2>3, <2>4 DEF Inv, Allocated
  <1>16. HandedOut(ss, h)'
    <2>1. \A u \in Takers : pc'[u] = pc[u] /\ reg'[u] = reg[u]
      BY <1>6, TheThreads
    <2>2. \A i \in 2 .. h : ss[i] = s[i]
      BY <1>3, <1>7
    <2> QED BY <1>2, <2>1, <2>2 DEF Inv, HandedOut
  <1>17. Emptied(ss, n + 1, h)'
    <2>1. at[t] # "quit" /\ t \in Threads \ {Main}
      BY <1>0, <1>1, TheThreads DEF Places, Place, Producing
    <2>2. at[Main] = "join"
      BY <1>0, <2>1 DEF Places, Joined
    <2>3. pc[Main] = "idle" /\ pc'[Main] = "idle"
      BY <1>0, <1>6, <2>1, <2>2, TheThreads DEF Places, Place
    <2>4. h # n + 1
      BY <1>3
    <2> QED BY <2>2, <2>3, <2>4 DEF Emptied
  <1>18. Inv(ss, n + 1, h, k)'
    BY <1>9, <1>10, <1>11, <1>13, <1>14, <1>15, <1>16, <1>17 DEF Inv, PlacesStay
  <1> QED BY <1>a, <1>4, <1>7, <1>18

LEMMA LinkFails ==
  ASSUME NEW s, NEW n, NEW h, NEW k, Inv(s, n, h, k), NEW t \in Producers, PlacesStay, at'[Main] = at[Main],
         UNCHANGED <<consumed, temp, delivered>>, Q!Link(t), pc'[t] # "p_swing"
  PROVE  Inv(s, n, h, k)'
  <1>0. /\ Listed(s, n, h, k) /\ TypeOK /\ Places /\ Carried /\ ProducerKnows(t, s, n, k)
        /\ reg \in [Threads -> Registers] /\ pc \in [Threads -> Q!Locations] /\ t \in Threads
    BY Typed, TheThreads DEF Inv, AllTyped
  <1>1. /\ pc[t] = "p_link" /\ pc' = [pc EXCEPT ![t] = "p_tail"]
        /\ Q!Keep(t, {"new", "val"}) /\ UNCHANGED next
    BY <1>0 DEF Q!Link, Q!Goto
  <1>2. UNCHANGED <<head, tail, next, data, live, used, calls, sawEmpty>> /\ dangling' \in BOOLEAN
    BY <1>0, <1>1, Typed DEF Q!Link, Q!Touch, AllTyped
  <1>3. k \in k .. n /\ tail' = s[k]
    BY <1>0, <1>2 DEF Listed
  <1>4. PICK r \in Registers : r = [Q!NoRegs EXCEPT !.new = reg[t].new, !.val = reg[t].val]
    BY <1>0 DEF Registers, Q!NoRegs
  <1>5. reg' = [reg EXCEPT ![t] = r]
    BY <1>0, <1>1, <1>4 DEF Q!Keep, Q!NoRegs, Registers
  <1>6. pc'[t] = "p_tail" /\ reg'[t] = r /\ r.new = reg[t].new /\ r.val = reg[t].val
    BY <1>0, <1>1, <1>4, <1>5 DEF Q!NoRegs
  <1>7. ProducerKnows(t, s, n, k)'
    BY <1>0, <1>1, <1>2, <1>6 DEF ProducerKnows, Producing
  <1> QED BY <1>1, <1>2, <1>3, <1>5, <1>6, <1>7, ProducerMoves DEF Producing

(* A call of produce gets a cell that nobody has used.                        *)
LEMMA ProduceStep ==
  ASSUME NEW s, NEW n, NEW h, NEW k, Inv(s, n, h, k), NEW t \in Producers, PlacesStay,
         Calling(t), Q!Produce(t, t)
  PROVE  Inv(s, n, h, k)'
  <1>0. /\ Listed(s, n, h, k) /\ TypeOK /\ Places /\ Carried
        /\ reg \in [Threads -> Registers] /\ pc \in [Threads -> Q!Locations] /\ t \in Threads
        /\ used \subseteq Cells /\ live \subseteq used
        /\ next \in [Cells -> Cells \cup {Null}] /\ data \in [Cells -> Producers \cup {NoValue}]
    BY Typed, TheThreads DEF Inv, AllTyped
  <1>1. PICK f : f = Q!Fresh
    OBVIOUS
  <1>2. f \in Cells /\ f \notin used
    BY <1>0, <1>1 DEF Q!Produce, Q!Allocate, Q!Fresh
  <1>3. PICK r \in Registers : r = [Q!NoRegs EXCEPT !.new = f, !.val = t]
    BY <1>2 DEF Registers, Q!NoRegs
  <1>4. /\ live' = live \cup {f} /\ used' = used \cup {f} /\ next' = [next EXCEPT ![f] = Null]
        /\ data' = [data EXCEPT ![f] = t] /\ reg' = [reg EXCEPT ![t] = r]
        /\ pc' = [pc EXCEPT ![t] = "p_tail"] /\ calls' = calls + 1 /\ calls < Cardinality(Producers)
        /\ UNCHANGED <<head, tail, dangling, sawEmpty, consumed, temp, delivered>>
    <2>1. Q!Allocate(t, t) /\ Q!Goto(t, "p_tail") /\ calls' = calls + 1 /\ calls < Cardinality(Producers)
          /\ UNCHANGED <<head, tail, dangling, sawEmpty, consumed, temp, delivered>>
      BY DEF Q!Produce, Calling
    <2>2. /\ live' = live \cup {f} /\ used' = used \cup {f} /\ next' = [next EXCEPT ![f] = Null]
          /\ data' = [data EXCEPT ![f] = t]
      BY <1>1, <2>1 DEF Q!Allocate
    <2>3. reg' = [reg EXCEPT ![t] = r]
      BY <1>1, <1>3, <2>1, Zenon DEF Q!Allocate
    <2> QED BY <2>1, <2>2, <2>3 DEF Q!Goto
  <1>5. /\ at[t] = "call" /\ at'[t] = "in" /\ pc'[t] = "p_tail" /\ reg'[t] = r
        /\ r.new = f /\ r.val = t /\ pc[t] = "idle" /\ at'[Main] = at[Main]
        /\ \A u \in Threads : u # t => pc'[u] = pc[u] /\ reg'[u] = reg[u] /\ at'[u] = at[u]
    BY <1>0, <1>3, <1>4, Typed, TheThreads DEF AllTyped, Calling, Goto, Q!NoRegs, Places, Place
  <1>6. TypeOK'
    <2>1. Cardinality(Producers) \in Nat
      BY FS_CardinalityType, MainAssumption
    <2>2. calls' \in 0 .. Cardinality(Producers)
      BY <1>0, <1>4, <2>1, Typed DEF AllTyped
    <2>3. next' \in [Cells -> Cells \cup {Null}] /\ data' \in [Cells -> Producers \cup {NoValue}]
      BY <1>0, <1>4
    <2>4. reg' \in [Threads -> Registers] /\ live' \subseteq used' /\ used' \subseteq Cells
      BY <1>0, <1>2, <1>4
    <2> QED BY <1>0, <1>4, <2>2, <2>3, <2>4, Typed DEF AllTyped, PlacesStay
  <1>7. /\ n \in Nat /\ h \in 1 .. n /\ k \in 1 .. n /\ n <= n /\ h \in h .. n /\ k \in k .. n
        /\ \A i \in 1 .. n : s[i] = s[i] /\ s[i] \in used
        /\ \A i \in 1 .. n : s[i] # f
        /\ \A c \in used : data'[c] = data[c] /\ next'[c] = next[c]
        /\ data'[f] = t /\ next'[f] = Null
    BY <1>0, <1>2, <1>4 DEF Listed
  <1>8. Listed(s, n, h, k)'
    BY <1>0, <1>4, <1>7 DEF Listed
  <1>9. Carried'
    <2>1. \A c \in used : data[c] # t
      BY <1>0, <1>5, MainAssumption DEF Carried
    <2>2. \A c \in used' : c # Q!Sentinel => data'[c] \in Producers /\ at'[data'[c]] # "call"
      BY <1>0, <1>4, <1>5, <1>7 DEF Carried, PlacesStay
    <2>3. \A c, d \in used' : data'[c] = data'[d] => c = d
      BY <1>0, <1>4, <1>7, <2>1 DEF Carried
    <2>4. Q!Sentinel \in used' /\ data'[Q!Sentinel] = NoValue
      BY <1>0, <1>4, <1>7 DEF Carried
    <2> QED BY <2>2, <2>3, <2>4 DEF Carried
  <1>10. ASSUME NEW u \in Producers PROVE ProducerKnows(u, s, n, k)'
    <2>1. CASE u = t
      BY <1>4, <1>5, <1>7, <2>1 DEF ProducerKnows
    <2>2. CASE u # t
      <3>1. ProducerKnows(u, s, n, k) /\ UNCHANGED <<pc[u], reg[u]>>
        BY <1>5, <2>2, TheThreads DEF Inv
      <3>2. pc[u] \in Producing => next'[reg[u].new] = Null /\ \A i \in 1 .. n : s[i] # reg[u].new
        BY <1>7, <3>1 DEF ProducerKnows
      <3>3. used \subseteq used'
        BY <1>4
      <3> QED BY <1>7, <3>1, <3>2, <3>3, ProducersKnowStill
    <2> QED BY <2>1, <2>2
  <1>11. ASSUME NEW u \in Takers PROVE TakerKnows(u, s, n, h, k)'
    <2>1. TakerKnows(u, s, n, h, k) /\ UNCHANGED <<pc[u], reg[u]>>
      BY <1>5, TheThreads DEF Inv
    <2> QED BY <1>4, <1>7, <2>1, TakersKnowStill
  <1>12. \A u \in Takers : pc'[u] = pc[u] /\ reg'[u] = reg[u]
    BY <1>5, TheThreads
  <1>13. Allocated(s, n, h)'
    <2>1. ASSUME NEW c \in Cells
          PROVE  (\E u \in Producers : pc'[u] \in Producing /\ c = reg'[u].new)
                   <=> (\E u \in Producers : pc[u] \in Producing /\ c = reg[u].new) \/ c = f
      BY <1>5, TheThreads DEF Producing
    <2>2. \A c \in Cells : c \in live' <=> c \in live \/ c = f
      BY <1>2, <1>4
    <2>3. at[Main] # "done"
      <3>1. t \in Threads \ {Main} /\ at[t] # "quit"
        BY <1>0, <1>5, TheThreads
      <3> QED BY <1>0, <3>1 DEF Places, Joined
    <2> QED BY <1>5, <1>12, <2>1, <2>2, <2>3 DEF Inv, Allocated
  <1>14. HandedOut(s, h)'
    <2>1. \A i \in 2 .. h : data'[s[i]] = data[s[i]]
      BY <1>7
    <2> QED BY <1>4, <1>12, <2>1 DEF Inv, HandedOut
  <1>15. Emptied(s, n, h)'
    BY <1>4, <1>5, <1>12, TheThreads DEF Inv, Emptied
  <1> QED BY <1>6, <1>8, <1>9, <1>10, <1>11, <1>13, <1>14, <1>15 DEF Inv, PlacesStay
--------------------------------------------------------------------------------
LEMMA NotOver ==
  ASSUME Places, NEW t \in Threads, at[t] \in {"call", "in"}
  PROVE  at[Main] \notin {"delete", "done"}
  BY TheThreads DEF Places, Joined

LEMMA TakerMoves ==
  ASSUME NEW s, NEW n, NEW h, NEW k, Inv(s, n, h, k), NEW kk \in k .. n, tail' = s[kk],
         NEW t \in Takers, NEW p, NEW r \in Registers, PlacesStay, at[t] \in {"call", "in"},
         UNCHANGED <<head, next, data, live, used, calls, consumed, temp, delivered>>,
         dangling' \in BOOLEAN, sawEmpty' \subseteq Takers, sawEmpty \subseteq sawEmpty' \cup {t},
         pc' = [pc EXCEPT ![t] = p], reg' = [reg EXCEPT ![t] = r],
         pc[t] # "c_delete", p # "c_delete", TakerKnows(t, s, n, h, kk)',
         p \in Looking /\ h = n => t \in sawEmpty',
         t = Main /\ p = "c_check" /\ r.nxt = Null => r.oldHead = s[n],
         at'[Main] # "done", at'[Main] = "delete" => h = n
  PROVE  Inv(s, n, h, kk)'
  <1>0. Listed(s, n, h, k) /\ TypeOK /\ Places /\ at[Main] \notin {"delete", "done"}
    BY NotOver, TheThreads DEF Inv
  <1>1. /\ \A u \in Threads : u # t => pc'[u] = pc[u] /\ reg'[u] = reg[u]
        /\ pc'[t] = p /\ reg'[t] = r /\ t \in Threads /\ reg' \in [Threads -> Registers]
    BY <1>0, Typed, TheThreads DEF AllTyped
  <1>3. TypeOK'
    <2>1. tail' \in Cells
      BY <1>0 DEF Listed
    <2> QED BY <1>0, <1>1, <2>1, Typed DEF AllTyped, PlacesStay
  <1>4. Quiet(t)
    BY <1>0, <1>1 DEF Quiet
  <1>5. Emptied(s, n, h)'
    <2>1. ASSUME h = n, NEW u \in Takers, pc'[u] \in Looking PROVE u \in sawEmpty'
      <3>1. CASE u = t
        BY <1>1, <2>1, <3>1
      <3>2. CASE u # t
        BY <1>1, <2>1, <3>2, TheThreads DEF Inv, Emptied
      <3> QED BY <3>1, <3>2
    <2>2. pc'[Main] = "c_check" /\ reg'[Main].nxt = Null => reg'[Main].oldHead = s[n]
      BY <1>1, TheThreads DEF Inv, Emptied
    <2> QED BY <2>1, <2>2 DEF Emptied
  <1>6. t \notin Producers
    BY TheThreads
  <1> QED BY <1>1, <1>3, <1>4, <1>5, <1>6, QuietStep

(* Calls of consume that begin, and their loads.                              *)
LEMMA ConsumeCall ==
  ASSUME NEW s, NEW n, NEW h, NEW k, Inv(s, n, h, k), NEW t \in Takers, PlacesStay,
         Calling(t), Q!Consume(t)
  PROVE  Inv(s, n, h, k)'
  <1>0. /\ Listed(s, n, h, k) /\ TypeOK /\ Places
        /\ reg \in [Threads -> Registers] /\ pc \in [Threads -> Q!Locations] /\ t \in Threads
        /\ at \in [Threads -> Spots] /\ sawEmpty \subseteq Takers /\ dangling \in BOOLEAN
    BY Typed, TheThreads DEF Inv, AllTyped
  <1>1. PICK r \in Registers : r = Q!NoRegs
    BY DEF Registers, Q!NoRegs
  <1>2. /\ pc' = [pc EXCEPT ![t] = "c_head"] /\ reg' = [reg EXCEPT ![t] = r]
        /\ sawEmpty' = (IF Q!Contents = <<>> THEN sawEmpty \cup {t} ELSE sawEmpty)
        /\ UNCHANGED <<head, tail, next, data, live, used, calls, consumed, temp, delivered, dangling>>
    BY <1>1 DEF Q!Consume, Q!Goto, Q!memory, Calling
  <1>3. h = n => Q!Contents = <<>>
    <2> SUFFICES ASSUME h = n PROVE Q!Contents = <<>>
      OBVIOUS
    <2>1. Q!Chain = [i \in 1 .. n - h + 1 |-> s[h + i - 1]]
      BY <1>0, ChainIsRest
    <2>2. n - h + 1 = 1
      BY <1>0 DEF Listed
    <2>3. Len(Q!Chain) = 1
      BY <2>1, <2>2
    <2> QED BY <2>3 DEF Q!Contents
  <1>4. at[t] = "call" /\ at'[t] = "in" /\ pc'[t] = "c_head"
        /\ \A u \in Threads : u # t => at'[u] = at[u]
    BY <1>0, <1>2 DEF Calling, Goto
  <1>5. at'[Main] \notin {"done", "delete"}
    BY <1>0, <1>4, NotOver, TheThreads
  <1>6. pc[t] # "c_delete"
    BY <1>0, <1>4, TheThreads DEF Places, Place, Takers
  <1>7. TakerKnows(t, s, n, h, k)'
    BY <1>4 DEF TakerKnows, Looking
  <1>8. k \in k .. n /\ tail' = s[k]
    BY <1>0, <1>2 DEF Listed
  <1> QED BY <1>0, <1>2, <1>3, <1>4, <1>5, <1>6, <1>7, <1>8, TakerMoves

LEMMA ReturnsTo ==
  ASSUME TypeOK, Places, NEW t \in Takers, at[t] = "in", Returns(t), pc'[t] # "consumed"
  PROVE  /\ at'[Main] # "done" /\ (at'[Main] = "delete" => t = Main /\ pc'[t] = "missed")
         /\ UNCHANGED delivered
  BY NotOver, Typed, TheThreads DEF Returns, Goto, AllTyped

LEMMA ConsumeLoads ==
  ASSUME NEW s, NEW n, NEW h, NEW k, Inv(s, n, h, k), NEW t \in Takers, PlacesStay,
         at[t] = "in", Returns(t), UNCHANGED <<consumed, temp>>,
         Q!ConsumeLoadHead(t) \/ Q!ConsumeLoadTail(t) \/ Q!ConsumeLoadNext(t) \/ Q!ReadData(t)
  PROVE  Inv(s, n, h, k)'
  <1>0. /\ Listed(s, n, h, k) /\ TypeOK /\ Places /\ TakerKnows(t, s, n, h, k) /\ Emptied(s, n, h)
        /\ reg \in [Threads -> Registers] /\ pc \in [Threads -> Q!Locations] /\ t \in Threads
        /\ sawEmpty \subseteq Takers
    BY Typed, TheThreads DEF Inv, AllTyped
  <1>1. /\ UNCHANGED <<head, tail, next, data, live, used, calls, sawEmpty>> /\ dangling' \in BOOLEAN
        /\ sawEmpty' \subseteq Takers /\ sawEmpty \subseteq sawEmpty' \cup {t}
    BY <1>0, Typed DEF AllTyped, Q!ConsumeLoadHead, Q!ConsumeLoadTail, Q!ConsumeLoadNext, Q!ReadData,
                       Q!memory, Q!Touch
  <1>2. /\ n \in Nat /\ h \in 1 .. n /\ k \in 1 .. n /\ h <= k /\ k \in k .. n /\ tail' = s[k]
        /\ head = s[h] /\ tail = s[k] /\ head \in Cells /\ tail \in Cells
        /\ \A i \in 1 .. n : s[i] # Null /\ s[i] \in Cells
    BY <1>0, <1>1, MainAssumption DEF Listed
  <1>3. ASSUME pc'[t] \in Looking, pc[t] \in Looking
        PROVE  /\ at'[Main] \notin {"done", "delete"} /\ UNCHANGED delivered
               /\ pc[t] # "c_delete" /\ pc'[t] # "c_delete"
               /\ h = n => t \in sawEmpty'
    BY <1>0, <1>1, <1>3, ReturnsTo DEF Looking, Emptied
  <1>4. CASE Q!ConsumeLoadHead(t)
    <2>1. PICK r \in Registers : r = [reg[t] EXCEPT !.oldHead = head]
      BY <1>0, <1>2 DEF Registers
    <2>2. /\ pc' = [pc EXCEPT ![t] = "c_tail"] /\ reg' = [reg EXCEPT ![t] = r]
          /\ pc[t] = "c_head" /\ pc'[t] = "c_tail" /\ reg'[t] = r /\ r.oldHead = s[h]
      BY <1>0, <1>2, <1>4, <2>1 DEF Q!ConsumeLoadHead, Q!Load, Q!Goto, Registers
    <2>3. TakerKnows(t, s, n, h, k)'
      BY <1>2, <2>2 DEF TakerKnows, Looking
    <2>4. pc'[t] \in Looking /\ pc[t] \in Looking
      BY <2>2 DEF Looking
    <2> QED BY <1>0, <1>1, <1>2, <1>3, <2>2, <2>3, <2>4, TakerMoves
  <1>5. CASE Q!ConsumeLoadTail(t)
    <2>0. pc[t] = "c_tail"
      BY <1>5 DEF Q!ConsumeLoadTail
    <2>1. PICK j \in 1 .. h : reg[t].oldHead = s[j]
      BY <1>0, <2>0 DEF TakerKnows
    <2>2. PICK r \in Registers : r = [reg[t] EXCEPT !.oldTail = tail]
      BY <1>0, <1>2 DEF Registers
    <2>3. /\ pc' = [pc EXCEPT ![t] = "c_next"] /\ reg' = [reg EXCEPT ![t] = r]
          /\ pc'[t] = "c_next" /\ reg'[t] = r /\ r.oldTail = s[k] /\ r.oldHead = s[j]
      BY <1>0, <1>2, <1>5, <2>1, <2>2 DEF Q!ConsumeLoadTail, Q!Load, Q!Goto, Registers
    <2>4. HeadWas(t, s, n, j, k)' /\ j \in 1 .. h /\ k \in 1 .. k
      BY <1>2, <2>3 DEF HeadWas
    <2>5. TakerKnows(t, s, n, h, k)'
      BY <2>3, <2>4 DEF TakerKnows, Looking
    <2>6. pc'[t] \in Looking /\ pc[t] \in Looking
      BY <2>0, <2>3 DEF Looking
    <2> QED BY <1>0, <1>1, <1>2, <1>3, <2>3, <2>5, <2>6, TakerMoves
  <1>6. CASE Q!ConsumeLoadNext(t)
    <2>0. pc[t] = "c_next"
      BY <1>6 DEF Q!ConsumeLoadNext
    <2>1. PICK j \in 1 .. h, m \in 1 .. k : HeadWas(t, s, n, j, m)
      BY <1>0, <2>0 DEF TakerKnows, Looking
    <2>2. /\ j \in 1 .. n /\ m \in 1 .. n /\ j <= m /\ reg[t].oldHead = s[j] /\ reg[t].oldTail = s[m]
          /\ next[s[j]] = (IF j = n THEN Null ELSE s[j + 1])
      BY <1>0, <1>2, <2>1 DEF HeadWas, Listed
    <2>3. PICK x : x = next[reg[t].oldHead]
      OBVIOUS
    <2>4. /\ x \in Cells \cup {Null}
          /\ \/ x = Null /\ j = n /\ m = j /\ h = n
             \/ x # Null /\ j < n /\ x = s[j + 1]
      BY <1>2, <2>2, <2>3
    <2>5. PICK r \in Registers : r = [reg[t] EXCEPT !.nxt = x]
      BY <1>0, <2>4 DEF Registers
    <2>6. /\ pc' = [pc EXCEPT ![t] = "c_check"] /\ reg' = [reg EXCEPT ![t] = r]
          /\ pc'[t] = "c_check" /\ reg'[t] = r /\ r.nxt = x /\ r.oldTail = s[m] /\ r.oldHead = s[j]
      BY <1>0, <1>6, <2>2, <2>3, <2>5 DEF Q!ConsumeLoadNext, Q!Load, Q!Goto, Registers
    <2>7. pc'[t] \in Looking /\ pc[t] \in Looking
      BY <2>0, <2>6 DEF Looking
    <2>8. HeadWas(t, s, n, j, m)'
      BY <1>3, <2>2, <2>4, <2>6, <2>7 DEF HeadWas
    <2>9. TakerKnows(t, s, n, h, k)'
      BY <2>6, <2>8 DEF TakerKnows, Looking
    <2>10. r.nxt = Null => r.oldHead = s[n]
      BY <2>4, <2>6
    <2> QED BY <1>0, <1>1, <1>2, <1>3, <2>6, <2>7, <2>9, <2>10, TakerMoves
  <1>7. CASE Q!ReadData(t)
    <2>0. pc[t] = "c_data"
      BY <1>7 DEF Q!ReadData
    <2>1. PICK j \in 1 .. h, m \in 1 .. k : HeadWas(t, s, n, j, m)
      BY <1>0, <2>0 DEF TakerKnows, Looking
    <2>2. /\ j < n /\ reg[t].nxt = s[j + 1] /\ j + 1 \in 1 .. n
      BY <1>2, <2>0, <2>1 DEF HeadWas
    <2>3. PICK x : x = data[s[j + 1]]
      OBVIOUS
    <2>4. x \in Producers \cup {NoValue}
      BY <1>0, <1>2, <2>2, <2>3, Typed DEF AllTyped
    <2>5. PICK r \in Registers : r = [reg[t] EXCEPT !.val = x]
      BY <1>0, <2>4 DEF Registers
    <2>6. /\ pc' = [pc EXCEPT ![t] = "c_swing"] /\ reg' = [reg EXCEPT ![t] = r]
          /\ pc'[t] = "c_swing" /\ reg'[t] = r /\ r.val = x /\ r.nxt = reg[t].nxt
          /\ r.oldTail = reg[t].oldTail /\ r.oldHead = reg[t].oldHead
      BY <1>0, <1>2, <1>7, <2>2, <2>3, <2>5 DEF Q!ReadData, Q!Load, Q!Goto, Registers
    <2>7. pc'[t] \in Looking /\ pc[t] \in Looking
      BY <2>0, <2>6 DEF Looking
    <2>8. HeadWas(t, s, n, j, m)'
      BY <1>1, <2>0, <2>1, <2>3, <2>6 DEF HeadWas
    <2>9. TakerKnows(t, s, n, h, k)'
      BY <2>6, <2>8 DEF TakerKnows, Looking
    <2> QED BY <1>0, <1>1, <1>2, <1>3, <2>6, <2>7, <2>9, TakerMoves
  <1> QED BY <1>4, <1>5, <1>6, <1>7

LEMMA ConsumeTests ==
  ASSUME NEW s, NEW n, NEW h, NEW k, Inv(s, n, h, k), NEW t \in Takers, PlacesStay,
         at[t] = "in", Returns(t), UNCHANGED <<consumed, temp>>, Q!ConsumeCheck(t)
  PROVE  Inv(s, n, h, k)'
  <1>0. /\ Listed(s, n, h, k) /\ TypeOK /\ Places /\ TakerKnows(t, s, n, h, k) /\ Emptied(s, n, h)
        /\ reg \in [Threads -> Registers] /\ pc \in [Threads -> Q!Locations] /\ t \in Threads
        /\ sawEmpty \subseteq Takers /\ pc[t] = "c_check"
    BY Typed, TheThreads DEF Inv, AllTyped, Q!ConsumeCheck
  <1>1. UNCHANGED <<head, tail, next, data, live, used, calls>> /\ dangling' \in BOOLEAN
    BY <1>0, Typed DEF AllTyped, Q!ConsumeCheck, Q!memory
  <1>2. /\ n \in Nat /\ h \in 1 .. n /\ k \in 1 .. n /\ h <= k /\ k \in k .. n /\ tail' = s[k]
        /\ head = s[h] /\ \A i, j \in 1 .. n : s[i] = s[j] => i = j
        /\ \A i \in 1 .. n : s[i] # Null
    <2>1. Null \notin Cells
      BY MainAssumption
    <2>2. \A i \in 1 .. n : s[i] # Null
      BY <1>0, <2>1 DEF Listed
    <2> QED BY <1>0, <1>1, <2>2 DEF Listed
  <1>3. PICK j \in 1 .. h, m \in 1 .. k : HeadWas(t, s, n, j, m)
    BY <1>0 DEF TakerKnows, Looking
  <1>4. /\ j \in 1 .. n /\ m \in 1 .. n /\ j <= m /\ reg[t].oldHead = s[j] /\ reg[t].oldTail = s[m]
        /\ \/ reg[t].nxt = Null /\ m = j /\ t \in sawEmpty
           \/ j < n /\ reg[t].nxt = s[j + 1] /\ reg[t].nxt # Null
    BY <1>0, <1>2, <1>3 DEF HeadWas
  <1>5. CASE Q!Goto(t, "c_head") /\ Q!Keep(t, {}) /\ UNCHANGED sawEmpty
    <2>1. PICK r \in Registers : r = Q!NoRegs
      BY DEF Registers, Q!NoRegs
    <2>2. /\ pc' = [pc EXCEPT ![t] = "c_head"] /\ reg' = [reg EXCEPT ![t] = r] /\ pc'[t] = "c_head"
      BY <1>0, <1>5, <2>1 DEF Q!Goto, Q!Keep, Q!NoRegs
    <2>3. TakerKnows(t, s, n, h, k)'
      BY <2>2 DEF TakerKnows, Looking
    <2>4. h = n => t \in sawEmpty'
      BY <1>0, <1>5 DEF Emptied, Looking
    <2>5. at'[Main] \notin {"done", "delete"} /\ UNCHANGED delivered
      BY <1>0, <2>2, ReturnsTo
    <2> QED BY <1>0, <1>1, <1>2, <1>5, <2>2, <2>3, <2>4, <2>5, TakerMoves
  <1>6. CASE reg[t].oldHead = head /\ Q!Verdict(t) = "missed" /\ Q!Goto(t, "missed")
             /\ Q!Keep(t, {}) /\ sawEmpty' = sawEmpty \ {t}
    <2>1. PICK r \in Registers : r = Q!NoRegs
      BY DEF Registers, Q!NoRegs
    <2>2. /\ pc' = [pc EXCEPT ![t] = "missed"] /\ reg' = [reg EXCEPT ![t] = r] /\ pc'[t] = "missed"
      BY <1>0, <1>6, <2>1 DEF Q!Goto, Q!Keep, Q!NoRegs
    <2>3. TakerKnows(t, s, n, h, k)'
      BY <2>2 DEF TakerKnows, Looking
    <2>4. reg[t].nxt = Null /\ j = h
      BY <1>2, <1>4, <1>6 DEF Q!Verdict
    <2>5. t = Main => h = n
      <3>1. t = Main => reg[t].oldHead = s[n] /\ n \in 1 .. n
        BY <1>0, <1>2, <2>4 DEF Emptied
      <3> QED BY <1>2, <1>6, <3>1
    <2>6. at'[Main] # "done" /\ (at'[Main] = "delete" => h = n) /\ UNCHANGED delivered
      BY <1>0, <2>2, <2>5, ReturnsTo
    <2>7. "missed" \notin Looking
      BY DEF Looking
    <2> QED BY <1>0, <1>1, <1>2, <1>6, <2>2, <2>3, <2>6, <2>7, TakerMoves
  <1>7. CASE reg[t].oldHead = head /\ Q!Verdict(t) # "missed" /\ Q!Goto(t, Q!Verdict(t))
             /\ UNCHANGED <<reg, sawEmpty>>
    <2>1. PICK r \in Registers : r = reg[t]
      BY <1>0
    <2>2. PICK p : p = Q!Verdict(t)
      OBVIOUS
    <2>3. /\ pc' = [pc EXCEPT ![t] = p] /\ reg' = [reg EXCEPT ![t] = r]
          /\ pc'[t] = p /\ reg'[t] = r /\ reg'[t] = reg[t]
      BY <1>0, <1>7, <2>1, <2>2 DEF Q!Goto
    <2>4. j = h
      BY <1>2, <1>4, <1>7
    <2>5. /\ p \in {"c_data", "c_help"} /\ j < n /\ reg[t].nxt = s[j + 1]
          /\ p = "c_help" => m = j
          /\ p = "c_data" => j < m
      <3>1. CASE reg[t].oldHead # reg[t].oldTail
        <4>1. j # m
          BY <1>4, <3>1
        <4>2. j < m
          BY <1>4, <4>1
        <4> QED BY <1>4, <2>2, <3>1, <4>1, <4>2 DEF Q!Verdict
      <3>2. CASE reg[t].oldHead = reg[t].oldTail /\ reg[t].nxt # Null
        BY <1>2, <1>4, <2>2, <3>2 DEF Q!Verdict
      <3> QED BY <1>7, <3>1, <3>2 DEF Q!Verdict
    <2>6. HeadWas(t, s, n, j, m)'
      BY <1>4, <2>3, <2>5 DEF HeadWas
    <2>7. TakerKnows(t, s, n, h, k)'
      BY <2>3, <2>5, <2>6 DEF TakerKnows, Looking
    <2>8. h = n => t \in sawEmpty'
      BY <1>0, <1>7 DEF Emptied, Looking
    <2>9. at'[Main] \notin {"done", "delete"} /\ UNCHANGED delivered
      BY <1>0, <2>3, <2>5, ReturnsTo
    <2>10. p \notin {"c_delete", "c_check"}
      BY <2>5
    <2> QED BY <1>0, <1>1, <1>2, <1>7, <2>1, <2>3, <2>7, <2>8, <2>9, <2>10, TakerMoves
  <1> QED BY <1>5, <1>6, <1>7 DEF Q!ConsumeCheck

LEMMA ConsumeHelps ==
  ASSUME NEW s, NEW n, NEW h, NEW k, Inv(s, n, h, k), NEW t \in Takers, PlacesStay,
         at[t] = "in", Returns(t), UNCHANGED <<consumed, temp>>,
         Q!ConsumeHelp(t) \/ (Q!SwingHead(t) /\ pc'[t] # "c_delete")
  PROVE  \E kk \in k .. n : Inv(s, n, h, kk)'
  <1>0. /\ Listed(s, n, h, k) /\ TypeOK /\ Places /\ TakerKnows(t, s, n, h, k) /\ Emptied(s, n, h)
        /\ reg \in [Threads -> Registers] /\ pc \in [Threads -> Q!Locations] /\ t \in Threads
        /\ sawEmpty \subseteq Takers
    BY Typed, TheThreads DEF Inv, AllTyped
  <1>1. /\ pc[t] \in {"c_help", "c_swing"} /\ Q!Goto(t, "c_head") /\ Q!Keep(t, {})
        /\ UNCHANGED <<head, next, data, live, used, calls, dangling, sawEmpty>>
    BY <1>0 DEF Q!ConsumeHelp, Q!SwingHead, Q!Goto
  <1>2. PICK kk \in k .. n : tail' = s[kk]
    <2>1. CASE Q!SwingHead(t)
      BY <1>0, <2>1 DEF Q!SwingHead, Listed
    <2>2. CASE Q!ConsumeHelp(t)
      <3>0. pc[t] = "c_help" /\ Q!SwingTail(t, reg[t].nxt)
        BY <2>2 DEF Q!ConsumeHelp
      <3>1. PICK j \in 1 .. h, m \in 1 .. k : HeadWas(t, s, n, j, m)
        BY <1>0, <3>0 DEF TakerKnows, Looking
      <3>2. j \in 1 .. k /\ j < n /\ reg[t].oldTail = s[j] /\ reg[t].nxt = s[j + 1]
        BY <3>0, <3>1 DEF HeadWas
      <3> QED BY <1>0, <3>0, <3>2, TailMoves
    <2> QED BY <2>1, <2>2
  <1>3. PICK r \in Registers : r = Q!NoRegs
    BY DEF Registers, Q!NoRegs
  <1>4. /\ pc' = [pc EXCEPT ![t] = "c_head"] /\ reg' = [reg EXCEPT ![t] = r] /\ pc'[t] = "c_head"
        /\ dangling' \in BOOLEAN
    BY <1>0, <1>1, <1>3, Typed DEF AllTyped, Q!Goto, Q!Keep, Q!NoRegs
  <1>5. TakerKnows(t, s, n, h, kk)'
    BY <1>4 DEF TakerKnows, Looking
  <1>6. h = n => t \in sawEmpty'
    BY <1>0, <1>1 DEF Emptied, Looking
  <1>7. at'[Main] \notin {"done", "delete"} /\ UNCHANGED delivered
    BY <1>0, <1>4, ReturnsTo
  <1>8. Inv(s, n, h, kk)'
    BY <1>0, <1>1, <1>2, <1>4, <1>5, <1>6, <1>7, TakerMoves
  <1> QED BY <1>8

(* The successful compare-exchange of consume: the node behind head is the    *)
(* new sentinel, and the old one is this consumer's to delete.                *)
LEMMA SwingStep ==
  ASSUME NEW s, NEW n, NEW h, NEW k, Inv(s, n, h, k), NEW t \in Takers, PlacesStay,
         at[t] = "in", Returns(t), UNCHANGED <<consumed, temp>>, Q!SwingHead(t), pc'[t] = "c_delete"
  PROVE  Inv(s, n, h + 1, k)'
  <1>0. /\ Listed(s, n, h, k) /\ TypeOK /\ Places /\ TakerKnows(t, s, n, h, k) /\ Carried
        /\ reg \in [Threads -> Registers] /\ pc \in [Threads -> Q!Locations] /\ t \in Threads
        /\ sawEmpty \subseteq Takers /\ pc[t] = "c_swing"
    BY Typed, TheThreads DEF Inv, AllTyped, Q!SwingHead
  <1>1. /\ head = reg[t].oldHead /\ head' = reg[t].nxt /\ pc' = [pc EXCEPT ![t] = "c_delete"]
        /\ Q!Keep(t, {"oldHead", "nxt", "val"})
        /\ sawEmpty' = (IF Len(Q!Contents) <= 1
                        THEN {u \in Takers : ~Q!Idle(u) /\ pc[u] # "c_delete"} ELSE sawEmpty) \ {t}
        /\ UNCHANGED <<tail, next, data, live, used, calls, dangling>>
    BY <1>0 DEF Q!SwingHead, Q!Goto, Takers
  <1>2. /\ n \in Nat /\ h \in 1 .. n /\ k \in 1 .. n /\ h <= k
        /\ head = s[h] /\ \A i, j \in 1 .. n : s[i] = s[j] => i = j
        /\ \A i \in 1 .. n : s[i] \in used /\ s[i] \in Cells
    BY <1>0 DEF Listed
  <1>3. PICK j \in 1 .. h, m \in 1 .. k : HeadWas(t, s, n, j, m)
    BY <1>0 DEF TakerKnows, Looking
  <1>4. /\ reg[t].oldHead = s[j] /\ j < m /\ j < n /\ reg[t].nxt = s[j + 1]
        /\ reg[t].val = data[s[j + 1]]
    BY <1>0, <1>3 DEF HeadWas
  <1>5. j = h /\ h + 1 \in 1 .. k /\ h + 1 \in 1 .. n /\ h + 1 \in h .. n /\ k \in h + 1 .. n
    <2>1. j \in 1 .. n
      BY <1>2
    <2>2. j = h
      BY <1>1, <1>2, <1>4, <2>1
    <2> QED BY <1>2, <1>4, <2>2
  <1>6. PICK r \in Registers : r = [Q!NoRegs EXCEPT !.oldHead = reg[t].oldHead, !.nxt = reg[t].nxt,
                                                    !.val = reg[t].val]
    BY <1>0 DEF Registers, Q!NoRegs
  <1>7. /\ reg' = [reg EXCEPT ![t] = r] /\ pc'[t] = "c_delete" /\ reg'[t] = r
        /\ r.oldHead = s[h] /\ r.nxt = s[h + 1] /\ r.val = data[s[h + 1]]
        /\ \A u \in Threads : u # t => pc'[u] = pc[u] /\ reg'[u] = reg[u]
    <2>1. reg' = [reg EXCEPT ![t] = r]
      BY <1>0, <1>1, <1>6 DEF Q!Keep, Q!NoRegs, Registers
    <2>2. r.oldHead = reg[t].oldHead /\ r.nxt = reg[t].nxt /\ r.val = reg[t].val
      BY <1>0, <1>6 DEF Q!NoRegs, Registers
    <2> QED BY <1>0, <1>1, <1>4, <1>5, <2>1, <2>2
  <1>8. at' = at /\ delivered' = delivered /\ at[Main] \notin {"delete", "done"}
    BY <1>0, <1>7, NotOver DEF Returns
  <1>9. sawEmpty' \subseteq Takers
    BY <1>0, <1>1
  <1>10. TypeOK'
    <2>1. head' \in Cells
      BY <1>1, <1>2, <1>4, <1>5
    <2>2. reg' \in [Threads -> Registers]
      BY <1>0, <1>7
    <2> QED BY <1>0, <1>1, <1>8, <1>9, <2>1, <2>2, Typed DEF AllTyped, PlacesStay
  <1>11. Listed(s, n, h + 1, k)'
    <2>1. head' = s[h + 1]
      BY <1>1, <1>4, <1>5
    <2> QED BY <1>0, <1>1, <1>5, <2>1 DEF Listed
  <1>12. Carried'
    BY <1>0, <1>1 DEF Carried, PlacesStay
  <1>13. ASSUME NEW u \in Producers PROVE ProducerKnows(u, s, n, k)'
    <2>1. ProducerKnows(u, s, n, k) /\ UNCHANGED <<pc[u], reg[u]>>
      BY <1>7, TheThreads DEF Inv
    <2>2. pc[u] \in Producing => next'[reg[u].new] = Null /\ \A i \in 1 .. n : s[i] # reg[u].new
      BY <1>1, <2>1 DEF ProducerKnows
    <2>3. n <= n /\ k \in k .. n /\ used \subseteq used'
      BY <1>1, <1>2
    <2> QED BY <1>1, <1>2, <2>1, <2>2, <2>3, ProducersKnowStill
  <1>14. Q!Contents = <<>> \/ Len(Q!Contents) # 0
    OBVIOUS
  <1>15. Len(Q!Contents) = n - h
    <2>1. Q!Chain = [i \in 1 .. n - h + 1 |-> s[h + i - 1]] /\ n - h + 1 \in Nat /\ n - h \in Nat
      BY <1>0, <1>2, ChainIsRest
    <2>2. Len(Q!Chain) = n - h + 1
      BY <2>1
    <2>3. Len(Q!Chain) - 1 = n - h
      BY <1>2, <2>2
    <2> QED BY <2>1, <2>3 DEF Q!Contents
  <1>16. ASSUME NEW u \in Takers, u # t, pc[u] \in Looking, u \in sawEmpty \/ h + 1 = n
         PROVE  u \in sawEmpty'
    <2>1. ~Q!Idle(u) /\ pc[u] # "c_delete"
      BY <1>16 DEF Looking, Q!Idle
    <2>2. h + 1 = n => Len(Q!Contents) <= 1
      BY <1>2, <1>15
    <2> QED BY <1>1, <1>16, <2>1, <2>2
  <1>17. ASSUME NEW u \in Takers PROVE TakerKnows(u, s, n, h + 1, k)'
    <2>1. CASE u = t
      <3>1. Deletes(t, s, h)' /\ h \in 1 .. (h + 1) - 1
        BY <1>1, <1>2, <1>7 DEF Deletes
      <3> QED BY <1>7, <2>1, <3>1 DEF TakerKnows, Looking
    <2>2. CASE u # t
      <3>1. TakerKnows(u, s, n, h, k) /\ UNCHANGED <<pc[u], reg[u]>>
        BY <1>7, <2>2, TheThreads DEF Inv
      <3>2. n <= n /\ k \in k .. n /\ h + 1 \in h .. n
        BY <1>2, <1>5
      <3> QED BY <1>1, <1>2, <1>16, <2>2, <3>1, <3>2, TakersKnowStill
    <2> QED BY <2>1, <2>2
  <1>18. \A u \in Takers : u # t => pc'[u] = pc[u] /\ reg'[u] = reg[u]
    BY <1>7, TheThreads
  <1>19. Allocated(s, n, h + 1)'
    <2>1. \A u \in Producers : pc'[u] = pc[u] /\ reg'[u] = reg[u]
      BY <1>7, TheThreads
    <2>2. ASSUME NEW c \in Cells
          PROVE  (\E i \in h .. n : c = s[i]) <=> (\E i \in h + 1 .. n : c = s[i]) \/ c = s[h]
      <3>1. \A i \in h .. n : i \in h + 1 .. n \/ i = h
        BY <1>2
      <3>2. h \in h .. n /\ \A i \in h + 1 .. n : i \in h .. n
        BY <1>2
      <3> QED BY <3>1, <3>2
    <2>3. ASSUME NEW c \in Cells
          PROVE  (\E u \in Takers : pc'[u] = "c_delete" /\ c = reg'[u].oldHead)
                   <=> (\E u \in Takers : pc[u] = "c_delete" /\ c = reg[u].oldHead) \/ c = s[h]
      BY <1>0, <1>7, <1>18
    <2>4. ASSUME NEW u \in Takers, u # t, pc[u] = "c_delete" PROVE reg[u].oldHead # s[h]
      <3>1. PICK i \in 1 .. h - 1 : Deletes(u, s, i)
        BY <2>4 DEF Inv, TakerKnows
      <3>2. i \in 1 .. n /\ i # h
        BY <1>2
      <3> QED BY <1>2, <3>1, <3>2 DEF Deletes
    <2>5. \A u, v \in Takers : pc'[u] = "c_delete" /\ pc'[v] = "c_delete" /\ reg'[u].oldHead = reg'[v].oldHead
                                 => u = v
      BY <1>7, <1>18, <2>4 DEF Inv, Allocated
    <2> QED BY <1>1, <1>8, <2>1, <2>2, <2>3, <2>5 DEF Inv, Allocated
  <1>20. HandedOut(s, h + 1)'
    <2>1. \A i \in 2 .. h + 1 : i \in 2 .. h \/ i = h + 1
      BY <1>2
    <2>2. ASSUME NEW i \in 2 .. h
          PROVE  /\ i \in 2 .. h + 1 /\ reg'[t].nxt # s[i]
      BY <1>2, <1>5, <1>7
    <2>3. ASSUME NEW v \in Producers
          PROVE  (\E i \in 2 .. h + 1 : /\ data'[s[i]] = v
                                        /\ \A u \in Takers : pc'[u] = "c_delete" => reg'[u].nxt # s[i])
                 <=> (\E i \in 2 .. h : /\ data[s[i]] = v
                                        /\ \A u \in Takers : pc[u] = "c_delete" => reg[u].nxt # s[i])
      BY <1>0, <1>1, <1>7, <1>18, <2>1, <2>2
    <2> QED BY <1>8, <2>3 DEF Inv, HandedOut
  <1>21. Emptied(s, n, h + 1)'
    <2>1. pc'[Main] = "c_check" /\ reg'[Main].nxt = Null => reg'[Main].oldHead = s[n]
      BY <1>7, TheThreads DEF Inv, Emptied
    <2>2. ASSUME h + 1 = n, NEW u \in Takers, pc'[u] \in Looking PROVE u \in sawEmpty'
      <3>1. u # t
        BY <1>7, <2>2 DEF Looking
      <3> QED BY <1>16, <1>18, <2>2, <3>1
    <2> QED BY <1>8, <2>1, <2>2 DEF Emptied
  <1> QED BY <1>10, <1>11, <1>12, <1>13, <1>17, <1>19, <1>20, <1>21 DEF Inv, PlacesStay

(* A consume that returns has deleted its old head and hands its value out.   *)
LEMMA DeleteStep ==
  ASSUME NEW s, NEW n, NEW h, NEW k, Inv(s, n, h, k), NEW t \in Takers, PlacesStay,
         at[t] = "in", Returns(t), UNCHANGED <<consumed, temp>>, Q!Delete(t)
  PROVE  Inv(s, n, h, k)'
  <1>0. /\ Listed(s, n, h, k) /\ TypeOK /\ Places /\ TakerKnows(t, s, n, h, k) /\ Carried
        /\ Allocated(s, n, h) /\ HandedOut(s, h)
        /\ reg \in [Threads -> Registers] /\ pc \in [Threads -> Q!Locations] /\ t \in Threads
        /\ delivered \in Seq(Producers) /\ at \in [Threads -> Spots] /\ live \subseteq used
        /\ used \subseteq Cells
    BY Typed, TheThreads DEF Inv, AllTyped
  <1>1. /\ pc[t] = "c_delete" /\ live' = live \ {reg[t].oldHead} /\ pc' = [pc EXCEPT ![t] = "consumed"]
        /\ Q!Keep(t, {"val"})
        /\ UNCHANGED <<head, tail, next, data, used, calls, dangling, sawEmpty>>
    BY DEF Q!Delete, Q!Goto
  <1>2. /\ n \in Nat /\ h \in 1 .. n /\ k \in 1 .. n /\ h <= k
        /\ \A i, j \in 1 .. n : s[i] = s[j] => i = j
        /\ \A i \in 1 .. n : s[i] \in used /\ s[i] \in Cells
        /\ s[1] = Q!Sentinel
    BY <1>0 DEF Listed
  <1>3. PICK j \in 1 .. h - 1 : Deletes(t, s, j)
    BY <1>0, <1>1 DEF TakerKnows
  <1>4. /\ reg[t].oldHead = s[j] /\ reg[t].nxt = s[j + 1] /\ reg[t].val = data[s[j + 1]]
        /\ j \in 1 .. n /\ j + 1 \in 1 .. n /\ j + 1 \in 2 .. h /\ j < h /\ j + 1 # 1
    BY <1>2, <1>3 DEF Deletes
  <1>5. PICK v0 : v0 = reg[t].val
    OBVIOUS
  <1>6. v0 \in Producers /\ v0 = data[s[j + 1]]
    BY <1>0, <1>2, <1>4, <1>5 DEF Carried
  <1>7. PICK r \in Registers : r = [Q!NoRegs EXCEPT !.val = reg[t].val]
    BY <1>0 DEF Registers, Q!NoRegs
  <1>8. /\ reg' = [reg EXCEPT ![t] = r] /\ pc'[t] = "consumed" /\ reg'[t] = r
        /\ \A u \in Threads : u # t => pc'[u] = pc[u] /\ reg'[u] = reg[u]
    <2>1. reg' = [reg EXCEPT ![t] = r]
      BY <1>0, <1>1, <1>7 DEF Q!Keep, Q!NoRegs, Registers
    <2> QED BY <1>0, <1>1, <2>1
  <1>9. /\ delivered' = Append(delivered, v0)
        /\ at[Main] \notin {"delete", "done"} /\ at'[Main] \notin {"delete", "done"}
    BY <1>0, <1>5, <1>8, NotOver, TheThreads DEF Returns, Goto
  <1>10. /\ delivered' \in Seq(Producers)
         /\ DOMAIN delivered = 1 .. Len(delivered) /\ DOMAIN delivered' = 1 .. Len(delivered) + 1
         /\ Len(delivered) \in Nat /\ delivered'[Len(delivered) + 1] = v0
         /\ \A i \in 1 .. Len(delivered) : delivered'[i] = delivered[i]
    BY <1>0, <1>6, <1>9
  <1>11. TypeOK'
    <2>1. reg' \in [Threads -> Registers] /\ live' \subseteq used'
      BY <1>0, <1>1, <1>8
    <2> QED BY <1>0, <1>1, <1>10, <2>1, Typed DEF AllTyped, PlacesStay
  <1>12. Listed(s, n, h, k)'
    BY <1>0, <1>1 DEF Listed
  <1>13. Carried'
    BY <1>0, <1>1 DEF Carried, PlacesStay
  <1>14. n <= n /\ k \in k .. n /\ h \in h .. n /\ used \subseteq used'
    BY <1>0, <1>1, <1>2 DEF Listed
  <1>15. ASSUME NEW u \in Producers PROVE ProducerKnows(u, s, n, k)'
    <2>1. ProducerKnows(u, s, n, k) /\ UNCHANGED <<pc[u], reg[u]>>
      BY <1>8, TheThreads DEF Inv
    <2>2. pc[u] \in Producing => next'[reg[u].new] = Null /\ \A i \in 1 .. n : s[i] # reg[u].new
      BY <1>1, <2>1 DEF ProducerKnows
    <2> QED BY <1>1, <1>2, <1>14, <2>1, <2>2, ProducersKnowStill
  <1>16. ASSUME NEW u \in Takers PROVE TakerKnows(u, s, n, h, k)'
    <2>1. CASE u = t
      BY <1>8, <2>1 DEF TakerKnows, Looking
    <2>2. CASE u # t
      <3>1. TakerKnows(u, s, n, h, k) /\ UNCHANGED <<pc[u], reg[u]>>
        BY <1>8, <2>2, TheThreads DEF Inv
      <3> QED BY <1>1, <1>2, <1>14, <3>1, TakersKnowStill
    <2> QED BY <2>1, <2>2
  <1>17. \A u \in Takers : u # t => pc'[u] = pc[u] /\ reg'[u] = reg[u]
    BY <1>8, TheThreads
  <1>18. Allocated(s, n, h)'
    <2>1. \A u \in Producers : pc'[u] = pc[u] /\ reg'[u] = reg[u]
      BY <1>8, TheThreads
    <2>2. \A i \in h .. n : s[i] # s[j]
      BY <1>2, <1>4
    <2>3. \A u \in Producers : pc[u] \in Producing => reg[u].new # s[j]
      <3>1. ASSUME NEW u \in Producers, pc[u] \in Producing PROVE reg[u].new # s[j]
        BY <1>4, <3>1 DEF Inv, ProducerKnows
      <3> QED BY <3>1
    <2>4. \A u \in Takers : u # t /\ pc[u] = "c_delete" => reg[u].oldHead # s[j]
      BY <1>0, <1>1, <1>4 DEF Allocated
    <2>5. ASSUME NEW c \in Cells
          PROVE  (\E u \in Takers : pc'[u] = "c_delete" /\ c = reg'[u].oldHead)
                   <=> (\E u \in Takers : pc[u] = "c_delete" /\ c = reg[u].oldHead) /\ c # s[j]
      BY <1>4, <1>8, <1>17, <2>4
    <2>6. \A c \in Cells : c \in live' <=> c \in live /\ c # s[j]
      BY <1>1, <1>4
    <2>7. \A u, v \in Takers : pc'[u] = "c_delete" /\ pc'[v] = "c_delete" /\ reg'[u].oldHead = reg'[v].oldHead
                                 => u = v
      BY <1>0, <1>8, <1>17 DEF Allocated
    <2> QED BY <1>0, <1>9, <2>1, <2>2, <2>3, <2>5, <2>6, <2>7 DEF Allocated
  <1>19. HandedOut(s, h)'
    <2>1. \A i \in 2 .. h : i \in 1 .. n /\ s[i] \in used
      BY <1>2
    <2>2. \A i \in 2 .. h : data[s[i]] = v0 => i = j + 1
      BY <1>0, <1>2, <1>4, <1>6, <2>1 DEF Carried
    <2>3. \A u \in Takers : u # t /\ pc[u] = "c_delete" => reg[u].nxt # s[j + 1]
      <3>1. ASSUME NEW u \in Takers, u # t, pc[u] = "c_delete", reg[u].nxt = s[j + 1] PROVE FALSE
        <4>1. PICK i \in 1 .. h - 1 : Deletes(u, s, i)
          BY <3>1 DEF Inv, TakerKnows
        <4>2. i + 1 \in 1 .. n /\ s[i + 1] = s[j + 1]
          BY <1>2, <3>1, <4>1 DEF Deletes
        <4>3. i = j
          BY <1>2, <1>4, <4>2
        <4> QED BY <1>0, <1>1, <1>4, <3>1, <4>1, <4>3 DEF Deletes, Allocated
      <3> QED BY <3>1
    <2>4. \A i \in DOMAIN delivered : delivered[i] # v0
      BY <1>0, <1>1, <1>4, <1>6, <2>2 DEF HandedOut
    <2>5. \A i, m \in DOMAIN delivered' : delivered'[i] = delivered'[m] => i = m
      <3>1. \A i \in DOMAIN delivered' : i \in DOMAIN delivered \/ i = Len(delivered) + 1
        BY <1>10
      <3> QED BY <1>0, <1>10, <2>4, <3>1 DEF HandedOut
    <2>6. ASSUME NEW v \in Producers
          PROVE  (\E i \in DOMAIN delivered' : delivered'[i] = v)
                   <=> (\E i \in DOMAIN delivered : delivered[i] = v) \/ v = v0
      <3>1. \A i \in DOMAIN delivered' : i \in DOMAIN delivered \/ i = Len(delivered) + 1
        BY <1>10
      <3>2. Len(delivered) + 1 \in DOMAIN delivered' /\ \A i \in DOMAIN delivered : i \in DOMAIN delivered'
        BY <1>10
      <3> QED BY <1>10, <3>1, <3>2
    <2>7. ASSUME NEW v \in Producers
          PROVE  (\E i \in 2 .. h : /\ data[s[i]] = v
                                    /\ \A u \in Takers : pc'[u] = "c_delete" => reg'[u].nxt # s[i])
                   <=> (\E i \in 2 .. h : /\ data[s[i]] = v
                                          /\ \A u \in Takers : pc[u] = "c_delete" => reg[u].nxt # s[i])
                       \/ v = v0
      <3>1. ASSUME NEW i \in 2 .. h, data[s[i]] = v,
                   \A u \in Takers : pc'[u] = "c_delete" => reg'[u].nxt # s[i]
            PROVE  \/ /\ data[s[i]] = v
                      /\ \A u \in Takers : pc[u] = "c_delete" => reg[u].nxt # s[i]
                   \/ v = v0
        BY <1>4, <1>6, <1>17, <3>1
      <3>2. ASSUME NEW i \in 2 .. h, \A u \in Takers : pc[u] = "c_delete" => reg[u].nxt # s[i]
            PROVE  \A u \in Takers : pc'[u] = "c_delete" => reg'[u].nxt # s[i]
        BY <1>8, <1>17, <3>2
      <3>3. \A u \in Takers : pc'[u] = "c_delete" => reg'[u].nxt # s[j + 1]
        BY <1>8, <1>17, <2>3
      <3> QED BY <1>4, <1>6, <3>1, <3>2, <3>3
    <2>8. UNCHANGED data
      BY <1>1
    <2> QED BY <1>0, <2>5, <2>6, <2>7, <2>8 DEF HandedOut
  <1>20. Emptied(s, n, h)'
    <2>1. pc'[Main] = "c_check" /\ reg'[Main].nxt = Null => reg'[Main].oldHead = s[n]
      BY <1>8, TheThreads DEF Inv, Emptied
    <2>2. ASSUME h = n, NEW u \in Takers, pc'[u] \in Looking PROVE u \in sawEmpty'
      <3>1. u # t
        BY <1>8, <2>2 DEF Looking
      <3> QED BY <1>1, <1>17, <2>2, <3>1 DEF Inv, Emptied
    <2> QED BY <1>9, <2>1, <2>2 DEF Emptied
  <1> QED BY <1>11, <1>12, <1>13, <1>15, <1>16, <1>18, <1>19, <1>20 DEF Inv, PlacesStay
--------------------------------------------------------------------------------
LEMMA OutsideStep ==
  ASSUME NEW s, NEW n, NEW h, NEW k, Inv(s, n, h, k), PlacesStay, Outside
  PROVE  Inv(s, n, h, k)'
  <1>0. /\ Listed(s, n, h, k) /\ TypeOK /\ Places /\ Carried
        /\ at \in [Threads -> Spots] /\ temp \in [Consumers -> Nat] /\ consumed \in Nat
    BY Typed, TheThreads DEF Inv, AllTyped
  <1>1. UNCHANGED <<head, tail, next, data, live, used, pc, reg, calls, dangling, sawEmpty, delivered>>
    BY DEF Outside, queueVars
  <1>2. TypeOK'
    <2>1. consumed' \in Nat /\ temp' \in [Consumers -> Nat]
      BY <1>0 DEF Outside
    <2> QED BY <1>0, <1>1, <2>1, Typed DEF AllTyped, PlacesStay
  <1>3. /\ at'[Main] = "done" <=> at[Main] = "done"
        /\ at'[Main] = "delete" <=> at[Main] = "delete"
    BY <1>0, MainAssumption, TheThreads DEF Outside, Goto
  <1>4. Listed(s, n, h, k)' /\ Carried'
    BY <1>0, <1>1 DEF Listed, Carried, PlacesStay
  <1>5. /\ \A t \in Producers : ProducerKnows(t, s, n, k)'
        /\ \A t \in Takers : TakerKnows(t, s, n, h, k)'
    BY <1>1 DEF Inv, ProducerKnows, TakerKnows, TailWas, HeadWas, Deletes
  <1>6. Allocated(s, n, h)' /\ HandedOut(s, h)' /\ Emptied(s, n, h)'
    BY <1>1, <1>3 DEF Inv, Allocated, HandedOut, Emptied
  <1> QED BY <1>2, <1>4, <1>5, <1>6 DEF Inv, PlacesStay

(* When main deletes the sentinel that is left, it is the only node there is. *)
LEMMA SentinelStep ==
  ASSUME NEW s, NEW n, NEW h, NEW k, Inv(s, n, h, k), PlacesStay, DeleteSentinel
  PROVE  Inv(s, n, h, k)'
  <1>0. /\ Listed(s, n, h, k) /\ TypeOK /\ Places /\ Carried /\ at[Main] = "delete"
        /\ at \in [Threads -> Spots] /\ live \subseteq used /\ used \subseteq Cells
    BY Typed, TheThreads DEF Inv, AllTyped, DeleteSentinel
  <1>1. /\ UNCHANGED <<head, tail, next, data, used, pc, reg, calls, dangling, sawEmpty, consumed, temp, delivered>>
        /\ live' = live \ {head} /\ at'[Main] = "done"
    BY <1>0, TheThreads DEF DeleteSentinel, Goto
  <1>2. TypeOK'
    <2>1. live' \subseteq used'
      BY <1>0, <1>1
    <2> QED BY <1>0, <1>1, <2>1, Typed DEF AllTyped, PlacesStay
  <1>3. Listed(s, n, h, k)' /\ Carried'
    BY <1>0, <1>1 DEF Listed, Carried, PlacesStay
  <1>4. /\ \A t \in Producers : ProducerKnows(t, s, n, k)'
        /\ \A t \in Takers : TakerKnows(t, s, n, h, k)'
    BY <1>1 DEF Inv, ProducerKnows, TakerKnows, TailWas, HeadWas, Deletes
  <1>5. live' = {}
    <2>1. \A t \in Producers : pc[t] \notin Producing
      BY <1>0, TheThreads, MainAssumption DEF Places, Place, Joined, Producing
    <2>2. \A t \in Takers : pc[t] # "c_delete"
      BY <1>0, TheThreads, MainAssumption DEF Places, Place, Joined, Takers
    <2>3. h = n /\ n \in Nat /\ head = s[n]
      BY <1>0 DEF Inv, Emptied, Listed
    <2>4. \A c \in Cells : c \in live <=> \E i \in h .. n : c = s[i]
      BY <1>0, <2>1, <2>2 DEF Inv, Allocated
    <2>5. \A i \in h .. n : i = n
      BY <2>3
    <2> QED BY <1>0, <1>1, <2>3, <2>4, <2>5
  <1>6. HandedOut(s, h)' /\ Emptied(s, n, h)'
    BY <1>0, <1>1 DEF Inv, HandedOut, Emptied
  <1>7. Allocated(s, n, h)'
    BY <1>1, <1>5 DEF Inv, Allocated
  <1> QED BY <1>2, <1>3, <1>4, <1>6, <1>7 DEF Inv, PlacesStay

LEMMA QueueInit == Init => \E s : Inv(s, 1, 1, 1)
  <1> SUFFICES ASSUME Init PROVE \E s : Inv(s, 1, 1, 1)
    OBVIOUS
  <1>1. PICK s : s = [i \in 1 .. 1 |-> Q!Sentinel]
    OBVIOUS
  <1>2. Q!Sentinel \in Cells
    <2>1. Cells # {}
      BY MainAssumption, FS_EmptySet, FS_CardinalityType
    <2> QED BY <2>1 DEF Q!Sentinel
  <1> USE DEF Init
  <1>i. Q!Init
    OBVIOUS
  <1> USE DEF Q!Init
  <1>3. TypeOK
    <2>1. 0 \in 0 .. Cardinality(Producers)
      BY MainAssumption, FS_CardinalityType
    <2>2. reg \in [Threads -> Registers]
      BY TheThreads DEF Q!NoRegs, Registers
    <2>3. pc \in [Threads -> Q!Locations] /\ at \in [Threads -> Spots]
      BY TheThreads DEF Spots, Q!Locations
    <2>4. /\ head \in Cells /\ tail \in Cells /\ live \subseteq used /\ used \subseteq Cells
          /\ dangling \in BOOLEAN /\ sawEmpty \subseteq Takers
      BY <1>2
    <2>5. next \in [Cells -> Cells \cup {Null}] /\ data \in [Cells -> Producers \cup {NoValue}]
      OBVIOUS
    <2>6. calls \in 0 .. Cardinality(Producers) /\ consumed \in Nat /\ temp \in [Consumers -> Nat]
      BY <2>1
    <2>7. delivered \in Seq(Producers)
      OBVIOUS
    <2> HIDE DEF Init, Q!Init
    <2> QED BY <2>2, <2>3, <2>4, <2>5, <2>6, <2>7, Typed DEF AllTyped
  <1>4. Places
    BY TheThreads, MainAssumption DEF Places, Place
  <1>5. Carried /\ Listed(s, 1, 1, 1)
    BY <1>1, <1>2 DEF Carried, Listed
  <1>6. \A t \in Threads : pc[t] = "idle"
    BY TheThreads
  <1>7. /\ \A t \in Producers : ProducerKnows(t, s, 1, 1)
        /\ \A t \in Takers : TakerKnows(t, s, 1, 1, 1)
    BY <1>6, TheThreads DEF ProducerKnows, TakerKnows, Producing, Looking
  <1>8. Allocated(s, 1, 1)
    <2>1. at[Main] # "done"
      BY TheThreads
    <2> QED BY <1>1, <1>2, <1>6, <2>1, TheThreads DEF Allocated, Producing
  <1>9. HandedOut(s, 1) /\ Emptied(s, 1, 1)
    BY <1>6, TheThreads DEF HandedOut, Emptied, Looking
  <1> QED BY <1>3, <1>4, <1>5, <1>7, <1>8, <1>9 DEF Inv

(* How the list changes in a step: not at all, or a node is linked, or tail   *)
(* or head moves along it.                                                    *)
LEMMA QueueStep ==
  ASSUME NEW s, NEW n, NEW h, NEW k, Inv(s, n, h, k), [Next]_vars
  PROVE  \E ss, nn, hh, kk : Inv(ss, nn, hh, kk)'
  <1>1. PlacesStay /\ k \in k .. n /\ Places /\ pc \in [Threads -> Q!Locations] /\ at \in [Threads -> Spots]
    BY PlacesStep, Typed DEF Inv, AllTyped, Listed
  <1>2. ASSUME NEW t \in Producers, Calling(t), Q!Produce(t, t) PROVE Inv(s, n, h, k)'
    BY <1>1, <1>2, ProduceStep
  <1>3. ASSUME NEW t \in Producers, at[t] = "in", Q!ProduceStep(t), UNCHANGED <<consumed, temp, delivered>>,
               IF pc'[t] = "produced" THEN Goto(t, "quit") ELSE UNCHANGED at
        PROVE  \E ss, nn, hh, kk : Inv(ss, nn, hh, kk)'
    <2>1. at'[Main] = at[Main]
      BY <1>1, <1>3, TheThreads DEF Goto
    <2>2. CASE Q!ProduceLoadTail(t) \/ Q!ProduceLoadNext(t) \/ Q!ProduceCheck(t)
      BY <1>1, <1>3, <2>1, <2>2, ProduceReads
    <2>3. CASE Q!ProduceSwing(t) \/ Q!ProduceHelp(t)
      BY <1>1, <1>3, <2>1, <2>3, ProduceSwings
    <2>4. CASE Q!Link(t) /\ pc'[t] = "p_swing"
      BY <1>1, <1>3, <2>1, <2>4, LinkStep
    <2>5. CASE Q!Link(t) /\ pc'[t] # "p_swing"
      BY <1>1, <1>3, <2>1, <2>5, LinkFails
    <2> QED BY <1>3, <2>2, <2>3, <2>4, <2>5 DEF Q!ProduceStep
  <1>4. ASSUME NEW t \in Takers, Calling(t), Q!Consume(t) PROVE Inv(s, n, h, k)'
    BY <1>1, <1>4, ConsumeCall
  <1>5. ASSUME NEW t \in Takers, at[t] = "in", Q!ConsumeStep(t), UNCHANGED <<consumed, temp>>, Returns(t)
        PROVE  \E ss, nn, hh, kk : Inv(ss, nn, hh, kk)'
    <2>1. CASE Q!ConsumeLoadHead(t) \/ Q!ConsumeLoadTail(t) \/ Q!ConsumeLoadNext(t) \/ Q!ReadData(t)
      BY <1>1, <1>5, <2>1, ConsumeLoads
    <2>2. CASE Q!ConsumeCheck(t)
      BY <1>1, <1>5, <2>2, ConsumeTests
    <2>3. CASE Q!ConsumeHelp(t) \/ (Q!SwingHead(t) /\ pc'[t] # "c_delete")
      BY <1>1, <1>5, <2>3, ConsumeHelps
    <2>4. CASE Q!SwingHead(t) /\ pc'[t] = "c_delete"
      BY <1>1, <1>5, <2>4, SwingStep
    <2>5. CASE Q!Delete(t)
      BY <1>1, <1>5, <2>5, DeleteStep
    <2>6. pc'[t] = "c_delete" \/ pc'[t] # "c_delete"
      OBVIOUS
    <2>7. \/ Q!ConsumeLoadHead(t) \/ Q!ConsumeLoadTail(t) \/ Q!ConsumeLoadNext(t) \/ Q!ReadData(t)
          \/ Q!ConsumeCheck(t) \/ Q!ConsumeHelp(t) \/ Q!SwingHead(t) \/ Q!Delete(t)
      BY <1>5, Zenon DEF Q!ConsumeStep
    <2> QED BY <2>1, <2>2, <2>3, <2>4, <2>5, <2>6, <2>7
  <1> QED BY <1>1, <1>2, <1>3, <1>4, <1>5, OutsideStep, SentinelStep, KindsOfSteps

LEMMA QueueInvariant == Spec => []QueueInv
  <1>1. QueueInv /\ [Next]_vars => QueueInv'
    <2> SUFFICES ASSUME QueueInv, [Next]_vars PROVE QueueInv'
      OBVIOUS
    <2>1. PICK s, n, h, k : Inv(s, n, h, k)
      BY DEF QueueInv
    <2> QED BY <2>1, QueueStep DEF QueueInv
  <1>2. Init => QueueInv
    BY QueueInit DEF QueueInv
  <1> QED BY <1>1, <1>2, PTL DEF Spec
--------------------------------------------------------------------------------
(* The list from head on is allocated and tail is on it, and the locals are   *)
(* within their types, whatever the threads of lock_free_queue.cc race over.  *)
THEOREM ListStaysIntact == Spec => []ListIsIntact
  <1>1. QueueInv => ListIsIntact
    <2> SUFFICES ASSUME NEW s, NEW n, NEW h, NEW k, Inv(s, n, h, k) PROVE ListIsIntact
      BY DEF QueueInv
    <2> SUFFICES ASSUME ~Done PROVE Q!ListIsIntact
      BY DEF Inv, ListIsIntact
    <2>0. Listed(s, n, h, k) /\ Q!Chain = [i \in 1 .. n - h + 1 |-> s[h + i - 1]]
      BY ChainIsRest DEF Inv
    <2>1. /\ n \in Nat /\ h \in 1 .. n /\ k \in h .. n /\ s \in [1 .. n -> Cells] /\ tail = s[k]
          /\ \A i \in 1 .. n - h + 1 : h + i - 1 \in h .. n /\ s[h + i - 1] \in Cells
      BY <2>0 DEF Listed
    <2>2. \A c \in Cells : (\E i \in h .. n : c = s[i]) => c \in live
      BY DEF Inv, Allocated, Done
    <2>3. \A i \in DOMAIN Q!Chain : Q!Chain[i] \in live
      BY <2>0, <2>1, <2>2
    <2>4. k - h + 1 \in DOMAIN Q!Chain /\ Q!Chain[k - h + 1] = tail
      BY <2>0, <2>1
    <2> QED BY <2>3, <2>4 DEF Q!ListIsIntact
  <1> QED BY <1>1, QueueInvariant, PTL

(* Every value that was produced is handed out once, to a consumer or to the  *)
(* drain of ~LockFreeQueue, and its node deleted once: no node is deleted     *)
(* twice and none is left when the destructor returns.                        *)
THEOREM HandedOutOnce == Spec => []HandedOutAndFreedOnce
  <1>1. QueueInv => HandedOutAndFreedOnce
    <2> SUFFICES ASSUME NEW s, NEW n, NEW h, NEW k, Inv(s, n, h, k) PROVE HandedOutAndFreedOnce
      BY DEF QueueInv
    <2>0. Places /\ HandedOut(s, h) /\ Allocated(s, n, h) /\ Emptied(s, n, h) /\ delivered \in Seq(Producers)
          /\ reg \in [Threads -> Registers]
      BY Typed DEF Inv, AllTyped
    <2>1. ASSUME Done PROVE Producers = {delivered[i] : i \in DOMAIN delivered}
      <3>1. Joined /\ h = n /\ \A t \in Takers : pc[t] # "c_delete"
        <4>1. \A t \in Takers : pc[t] # "c_delete"
          BY <2>0, <2>1, TheThreads, MainAssumption DEF Done, Places, Place, Joined, Takers
        <4> QED BY <2>0, <2>1, <4>1 DEF Done, Places, Emptied
      <3>2. ASSUME NEW v \in Producers PROVE \E i \in DOMAIN delivered : delivered[i] = v
        <4>1. pc[v] = "produced"
          BY <2>0, <3>1, TheThreads DEF Joined, Places, Place
        <4>2. \E i \in 2 .. n : data[s[i]] = v
          BY <4>1 DEF Inv, ProducerKnows
        <4> QED BY <2>0, <3>1, <4>2 DEF HandedOut
      <3>3. \A i \in DOMAIN delivered : delivered[i] \in Producers
        BY <2>0
      <3> QED BY <3>2, <3>3
    <2>2. ASSUME NEW t \in Takers, pc[t] = "c_delete" PROVE reg[t].oldHead \in live
      <3>1. at[t] = "in" /\ at[Main] # "done"
        BY <2>0, <2>2, TheThreads, MainAssumption DEF Places, Place, Joined, Takers
      <3>2. PICK j \in 1 .. h - 1 : Deletes(t, s, j)
        BY <2>2 DEF Inv, TakerKnows
      <3>3. reg[t].oldHead \in Cells
        BY <3>2 DEF Inv, Listed, Deletes
      <3> QED BY <2>0, <2>2, <3>1, <3>3 DEF Allocated
    <2>3. Done => live = {}
      BY <2>0 DEF Done, Allocated
    <2> QED BY <2>0, <2>1, <2>2, <2>3 DEF HandedOutAndFreedOnce, EachValueOnce, FreedExactlyOnce,
                                          HandedOut, Takers
  <1> QED BY <1>1, QueueInvariant, PTL
--------------------------------------------------------------------------------
(* The queue as its callers see it: the values of the nodes behind head, and  *)
(* what each thread's call has come to.                                       *)
Held(s, n, h) == [i \in 1 .. n - h |-> data[s[h + i]]]
ContentsAreHeld == \A s, n, h, k : Listed(s, n, h, k) => Q!Contents = Held(s, n, h)

LEMMA ContentsHere == ContentsAreHeld
  <1> SUFFICES ASSUME NEW s, NEW n, NEW h, NEW k, Listed(s, n, h, k) PROVE Q!Contents = Held(s, n, h)
    BY DEF ContentsAreHeld
  <1>1. Q!Chain = [i \in 1 .. n - h + 1 |-> s[h + i - 1]]
    BY ChainIsRest
  <1>2. n \in Nat /\ h \in 1 .. n
    BY DEF Listed
  <1>3. Len(Q!Chain) = n - h + 1
    BY <1>1, <1>2
  <1>4. \A i \in 1 .. n - h : Q!Chain[i + 1] = s[h + i]
    BY <1>1, <1>2
  <1>5. Len(Q!Chain) - 1 = n - h
    BY <1>2, <1>3
  <1> HIDE DEF Q!Chain
  <1>6. Q!Contents = [i \in 1 .. Len(Q!Chain) - 1 |-> data[Q!Chain[i + 1]]]
    BY DEF Q!Contents
  <1> QED BY <1>4, <1>5, <1>6 DEF Held

LEMMA ContentsNext == ContentsAreHeld'
  BY ContentsHere, PTL

LEMMA ContentsStay ==
  ASSUME NEW s, NEW n, NEW h, NEW k, NEW kk, Listed(s, n, h, k), Listed(s, n, h, kk)',
         \A c \in used : data'[c] = data[c]
  PROVE  Q!Contents' = Q!Contents
  <1>1. Q!Contents = Held(s, n, h) /\ Q!Contents' = Held(s, n, h)'
    BY ContentsHere, ContentsNext DEF ContentsAreHeld
  <1>2. \A i \in 1 .. n - h : data'[s[h + i]] = data[s[h + i]]
    BY DEF Listed
  <1> QED BY <1>1, <1>2 DEF Held

Promise(t) ==
  CASE pc[t] \in {"p_tail", "p_next", "p_check", "p_link", "p_help"} -> [op |-> "producing", arg |-> reg[t].val]
    [] pc[t] \in {"p_swing", "produced"} -> [op |-> "produced", arg |-> NoValue]
    [] pc[t] \in {"c_delete", "consumed"} -> [op |-> "consumed", arg |-> reg[t].val]
    [] pc[t] = "missed" -> [op |-> "missed", arg |-> NoValue]
    [] pc[t] = "idle" -> [op |-> "idle", arg |-> NoValue]
    [] OTHER -> [op |-> "consuming", arg |-> NoValue]
Promises == [t \in Q!Threads |-> Promise(t)]

LEMMA Promised ==
  ASSUME NEW t, NEW p, pc[t] = p
  PROVE  /\ p \in Producing => Promise(t) = [op |-> "producing", arg |-> reg[t].val]
         /\ p \in {"p_swing", "produced"} => Promise(t) = [op |-> "produced", arg |-> NoValue]
         /\ p \in {"c_delete", "consumed"} => Promise(t) = [op |-> "consumed", arg |-> reg[t].val]
         /\ p = "missed" => Promise(t) = [op |-> "missed", arg |-> NoValue]
         /\ p = "idle" => Promise(t) = [op |-> "idle", arg |-> NoValue]
         /\ p \in Looking => Promise(t) = [op |-> "consuming", arg |-> NoValue]
  BY DEF Promise, Producing, Looking

LEMMA PromisedNext ==
  ASSUME NEW t, NEW p, pc'[t] = p
  PROVE  /\ p \in Producing => Promise(t)' = [op |-> "producing", arg |-> reg'[t].val]
         /\ p \in {"p_swing", "produced"} => Promise(t)' = [op |-> "produced", arg |-> NoValue]
         /\ p \in {"c_delete", "consumed"} => Promise(t)' = [op |-> "consumed", arg |-> reg'[t].val]
         /\ p = "missed" => Promise(t)' = [op |-> "missed", arg |-> NoValue]
         /\ p = "idle" => Promise(t)' = [op |-> "idle", arg |-> NoValue]
         /\ p \in Looking => Promise(t)' = [op |-> "consuming", arg |-> NoValue]
  BY DEF Promise, Producing, Looking

OthersKeep(t) == \A u \in Threads : u # t => pc'[u] = pc[u] /\ reg'[u] = reg[u]

LEMMA OnePromise ==
  ASSUME NEW t \in Threads, NEW v, Promise(t)' = v, OthersKeep(t)
  PROVE  Promises' = [Promises EXCEPT ![t] = v]
  <1>1. \A u \in Threads : u # t => Promise(u)' = Promise(u)
    BY DEF OthersKeep, Promise
  <1> QED BY <1>1, TheThreads DEF Promises

(* The steps of the specification, in these terms.                            *)
Becomes(t, v) == Promises' = [Promises EXCEPT ![t] = v]

LEMMA InThreads == ASSUME NEW t \in Threads
                   PROVE t \in Q!Threads /\ Promises[t] = Promise(t)
  BY TheThreads DEF Promises

LEMMA AbstractCallProduce ==
  ASSUME NEW t \in Threads, NEW w \in Producers, Promise(t).op \notin {"producing", "consuming"},
         Becomes(t, [op |-> "producing", arg |-> w]), Q!Contents' = Q!Contents, sawEmpty' = sawEmpty
  PROVE  Q!Abstract!Next
  <1>1. Q!Abstract!CallProduce(t, w)
    BY InThreads DEF Q!Abstract!CallProduce, Q!Abstract!InCall, Q!Abstract!Become, Becomes, Promises, Promise
  <1> QED BY <1>1, InThreads DEF Q!Abstract!Next

LEMMA AbstractCallConsume ==
  ASSUME NEW t \in Threads, Promise(t).op \notin {"producing", "consuming"},
         Becomes(t, [op |-> "consuming", arg |-> NoValue]), Q!Contents' = Q!Contents,
         sawEmpty' = IF Q!Contents = <<>> THEN sawEmpty \cup {t} ELSE sawEmpty
  PROVE  Q!Abstract!Next
  <1>1. Q!Abstract!CallConsume(t)
    BY InThreads DEF Q!Abstract!CallConsume, Q!Abstract!InCall, Q!Abstract!Become, Becomes, Promises, Promise
  <1> QED BY <1>1, InThreads DEF Q!Abstract!Next

LEMMA AbstractProduce ==
  ASSUME NEW t \in Threads, Promise(t).op = "producing", sawEmpty' = sawEmpty,
         Becomes(t, [op |-> "produced", arg |-> NoValue]),
         Q!Contents' = Append(Q!Contents, Promise(t).arg)
  PROVE  Q!Abstract!Next
  <1>1. Q!Abstract!Produce(t)
    BY InThreads DEF Q!Abstract!Produce, Q!Abstract!Become, Becomes, Promises, Promise
  <1> QED BY <1>1, InThreads DEF Q!Abstract!Next

LEMMA AbstractConsume ==
  ASSUME NEW t \in Threads, Promise(t).op = "consuming", Q!Contents # <<>>,
         Becomes(t, [op |-> "consumed", arg |-> Head(Q!Contents)]), Q!Contents' = Tail(Q!Contents),
         sawEmpty' = (IF Tail(Q!Contents) = <<>> THEN {u \in Threads : Promise(u).op = "consuming"}
                      ELSE sawEmpty) \ {t}
  PROVE  Q!Abstract!Next
  <1>1. {u \in Q!Threads : Promises[u].op = "consuming"} = {u \in Threads : Promise(u).op = "consuming"}
    BY TheThreads, InThreads
  <1>2. Promises[t].op = "consuming"
    BY InThreads
  <1>3. sawEmpty' = (IF Tail(Q!Contents) = <<>> THEN {u \in Q!Threads : Promises[u].op = "consuming"}
                     ELSE sawEmpty) \ {t}
    BY <1>1
  <1> HIDE DEF Q!Contents
  <1>4. Q!Abstract!Consume(t)
    BY <1>2, <1>3 DEF Q!Abstract!Consume, Q!Abstract!Become, Becomes, Promises, Promise
  <1> QED BY <1>4, InThreads DEF Q!Abstract!Next

LEMMA AbstractMiss ==
  ASSUME NEW t \in Threads, Promise(t).op = "consuming", t \in sawEmpty, sawEmpty' = sawEmpty \ {t},
         Becomes(t, [op |-> "missed", arg |-> NoValue]), Q!Contents' = Q!Contents
  PROVE  Q!Abstract!Next
  <1>1. Q!Abstract!Miss(t)
    BY InThreads DEF Q!Abstract!Miss, Q!Abstract!Become, Becomes, Promises, Promise
  <1> QED BY <1>1, InThreads DEF Q!Abstract!Next

LEMMA AbstractStutter ==
  ASSUME Q!Contents' = Q!Contents, sawEmpty' = sawEmpty, \A u \in Threads : Promise(u)' = Promise(u)
  PROVE  UNCHANGED Q!Abstract!vars
  <1>1. Promises' = Promises
    BY TheThreads DEF Promises
  <1> QED BY <1>1 DEF Q!Abstract!vars, Promises, Promise

LEMMA CallsMoveOne ==
  ASSUME pc \in [Threads -> Q!Locations], reg \in [Threads -> Registers], NEW t \in Threads,
         Q!ProduceStep(t) \/ Q!ConsumeStep(t) \/ Q!Produce(t, t) \/ Q!Consume(t)
  PROVE  OthersKeep(t)
  <1>1. CASE Q!ProduceStep(t)
    BY <1>1 DEF OthersKeep, Q!ProduceStep, Q!ProduceLoadTail, Q!ProduceLoadNext, Q!ProduceCheck,
         Q!Link, Q!ProduceSwing, Q!ProduceHelp, Q!Goto, Q!Load, Q!Keep
  <1>2. CASE Q!ConsumeStep(t)
    BY <1>2 DEF OthersKeep, Q!ConsumeStep, Q!ConsumeLoadHead, Q!ConsumeLoadTail, Q!ConsumeLoadNext,
         Q!ConsumeCheck, Q!ConsumeHelp, Q!ReadData, Q!SwingHead, Q!Delete, Q!Goto, Q!Load, Q!Keep
  <1>3. CASE Q!Produce(t, t)
    BY <1>3 DEF OthersKeep, Q!Produce, Q!Allocate, Q!Goto
  <1>4. CASE Q!Consume(t)
    BY <1>4 DEF OthersKeep, Q!Consume, Q!Goto
  <1> QED BY <1>1, <1>2, <1>3, <1>4

LEMMA PromiseKept ==
  ASSUME NEW t \in Threads, OthersKeep(t), Promise(t)' = Promise(t)
  PROVE  \A u \in Threads : Promise(u)' = Promise(u)
  <1>1. \A u \in Threads : u # t => Promise(u)' = Promise(u)
    BY DEF OthersKeep, Promise
  <1> QED BY <1>1

(* A call of produce, and its steps before and after the node is linked.      *)
LEMMA ProduceCalled ==
  ASSUME NEW s, NEW n, NEW h, NEW k, Inv(s, n, h, k), NEW t \in Producers, PlacesStay,
         Calling(t), Q!Produce(t, t)
  PROVE  Q!Abstract!Next
  <1>0. /\ Listed(s, n, h, k) /\ Places /\ t \in Threads /\ used \subseteq Cells
        /\ reg \in [Threads -> Registers] /\ pc \in [Threads -> Q!Locations]
        /\ data \in [Cells -> Producers \cup {NoValue}]
    BY Typed, TheThreads DEF Inv, AllTyped
  <1>1. Listed(s, n, h, k)'
    BY ProduceStep DEF Inv
  <1>2. /\ Q!Fresh \in Cells \ used /\ data' = [data EXCEPT ![Q!Fresh] = t]
        /\ pc' = [pc EXCEPT ![t] = "p_tail"] /\ sawEmpty' = sawEmpty
        /\ reg' = [reg EXCEPT ![t] = [Q!NoRegs EXCEPT !.new = Q!Fresh, !.val = t]]
    BY <1>0 DEF Q!Produce, Q!Allocate, Q!Goto, Q!Fresh
  <1>3. Q!Contents' = Q!Contents
    <2>1. \A c \in used : data'[c] = data[c]
      BY <1>0, <1>2
    <2> QED BY <1>0, <1>1, <2>1, ContentsStay
  <1>4. Promise(t).op = "idle"
    <2>1. pc[t] = "idle"
      BY <1>0, TheThreads DEF Calling, Places, Place
    <2> QED BY <2>1, Promised
  <1>5. pc'[t] = "p_tail" /\ reg'[t].val = t
    <2>1. reg'[t] = [Q!NoRegs EXCEPT !.new = Q!Fresh, !.val = t]
      BY <1>0, <1>2
    <2> QED BY <1>0, <1>2, <2>1 DEF Q!NoRegs
  <1>6. Promise(t)' = [op |-> "producing", arg |-> t]
    BY <1>5, PromisedNext DEF Producing
  <1>7. Becomes(t, [op |-> "producing", arg |-> t])
    BY <1>0, <1>6, CallsMoveOne, OnePromise DEF Becomes
  <1> QED BY <1>0, <1>2, <1>3, <1>4, <1>7, AbstractCallProduce

LEMMA ProduceKeeps ==
  ASSUME NEW s, NEW n, NEW h, NEW k, Inv(s, n, h, k), NEW t \in Producers, PlacesStay, at'[Main] = at[Main],
         UNCHANGED <<consumed, temp, delivered>>, Q!ProduceStep(t),
         ~(Q!Link(t) /\ pc'[t] = "p_swing")
  PROVE  UNCHANGED Q!Abstract!vars
  <1>0. /\ Listed(s, n, h, k) /\ t \in Threads
        /\ reg \in [Threads -> Registers] /\ pc \in [Threads -> Q!Locations]
    BY Typed, TheThreads DEF Inv, AllTyped
  <1>1. PICK kk : Inv(s, n, h, kk)'
    <2>1. CASE Q!ProduceLoadTail(t) \/ Q!ProduceLoadNext(t) \/ Q!ProduceCheck(t)
      BY <2>1, ProduceReads
    <2>2. CASE Q!ProduceSwing(t) \/ Q!ProduceHelp(t)
      BY <2>2, ProduceSwings
    <2>3. CASE Q!Link(t)
      BY <2>3, LinkFails
    <2> QED BY <2>1, <2>2, <2>3, Zenon DEF Q!ProduceStep
  <1>2. data' = data /\ sawEmpty' = sawEmpty
    BY DEF Q!ProduceStep, Q!ProduceLoadTail, Q!ProduceLoadNext, Q!ProduceCheck, Q!Link,
         Q!ProduceSwing, Q!ProduceHelp, Q!memory
  <1>3. Q!Contents' = Q!Contents
    BY <1>0, <1>1, <1>2, ContentsStay DEF Inv
  <1>4. \/ pc[t] \in Producing /\ pc'[t] \in Producing /\ reg'[t].val = reg[t].val
        \/ pc[t] = "p_swing" /\ pc'[t] = "produced"
    BY <1>0 DEF Q!ProduceStep, Q!ProduceLoadTail, Q!ProduceLoadNext, Q!ProduceCheck, Q!Link,
         Q!ProduceSwing, Q!ProduceHelp, Q!Goto, Q!Load, Q!Keep, Q!NoRegs, Producing, Registers
  <1>5. Promise(t)' = Promise(t)
    BY <1>4, Promised, PromisedNext
  <1> QED BY <1>0, <1>2, <1>3, <1>5, CallsMoveOne, PromiseKept, AbstractStutter

(* The link is the instant at which a produce takes effect.                   *)
LEMMA ProduceTakesEffect ==
  ASSUME NEW s, NEW n, NEW h, NEW k, Inv(s, n, h, k), NEW t \in Producers, PlacesStay, at'[Main] = at[Main],
         UNCHANGED <<consumed, temp, delivered>>, Q!Link(t), pc'[t] = "p_swing"
  PROVE  Q!Abstract!Next
  <1>0. /\ Listed(s, n, h, k) /\ t \in Threads
        /\ reg \in [Threads -> Registers] /\ pc \in [Threads -> Q!Locations]
        /\ n \in Nat /\ h \in 1 .. n
    BY Typed, TheThreads DEF Inv, AllTyped, Listed
  <1>1. PICK ss : /\ Listed(ss, n + 1, h, k)' /\ \A i \in 1 .. n : ss[i] = s[i]
                  /\ data[ss[n + 1]] = t /\ reg[t].val = t
    BY LinkStep DEF Inv
  <1>2. data' = data /\ sawEmpty' = sawEmpty /\ pc[t] = "p_link"
    BY DEF Q!Link
  <1>3. Q!Contents = Held(s, n, h) /\ Q!Contents' = Held(ss, n + 1, h)'
    BY <1>0, <1>1, ContentsHere, ContentsNext DEF ContentsAreHeld
  <1>4. Q!Contents' = Append(Q!Contents, t)
    <2>1. Q!Contents = [i \in 1 .. n - h |-> data[s[h + i]]] /\ n - h \in Nat
      BY <1>0, <1>3 DEF Held
    <2>2. Q!Contents' = [i \in 1 .. n - h + 1 |-> data[ss[h + i]]]
      BY <1>0, <1>2, <1>3 DEF Held
    <2>3. \A i \in 1 .. n - h : h + i \in 1 .. n /\ ss[h + i] = s[h + i]
      BY <1>0, <1>1
    <2>4. \A i \in 1 .. n - h + 1 : i \in 1 .. n - h \/ (i = n - h + 1 /\ h + i = n + 1)
      BY <1>0
    <2>5. \A i \in 1 .. n - h + 1 : data[ss[h + i]] = IF i = n - h + 1 THEN t ELSE data[s[h + i]]
      BY <1>0, <1>1, <2>3, <2>4
    <2> HIDE DEF Q!Contents
    <2>6. PICK q : q = Q!Contents
      OBVIOUS
    <2>7. Append(q, t) = [i \in 1 .. n - h + 1 |-> IF i = n - h + 1 THEN t ELSE q[i]]
      BY <1>0, <2>1, <2>6
    <2>8. \A i \in 1 .. n - h + 1 : i # n - h + 1 => q[i] = data[s[h + i]]
      BY <2>1, <2>4, <2>6
    <2> QED BY <2>2, <2>5, <2>6, <2>7, <2>8
  <1>5. Promise(t) = [op |-> "producing", arg |-> t]
    BY <1>1, <1>2, Promised DEF Producing
  <1>6. Promise(t)' = [op |-> "produced", arg |-> NoValue]
    BY PromisedNext
  <1>7. Q!ProduceStep(t)
    BY DEF Q!ProduceStep
  <1>8. Becomes(t, [op |-> "produced", arg |-> NoValue])
    BY <1>0, <1>6, <1>7, CallsMoveOne, OnePromise DEF Becomes
  <1> QED BY <1>0, <1>2, <1>4, <1>5, <1>8, AbstractProduce

(* The same for consume.                                                      *)
LEMMA ConsumeCalled ==
  ASSUME NEW s, NEW n, NEW h, NEW k, Inv(s, n, h, k), NEW t \in Takers, PlacesStay,
         Calling(t), Q!Consume(t)
  PROVE  Q!Abstract!Next
  <1>0. /\ Listed(s, n, h, k) /\ Places /\ t \in Threads
        /\ reg \in [Threads -> Registers] /\ pc \in [Threads -> Q!Locations]
    BY Typed, TheThreads DEF Inv, AllTyped
  <1>1. Listed(s, n, h, k)'
    BY ConsumeCall DEF Inv
  <1>2. /\ data' = data /\ pc' = [pc EXCEPT ![t] = "c_head"]
        /\ sawEmpty' = IF Q!Contents = <<>> THEN sawEmpty \cup {t} ELSE sawEmpty
    BY DEF Q!Consume, Q!Goto, Q!memory
  <1>3. Q!Contents' = Q!Contents
    BY <1>0, <1>1, <1>2, ContentsStay
  <1>4. Promise(t).op \in {"idle", "consumed"}
    <2>1. pc[t] \in {"idle", "consumed"}
      BY <1>0, MainAssumption DEF Calling, Places, Place, Takers
    <2> QED BY <2>1, Promised
  <1>5. Promise(t)' = [op |-> "consuming", arg |-> NoValue]
    BY <1>0, <1>2, PromisedNext DEF Looking
  <1>6. Becomes(t, [op |-> "consuming", arg |-> NoValue])
    BY <1>0, <1>5, CallsMoveOne, OnePromise DEF Becomes
  <1> QED BY <1>0, <1>2, <1>3, <1>4, <1>6, AbstractCallConsume

LEMMA ConsumeKeeps ==
  ASSUME NEW s, NEW n, NEW h, NEW k, Inv(s, n, h, k), NEW t \in Takers, PlacesStay,
         at[t] = "in", Returns(t), UNCHANGED <<consumed, temp>>, Q!ConsumeStep(t),
         ~(Q!SwingHead(t) /\ pc'[t] = "c_delete"), ~(Q!ConsumeCheck(t) /\ pc'[t] = "missed")
  PROVE  UNCHANGED Q!Abstract!vars
  <1>0. /\ Listed(s, n, h, k) /\ t \in Threads
        /\ reg \in [Threads -> Registers] /\ pc \in [Threads -> Q!Locations]
    BY Typed, TheThreads DEF Inv, AllTyped
  <1>1. PICK kk : Inv(s, n, h, kk)'
    <2>1. CASE Q!ConsumeLoadHead(t) \/ Q!ConsumeLoadTail(t) \/ Q!ConsumeLoadNext(t) \/ Q!ReadData(t)
      BY <2>1, ConsumeLoads
    <2>2. CASE Q!ConsumeCheck(t)
      BY <2>2, ConsumeTests
    <2>3. CASE Q!ConsumeHelp(t) \/ (Q!SwingHead(t) /\ pc'[t] # "c_delete")
      BY <2>3, ConsumeHelps
    <2>4. CASE Q!Delete(t)
      BY <2>4, DeleteStep
    <2>5. \/ Q!ConsumeLoadHead(t) \/ Q!ConsumeLoadTail(t) \/ Q!ConsumeLoadNext(t) \/ Q!ReadData(t)
          \/ Q!ConsumeCheck(t) \/ Q!ConsumeHelp(t) \/ Q!SwingHead(t) \/ Q!Delete(t)
      BY Zenon DEF Q!ConsumeStep
    <2> QED BY <2>1, <2>2, <2>3, <2>4, <2>5
  <1>2. /\ data' = data /\ sawEmpty' = sawEmpty
        /\ \/ pc[t] \in Looking /\ pc'[t] \in Looking
           \/ pc[t] = "c_delete" /\ pc'[t] = "consumed" /\ reg'[t].val = reg[t].val
    <2>1. CASE Q!ConsumeLoadHead(t) \/ Q!ConsumeLoadTail(t) \/ Q!ConsumeLoadNext(t) \/ Q!ReadData(t)
      BY <1>0, <2>1 DEF Q!ConsumeLoadHead, Q!ConsumeLoadTail, Q!ConsumeLoadNext, Q!ReadData,
           Q!memory, Q!Goto, Looking
    <2>2. CASE Q!ConsumeCheck(t)
      BY <1>0, <2>2 DEF Q!ConsumeCheck, Q!Verdict, Q!memory, Q!Goto, Looking
    <2>3. CASE Q!ConsumeHelp(t)
      BY <1>0, <2>3 DEF Q!ConsumeHelp, Q!Goto, Looking
    <2>4. CASE Q!SwingHead(t)
      BY <1>0, <2>4 DEF Q!SwingHead, Q!Goto, Looking
    <2>5. CASE Q!Delete(t)
      BY <1>0, <2>5 DEF Q!Delete, Q!Goto, Q!Keep, Q!NoRegs
    <2> QED BY <2>1, <2>2, <2>3, <2>4, <2>5, Zenon DEF Q!ConsumeStep
  <1>3. Q!Contents' = Q!Contents
    BY <1>0, <1>1, <1>2, ContentsStay DEF Inv
  <1>4. Promise(t)' = Promise(t)
    BY <1>2, Promised, PromisedNext
  <1> QED BY <1>0, <1>2, <1>3, <1>4, CallsMoveOne, PromiseKept, AbstractStutter

(* A consume that answers false loaded null from the node at head while the   *)
(* call was on, and head and tail agreed: the queue was empty then.           *)
LEMMA MissTakesEffect ==
  ASSUME NEW s, NEW n, NEW h, NEW k, Inv(s, n, h, k), NEW t \in Takers, PlacesStay,
         at[t] = "in", Returns(t), UNCHANGED <<consumed, temp>>, Q!ConsumeCheck(t), pc'[t] = "missed"
  PROVE  Q!Abstract!Next
  <1>0. /\ Listed(s, n, h, k) /\ TakerKnows(t, s, n, h, k) /\ t \in Threads
        /\ reg \in [Threads -> Registers] /\ pc \in [Threads -> Q!Locations]
        /\ pc[t] = "c_check" /\ n \in Nat /\ h \in 1 .. n
    BY Typed, TheThreads DEF Inv, AllTyped, Listed, Q!ConsumeCheck
  <1>1. Listed(s, n, h, k)'
    BY ConsumeTests DEF Inv
  <1>2. data' = data /\ Q!Verdict(t) = "missed" /\ sawEmpty' = sawEmpty \ {t}
    BY <1>0 DEF Q!ConsumeCheck, Q!Goto, Q!memory
  <1>3. Q!Contents' = Q!Contents
    BY <1>0, <1>1, <1>2, ContentsStay
  <1>4. t \in sawEmpty
    <2>1. PICK j \in 1 .. h, m \in 1 .. k : HeadWas(t, s, n, j, m)
      BY <1>0 DEF TakerKnows, Looking
    <2>2. reg[t].nxt = Null
      BY <1>2 DEF Q!Verdict
    <2>3. \A i \in 1 .. n : s[i] # Null
      BY <1>0, MainAssumption DEF Listed
    <2>4. ~(j < n /\ reg[t].nxt = s[j + 1])
      <3>1. j < n => j + 1 \in 1 .. n
        BY <1>0
      <3> QED BY <2>2, <2>3, <3>1
    <2> QED BY <1>0, <2>1, <2>4 DEF HeadWas
  <1>5. Promise(t) = [op |-> "consuming", arg |-> NoValue]
    BY <1>0, Promised DEF Looking
  <1>6. Promise(t)' = [op |-> "missed", arg |-> NoValue]
    BY PromisedNext
  <1>7. Q!ConsumeStep(t)
    BY DEF Q!ConsumeStep
  <1>8. Becomes(t, [op |-> "missed", arg |-> NoValue])
    BY <1>0, <1>6, <1>7, CallsMoveOne, OnePromise DEF Becomes
  <1> QED BY <1>0, <1>2, <1>3, <1>4, <1>5, <1>8, AbstractMiss

(* The swing of head is the instant at which a consume takes effect.          *)
LEMMA ConsumeTakesEffect ==
  ASSUME NEW s, NEW n, NEW h, NEW k, Inv(s, n, h, k), NEW t \in Takers, PlacesStay,
         at[t] = "in", Returns(t), UNCHANGED <<consumed, temp>>, Q!SwingHead(t), pc'[t] = "c_delete"
  PROVE  Q!Abstract!Next
  <1>0. /\ Listed(s, n, h, k) /\ TakerKnows(t, s, n, h, k) /\ Places /\ t \in Threads
        /\ reg \in [Threads -> Registers] /\ pc \in [Threads -> Q!Locations]
        /\ pc[t] = "c_swing" /\ n \in Nat /\ h \in 1 .. n
    BY Typed, TheThreads DEF Inv, AllTyped, Listed, Q!SwingHead
  <1>1. Listed(s, n, h + 1, k)'
    BY SwingStep DEF Inv
  <1>2. /\ data' = data /\ head = reg[t].oldHead /\ reg'[t].val = reg[t].val
        /\ sawEmpty' = (IF Len(Q!Contents) <= 1 THEN {u \in Takers : ~Q!Idle(u) /\ pc[u] # "c_delete"}
                        ELSE sawEmpty) \ {t}
    BY <1>0 DEF Q!SwingHead, Q!Goto, Q!Keep, Q!NoRegs, Takers
  <1>3. h < n /\ reg[t].val = data[s[h + 1]]
    <2>1. PICK j \in 1 .. h, m \in 1 .. k : HeadWas(t, s, n, j, m)
      BY <1>0 DEF TakerKnows, Looking
    <2>2. j < n /\ reg[t].val = data[s[j + 1]] /\ s[j] = s[h] /\ j \in 1 .. n
      BY <1>0, <1>2, <2>1 DEF HeadWas, Listed
    <2>3. j = h
      BY <1>0, <2>2 DEF Listed
    <2> QED BY <2>2, <2>3
  <1>4. Q!Contents = Held(s, n, h) /\ Q!Contents' = Held(s, n, h + 1)'
    BY <1>0, <1>1, ContentsHere, ContentsNext DEF ContentsAreHeld
  <1>5. /\ Q!Contents # <<>> /\ Head(Q!Contents) = reg[t].val /\ Q!Contents' = Tail(Q!Contents)
        /\ Len(Q!Contents) <= 1 <=> Tail(Q!Contents) = <<>>
    <2>1. PICK q : q = Q!Contents
      OBVIOUS
    <2>2. q = [i \in 1 .. n - h |-> data[s[h + i]]] /\ n - h \in Nat \ {0}
      BY <1>0, <1>3, <1>4, <2>1 DEF Held
    <2>3. Q!Contents' = [i \in 1 .. n - (h + 1) |-> data[s[h + 1 + i]]]
      BY <1>2, <1>4 DEF Held
    <2> HIDE DEF Q!Contents
    <2>4. Len(q) = n - h /\ q[1] = data[s[h + 1]] /\ q # <<>> /\ Head(q) = q[1]
      BY <2>2
    <2>5. Tail(q) = [i \in 1 .. n - h - 1 |-> q[i + 1]]
      BY <2>2, <2>4
    <2>6. \A i \in 1 .. n - h - 1 : q[i + 1] = data[s[h + 1 + i]]
      <3>1. \A i \in 1 .. n - h - 1 : i + 1 \in 1 .. n - h /\ h + (i + 1) = h + 1 + i
        BY <1>0
      <3> QED BY <2>2, <3>1
    <2>7. n - (h + 1) = n - h - 1
      BY <1>0
    <2>8. Q!Contents' = Tail(q)
      BY <2>3, <2>5, <2>6, <2>7
    <2>9. Len(q) <= 1 <=> Tail(q) = <<>>
      <3>1. CASE n - h = 1
        <4>1. Tail(q) = [i \in 1 .. 0 |-> q[i + 1]]
          BY <2>5, <3>1
        <4> QED BY <2>4, <3>1, <4>1
      <3>2. CASE n - h > 1
        <4>1. 1 \in DOMAIN Tail(q)
          BY <1>0, <2>5, <3>2
        <4>2. DOMAIN <<>> = {}
          OBVIOUS
        <4>3. Tail(q) # <<>>
          BY <4>1, <4>2, Zenon
        <4>4. n - h \in Nat /\ ~(n - h <= 1)
          BY <2>2, <3>2
        <4>5. ~(Len(q) <= 1)
          BY <2>4, <4>4
        <4> QED BY <4>3, <4>5
      <3>3. n - h = 1 \/ n - h > 1
        BY <2>2
      <3> QED BY <3>1, <3>2, <3>3
    <2> QED BY <1>3, <2>1, <2>4, <2>8, <2>9
  <1>6. {u \in Takers : ~Q!Idle(u) /\ pc[u] # "c_delete"} = {u \in Threads : Promise(u).op = "consuming"}
    <2>1. \A u \in Takers : pc[u] \in Looking \cup {"idle", "consumed", "missed", "c_delete"}
      BY <1>0, MainAssumption DEF Places, Place, Takers, Threads
    <2>2. \A u \in Producers : pc[u] \in Producing \cup {"idle", "produced", "p_swing"}
      BY <1>0, MainAssumption DEF Places, Place, Threads
    <2>3. \A u \in Takers : ~Q!Idle(u) /\ pc[u] # "c_delete" <=> Promise(u).op = "consuming"
      <3> SUFFICES ASSUME NEW u \in Takers
                   PROVE  ~Q!Idle(u) /\ pc[u] # "c_delete" <=> Promise(u).op = "consuming"
        OBVIOUS
      <3>1. PICK p : p = pc[u]
        OBVIOUS
      <3> QED BY <2>1, <3>1, Promised DEF Q!Idle, Looking
    <2>4. \A u \in Producers : Promise(u).op # "consuming"
      <3> SUFFICES ASSUME NEW u \in Producers PROVE Promise(u).op # "consuming"
        OBVIOUS
      <3>1. PICK p : p = pc[u]
        OBVIOUS
      <3> QED BY <2>2, <3>1, Promised DEF Producing
    <2> QED BY <2>3, <2>4, TheThreads
  <1>7. Promise(t) = [op |-> "consuming", arg |-> NoValue]
    BY <1>0, Promised DEF Looking
  <1>8. Promise(t)' = [op |-> "consumed", arg |-> Head(Q!Contents)]
    <2>1. Promise(t)' = [op |-> "consumed", arg |-> reg'[t].val]
      BY PromisedNext
    <2> QED BY <1>2, <1>5, <2>1
  <1>9. Q!ConsumeStep(t)
    BY DEF Q!ConsumeStep
  <1>10. Becomes(t, [op |-> "consumed", arg |-> Head(Q!Contents)])
    <2> HIDE DEF Q!Contents
    <2> QED BY <1>0, <1>8, <1>9, CallsMoveOne, OnePromise DEF Becomes
  <1>11. sawEmpty' = (IF Tail(Q!Contents) = <<>> THEN {u \in Threads : Promise(u).op = "consuming"}
                      ELSE sawEmpty) \ {t}
    BY <1>2, <1>5, <1>6
  <1> HIDE DEF Q!Contents
  <1> QED BY <1>0, <1>5, <1>7, <1>10, <1>11, AbstractConsume

LEMMA ImplementStep ==
  ASSUME NEW s, NEW n, NEW h, NEW k, Inv(s, n, h, k), [Next]_vars
  PROVE  Q!Abstract!Next \/ UNCHANGED Q!Abstract!vars
  <1>1. /\ PlacesStay /\ Places /\ Listed(s, n, h, k)
        /\ pc \in [Threads -> Q!Locations] /\ at \in [Threads -> Spots]
    BY PlacesStep, Typed DEF Inv, AllTyped
  <1>2. ASSUME NEW t \in Producers, Calling(t), Q!Produce(t, t) PROVE Q!Abstract!Next
    BY <1>1, <1>2, ProduceCalled
  <1>3. ASSUME NEW t \in Producers, at[t] = "in", Q!ProduceStep(t), UNCHANGED <<consumed, temp, delivered>>,
               IF pc'[t] = "produced" THEN Goto(t, "quit") ELSE UNCHANGED at
        PROVE  Q!Abstract!Next \/ UNCHANGED Q!Abstract!vars
    <2>1. at'[Main] = at[Main]
      BY <1>1, <1>3, TheThreads DEF Goto
    <2>2. CASE Q!Link(t) /\ pc'[t] = "p_swing"
      BY <1>1, <1>3, <2>1, <2>2, ProduceTakesEffect
    <2>3. CASE ~(Q!Link(t) /\ pc'[t] = "p_swing")
      BY <1>1, <1>3, <2>1, <2>3, ProduceKeeps
    <2> QED BY <2>2, <2>3
  <1>4. ASSUME NEW t \in Takers, Calling(t), Q!Consume(t) PROVE Q!Abstract!Next
    BY <1>1, <1>4, ConsumeCalled
  <1>5. ASSUME NEW t \in Takers, at[t] = "in", Q!ConsumeStep(t), UNCHANGED <<consumed, temp>>, Returns(t)
        PROVE  Q!Abstract!Next \/ UNCHANGED Q!Abstract!vars
    <2>1. CASE Q!ConsumeCheck(t) /\ pc'[t] = "missed"
      BY <1>1, <1>5, <2>1, MissTakesEffect
    <2>2. CASE Q!SwingHead(t) /\ pc'[t] = "c_delete"
      BY <1>1, <1>5, <2>2, ConsumeTakesEffect
    <2>3. CASE ~(Q!ConsumeCheck(t) /\ pc'[t] = "missed") /\ ~(Q!SwingHead(t) /\ pc'[t] = "c_delete")
      BY <1>1, <1>5, <2>3, ConsumeKeeps
    <2> QED BY <2>1, <2>2, <2>3
  <1>6. ASSUME Listed(s, n, h, k)', UNCHANGED <<data, pc, reg, sawEmpty>>
        PROVE  UNCHANGED Q!Abstract!vars
    <2>1. Q!Contents' = Q!Contents
      BY <1>1, <1>6, ContentsStay
    <2>2. \A u \in Threads : Promise(u)' = Promise(u)
      BY <1>6 DEF Promise
    <2> QED BY <1>6, <2>1, <2>2, AbstractStutter
  <1>7. CASE Outside
    <2>1. Listed(s, n, h, k)'
      BY <1>1, <1>7, OutsideStep DEF Inv
    <2> QED BY <1>6, <1>7, <2>1 DEF Outside, queueVars
  <1>8. CASE DeleteSentinel
    <2>1. Listed(s, n, h, k)'
      BY <1>1, <1>8, SentinelStep DEF Inv
    <2> QED BY <1>6, <1>8, <2>1 DEF DeleteSentinel
  <1> QED BY <1>2, <1>3, <1>4, <1>5, <1>7, <1>8, KindsOfSteps

LEMMA ImplementInit == Init => Q!Abstract!Init
  <1> SUFFICES ASSUME Init PROVE Q!Abstract!Init
    OBVIOUS
  <1>1. PICK s : Inv(s, 1, 1, 1)
    BY QueueInit
  <1>2. Q!Contents = <<>>
    <2>1. Q!Contents = [i \in 1 .. 1 - 1 |-> data[s[1 + i]]]
      BY <1>1, ContentsHere DEF Inv, ContentsAreHeld, Held
    <2> HIDE DEF Q!Contents
    <2> QED BY <2>1
  <1>3. sawEmpty = {} /\ \A t \in Threads : pc[t] = "idle"
    BY TheThreads DEF Init, Q!Init
  <1>4. \A t \in Threads : Promise(t) = [op |-> "idle", arg |-> NoValue]
    BY <1>3, Promised
  <1>5. Promises = [t \in Q!Threads |-> [op |-> "idle", arg |-> NoValue]]
    BY <1>4, TheThreads DEF Promises
  <1> QED BY <1>2, <1>3, <1>5 DEF Q!Abstract!Init, Promises, Promise

(* The queue of lock_free_queue.cc is linearizable: the program implements a  *)
(* FIFO in which a produce takes effect at its link, a consume at its swing   *)
(* of head, and one that answers false overlapped an instant of emptiness.    *)
THEOREM ProgramIsLinearizable == Spec => Linearizable
  <1>1. QueueInv /\ [Next]_vars => [Q!Abstract!Next]_(Q!Abstract!vars)
    <2> SUFFICES ASSUME QueueInv, [Next]_vars PROVE Q!Abstract!Next \/ UNCHANGED Q!Abstract!vars
      OBVIOUS
    <2>1. PICK s, n, h, k : Inv(s, n, h, k)
      BY DEF QueueInv
    <2> QED BY <2>1, ImplementStep
  <1>2. Spec => Q!Abstract!Spec
    BY <1>1, ImplementInit, QueueInvariant, PTL DEF Spec, Q!Abstract!Spec
  <1> QED BY <1>2 DEF Linearizable, Q!Linearizable
================================================================================
