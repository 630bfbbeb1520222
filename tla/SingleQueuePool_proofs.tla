------------------------- MODULE SingleQueuePool_proofs -------------------------
(* Theorems about SingleQueuePool, for every number of workers and tasks.     *)
EXTENDS SingleQueuePool, FiniteSetTheorems, TLAPS

LEMMA WorkerCount == Cardinality(Workers) \in Nat
  BY PoolAssumption, FS_CardinalityType

(* What the three queue operations of the pool do, the queue being unbounded  *)
(* and never closed.                                                          *)
LEMMA PoolPush ==
  ASSUME TypeOK, NEW t \in Threads, NEW k, Q!Push(t, k)
  PROVE  /\ q' = Append(q, k)
         /\ call' = [call EXCEPT ![t] = [op |-> "notify", arg |-> NoTask]]
         /\ UNCHANGED <<closed, asleep>>
         /\ t \notin asleep
  BY DEF TypeOK, Q!Push, Q!Enqueue, Q!HasRoom, Q!Set, Q!Ready, Q!Outcomes, Q!InPop

LEMMA PoolPop ==
  ASSUME TypeOK, NEW w \in Workers, Q!Pop(w) \/ Q!PopWake(w)
  PROVE  \/ /\ q # <<>> /\ q' = Tail(q)
            /\ call' = [call EXCEPT ![w] = [op |-> "popped", arg |-> Head(q)]]
            /\ UNCHANGED <<closed, asleep>>
            /\ w \notin asleep
         \/ /\ q = <<>> /\ asleep' = asleep \cup {w}
            /\ call' = [call EXCEPT ![w] = [op |-> "popping", arg |-> NoTask]]
            /\ UNCHANGED <<q, closed>>
  BY DEF TypeOK, Q!Pop, Q!PopWake, Q!PopBody, Q!Dequeue, Q!Sleep, Q!Set, Q!Ready, Q!Outcomes, Q!InPop

LEMMA TypeInit == Init => TypeOK
  <1> SUFFICES ASSUME Init PROVE TypeOK
    OBVIOUS
  <1>1. q = <<>> /\ q \in Seq(Tasks \cup {Dummy})
    BY DEF Init, Q!Init
  <1>2. left \in 0 .. Cardinality(Workers)
    BY WorkerCount DEF Init
  <1>3. call \in [Threads -> [op : Q!Ops, arg : Tasks \cup {Dummy, NoTask}]]
    BY DEF Init, Q!Init, Q!Ops, Q!Outcomes
  <1> QED BY <1>1, <1>2, <1>3, PoolAssumption DEF Init, Q!Init, TypeOK, Threads

LEMMA TypeStep == TypeOK /\ [Next]_vars => TypeOK'
  <1> SUFFICES ASSUME TypeOK, [Next]_vars PROVE TypeOK'
    OBVIOUS
  <1> USE PoolAssumption, WorkerCount DEF Threads, Goto
  <1>1. CASE UNCHANGED vars
    BY <1>1 DEF TypeOK, vars, queueVars, history, Q!InPop
  <1>2. ASSUME NEW t \in Threads, Submit(t) PROVE TypeOK'
    BY <1>2 DEF TypeOK, Submit, queueVars, Q!InPop
  <1>3. ASSUME NEW t \in Threads, SubmitPush(t) PROVE TypeOK'
    <2>1. sub[t] \in Tasks
      BY <1>3 DEF SubmitPush, TypeOK
    <2>2. /\ q' = Append(q, sub[t])
          /\ call' = [call EXCEPT ![t] = [op |-> "notify", arg |-> NoTask]]
          /\ UNCHANGED <<closed, asleep>>
          /\ t \notin asleep
      BY <1>3, PoolPush DEF SubmitPush
    <2> QED BY <1>3, <2>1, <2>2 DEF SubmitPush, TypeOK, Q!InPop, Q!Ops
  <1>4. ASSUME NEW t \in Threads, Notify(t) PROVE TypeOK'
    BY <1>4 DEF Notify, Q!NotifyOne, Q!Set, TypeOK, history, Q!InPop, Q!Ops, Q!Outcomes
  <1>5. CASE Destroy
    <2>1. UNCHANGED <<q, closed, asleep, call, job, sub>>
      BY <1>5 DEF Destroy, queueVars
    <2>2. Main \notin asleep
      BY DEF TypeOK
    <2>3. pc' \in [Threads -> {"client", "destroy", "done", "pop", "check", "run", "exit"}]
      BY <1>5 DEF Destroy, TypeOK
    <2>4. asleep' \subseteq {w \in Workers : pc'[w] = "pop" /\ Q!InPop(w)'}
      BY <1>5, <2>1 DEF Destroy, TypeOK, Q!InPop
    <2>5. stopping' \in BOOLEAN /\ left' \in 0 .. Cardinality(Workers)
      BY <1>5 DEF Destroy
    <2> QED BY <2>1, <2>3, <2>4, <2>5 DEF TypeOK
  <1>6. CASE PushDummy
    <2>1. /\ q' = Append(q, Dummy)
          /\ call' = [call EXCEPT ![Main] = [op |-> "notify", arg |-> NoTask]]
          /\ UNCHANGED <<closed, asleep>>
      BY <1>6, PoolPush DEF PushDummy
    <2>2. left' \in 0 .. Cardinality(Workers)
      BY <1>6 DEF PushDummy, TypeOK
    <2> QED BY <1>6, <2>1, <2>2 DEF PushDummy, TypeOK, history, Q!InPop, Q!Ops
  <1>7. CASE JoinAll
    BY <1>7 DEF JoinAll, TypeOK, queueVars, history, Q!InPop
  <1>8. ASSUME NEW w \in Workers, PopTask(w) PROVE TypeOK'
    <2>1. CASE q # <<>>
      <3>0. q \in Seq(Tasks \cup {Dummy}) /\ Head(q) \in Tasks \cup {Dummy}
        BY <2>1 DEF TypeOK
      <3>1. /\ q' = Tail(q)
            /\ call' = [call EXCEPT ![w] = [op |-> "popped", arg |-> Head(q)]]
            /\ UNCHANGED <<closed, asleep>> /\ w \notin asleep
        BY <1>8, <2>1, PoolPop DEF PopTask
      <3>2. call'[w] = [op |-> "popped", arg |-> Head(q)]
        BY <3>1 DEF TypeOK
      <3>3. pc' = [pc EXCEPT ![w] = "check"] /\ job' = [job EXCEPT ![w] = Head(q)]
        BY <1>8, <3>2 DEF PopTask
      <3> QED BY <1>8, <2>1, <3>0, <3>1, <3>3
              DEF PopTask, TypeOK, history, Q!InPop, Q!Ops, Q!Outcomes
    <2>2. CASE q = <<>>
      <3>1. /\ asleep' = asleep \cup {w}
            /\ call' = [call EXCEPT ![w] = [op |-> "popping", arg |-> NoTask]]
            /\ UNCHANGED <<q, closed>>
        BY <1>8, <2>2, PoolPop DEF PopTask, TypeOK
      <3>2. UNCHANGED <<pc, job>>
        BY <1>8, <3>1 DEF PopTask, TypeOK
      <3> QED BY <1>8, <3>1, <3>2 DEF PopTask, TypeOK, history, Q!InPop, Q!Ops
    <2> QED BY <2>1, <2>2
  <1>9. ASSUME NEW w \in Workers, CheckStop(w) PROVE TypeOK'
    BY <1>9 DEF CheckStop, TypeOK, queueVars, Q!InPop
  <1>10. ASSUME NEW w \in Workers, FinishTask(w) PROVE TypeOK'
    BY <1>10 DEF FinishTask, TypeOK, queueVars, Q!InPop
  <1>11. ASSUME NEW w \in Workers, SpuriousWake(w) PROVE TypeOK'
    BY <1>11 DEF SpuriousWake, Q!SpuriousWake, TypeOK, history, Q!InPop
  <1> QED BY <1>1, <1>2, <1>3, <1>4, <1>5, <1>6, <1>7, <1>8, <1>9, <1>10, <1>11
          DEF Next, Call, Destroy, Destructor, Worker, Spin, Terminated

(* Every reachable state of the pool is well typed; only a worker inside pop  *)
(* waits on the queue, never the thread that owns the pool.                   *)
THEOREM PoolTypeCorrect == Spec => []TypeOK
  BY TypeInit, TypeStep, PTL DEF Spec
--------------------------------------------------------------------------------
(* ShutdownNeverStarves is inductive: at Destroy there is a dummy to push for *)
(* every worker, and from then on each pop takes one item away together with  *)
(* one worker that would still pop.                                           *)
LEMMA StarveStep == TypeOK /\ ShutdownNeverStarves /\ [Next]_vars => ShutdownNeverStarves'
  <1> SUFFICES ASSUME TypeOK, ShutdownNeverStarves, [Next]_vars, stopping'
               PROVE  Cardinality(StillToPop') <= Len(q') + left'
    BY DEF ShutdownNeverStarves
  <1> USE PoolAssumption, WorkerCount DEF Threads, Goto
  <1> DEFINE Goal == Cardinality(StillToPop') <= Len(q') + left'
  <1>0. /\ IsFiniteSet(StillToPop) /\ Cardinality(StillToPop) \in Nat
        /\ q \in Seq(Tasks \cup {Dummy}) /\ Len(q) \in Nat /\ left \in Nat
    <2>1. StillToPop \in SUBSET Workers
      BY DEF StillToPop
    <2> QED BY <2>1, FS_Subset, FS_CardinalityType DEF TypeOK
  <1>u. ASSUME stopping, StillToPop' = StillToPop, UNCHANGED <<q, left>> PROVE Goal
    BY <1>0, <1>u DEF ShutdownNeverStarves
  <1>1. CASE UNCHANGED vars
    BY <1>1, <1>u DEF vars, queueVars, StillToPop
  <1>2. ASSUME NEW t \in Threads, Submit(t) PROVE Goal
    BY <1>2, <1>u DEF Submit, queueVars, StillToPop
  <1>3. ASSUME NEW t \in Threads, SubmitPush(t) PROVE Goal
    <2>1. q' = Append(q, sub[t]) /\ sub[t] \in Tasks
      BY <1>3, PoolPush DEF SubmitPush, TypeOK
    <2>2. Len(q') = Len(q) + 1
      BY <1>0, <2>1
    <2>3. StillToPop' = StillToPop /\ left' = left /\ stopping
      BY <1>3 DEF SubmitPush, StillToPop
    <2> QED BY <1>0, <2>2, <2>3 DEF ShutdownNeverStarves
  <1>4. ASSUME NEW t \in Threads, Notify(t) PROVE Goal
    BY <1>4, <1>u DEF Notify, Q!NotifyOne, history, StillToPop
  <1>5. CASE Destroy
    <2>1. StillToPop' \in SUBSET Workers
      BY DEF StillToPop
    <2>2. /\ Cardinality(StillToPop') <= Cardinality(Workers)
          /\ Cardinality(StillToPop') \in Nat
      BY <2>1, FS_Subset, FS_CardinalityType
    <2>3. q' = q /\ left' = Cardinality(Workers)
      BY <1>5 DEF Destroy, queueVars
    <2> QED BY <1>0, <2>2, <2>3
  <1>6. CASE PushDummy
    <2>1. q' = Append(q, Dummy)
      BY <1>6, PoolPush DEF PushDummy
    <2>2. Len(q') = Len(q) + 1
      BY <1>0, <2>1
    <2>3. StillToPop' = StillToPop /\ left' = left - 1 /\ stopping
      BY <1>6 DEF PushDummy, StillToPop
    <2> QED BY <1>0, <2>2, <2>3 DEF ShutdownNeverStarves
  <1>7. CASE JoinAll
    BY <1>7, <1>u DEF JoinAll, queueVars, history, StillToPop, TypeOK
  <1>8. ASSUME NEW w \in Workers, PopTask(w) PROVE Goal
    <2>0. pc[w] = "pop" /\ left' = left /\ stopping
      BY <1>8 DEF PopTask
    <2>1. CASE q # <<>>
      <3>1. /\ q' = Tail(q)
            /\ call' = [call EXCEPT ![w] = [op |-> "popped", arg |-> Head(q)]]
        BY <1>8, <2>1, PoolPop DEF PopTask
      <3>2. call'[w].op = "popped"
        BY <3>1 DEF TypeOK
      <3>3. pc' = [pc EXCEPT ![w] = "check"]
        BY <1>8, <3>2 DEF PopTask
      <3>4. StillToPop' = StillToPop \ {w} /\ w \in StillToPop
        BY <2>0, <3>3 DEF StillToPop, TypeOK
      <3>5. Cardinality(StillToPop') = Cardinality(StillToPop) - 1
        BY <1>0, <3>4, FS_RemoveElement
      <3>6. Len(q') = Len(q) - 1
        BY <1>0, <2>1, <3>1
      <3> QED BY <1>0, <2>0, <3>5, <3>6 DEF ShutdownNeverStarves
    <2>2. CASE q = <<>>
      <3>0. q' = q /\ call' = [call EXCEPT ![w] = [op |-> "popping", arg |-> NoTask]]
        BY <1>8, <2>2, PoolPop DEF PopTask
      <3>1. q' = q /\ call'[w].op = "popping"
        BY <3>0 DEF TypeOK
      <3>2. UNCHANGED pc
        BY <1>8, <3>1 DEF PopTask
      <3> QED BY <1>u, <2>0, <3>1, <3>2 DEF StillToPop
    <2> QED BY <2>1, <2>2
  <1>9. ASSUME NEW w \in Workers, CheckStop(w) PROVE Goal
    <2>1. stopping /\ pc[w] = "check" /\ pc' = [pc EXCEPT ![w] = "exit"]
      BY <1>9 DEF CheckStop
    <2>2. StillToPop' = StillToPop
      BY <2>1 DEF StillToPop, TypeOK
    <2> QED BY <1>9, <1>u, <2>1, <2>2 DEF CheckStop, queueVars
  <1>10. ASSUME NEW w \in Workers, FinishTask(w) PROVE Goal
    <2>1. stopping /\ pc[w] = "run" /\ pc' = [pc EXCEPT ![w] = "pop"]
      BY <1>10 DEF FinishTask
    <2>2. StillToPop' = StillToPop
      BY <2>1 DEF StillToPop, TypeOK
    <2> QED BY <1>10, <1>u, <2>1, <2>2 DEF FinishTask, queueVars
  <1>11. ASSUME NEW w \in Workers, SpuriousWake(w) PROVE Goal
    BY <1>11, <1>u DEF SpuriousWake, Q!SpuriousWake, history, StillToPop
  <1> QED BY <1>1, <1>2, <1>3, <1>4, <1>5, <1>6, <1>7, <1>8, <1>9, <1>10, <1>11
          DEF Next, Call, Destroy, Destructor, Worker, Spin, Terminated

(* One dummy per worker is enough: once the pool is stopping, a worker that   *)
(* will still pop never outnumbers the items that are or will be queued.      *)
THEOREM ShutdownHolds == Spec => []ShutdownNeverStarves
  <1>1. Init => ShutdownNeverStarves
    BY DEF Init, ShutdownNeverStarves
  <1> QED BY <1>1, StarveStep, PoolTypeCorrect, PTL DEF Spec
--------------------------------------------------------------------------------
(* Where a task is: at which positions of the queue, in the hands of which    *)
(* workers, or in which of the two histories.                                 *)
Positions(k) == {i \in DOMAIN q : q[i] = k}
Holders(k) == {w \in Workers : job[w] = k}

Queued(k) == /\ \E i \in DOMAIN q : Positions(k) = {i}
             /\ Holders(k) = {} /\ k \notin finished /\ k \notin dropped
Held(k) == /\ \E w \in Workers : Holders(k) = {w}
           /\ Positions(k) = {} /\ k \notin finished /\ k \notin dropped
Over(k) == /\ (k \in finished) # (k \in dropped)
           /\ Positions(k) = {} /\ Holders(k) = {}
Nowhere(k) == Positions(k) = {} /\ Holders(k) = {} /\ k \notin finished /\ k \notin dropped

(* The inductive invariant: an argument of submit that is still to be pushed  *)
(* is no task of the pool yet and has one submitter, and a worker at the top  *)
(* of its loop holds nothing.                                                 *)
PlaceOf(k) == IF k \in accepted THEN Queued(k) \/ Held(k) \/ Over(k) ELSE Nowhere(k)
SubmittedOnce == /\ accepted \subseteq offered
                 /\ \A t \in Threads : sub[t] # NoTask => sub[t] \in offered \ accepted
                 /\ \A t, u \in Threads : sub[t] # NoTask /\ sub[t] = sub[u] => t = u
PlaceInv == /\ \A k \in Tasks : PlaceOf(k)
            /\ SubmittedOnce
            /\ \A w \in Workers : pc[w] \in {"pop", "exit"} => job[w] = NoTask
            /\ ~stopping => dropped = {}

LEMMA AppendPositions ==
  ASSUME NEW S, NEW s \in Seq(S), NEW e \in S, NEW k
  PROVE  {i \in DOMAIN Append(s, e) : Append(s, e)[i] = k}
           = {i \in DOMAIN s : s[i] = k} \cup (IF e = k THEN {Len(s) + 1} ELSE {})
  <1>1. /\ DOMAIN s = 1 .. Len(s) /\ DOMAIN Append(s, e) = 1 .. Len(s) + 1 /\ Len(s) \in Nat
        /\ \A i \in 1 .. Len(s) : Append(s, e)[i] = s[i]
        /\ Append(s, e)[Len(s) + 1] = e
    OBVIOUS
  <1> QED BY <1>1

LEMMA TailPositions ==
  ASSUME NEW S, NEW s \in Seq(S), s # <<>>, NEW k
  PROVE  /\ {i \in DOMAIN Tail(s) : Tail(s)[i] = k}
              = {i - 1 : i \in {j \in DOMAIN s : s[j] = k} \ {1}}
         /\ 1 \in {j \in DOMAIN s : s[j] = k} <=> k = Head(s)
  <1>1. /\ DOMAIN s = 1 .. Len(s) /\ DOMAIN Tail(s) = 1 .. Len(s) - 1
        /\ Len(s) \in Nat \ {0}
        /\ \A i \in 1 .. Len(s) - 1 : Tail(s)[i] = s[i + 1]
        /\ Head(s) = s[1]
    OBVIOUS
  <1>2. ASSUME NEW i \in DOMAIN Tail(s), Tail(s)[i] = k
        PROVE  i \in {j - 1 : j \in {m \in DOMAIN s : s[m] = k} \ {1}}
    <2>1. i + 1 \in {m \in DOMAIN s : s[m] = k} \ {1} /\ i = (i + 1) - 1
      BY <1>1, <1>2
    <2> QED BY <2>1
  <1>3. ASSUME NEW j \in DOMAIN s, s[j] = k, j # 1
        PROVE  j - 1 \in DOMAIN Tail(s) /\ Tail(s)[j - 1] = k
    BY <1>1, <1>3
  <1> QED BY <1>1, <1>2, <1>3

LEMMA PlaceInit == Init => PlaceInv
  <1> SUFFICES ASSUME Init PROVE PlaceInv
    OBVIOUS
  <1> USE PoolAssumption DEF Init, Q!Init
  <1>1. \A k \in Tasks : Nowhere(k) /\ k \notin accepted
    BY DEF Nowhere, Positions, Holders
  <1> QED BY <1>1 DEF PlaceInv, PlaceOf, SubmittedOnce

LEMMA Unmoved ==
  ASSUME NEW k \in Tasks, PlaceOf(k), Positions(k)' = Positions(k), Holders(k)' = Holders(k),
         k \in accepted' <=> k \in accepted, k \in finished' <=> k \in finished,
         k \in dropped' <=> k \in dropped
  PROVE  PlaceOf(k)'
  <1>1. (\E i \in DOMAIN q : Positions(k) = {i}) <=> (\E i : Positions(k) = {i})
    BY DEF Positions
  <1>2. ((\E i \in DOMAIN q : Positions(k) = {i}) <=> (\E i : Positions(k) = {i}))'
    BY DEF Positions
  <1> QED BY <1>1, <1>2 DEF PlaceOf, Queued, Held, Over, Nowhere

LEMMA PlaceStep == TypeOK /\ PlaceInv /\ [Next]_vars => PlaceInv'
  <1> SUFFICES ASSUME TypeOK, PlaceInv, [Next]_vars PROVE PlaceInv'
    OBVIOUS
  <1> USE PoolAssumption DEF Threads, Goto
  (* Most steps move no task. *)
  <1>u. ASSUME UNCHANGED <<q, job, accepted, finished, dropped>>
        PROVE  \A k \in Tasks : PlaceOf(k)'
    <2> TAKE k \in Tasks
    <2>1. Positions(k)' = Positions(k) /\ Holders(k)' = Holders(k)
      BY <1>u DEF Positions, Holders
    <2> QED BY <1>u, <2>1, Unmoved DEF PlaceInv
  <1>1. CASE UNCHANGED vars
    BY <1>1, <1>u DEF PlaceInv, SubmittedOnce, vars, queueVars, history
  <1>2. ASSUME NEW t \in Threads, Submit(t) PROVE PlaceInv'
    <2>1. UNCHANGED <<q, job, accepted, finished, dropped, stopping, pc>>
      BY <1>2 DEF Submit, queueVars
    <2>2. PICK k \in Tasks \ offered : /\ offered' = offered \cup {k}
                                       /\ sub' = IF stopping THEN sub ELSE [sub EXCEPT ![t] = k]
      BY <1>2 DEF Submit
    <2>3. SubmittedOnce'
      BY <2>1, <2>2 DEF TypeOK, PlaceInv, SubmittedOnce
    <2> QED BY <1>u, <2>1, <2>3 DEF PlaceInv
  <1>3. ASSUME NEW t \in Threads, SubmitPush(t) PROVE PlaceInv'
    <2>0. PICK k : k = sub[t]
      OBVIOUS
    <2>1. /\ q' = Append(q, k) /\ accepted' = accepted \cup {k}
          /\ sub' = [sub EXCEPT ![t] = NoTask]
          /\ UNCHANGED <<job, offered, finished, dropped, stopping, pc>>
      BY <1>3, <2>0, PoolPush DEF SubmitPush
    <2>2. k \in Tasks /\ k \notin accepted
      BY <1>3, <2>0 DEF SubmitPush, TypeOK, PlaceInv, SubmittedOnce
    <2>3. ASSUME NEW j \in Tasks
          PROVE  Positions(j)' = Positions(j) \cup (IF j = k THEN {Len(q) + 1} ELSE {})
      BY <2>1, <2>2, AppendPositions DEF TypeOK, Positions
    <2>4. ASSUME NEW j \in Tasks, j # k PROVE PlaceOf(j)'
      <3>1. Positions(j)' = Positions(j) /\ Holders(j)' = Holders(j)
        BY <2>1, <2>3, <2>4 DEF Holders
      <3> QED BY <2>1, <2>4, <3>1, Unmoved DEF PlaceInv
    <2>5. PlaceOf(k)'
      <3>1. Nowhere(k)
        BY <2>2 DEF PlaceInv, PlaceOf
      <3>2. Positions(k)' = {Len(q) + 1} /\ Holders(k)' = {}
        BY <2>1, <2>2, <2>3, <3>1 DEF Nowhere, Holders
      <3>3. Len(q) + 1 \in DOMAIN q'
        BY <2>1, <2>2 DEF TypeOK
      <3> QED BY <2>1, <3>1, <3>2, <3>3 DEF Nowhere, PlaceOf, Queued
    <2>6. SubmittedOnce'
      BY <1>3, <2>0, <2>1, <2>2 DEF TypeOK, PlaceInv, SubmittedOnce, SubmitPush
    <2> QED BY <2>1, <2>4, <2>5, <2>6 DEF PlaceInv
  <1>4. ASSUME NEW t \in Threads, Notify(t) PROVE PlaceInv'
    BY <1>4, <1>u DEF Notify, Q!NotifyOne, PlaceInv, SubmittedOnce, history
  <1>5. CASE Destroy
    BY <1>5, <1>u DEF Destroy, PlaceInv, SubmittedOnce, queueVars, history, TypeOK
  <1>6. CASE PushDummy
    <2>1. /\ q' = Append(q, Dummy)
          /\ UNCHANGED <<pc, job, sub, stopping, offered, accepted, finished, dropped>>
      BY <1>6, PoolPush DEF PushDummy, history
    <2>2. ASSUME NEW k \in Tasks PROVE PlaceOf(k)'
      <3>1. Positions(k)' = Positions(k) /\ Holders(k)' = Holders(k)
        BY <2>1, AppendPositions DEF TypeOK, Positions, Holders
      <3> QED BY <2>1, <3>1, Unmoved DEF PlaceInv
    <2> QED BY <2>1, <2>2 DEF PlaceInv, SubmittedOnce
  <1>7. CASE JoinAll
    BY <1>7, <1>u DEF JoinAll, PlaceInv, SubmittedOnce, queueVars, history, TypeOK
  <1>8. ASSUME NEW w \in Workers, PopTask(w) PROVE PlaceInv'
    <2>1. CASE q # <<>>
      <3>1. /\ q' = Tail(q)
            /\ call' = [call EXCEPT ![w] = [op |-> "popped", arg |-> Head(q)]]
        BY <1>8, <2>1, PoolPop DEF PopTask
      <3>2. call'[w] = [op |-> "popped", arg |-> Head(q)]
        BY <3>1 DEF TypeOK
      <3>3. /\ pc[w] = "pop" /\ pc' = [pc EXCEPT ![w] = "check"]
            /\ job' = [job EXCEPT ![w] = Head(q)]
            /\ UNCHANGED <<sub, offered, accepted, finished, dropped, stopping>>
        BY <1>8, <3>2 DEF PopTask, history
      <3>4. job[w] = NoTask
        BY <3>3 DEF PlaceInv
      <3>5. ASSUME NEW k \in Tasks
            PROVE  /\ Positions(k)' = {i - 1 : i \in Positions(k) \ {1}}
                   /\ 1 \in Positions(k) <=> k = Head(q)
                   /\ Holders(k)' = IF k = Head(q) THEN Holders(k) \cup {w} ELSE Holders(k)
        <4>1. q \in Seq(Tasks \cup {Dummy})
          BY DEF TypeOK
        <4>2. /\ Positions(k)' = {i - 1 : i \in Positions(k) \ {1}}
              /\ 1 \in Positions(k) <=> k = Head(q)
          BY <2>1, <3>1, <4>1, TailPositions DEF Positions
        <4>3. Holders(k)' = IF k = Head(q) THEN Holders(k) \cup {w} ELSE Holders(k)
          BY <3>3, <3>4 DEF TypeOK, Holders
        <4> QED BY <4>2, <4>3
      <3>6. ASSUME NEW k \in Tasks PROVE PlaceOf(k)'
        <4>1. CASE Queued(k)
          <5>1. PICK i \in DOMAIN q : Positions(k) = {i}
            BY <4>1 DEF Queued
          <5>2. CASE i = 1
            <6>1. Positions(k)' = {} /\ Holders(k)' = {w}
              BY <3>5, <4>1, <5>1, <5>2 DEF Queued
            <6> QED BY <3>3, <4>1, <6>1 DEF Queued, PlaceInv, PlaceOf, Nowhere, Held
          <5>3. CASE i # 1
            <6>1. k # Head(q)
              BY <3>5, <5>1, <5>3
            <6>2. Positions(k)' = {i - 1} /\ Holders(k)' = {}
              BY <3>5, <4>1, <5>1, <5>3, <6>1 DEF Queued
            <6>3. i - 1 \in DOMAIN q'
              BY <2>1, <3>1, <5>3 DEF TypeOK
            <6> QED BY <3>3, <4>1, <6>2, <6>3 DEF Queued, PlaceInv, PlaceOf, Nowhere
          <5> QED BY <5>2, <5>3
        <4>2. CASE Positions(k) = {}
          <5>1. Positions(k)' = Positions(k) /\ Holders(k)' = Holders(k)
            BY <3>5, <4>2
          <5> QED BY <3>3, <5>1, Unmoved DEF PlaceInv
        <4> QED BY <4>1, <4>2 DEF PlaceInv, PlaceOf, Held, Over, Nowhere
      <3> QED BY <3>3, <3>6 DEF PlaceInv, SubmittedOnce, TypeOK
    <2>2. CASE q = <<>>
      <3>0. q' = q /\ call' = [call EXCEPT ![w] = [op |-> "popping", arg |-> NoTask]]
        BY <1>8, <2>2, PoolPop DEF PopTask
      <3>1. q' = q /\ call'[w].op = "popping"
        BY <3>0 DEF TypeOK
      <3>2. UNCHANGED <<q, pc, job, sub, offered, accepted, finished, dropped, stopping>>
        BY <1>8, <3>1 DEF PopTask, history
      <3> QED BY <1>u, <3>2 DEF PlaceInv, SubmittedOnce
    <2> QED BY <2>1, <2>2
  <1>9. ASSUME NEW w \in Workers, CheckStop(w) PROVE PlaceInv'
    <2>1. CASE stopping
      <3>1. /\ dropped' = dropped \cup ({job[w]} \cap Tasks)
            /\ job' = [job EXCEPT ![w] = NoTask]
            /\ pc' = [pc EXCEPT ![w] = "exit"]
            /\ UNCHANGED <<q, sub, offered, accepted, finished, stopping>>
        BY <1>9, <2>1 DEF CheckStop, queueVars
      <3>2. ASSUME NEW k \in Tasks PROVE PlaceOf(k)'
        <4>1. Positions(k)' = Positions(k) /\ Holders(k)' = Holders(k) \ {w}
          BY <3>1 DEF TypeOK, Positions, Holders
        <4>2. CASE job[w] = k
          <5>1. w \in Holders(k) /\ k \in dropped'
            BY <3>1, <4>2 DEF Holders
          <5>2. k \in accepted /\ Holders(k) = {w} /\ Positions(k) = {} /\ k \notin finished
            BY <5>1 DEF PlaceInv, PlaceOf, Queued, Held, Over, Nowhere
          <5> QED BY <3>1, <4>1, <5>1, <5>2 DEF PlaceOf, Over
        <4>3. CASE job[w] # k
          BY <3>1, <4>1, <4>3, Unmoved DEF PlaceInv, Holders
        <4> QED BY <4>2, <4>3
      <3> QED BY <2>1, <3>1, <3>2 DEF PlaceInv, SubmittedOnce, TypeOK
    <2>2. CASE ~stopping
      <3>1. /\ pc' = [pc EXCEPT ![w] = "run"]
            /\ UNCHANGED <<q, job, sub, offered, accepted, finished, dropped, stopping>>
        BY <1>9, <2>2 DEF CheckStop, queueVars
      <3> QED BY <1>u, <3>1 DEF PlaceInv, SubmittedOnce, TypeOK
    <2> QED BY <2>1, <2>2
  <1>10. ASSUME NEW w \in Workers, FinishTask(w) PROVE PlaceInv'
    <2>1. /\ finished' = finished \cup {job[w]}
          /\ job' = [job EXCEPT ![w] = NoTask]
          /\ pc' = [pc EXCEPT ![w] = "pop"]
          /\ UNCHANGED <<q, sub, offered, accepted, dropped, stopping>>
      BY <1>10 DEF FinishTask, queueVars
    <2>2. ASSUME NEW k \in Tasks PROVE PlaceOf(k)'
      <3>1. Positions(k)' = Positions(k) /\ Holders(k)' = Holders(k) \ {w}
        BY <2>1 DEF TypeOK, Positions, Holders
      <3>2. CASE job[w] = k
        <4>1. w \in Holders(k) /\ k \in finished'
          BY <2>1, <3>2 DEF Holders
        <4>2. k \in accepted /\ Holders(k) = {w} /\ Positions(k) = {} /\ k \notin dropped
          BY <4>1 DEF PlaceInv, PlaceOf, Queued, Held, Over, Nowhere
        <4> QED BY <2>1, <3>1, <4>1, <4>2 DEF PlaceOf, Over
      <3>3. CASE job[w] # k
        BY <2>1, <3>1, <3>3, Unmoved DEF PlaceInv, Holders
      <3> QED BY <3>2, <3>3
    <2> QED BY <2>1, <2>2 DEF PlaceInv, SubmittedOnce, TypeOK
  <1>11. ASSUME NEW w \in Workers, SpuriousWake(w) PROVE PlaceInv'
    BY <1>11, <1>u DEF SpuriousWake, Q!SpuriousWake, PlaceInv, SubmittedOnce, history
  <1> QED BY <1>1, <1>2, <1>3, <1>4, <1>5, <1>6, <1>7, <1>8, <1>9, <1>10, <1>11
          DEF Next, Call, Destroy, Destructor, Worker, Spin, Terminated

LEMMA PlaceCounts == PlaceInv => EveryTaskInOnePlace
  <1> SUFFICES ASSUME PlaceInv, NEW k \in Tasks
               PROVE  Copies(k) = IF k \in accepted THEN 1 ELSE 0
    BY DEF PlaceInv, EveryTaskInOnePlace
  <1> DEFINE F == {k} \cap finished
             D == {k} \cap dropped
  <1>1. Copies(k) = Cardinality(Positions(k)) + Cardinality(Holders(k))
                    + Cardinality(F) + Cardinality(D)
    BY DEF Copies, Positions, Holders
  <1>2. Cardinality({}) = 0 /\ \A x : Cardinality({x}) = 1
    BY FS_EmptySet, FS_Singleton
  <1>3. /\ Cardinality(F) = IF k \in finished THEN 1 ELSE 0
        /\ Cardinality(D) = IF k \in dropped THEN 1 ELSE 0
    <2>1. F = (IF k \in finished THEN {k} ELSE {}) /\ D = (IF k \in dropped THEN {k} ELSE {})
      OBVIOUS
    <2> HIDE DEF F, D
    <2> QED BY <1>2, <2>1
  <1>4. PlaceOf(k)
    BY DEF PlaceInv
  <1> HIDE DEF F, D
  <1>5. CASE Nowhere(k)
    BY <1>1, <1>2, <1>3, <1>4, <1>5 DEF PlaceOf, Queued, Held, Over, Nowhere
  <1>6. CASE Queued(k)
    <2>1. Cardinality(Positions(k)) = 1 /\ Cardinality(Holders(k)) = 0
      BY <1>2, <1>6, Zenon DEF Queued
    <2> QED BY <1>1, <1>3, <1>4, <1>6, <2>1 DEF PlaceOf, Queued, Nowhere
  <1>7. CASE Held(k)
    <2>1. Cardinality(Holders(k)) = 1 /\ Cardinality(Positions(k)) = 0
      BY <1>2, <1>7, Zenon DEF Held
    <2> QED BY <1>1, <1>3, <1>4, <1>7, <2>1 DEF PlaceOf, Held, Nowhere
  <1>8. CASE Over(k)
    <2>1. Cardinality(Positions(k)) = 0 /\ Cardinality(Holders(k)) = 0
      BY <1>2, <1>8 DEF Over
    <2> QED BY <1>1, <1>3, <1>4, <1>8, <2>1 DEF PlaceOf, Over, Nowhere
  <1> QED BY <1>4, <1>5, <1>6, <1>7, <1>8 DEF PlaceOf

(* No task is lost and none runs twice, whatever the workers, the submitters  *)
(* and the destructor interleave: a task that was pushed is once in the queue,*)
(* or with one worker, or finished, or dropped by a pool that is stopping.    *)
THEOREM EveryTaskHasOnePlace == Spec => []EveryTaskInOnePlace
  BY PlaceInit, PlaceStep, PlaceCounts, PoolTypeCorrect, PTL DEF Spec
================================================================================
