------------------------- MODULE ConcurrentQueue_proofs -------------------------
(* Theorems about ConcurrentQueue, for every set of threads and values and   *)
(* every capacity.                                                            *)
EXTENDS ConcurrentQueue, FiniteSetTheorems, TLAPS

(* The steps of one thread, named once for all the case splits below. *)
Step(t) == \/ \E v \in Values : Push(t, v)
           \/ PushWake(t)
           \/ NotifyOne(t)
           \/ Pop(t) \/ PopWake(t)
           \/ TryPop(t)
           \/ Close(t)
           \/ SpuriousWake(t)

LEMMA NextIsStep == Next => \E t \in Threads : Step(t)
  BY DEF Next, Step, Continue

LEMMA TypeInit == Init => TypeOK
  <1>1. ASSUME Init PROVE TypeOK
    <2>1. q \in Seq(Values)
      BY <1>1 DEF Init
    <2> QED BY <1>1, <2>1 DEF Init, TypeOK, Ops, Outcomes, InPush
  <1> QED BY <1>1

LEMMA PusherHasValue == ASSUME TypeOK, NEW t \in Threads, InPush(t) PROVE call[t].arg \in Values
  BY DEF TypeOK, InPush, InPop

(* TypeOK is inductive by itself. *)
LEMMA TypeStep == TypeOK /\ [Next]_vars => TypeOK'
  <1> SUFFICES ASSUME TypeOK, [Next]_vars PROVE TypeOK'
    OBVIOUS
  <1>f. UNCHANGED capacity
    BY DEF Next, vars
  <1> USE QueueAssumption, <1>f
  <1>1. CASE UNCHANGED vars
    BY <1>1 DEF TypeOK, vars, Blocked, InPush, InPop
  <1>2. ASSUME NEW t \in Threads, Step(t) PROVE TypeOK'
    <2> USE DEF TypeOK, Ops, Outcomes, Set, Ready, Blocked, InPush, InPop
    <2>a. ASSUME NEW v \in Values, Enqueue(t, v), t \notin asleep PROVE TypeOK'
      BY <2>a DEF Enqueue
    <2>b. ASSUME NEW v \in Values, Sleep(t, "pushing", v) PROVE TypeOK'
      BY <2>b DEF Sleep
    <2>c. ASSUME NEW o \in Outcomes, Set(t, o, NoValue), t \notin asleep,
                 UNCHANGED <<q, closed, asleep>>
          PROVE TypeOK'
      BY <2>c
    <2>d. Ready(t) => t \notin asleep
      OBVIOUS
    <2>1. ASSUME NEW v \in Values, Push(t, v) PROVE TypeOK'
      <3>1. "push_threw" \in Outcomes
        OBVIOUS
      <3>2. Ready(t)
        BY <2>1 DEF Push
      <3> HIDE DEF TypeOK, Ops, Outcomes, Set, Ready, Blocked, InPush, InPop
      <3> QED BY <2>1, <2>a, <2>b, <2>c, <2>d, <3>1, <3>2 DEF Push
    <2>2. CASE PushWake(t)
      <3>1. "dropped" \in Outcomes
        OBVIOUS
      <3> HIDE DEF TypeOK, Ops, Outcomes, Set, Ready, Blocked, InPush, InPop
      <3>2. call[t].arg \in Values /\ t \notin asleep
        BY <2>2, PusherHasValue DEF PushWake
      <3> QED BY <2>2, <2>a, <2>b, <2>c, <3>1, <3>2 DEF PushWake
    <2>3. CASE NotifyOne(t)
      BY <2>3 DEF NotifyOne
    <2>4. CASE (Ready(t) \/ (InPop(t) /\ t \notin asleep)) /\ PopBody(t)
      <3>1. CASE Dequeue(t)
        BY <2>4, <3>1 DEF Dequeue
      <3>2. CASE Sleep(t, "popping", NoValue)
        BY <3>2 DEF Sleep
      <3>3. CASE Set(t, "pop_threw", NoValue) /\ UNCHANGED <<q, closed, asleep>>
        <4>1. "pop_threw" \in Outcomes /\ t \notin asleep
          BY <2>4
        <4> HIDE DEF TypeOK, Ops, Outcomes, Set, Ready, Blocked, InPush, InPop
        <4> QED BY <2>c, <3>3, <4>1
      <3> QED BY <2>4, <3>1, <3>2, <3>3 DEF PopBody
    <2>5. CASE TryPop(t)
      <3>1. CASE Dequeue(t)
        BY <2>5, <3>1 DEF TryPop, Dequeue
      <3>2. CASE ~Dequeue(t)
        BY <2>5, <3>2 DEF TryPop
      <3> QED BY <3>1, <3>2
    <2>6. CASE Close(t)
      BY <2>6 DEF Close
    <2>7. CASE SpuriousWake(t)
      BY <2>7 DEF SpuriousWake
    <2> QED BY <1>2, <2>1, <2>2, <2>3, <2>4, <2>5, <2>6, <2>7 DEF Step, Pop, PopWake
  <1> QED BY <1>1, <1>2, NextIsStep

(* Every reachable state is well typed, and the wait set of the condition     *)
(* variable holds only threads that are inside pop or push.                   *)
THEOREM TypeCorrect == Spec => []TypeOK
  BY TypeInit, TypeStep, PTL DEF Spec
--------------------------------------------------------------------------------
LEMMA CapacityStep == TypeOK /\ CapacityRespected /\ [Next]_vars => CapacityRespected'
  <1> SUFFICES ASSUME TypeOK, CapacityRespected, [Next]_vars, capacity' > 0
               PROVE  Len(q') <= capacity'
    BY DEF CapacityRespected
  <1>f. capacity' = capacity
    BY DEF Next, vars
  <1> USE <1>f
  <1>0. Len(q) <= capacity /\ Len(q) \in Nat /\ capacity \in Nat /\ q \in Seq(Values)
    BY QueueAssumption DEF CapacityRespected, TypeOK
  <1>1. CASE q' = q
    BY <1>0, <1>1
  <1>2. ASSUME NEW v \in Values, HasRoom, q' = Append(q, v) PROVE Len(q') <= capacity
    BY <1>0, <1>2 DEF HasRoom
  <1>3. CASE q # <<>> /\ q' = Tail(q)
    BY <1>0, <1>3
  <1>4. ASSUME NEW t \in Threads, Step(t)
        PROVE  q' = q \/ (HasRoom /\ \E v \in Values : q' = Append(q, v))
                      \/ (q # <<>> /\ q' = Tail(q))
    BY <1>4, PusherHasValue DEF Step, Push, PushWake, NotifyOne, Pop, PopWake, PopBody, TryPop,
                Close, SpuriousWake, Enqueue, Dequeue, Sleep
  <1>5. CASE UNCHANGED vars
    BY <1>1, <1>5 DEF vars
  <1> QED BY <1>1, <1>2, <1>3, <1>4, <1>5, NextIsStep

(* The queue never outgrows the capacity, although a pusher may have slept,   *)
(* been woken and been overtaken between two looks at the queue.              *)
THEOREM CapacityHolds == Spec => []CapacityRespected
  <1>1. Init => CapacityRespected
    BY QueueAssumption DEF Init, CapacityRespected
  <1> QED BY <1>1, CapacityStep, TypeCorrect, PTL DEF Spec
--------------------------------------------------------------------------------
(* NoLostWakeup is inductive once it is known that an unbounded queue makes   *)
(* no pusher wait, so that every notification finds a popper.                 *)
NobodyInPush == capacity = 0 => \A t \in Threads : ~InPush(t)
WakeupInv == NobodyInPush /\ NoLostWakeup

LEMMA CountsAreNat ==
  /\ IsFiniteSet(Notifiers) /\ Cardinality(Notifiers) \in Nat
  /\ IsFiniteSet(Woken) /\ Cardinality(Woken) \in Nat
  <1>1. Notifiers \in SUBSET Threads /\ Woken \in SUBSET Threads
    BY DEF Notifiers, Woken
  <1> QED BY <1>1, QueueAssumption, FS_Subset, FS_CardinalityType

LEMMA NobodyInPushStep == TypeOK /\ NobodyInPush /\ [Next]_vars => NobodyInPush'
  <1> SUFFICES ASSUME TypeOK, [Next]_vars, capacity = 0, \A t \in Threads : ~InPush(t)
               PROVE  \A t \in Threads : ~InPush(t)'
    BY DEF NobodyInPush, Next, vars
  <1>1. CASE UNCHANGED vars
    BY <1>1 DEF vars, InPush
  <1>2. ASSUME NEW t \in Threads, Step(t) PROVE \A u \in Threads : ~InPush(u)'
    BY <1>2 DEF TypeOK, Step, Push, PushWake, NotifyOne, Pop, PopWake, PopBody, TryPop, Close,
                SpuriousWake, Enqueue, Dequeue, Sleep, InPush, HasRoom, Set
  <1> QED BY <1>1, <1>2, NextIsStep

LEMMA WakeupStep == TypeOK /\ WakeupInv /\ [Next]_vars => NoLostWakeup'
  <1> SUFFICES ASSUME TypeOK, WakeupInv, [Next]_vars, capacity = 0, asleep' # {}
               PROVE  Len(q') <= Cardinality(Notifiers') + Cardinality(Woken')
    BY DEF NoLostWakeup, Next, vars
  <1> DEFINE N == Cardinality(Notifiers)
             W == Cardinality(Woken)
             Goal == Len(q') <= Cardinality(Notifiers') + Cardinality(Woken')
  <1>0. /\ N \in Nat /\ W \in Nat
        /\ IsFiniteSet(Notifiers) /\ IsFiniteSet(Woken)
        /\ q \in Seq(Values) /\ Len(q) \in Nat
        /\ asleep # {} => Len(q) <= N + W
        /\ \A t \in Threads : ~InPush(t)
    BY CountsAreNat DEF TypeOK, WakeupInv, NoLostWakeup, NobodyInPush
  <1>t. TypeOK'
    BY TypeStep
  <1>n. Cardinality(Notifiers') \in Nat /\ Cardinality(Woken') \in Nat
    <2>1. Notifiers' \in SUBSET Threads /\ Woken' \in SUBSET Threads
      BY DEF Notifiers, Woken
    <2> QED BY <2>1, QueueAssumption, FS_Subset, FS_CardinalityType
  <1>1. CASE UNCHANGED vars
    <2>1. Notifiers' = Notifiers /\ Woken' = Woken /\ q' = q /\ asleep' = asleep
      BY <1>1 DEF vars, Notifiers, Woken, InPop
    <2> QED BY <1>0, <2>1
  <1>e. q' = <<>> => Goal
    BY <1>n
  <1>2. ASSUME NEW t \in Threads, Step(t) PROVE Goal
    <2> USE DEF Set
    <2>1. ASSUME NEW v \in Values, Ready(t), Enqueue(t, v) PROVE Goal
      <3>1. Notifiers' = Notifiers \cup {t} /\ t \notin Notifiers
        BY <2>1 DEF Ready, Enqueue, Notifiers, TypeOK, Outcomes
      <3>2. Woken' = Woken
        BY <2>1 DEF Ready, Enqueue, Woken, InPop, TypeOK, Outcomes
      <3>3. Cardinality(Notifiers') = N + 1
        BY <3>1, <1>0, FS_AddElement
      <3>4. Len(q') = Len(q) + 1 /\ asleep' = asleep
        BY <2>1, <1>0 DEF Enqueue
      <3> QED BY <1>0, <3>2, <3>3, <3>4
    <2>2. CASE NotifyOne(t)
      <3>1. PICK s \in asleep : asleep' = asleep \ {s}
        BY <2>2 DEF NotifyOne
      <3>2. s \in Threads /\ InPop(s) /\ s # t /\ s \notin Woken
        BY <1>0, <2>2 DEF TypeOK, Blocked, NotifyOne, InPop, Woken
      <3>3. Notifiers' = Notifiers \ {t} /\ t \in Notifiers
        BY <2>2 DEF NotifyOne, Notifiers, TypeOK
      <3>4. Woken' = Woken \cup {s}
        BY <2>2, <3>1, <3>2 DEF NotifyOne, Woken, InPop, TypeOK
      <3>5. Cardinality(Notifiers') = N - 1 /\ Cardinality(Woken') = W + 1
        BY <3>2, <3>3, <3>4, <1>0, FS_AddElement, FS_RemoveElement
      <3>6. q' = q
        BY <2>2 DEF NotifyOne
      <3> QED BY <1>0, <3>1, <3>5, <3>6
    <2>3. CASE Dequeue(t) /\ Ready(t)
      <3>1. Notifiers' = Notifiers /\ Woken' = Woken
        BY <2>3 DEF Dequeue, Ready, Notifiers, Woken, InPop, TypeOK, Outcomes
      <3>2. Len(q') = Len(q) - 1 /\ asleep' = asleep
        BY <2>3, <1>0 DEF Dequeue
      <3> QED BY <1>0, <3>1, <3>2
    <2>4. CASE Dequeue(t) /\ InPop(t) /\ t \notin asleep
      <3>1. Notifiers' = Notifiers
        BY <2>4 DEF Dequeue, InPop, Notifiers, TypeOK
      <3>2. Woken' = Woken \ {t} /\ t \in Woken
        BY <2>4 DEF Dequeue, InPop, Woken, TypeOK
      <3>3. Cardinality(Woken') = W - 1
        BY <3>2, <1>0, FS_RemoveElement
      <3>4. Len(q') = Len(q) - 1 /\ asleep' = asleep
        BY <2>4, <1>0 DEF Dequeue
      <3> QED BY <1>0, <3>1, <3>3, <3>4
    <2>5. CASE PopBody(t) /\ ~Dequeue(t)
      BY <2>5, <1>e DEF PopBody, Sleep
    <2>6. CASE TryPop(t) /\ ~Dequeue(t)
      BY <2>6, <1>e DEF TryPop
    <2>7. ASSUME NEW o \in Outcomes, Ready(t), Set(t, o, NoValue), UNCHANGED <<q, closed, asleep>>
          PROVE  Goal
      <3>1. Notifiers' = Notifiers /\ Woken' = Woken
        BY <2>7 DEF Ready, Notifiers, Woken, InPop, TypeOK, Outcomes
      <3> QED BY <1>0, <2>7, <3>1
    <2>8. CASE SpuriousWake(t)
      <3>1. Notifiers' = Notifiers /\ Woken' = Woken \cup {t}
        BY <2>8, <1>0 DEF SpuriousWake, Notifiers, Woken, InPop, TypeOK, Blocked
      <3>2. Cardinality(Woken') = IF t \in Woken THEN W ELSE W + 1
        BY <3>1, <1>0, FS_AddElement
      <3>3. q' = q /\ asleep # {}
        BY <2>8 DEF SpuriousWake
      <3> QED BY <1>0, <1>n, <3>1, <3>2, <3>3
    <2>9. ASSUME NEW v \in Values, Push(t, v) PROVE Goal
      <3>1. "push_threw" \in Outcomes
        BY DEF Outcomes
      <3>2. HasRoom
        BY DEF HasRoom
      <3> QED BY <2>1, <2>7, <2>9, <3>1, <3>2 DEF Push
    <2>10. CASE Close(t)
      BY <2>10 DEF Close
    <2>11. ~PushWake(t)
      BY <1>0 DEF PushWake
    <2> QED BY <1>2, <2>2, <2>3, <2>4, <2>5, <2>6, <2>8, <2>9, <2>10, <2>11
            DEF Step, Pop, PopWake, TryPop
  <1> QED BY <1>1, <1>2, NextIsStep

(* In an unbounded queue no wakeup is lost, although notify_one runs after    *)
(* the unlock: an item never sits in the queue beside a sleeping popper       *)
(* without a thread on its way to it.                                         *)
THEOREM WakeupsHold == Spec => []NoLostWakeup
  <1>1. Init => WakeupInv
    BY DEF Init, WakeupInv, NobodyInPush, NoLostWakeup, InPush
  <1>2. TypeOK /\ WakeupInv /\ [Next]_vars => WakeupInv'
    BY NobodyInPushStep, WakeupStep DEF WakeupInv
  <1>3. WakeupInv => NoLostWakeup
    BY DEF WakeupInv
  <1> QED BY <1>1, <1>2, <1>3, TypeCorrect, PTL DEF Spec
--------------------------------------------------------------------------------
(* The refinement mapping of FifoSpec: "notify" is an already finished push.  *)
Status == [t \in Threads |-> IF call[t].op = "notify"
                             THEN [op |-> "pushed", arg |-> NoValue]
                             ELSE call[t]]

LEMMA StatusAfter ==
  ASSUME TypeOK, NEW t \in Threads, NEW o, NEW v, Set(t, o, v)
  PROVE  Status' = [Status EXCEPT ![t] = IF o = "notify" THEN [op |-> "pushed", arg |-> NoValue]
                                                         ELSE [op |-> o, arg |-> v]]
  BY DEF TypeOK, Set, Status

LEMMA FifoInit == Init => Fifo!Init
  BY DEF Init, Fifo!Init

LEMMA FifoStep == TypeOK /\ [Next]_vars => [Fifo!Next]_(Fifo!vars)
  <1> SUFFICES ASSUME TypeOK, [Next]_vars PROVE [Fifo!Next]_(Fifo!vars)
    OBVIOUS
  <1> DEFINE Goal == Fifo!Next \/ UNCHANGED <<q, closed, Status>>
  <1>f. UNCHANGED capacity
    BY DEF Next, vars
  <1> USE <1>f
  <1>0. SUFFICES Goal
    BY DEF Fifo!vars, Status
  <1>1. CASE UNCHANGED vars
    BY <1>1 DEF vars, Status
  <1>2. ASSUME NEW t \in Threads, Step(t) PROVE Goal
    <2>0. /\ call[t].op = "notify" \/ Status[t] = call[t]
          /\ Ready(t) => ~Fifo!Blocked(t) /\ Status[t].op # "pushing"
          /\ InPush(t) => Fifo!Blocked(t) /\ Status[t] = [op |-> "pushing", arg |-> call[t].arg]
          /\ InPop(t) => Fifo!Blocked(t) /\ Status[t].op = "popping"
      BY DEF TypeOK, Ready, InPush, InPop, Fifo!Blocked, Status, Outcomes
    <2>s. ASSUME NEW o, NEW v, Set(t, o, v), o # "notify"
          PROVE  Fifo!Finish(t, o, v)
      BY <2>s, StatusAfter DEF Fifo!Finish, Status
    <2>1. ASSUME NEW v \in Values, Enqueue(t, v), ~closed, HasRoom,
                 Ready(t) \/ (InPush(t) /\ v = call[t].arg)
          PROVE  Fifo!Put(t, v)
      <3>1. Fifo!Finish(t, "pushed", NoValue)
        BY <2>1, StatusAfter DEF Enqueue, Fifo!Finish, Status
      <3> QED BY <2>0, <2>1, <3>1 DEF Enqueue, Fifo!Put, HasRoom, Fifo!HasRoom, Status
    <2>2. ASSUME NEW v \in Values, Push(t, v) PROVE Goal
      <3>1. CASE closed
        BY <2>0, <2>2, <2>s, <3>1 DEF Push, Fifo!Next, Fifo!PushRefused
      <3>2. CASE ~closed /\ HasRoom
        BY <2>1, <2>2, <3>2 DEF Push, Fifo!Next
      <3>3. CASE ~closed /\ ~HasRoom
        BY <2>0, <2>2, <2>s, <3>3 DEF Push, Sleep, Fifo!Next, Fifo!Wait
      <3> QED BY <3>1, <3>2, <3>3
    <2>3. CASE PushWake(t)
      <3>1. InPush(t) /\ call[t].arg \in Values
        BY <2>3, PusherHasValue DEF PushWake
      <3>2. CASE closed
        BY <2>0, <2>3, <2>s, <3>1, <3>2 DEF PushWake, InPush, Fifo!Next, Fifo!GiveUp
      <3>3. CASE ~closed /\ HasRoom
        BY <2>1, <2>3, <3>1, <3>3 DEF PushWake, Fifo!Next
      <3>4. CASE ~closed /\ ~HasRoom
        <4>1. Set(t, "pushing", call[t].arg) /\ UNCHANGED <<q, closed>>
          BY <2>3, <3>4 DEF PushWake, Sleep
        <4>2. call' = call
          BY <3>1, <4>1 DEF Set, InPush, TypeOK
        <4> QED BY <4>1, <4>2 DEF Status
      <3> QED BY <3>2, <3>3, <3>4
    <2>4. CASE NotifyOne(t)
      <3>1. Status' = Status
        BY <2>4 DEF NotifyOne, Set, Status, TypeOK
      <3> QED BY <2>4, <3>1 DEF NotifyOne
    <2>5. ASSUME Dequeue(t), Ready(t) \/ InPop(t) PROVE Fifo!Take(t)
      <3>1. Status[t].op # "pushing"
        BY <2>0, <2>5 DEF InPop
      <3>2. Fifo!Finish(t, "popped", Head(q))
        BY <2>5, StatusAfter DEF Dequeue, Fifo!Finish, Status
      <3> QED BY <2>5, <3>1, <3>2 DEF Dequeue, Fifo!Take, Status
    <2>6. CASE Pop(t) \/ PopWake(t)
      <3>0. PopBody(t) /\ (Ready(t) \/ InPop(t))
        BY <2>6 DEF Pop, PopWake
      <3>1. CASE Dequeue(t)
        BY <2>5, <3>0, <3>1 DEF Fifo!Next
      <3>2. CASE q = <<>> /\ closed /\ ~Dequeue(t)
        BY <2>0, <2>s, <3>0, <3>2 DEF PopBody, InPop, Fifo!Next, Fifo!PopRefused
      <3>3. CASE q = <<>> /\ ~closed /\ ~Dequeue(t) /\ Ready(t)
        BY <2>0, <2>s, <3>0, <3>3 DEF PopBody, Sleep, Fifo!Next, Fifo!Wait
      <3>4. CASE q = <<>> /\ ~closed /\ ~Dequeue(t) /\ InPop(t)
        <4>1. Set(t, "popping", NoValue) /\ UNCHANGED <<q, closed>>
          BY <3>0, <3>4 DEF PopBody, Sleep
        <4>2. call' = call
          BY <3>4, <4>1 DEF Set, InPop, TypeOK
        <4> QED BY <4>1, <4>2 DEF Status
      <3> QED BY <3>0, <3>1, <3>2, <3>3, <3>4 DEF PopBody, Dequeue
    <2>7. CASE TryPop(t)
      <3>1. CASE Dequeue(t)
        BY <2>5, <2>7, <3>1 DEF TryPop, Fifo!Next
      <3>2. CASE ~Dequeue(t)
        BY <2>0, <2>7, <2>s, <3>2 DEF TryPop, Fifo!Next, Fifo!Miss
      <3> QED BY <3>1, <3>2
    <2>8. CASE Close(t)
      BY <2>0, <2>8, <2>s DEF Close, Fifo!Next, Fifo!Close
    <2>9. CASE SpuriousWake(t)
      BY <2>9 DEF SpuriousWake, Status
    <2> QED BY <1>2, <2>2, <2>3, <2>4, <2>6, <2>7, <2>8, <2>9 DEF Step
  <1> QED BY <1>1, <1>2, NextIsStep

(* concurrent_queue is a linearizable FIFO: every execution of the code with  *)
(* its condition variable is one of the abstract queue of FifoQueue.          *)
THEOREM ImplementsFifo == Spec => FifoSpec
  BY FifoInit, FifoStep, TypeCorrect, PTL DEF Spec, FifoSpec, Fifo!Spec
================================================================================
