-------------------------- MODULE LockFreeStack_proofs --------------------------
(* The shape of the lock-free stack, for any number of threads and pushes.    *)
EXTENDS LockFreeStack, TLAPS

(* What each thread knows between its steps: its new node is its own, not in  *)
(* the list, and before the compare-exchange already linked to oldHead.       *)
Private == /\ \A t \in Threads : newNode[t] # Null => newNode[t] \notin InList
           /\ \A t, u \in Threads : newNode[t] # Null /\ newNode[t] = newNode[u] => t = u
           /\ \A t \in Threads : pc[t] = "cas" => next[newNode[t]] = oldHead[t]

IInv == TypeOK /\ ListIsHistory /\ Private

LEMMA StackInit == Init => IInv
  <1> SUFFICES ASSUME Init PROVE IInv
    OBVIOUS
  <1>1. pushed \in Seq(Nodes) /\ DOMAIN pushed = {}
    BY DEF Init
  <1> QED BY <1>1, LockFreeStackAssumption DEF Init, IInv, TypeOK, ListIsHistory, Private, InList

LEMMA PushStep == ASSUME IInv, NEW t \in Threads, Push(t) PROVE IInv'
  <1> DEFINE n == Fresh
  <1>0. n \in Nodes \ Owned
    BY DEF Push, Fresh
  <1>1. /\ newNode' = [newNode EXCEPT ![t] = n]
        /\ next' = [next EXCEPT ![n] = Null]
    BY DEF Push
  <1>2. n \in Nodes /\ n \notin InList /\ (\A u \in Threads : newNode[u] # n) /\ n # Null
    BY <1>0, LockFreeStackAssumption DEF Owned
  <1> HIDE DEF n
  <1>3. TypeOK'
    BY <1>1, <1>2 DEF IInv, TypeOK, Push, Goto
  <1>4. ListIsHistory'
    BY <1>1, <1>2 DEF IInv, TypeOK, ListIsHistory, InList, Push
  <1>5. InList' = InList
    BY DEF InList, Push
  <1>6. Private'
    BY <1>1, <1>2, <1>5 DEF IInv, TypeOK, Private, Push, Goto
  <1> QED BY <1>3, <1>4, <1>6 DEF IInv

LEMMA LoadStep == ASSUME IInv, NEW t \in Threads, LoadHead(t) PROVE IInv'
  BY DEF IInv, TypeOK, ListIsHistory, Private, InList, LoadHead, Goto

LEMMA StoreStep == ASSUME IInv, NEW t \in Threads, StoreNext(t) PROVE IInv'
  <1>1. newNode[t] # Null /\ newNode[t] \in Nodes /\ newNode[t] \notin InList
    BY LockFreeStackAssumption DEF IInv, TypeOK, Private, StoreNext
  <1>2. TypeOK'
    BY <1>1 DEF IInv, TypeOK, StoreNext, Goto
  <1>3. ListIsHistory'
    BY <1>1 DEF IInv, TypeOK, ListIsHistory, InList, StoreNext
  <1>4. Private'
    BY <1>1 DEF IInv, TypeOK, Private, InList, StoreNext, Goto
  <1> QED BY <1>2, <1>3, <1>4 DEF IInv

LEMMA SwingStep == ASSUME IInv, NEW t \in Threads, i[t] < Pushes, SwingHead(t) PROVE IInv'
  <1>1. CASE Publish(t) /\ head = oldHead[t]
    <2> DEFINE n == newNode[t]
               L == Len(pushed)
    <2>1. n # Null /\ n \in Nodes /\ n \notin InList /\ next[n] = head
      BY <1>1, LockFreeStackAssumption DEF IInv, TypeOK, Private, SwingHead
    <2>2. /\ pushed \in Seq(Nodes) /\ L \in Nat /\ DOMAIN pushed = 1 .. L
          /\ pushed' = Append(pushed, n) /\ DOMAIN pushed' = 1 .. L + 1 /\ Len(pushed') = L + 1
          /\ pushed'[L + 1] = n
          /\ \A k \in 1 .. L : pushed'[k] = pushed[k]
      BY <1>1, <2>1 DEF IInv, TypeOK, Publish
    <2>3. next' = next /\ head' = n
      BY <1>1 DEF SwingHead, Publish
    <2>4. TypeOK'
      <3>1. pushed' \in Seq(Nodes)
        BY <2>1, <2>2
      <3>2. i' \in [Threads -> 0 .. Pushes]
        BY <1>1, LockFreeStackAssumption DEF IInv, TypeOK, Publish
      <3> QED BY <1>1, <2>1, <2>3, <3>1, <3>2 DEF IInv, TypeOK, SwingHead, Publish, Goto
    <2>5. ListIsHistory'
      <3>1. head' = IF pushed' = <<>> THEN Null ELSE pushed'[Len(pushed')]
        BY <2>2, <2>3
      <3>2. ASSUME NEW k \in DOMAIN pushed'
            PROVE  next'[pushed'[k]] = IF k = 1 THEN Null ELSE pushed'[k - 1]
        <4>1. CASE k \in 1 .. L
          BY <2>2, <2>3, <4>1 DEF IInv, ListIsHistory
        <4>2. CASE k = L + 1 /\ L > 0
          <5>1. pushed # <<>> /\ L \in 1 .. L
            BY <2>2, <4>2
          <5>2. next[n] = pushed[L]
            BY <2>1, <5>1 DEF IInv, ListIsHistory
          <5> QED BY <2>2, <2>3, <4>2, <5>1, <5>2
        <4>3. CASE k = L + 1 /\ L = 0
          <5>1. pushed = <<>>
            BY <2>2, <4>3
          <5>2. next[n] = Null
            BY <2>1, <5>1 DEF IInv, ListIsHistory
          <5> QED BY <2>2, <2>3, <4>3, <5>2
        <4> QED BY <2>2, <4>1, <4>2, <4>3
      <3>3. ASSUME NEW j \in DOMAIN pushed', NEW k \in DOMAIN pushed', pushed'[j] = pushed'[k]
            PROVE  j = k
        BY <2>1, <2>2, <3>3 DEF IInv, ListIsHistory, InList
      <3> QED BY <3>1, <3>2, <3>3 DEF ListIsHistory
    <2>6. Private'
      <3>1. InList' \subseteq InList \cup {n}
        BY <2>2 DEF InList
      <3>2. newNode' = [newNode EXCEPT ![t] = Null] /\ pc' = [pc EXCEPT ![t] = "loop"] /\ oldHead' = oldHead
        BY <1>1 DEF SwingHead, Publish, Goto
      <3>3. ASSUME NEW u \in Threads, newNode'[u] # Null PROVE newNode'[u] \notin InList'
        BY <2>1, <3>1, <3>2, <3>3 DEF IInv, TypeOK, Private
      <3>4. ASSUME NEW u \in Threads, NEW v \in Threads, newNode'[u] # Null, newNode'[u] = newNode'[v]
            PROVE  u = v
        BY <3>2, <3>4 DEF IInv, TypeOK, Private
      <3>5. ASSUME NEW u \in Threads, pc'[u] = "cas" PROVE next'[newNode'[u]] = oldHead'[u]
        BY <2>3, <3>2, <3>5 DEF IInv, TypeOK, Private
      <3> QED BY <3>3, <3>4, <3>5 DEF Private
    <2> QED BY <2>4, <2>5, <2>6 DEF IInv
  <1>2. CASE Goto(t, "load") /\ UNCHANGED <<head, next, newNode, oldHead, i, pushed>>
    <2>1. newNode[t] # Null
      BY DEF IInv, TypeOK, SwingHead
    <2> QED BY <1>2, <2>1 DEF IInv, TypeOK, ListIsHistory, Private, InList, Goto
  <1> QED BY <1>1, <1>2 DEF SwingHead

(* A thread on its way through push has not used up its pushes. *)
InProgress == \A t \in Threads : pc[t] # "loop" => i[t] < Pushes

LEMMA InProgressStep == TypeOK /\ InProgress /\ [Next]_vars => InProgress'
  BY DEF TypeOK, InProgress, Next, Worker, Push, LoadHead, StoreNext, SwingHead, Publish, Goto, vars

LEMMA StackStep == IInv /\ InProgress /\ [Next]_vars => IInv'
  <1> SUFFICES ASSUME IInv, InProgress, [Next]_vars PROVE IInv'
    OBVIOUS
  <1>1. CASE UNCHANGED vars
    BY <1>1 DEF vars, IInv, TypeOK, ListIsHistory, Private, InList
  <1>2. ASSUME NEW t \in Threads, SwingHead(t) PROVE IInv'
    <2>1. i[t] < Pushes
      BY <1>2 DEF InProgress, SwingHead
    <2> QED BY <1>2, <2>1, SwingStep
  <1> QED BY <1>1, <1>2, PushStep, LoadStep, StoreStep DEF Next, Worker

LEMMA StackInvariant == Spec => [](IInv /\ InProgress)
  <1>1. Init => InProgress
    BY DEF Init, InProgress
  <1>2. IInv => TypeOK
    BY DEF IInv
  <1> QED BY <1>1, <1>2, StackInit, StackStep, InProgressStep, PTL DEF Spec

(* Types, and: a thread holds a new node exactly while it is inside push.     *)
THEOREM StackTypeCorrect == Spec => []TypeOK
  <1>1. IInv => TypeOK
    BY DEF IInv
  <1> QED BY <1>1, StackInvariant, PTL

(* The list hanging from head is the history of the pushes: no push is lost   *)
(* or duplicated by threads racing between load and compare-exchange.         *)
THEOREM StackIsHistory == Spec => []ListIsHistory
  <1>1. IInv => ListIsHistory
    BY DEF IInv
  <1> QED BY <1>1, StackInvariant, PTL

(* No thread ever writes to a node that other threads can reach.              *)
THEOREM StackIsFrozen == Spec => PublishedNodesAreFrozen
  <1>1. IInv /\ [Next]_vars => [\A n \in InList : next'[n] = next[n]]_vars
    <2> SUFFICES ASSUME IInv, Next PROVE \A n \in InList : next'[n] = next[n]
      OBVIOUS
    <2>0. CASE UNCHANGED vars
      BY <2>0 DEF vars
    <2>i. InList \subseteq Nodes
      BY DEF IInv, TypeOK, InList
    <2>1. ASSUME NEW t \in Threads, Push(t) PROVE \A n \in InList : next'[n] = next[n]
      <3>1. PICK m \in Nodes \ Owned : next' = [next EXCEPT ![m] = Null]
        BY <2>1 DEF Push, Fresh
      <3> QED BY <2>i, <3>1 DEF IInv, TypeOK, Owned
    <2>2. ASSUME NEW t \in Threads, StoreNext(t) PROVE \A n \in InList : next'[n] = next[n]
      <3>1. newNode[t] \notin InList
        BY <2>2 DEF IInv, TypeOK, Private, StoreNext
      <3> QED BY <2>2, <2>i, <3>1 DEF IInv, TypeOK, StoreNext
    <2>3. ASSUME NEW t \in Threads, LoadHead(t) \/ SwingHead(t)
          PROVE  \A n \in InList : next'[n] = next[n]
      BY <2>3 DEF LoadHead, SwingHead
    <2> QED BY <2>0, <2>1, <2>2, <2>3 DEF Next, Worker
  <1> QED BY <1>1, StackInvariant, PTL DEF Spec, PublishedNodesAreFrozen
================================================================================
