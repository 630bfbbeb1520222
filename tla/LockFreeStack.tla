----------------------------- MODULE LockFreeStack -----------------------------
(***************************************************************************)
(* LockFreeStack<T> (Lock Free Programming/Data Structures/                *)
(* lock_free_stack.cc): a Treiber stack with push only, filled by          *)
(* num_threads threads.  Each push allocates a node, then loops: load      *)
(* head, store it in the new node's next, compare-exchange head.  A node   *)
(* is identified with the push that allocates it: nothing is deleted while *)
(* the threads run, so no cell is used twice.                              *)
(***************************************************************************)
EXTENDS Naturals, Sequences, FiniteSets

CONSTANTS Threads,  (* the worker threads                                   *)
          Nodes,    (* the nodes that `new Node` returns, each at most once *)
          Null,     (* nullptr                                              *)
          Pushes,   (* pushes_per_thread                                    *)
          WeakCasMayFail  (* compare_exchange_weak fails spuriously         *)

ASSUME LockFreeStackAssumption == /\ IsFiniteSet(Threads) /\ IsFiniteSet(Nodes)
                                  /\ Null \notin Nodes
                                  /\ Pushes \in Nat
                                  /\ WeakCasMayFail \in BOOLEAN

VARIABLES head,     (* std::atomic<Node*> head                              *)
          next,     (* per node: Node::next                                 *)
          pc,       (* per thread: "loop", "load", "store", "cas"           *)
          newNode,  (* per thread: newNode                                  *)
          oldHead,  (* per thread: oldHead                                  *)
          i,        (* per thread: i of the worker's loop                   *)
          pushed    (* history: the nodes whose push took effect, in order  *)

vars == <<head, next, pc, newNode, oldHead, i, pushed>>

Init == /\ head = Null
        /\ next = [n \in Nodes |-> Null]
        /\ pc = [t \in Threads |-> "loop"]
        /\ newNode = [t \in Threads |-> Null]
        /\ oldHead = [t \in Threads |-> Null]
        /\ i = [t \in Threads |-> 0]
        /\ pushed = <<>>

InList == {pushed[k] : k \in DOMAIN pushed}
Owned == InList \cup {newNode[t] : t \in Threads}     (* allocated so far *)
Goto(t, loc) == pc' = [pc EXCEPT ![t] = loc]
--------------------------------------------------------------------------------
(* new Node(value); which of the free nodes it is makes no difference. *)
Fresh == CHOOSE n \in Nodes : n \notin Owned

Push(t) == /\ pc[t] = "loop"
           /\ i[t] < Pushes
           /\ Nodes \ Owned # {}
           /\ newNode' = [newNode EXCEPT ![t] = Fresh]
           /\ next' = [next EXCEPT ![Fresh] = Null]
           /\ Goto(t, "load")
           /\ UNCHANGED <<head, oldHead, i, pushed>>

LoadHead(t) == /\ pc[t] = "load"
               /\ oldHead' = [oldHead EXCEPT ![t] = head]
               /\ Goto(t, "store")
               /\ UNCHANGED <<head, next, newNode, i, pushed>>

StoreNothing(t) == /\ pc[t] = "store"
                   /\ Goto(t, "cas")
                   /\ UNCHANGED <<head, next, newNode, oldHead, i, pushed>>
StoreNext(t) == /\ pc[t] = "store"
                /\ next' = [next EXCEPT ![newNode[t]] = oldHead[t]]
                /\ Goto(t, "cas")
                /\ UNCHANGED <<head, newNode, oldHead, i, pushed>>

(* The compare-exchange of head; a failure goes round the loop again.       *)
Publish(t) == /\ head' = newNode[t]
              /\ pushed' = Append(pushed, newNode[t])
              /\ newNode' = [newNode EXCEPT ![t] = Null]
              /\ i' = [i EXCEPT ![t] = @ + 1]
              /\ Goto(t, "loop")

SwingHeadBlindly(t) == pc[t] = "cas" /\ Publish(t) /\ UNCHANGED <<next, oldHead>>
SwingHeadWithoutReload(t) == /\ pc[t] = "cas"
                             /\ \/ head = oldHead[t] /\ Publish(t)
                                \/ /\ head # oldHead[t] \/ WeakCasMayFail
                                   /\ Goto(t, "store")
                                   /\ UNCHANGED <<head, pushed, newNode, i>>
                             /\ UNCHANGED <<next, oldHead>>
SwingHeadInverted(t) == /\ pc[t] = "cas"
                        /\ \/ /\ head = oldHead[t]
                              /\ head' = newNode[t]
                              /\ pushed' = Append(pushed, newNode[t])
                              /\ Goto(t, "load")
                              /\ UNCHANGED <<newNode, i>>
                           \/ head # oldHead[t] /\ Publish(t)
                        /\ UNCHANGED <<next, oldHead>>
SwingHead(t) == /\ pc[t] = "cas"
                /\ \/ head = oldHead[t] /\ Publish(t)
                   \/ /\ head # oldHead[t] \/ WeakCasMayFail
                      /\ Goto(t, "load")
                      /\ UNCHANGED <<head, pushed, newNode, i>>
                /\ UNCHANGED <<next, oldHead>>
--------------------------------------------------------------------------------
Finished == \A t \in Threads : pc[t] = "loop" /\ i[t] = Pushes

Worker(t) == Push(t) \/ LoadHead(t) \/ StoreNext(t) \/ SwingHead(t)

Next == \/ \E t \in Threads : Worker(t)
        \/ Finished /\ UNCHANGED vars

Spec == Init /\ [][Next]_vars

Succeed(t) == SwingHead(t) /\ head' = newNode[t]

(* Every thread keeps being scheduled; there is no lock that could stop it. *)
(* A weak compare-exchange may fail for no reason, but not all of them, for *)
(* ever: some thread that could succeed again and again does.               *)
FairSpec == /\ Spec
            /\ \A t \in Threads : WF_vars(Worker(t))
            /\ SF_vars(\E t \in Threads : Succeed(t))
--------------------------------------------------------------------------------
TypeOK == /\ head \in Nodes \cup {Null}
          /\ next \in [Nodes -> Nodes \cup {Null}]
          /\ pc \in [Threads -> {"loop", "load", "store", "cas"}]
          /\ newNode \in [Threads -> Nodes \cup {Null}]
          /\ oldHead \in [Threads -> Nodes \cup {Null}]
          /\ i \in [Threads -> 0 .. Pushes]
          /\ pushed \in Seq(Nodes)
          /\ \A t \in Threads : newNode[t] = Null <=> pc[t] = "loop"

(* The list is the history of the pushes, newest first, link by link, no    *)
(* node twice and none lost (lock_free_stack.cc lines 27-43), whatever the  *)
(* threads between their load of head and their compare-exchange.           *)
ListIsHistory ==
  /\ head = IF pushed = <<>> THEN Null ELSE pushed[Len(pushed)]
  /\ \A k \in DOMAIN pushed : next[pushed[k]] = IF k = 1 THEN Null ELSE pushed[k - 1]
  /\ \A j, k \in DOMAIN pushed : pushed[j] = pushed[k] => j = k

(* A node in the list never changes: a thread writes only to a node that no *)
(* other thread can see, although it writes after loading the shared head.  *)
PublishedNodesAreFrozen == [][\A n \in InList : next'[n] = next[n]]_vars

(* What main counts after the joins (lines 67-73).                          *)
Elements == LET count[n \in Nodes \cup {Null}, fuel \in 0 .. Cardinality(Nodes)] ==
                  IF n = Null \/ fuel = 0 THEN 0 ELSE 1 + count[next[n], fuel - 1]
            IN count[head, Cardinality(Nodes)]

(* Every push completes: one that has to retry was beaten by another that   *)
(* succeeded, or failed for no reason, and neither can go on for ever.      *)
(* main then counts as many elements in the stack as were pushed.           *)
AllPushesComplete == <>(Finished /\ Elements = Cardinality(Threads) * Pushes)
================================================================================
