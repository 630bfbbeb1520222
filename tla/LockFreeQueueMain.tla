--------------------------- MODULE LockFreeQueueMain ---------------------------
(***************************************************************************)
(* main of lock_free_queue.cc: threads that produce one value each, threads*)
(* that consume until consume answers false and count what they got in a   *)
(* plain int shared without a lock, the joins, and ~LockFreeQueue, which   *)
(* drains what is left and deletes the sentinel.  The accesses of produce   *)
(* and consume to shared memory are LockFreeQueue's.                        *)
(***************************************************************************)
EXTENDS Naturals, Sequences, FiniteSets

CONSTANTS Producers, Consumers, Main, Cells, Null, NoValue,
          WeakCasMayFail       (* compare_exchange_weak fails spuriously     *)

VARIABLES head, tail, next, data, live, used, pc, reg, calls, dangling, sawEmpty,
          at,          (* per thread: its place in its own loop, or main's  *)
          consumed,    (* int consumed, of main                             *)
          temp,        (* per consumer: consumed as it loaded it            *)
          delivered    (* history: values handed out, in order              *)

Q == INSTANCE LockFreeQueue WITH
       Consumers      <- Consumers \cup {Main},
       Values         <- Producers,          \* producer i produces the value i
       MaxProduce     <- Cardinality(Producers)

queueVars == <<head, tail, next, data, live, used, pc, reg, calls, dangling, sawEmpty>>
vars == <<queueVars, at, consumed, temp, delivered>>

Threads == Producers \cup Consumers \cup {Main}

ASSUME MainAssumption == /\ Main \notin Producers \cup Consumers
                         /\ Producers \cap Consumers = {}
                         /\ Null \notin Cells /\ NoValue \notin Producers
                         /\ IsFiniteSet(Cells) /\ IsFiniteSet(Producers)
                         /\ Cardinality(Cells) > Cardinality(Producers)
                         /\ WeakCasMayFail \in BOOLEAN

Init == /\ Q!Init
        /\ at = [t \in Threads |-> IF t = Main THEN "join" ELSE "call"]
        /\ consumed = 0
        /\ temp = [t \in Consumers |-> 0]
        /\ delivered = <<>>

Goto(t, loc) == at' = [at EXCEPT ![t] = loc]
--------------------------------------------------------------------------------
(* threads.emplace_back(&produce, &lfq, i) *)
ProducerRun(t) == \/ /\ at[t] = "call"
                     /\ Q!Produce(t, t)
                     /\ Goto(t, "in")
                     /\ UNCHANGED <<consumed, temp, delivered>>
                  \/ /\ at[t] = "in"
                     /\ Q!ProduceStep(t)
                     /\ IF pc'[t] = "produced" THEN Goto(t, "quit") ELSE UNCHANGED at
                     /\ UNCHANGED <<consumed, temp, delivered>>

(* What a finished call of consume means to its caller: on true go to       *)
(* `more`, on false to `over`.                                              *)
Consuming(t, more, over) ==
  \/ /\ at[t] = "call"
     /\ Q!Consume(t)
     /\ Goto(t, "in")
     /\ UNCHANGED delivered
  \/ /\ at[t] = "in"
     /\ Q!ConsumeStep(t)
     /\ \/ pc'[t] = "consumed" /\ Goto(t, more) /\ delivered' = Append(delivered, reg[t].val)
        \/ pc'[t] = "missed" /\ Goto(t, over) /\ UNCHANGED delivered
        \/ pc'[t] \notin {"consumed", "missed"} /\ UNCHANGED <<at, delivered>>

(* while (lfq.consume(val)) ++consumed; the increment loads and stores. *)
ConsumerRun(t) == \/ Consuming(t, "load", "quit") /\ UNCHANGED <<consumed, temp>>
                  \/ /\ at[t] = "load"
                     /\ temp' = [temp EXCEPT ![t] = consumed]
                     /\ Goto(t, "store")
                     /\ UNCHANGED <<queueVars, consumed, delivered>>
                  \/ /\ at[t] = "store"
                     /\ consumed' = temp[t] + 1
                     /\ Goto(t, "call")
                     /\ UNCHANGED <<queueVars, temp, delivered>>

Joined == \A t \in Threads \ {Main} : at[t] = "quit"

(* The joins, then ~LockFreeQueue: while (consume(tmp)) {}; delete head. *)
MainJoin == /\ at[Main] = "join" /\ Joined
            /\ Goto(Main, "call")
            /\ UNCHANGED <<queueVars, consumed, temp, delivered>>

MainDrain == Consuming(Main, "call", "delete") /\ UNCHANGED <<consumed, temp>>

DeleteSentinel == /\ at[Main] = "delete"
                  /\ live' = live \ {head}
                  /\ Goto(Main, "done")
                  /\ UNCHANGED <<head, tail, next, data, used, pc, reg, calls, dangling,
                                 sawEmpty, consumed, temp, delivered>>

Done == at[Main] = "done"

Next == \/ \E t \in Producers : ProducerRun(t)
        \/ \E t \in Consumers : ConsumerRun(t)
        \/ MainJoin \/ MainDrain \/ DeleteSentinel
        \/ Done /\ UNCHANGED vars

Spec == Init /\ [][Next]_vars

(* A step of some thread whose compare-exchange succeeds. *)
Swaps == /\ \/ \E t \in Producers : ProducerRun(t)
            \/ \E t \in Consumers : ConsumerRun(t)
            \/ MainDrain
         /\ <<head, tail, next>>' # <<head, tail, next>>

(* Threads are scheduled, and a compare-exchange that would succeed again   *)
(* and again does not fail spuriously for ever.                             *)
FairSpec == /\ Spec
            /\ \A t \in Producers : WF_vars(ProducerRun(t))
            /\ \A t \in Consumers : WF_vars(ConsumerRun(t))
            /\ WF_vars(MainJoin \/ MainDrain \/ DeleteSentinel)
            /\ SF_vars(Swaps)
--------------------------------------------------------------------------------
(* Locals, lists and counters stay within their types in the whole program. *)
TypeOK == /\ Q!TypeOK
          /\ at \in [Threads -> {"call", "in", "load", "store", "join", "delete", "quit", "done"}]
          /\ consumed \in Nat /\ temp \in [Consumers -> Nat]
          /\ delivered \in Seq(Producers)

(* produce and consume are linearizable: each takes effect at its one       *)
(* successful compare-exchange, in FIFO order, and a consume that answers   *)
(* false overlapped a moment at which the queue was empty.                  *)
Linearizable == Q!Linearizable

(* Everything reachable from head is allocated and tail is on that list, so *)
(* that a produce can always find the end of the queue from tail, and what  *)
(* the threads hold is within its type.                                     *)
ListIsIntact == TypeOK /\ (~Done => Q!ListIsIntact)

(* Every value is handed out exactly once, to a consumer or to the drain of *)
(* the destructor, ...                                                      *)
EachValueOnce == /\ \A j, k \in DOMAIN delivered : delivered[j] = delivered[k] => j = k
                 /\ Done => Producers = {delivered[k] : k \in DOMAIN delivered}

(* ... no node is deleted twice (consume's delete always finds its node     *)
(* live) and none is leaked: after the destructor no allocation is left.    *)
FreedExactlyOnce == /\ \A t \in Consumers \cup {Main} : pc[t] = "c_delete" => reg[t].oldHead \in live
                    /\ Done => live = {}

(* Values and the nodes that carried them leave the queue together: each is *)
(* handed out once and each is freed once, whatever the threads race over.  *)
HandedOutAndFreedOnce == EachValueOnce /\ FreedExactlyOnce

(* produce and consume are loops without a lock: every call returns, so the *)
(* joins and the drain do.                                                  *)
ProgramEnds == <>Done

(* Line 85, "Safe to delete old dummy/head": no thread ever reads or writes *)
(* a node that consume has deleted.                                         *)
NoDanglingAccess == ~dangling
================================================================================
