--------------------------- MODULE LinearizableQueue ---------------------------
(***************************************************************************)
(* What lock_free_queue.cc promises: an unbounded FIFO on which a produce  *)
(* and a successful consume take effect at one instant inside the call,    *)
(* and consume answers false only if the queue was empty at some instant   *)
(* of the call.  `sawEmpty` remembers, for a consume in progress, whether  *)
(* such an instant has passed.                                             *)
(***************************************************************************)
EXTENDS Naturals, Sequences

CONSTANTS Threads, Values, NoValue

VARIABLES items, status, sawEmpty

vars == <<items, status, sawEmpty>>

InCall(t) == status[t].op \in {"producing", "consuming"}
Become(t, op, v) == status' = [status EXCEPT ![t] = [op |-> op, arg |-> v]]

Init == /\ items = <<>>
        /\ status = [t \in Threads |-> [op |-> "idle", arg |-> NoValue]]
        /\ sawEmpty = {}

CallProduce(t, v) == /\ ~InCall(t)
                     /\ Become(t, "producing", v)
                     /\ UNCHANGED <<items, sawEmpty>>

CallConsume(t) == /\ ~InCall(t)
                  /\ Become(t, "consuming", NoValue)
                  /\ sawEmpty' = IF items = <<>> THEN sawEmpty \cup {t} ELSE sawEmpty
                  /\ UNCHANGED items

Produce(t) == /\ status[t].op = "producing"
              /\ items' = Append(items, status[t].arg)
              /\ Become(t, "produced", NoValue)
              /\ UNCHANGED sawEmpty

Consume(t) == /\ status[t].op = "consuming"
              /\ items # <<>>
              /\ items' = Tail(items)
              /\ Become(t, "consumed", Head(items))
              /\ sawEmpty' = (IF Tail(items) = <<>>
                              THEN {u \in Threads : status[u].op = "consuming"}
                              ELSE sawEmpty) \ {t}

Miss(t) == /\ status[t].op = "consuming"
           /\ t \in sawEmpty
           /\ Become(t, "missed", NoValue)
           /\ sawEmpty' = sawEmpty \ {t}
           /\ UNCHANGED items

Next == \E t \in Threads :
          \/ \E v \in Values : CallProduce(t, v)
          \/ CallConsume(t)
          \/ Produce(t) \/ Consume(t) \/ Miss(t)

Spec == Init /\ [][Next]_vars
================================================================================
