------------------------------- MODULE FifoQueue -------------------------------
(***************************************************************************)
(* What concurrent_queue.h promises its callers: one FIFO of items, every  *)
(* operation taking effect at a single instant between its call and its    *)
(* return, and a one-way close.  Mutexes, the condition variable and the   *)
(* notifications are not visible here; ConcurrentQueue implements this.    *)
(***************************************************************************)
EXTENDS Naturals, Sequences

CONSTANTS Threads,   (* the callers                                         *)
          Values,    (* what can be pushed                                  *)
          NoValue,   (* stands for "no argument, no result"                 *)
          Capacities (* the bounds a queue may be created with              *)

VARIABLES items,     (* the queued values, oldest first                     *)
          capacity,  (* its bound, fixed; 0 means unbounded                 *)
          closed,    (* close() has taken effect                            *)
          status     (* per thread: the call in progress, or how the last   *)
                     (* one ended                                           *)

vars == <<items, capacity, closed, status>>

Blocked(t) == status[t].op \in {"pushing", "popping"}

Finish(t, outcome, v) ==
  status' = [status EXCEPT ![t] = [op |-> outcome, arg |-> v]]

HasRoom == capacity = 0 \/ Len(items) < capacity

Init == /\ items = <<>>
        /\ capacity \in Capacities
        /\ closed = FALSE
        /\ status = [t \in Threads |-> [op |-> "idle", arg |-> NoValue]]

(* A call that cannot complete yet waits for its instant. *)
Wait(t) == /\ ~Blocked(t)
           /\ \/ Finish(t, "popping", NoValue)
              \/ \E v \in Values : Finish(t, "pushing", v)
           /\ UNCHANGED <<items, closed>>

Put(t, v) == /\ ~closed
             /\ HasRoom
             /\ Blocked(t) => status[t] = [op |-> "pushing", arg |-> v]
             /\ items' = Append(items, v)
             /\ Finish(t, "pushed", NoValue)
             /\ UNCHANGED closed

(* Only a push that close() found waiting may give its value up silently. *)
GiveUp(t) == /\ closed
             /\ status[t].op = "pushing"
             /\ Finish(t, "dropped", NoValue)
             /\ UNCHANGED <<items, closed>>

PushRefused(t) == /\ closed
                  /\ ~Blocked(t)
                  /\ Finish(t, "push_threw", NoValue)
                  /\ UNCHANGED <<items, closed>>

Take(t) == /\ items # <<>>
           /\ status[t].op # "pushing"
           /\ items' = Tail(items)
           /\ Finish(t, "popped", Head(items))
           /\ UNCHANGED closed

(* A closed queue is drained before pop starts to throw. *)
PopRefused(t) == /\ closed
                 /\ items = <<>>
                 /\ status[t].op # "pushing"
                 /\ Finish(t, "pop_threw", NoValue)
                 /\ UNCHANGED <<items, closed>>

Miss(t) == /\ items = <<>>
           /\ ~Blocked(t)
           /\ Finish(t, "missed", NoValue)
           /\ UNCHANGED <<items, closed>>

Close(t) == /\ ~Blocked(t)
            /\ closed' = TRUE
            /\ Finish(t, "idle", NoValue)
            /\ UNCHANGED items

Next == /\ UNCHANGED capacity
        /\ \E t \in Threads :
             \/ Wait(t)
             \/ \E v \in Values : Put(t, v)
             \/ GiveUp(t)
             \/ PushRefused(t)
             \/ Take(t)
             \/ PopRefused(t)
             \/ Miss(t)
             \/ Close(t)

Spec == Init /\ [][Next]_vars
================================================================================
