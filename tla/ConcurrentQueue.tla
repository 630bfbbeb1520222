---------------------------- MODULE ConcurrentQueue ----------------------------
(***************************************************************************)
(* concurrent_queue<T> (Data Structures/concurrent_queue.h): a std::queue  *)
(* behind one mutex and ONE condition variable, cond_not_empty, on which   *)
(* both a pop of an empty queue and a push to a full one wait.             *)
(*                                                                         *)
(* A step is a critical section of mut: from the lock to the unlock, or to *)
(* the wait that releases it.  The mutex itself is not a variable, since   *)
(* all shared state is touched only inside such sections.  notify_one runs *)
(* after the unlock in push, so it is a step of its own (op "notify");     *)
(* notify_all runs inside the section of close.                            *)
(***************************************************************************)
EXTENDS Naturals, Sequences, FiniteSets

CONSTANTS Threads,   (* the threads that call the queue                     *)
          Values,    (* T                                                   *)
          NoValue,   (* absence of an argument or a result                  *)
          Capacities,(* what cap the constructor may be given; 0: unbounded *)
          MaxLen     (* bound of the model: no push when MaxLen are queued  *)

ASSUME QueueAssumption == /\ IsFiniteSet(Threads)
                          /\ NoValue \notin Values
                          /\ Capacities \subseteq Nat
                          /\ MaxLen \in Nat

VARIABLES q,         (* std::queue<T> q                                     *)
          capacity,  (* std::size_t capacity                                *)
          closed,    (* bool closed                                         *)
          asleep,    (* threads in the wait set of cond_not_empty           *)
          call       (* per thread: the call in progress or the last outcome*)

vars == <<q, capacity, closed, asleep, call>>

Outcomes == {"idle", "pushed", "dropped", "push_threw", "popped", "pop_threw", "missed"}
Ops == Outcomes \cup {"pushing", "popping", "notify"}

Set(t, o, v) == call' = [call EXCEPT ![t] = [op |-> o, arg |-> v]]

Ready(t) == call[t].op \in Outcomes                (* t is in no call       *)
InPush(t) == call[t].op = "pushing"                (* in the wait of push   *)
InPop(t) == call[t].op = "popping"                 (* in the wait of pop    *)
Blocked(t) == InPush(t) \/ InPop(t)

Init == /\ q = <<>>
        /\ capacity \in Capacities
        /\ closed = FALSE
        /\ asleep = {}
        /\ call = [t \in Threads |-> [op |-> "idle", arg |-> NoValue]]
--------------------------------------------------------------------------------
(* push *)

HasRoomOffByOne == capacity = 0 \/ Len(q) <= capacity
HasRoom == capacity = 0 \/ Len(q) < capacity

Sleep(t, o, v) == /\ asleep' = asleep \cup {t}
                  /\ Set(t, o, v)
                  /\ UNCHANGED <<q, closed>>

EnqueueWithoutNotify(t, v) == /\ q' = Append(q, v)
                              /\ Set(t, "pushed", NoValue)
                              /\ UNCHANGED <<closed, asleep>>
Enqueue(t, v) == /\ q' = Append(q, v)
                 /\ Set(t, "notify", NoValue)
                 /\ UNCHANGED <<closed, asleep>>

Push(t, v) == /\ Ready(t)
              /\ \/ /\ closed
                    /\ Set(t, "push_threw", NoValue)
                    /\ UNCHANGED <<q, closed, asleep>>
                 \/ ~closed /\ HasRoom /\ Enqueue(t, v)
                 \/ ~closed /\ ~HasRoom /\ Sleep(t, "pushing", v)

(* A pusher out of the wait set holds mut again and re-tests the predicate. *)
PushWakeIgnoringClose(t) == /\ InPush(t)
                            /\ t \notin asleep
                            /\ \/ HasRoom /\ Enqueue(t, call[t].arg)
                               \/ ~HasRoom /\ Sleep(t, "pushing", call[t].arg)
PushWake(t) == /\ InPush(t)
               /\ t \notin asleep
               /\ \/ /\ closed
                     /\ Set(t, "dropped", NoValue)
                     /\ UNCHANGED <<q, closed, asleep>>
                  \/ ~closed /\ HasRoom /\ Enqueue(t, call[t].arg)
                  \/ ~closed /\ ~HasRoom /\ Sleep(t, "pushing", call[t].arg)

(* cond_not_empty.notify_one(), after the unlock: any one waiter, if any. *)
NotifyOne(t) == /\ call[t].op = "notify"
                /\ \/ asleep = {} /\ UNCHANGED asleep
                   \/ \E s \in asleep : asleep' = asleep \ {s}
                /\ Set(t, "pushed", NoValue)
                /\ UNCHANGED <<q, closed>>
--------------------------------------------------------------------------------
(* pop, try_pop, close *)

DequeueNewest(t) == /\ q # <<>>
                    /\ Set(t, "popped", q[Len(q)])
                    /\ q' = SubSeq(q, 1, Len(q) - 1)
                    /\ UNCHANGED <<closed, asleep>>
Dequeue(t) == /\ q # <<>>
              /\ Set(t, "popped", Head(q))
              /\ q' = Tail(q)
              /\ UNCHANGED <<closed, asleep>>

(* The body of pop from its predicate on; there is no notification in it. *)
PopBody(t) == \/ Dequeue(t)
              \/ /\ q = <<>> /\ closed
                 /\ Set(t, "pop_threw", NoValue)
                 /\ UNCHANGED <<q, closed, asleep>>
              \/ q = <<>> /\ ~closed /\ Sleep(t, "popping", NoValue)

Pop(t) == Ready(t) /\ PopBody(t)

PopWake(t) == /\ InPop(t)
              /\ t \notin asleep
              /\ PopBody(t)

TryPop(t) == /\ Ready(t)
             /\ \/ Dequeue(t)
                \/ /\ q = <<>>
                   /\ Set(t, "missed", NoValue)
                   /\ UNCHANGED <<q, closed, asleep>>

CloseWithoutNotify(t) == /\ Ready(t)
                         /\ closed' = TRUE
                         /\ Set(t, "idle", NoValue)
                         /\ UNCHANGED <<q, asleep>>
Close(t) == /\ Ready(t)
            /\ closed' = TRUE
            /\ asleep' = {}
            /\ Set(t, "idle", NoValue)
            /\ UNCHANGED q

(* std::condition_variable::wait may return without a notification. *)
SpuriousWake(t) == /\ t \in asleep
                   /\ asleep' = asleep \ {t}
                   /\ UNCHANGED <<q, closed, call>>
--------------------------------------------------------------------------------
(* Threads that call anything at any time; no operation sets capacity. *)

Continue(t) == PushWake(t) \/ NotifyOne(t) \/ PopWake(t)

Next == /\ UNCHANGED capacity
        /\ \E t \in Threads :
             \/ \E v \in Values : Len(q) < MaxLen /\ Push(t, v)
             \/ Pop(t)
             \/ TryPop(t)
             \/ Close(t)
             \/ Continue(t)
             \/ SpuriousWake(t)

Spec == Init /\ [][Next]_vars

(* A call that is not asleep runs on: the scheduler does not stop a thread, *)
(* and mut is held only for finitely many instructions.  Nothing makes a    *)
(* thread start a call, and no spurious wakeup may be counted on.           *)
FairSpec == Spec /\ \A t \in Threads : WF_vars(UNCHANGED capacity /\ Continue(t))
--------------------------------------------------------------------------------
(* Types, and: only a thread inside a wait is in the wait set. *)
TypeOK == /\ q \in Seq(Values)
          /\ capacity \in Capacities
          /\ closed \in BOOLEAN
          /\ asleep \subseteq {t \in Threads : Blocked(t)}
          /\ call \in [Threads -> [op : Ops, arg : Values \cup {NoValue}]]
          /\ \A t \in Threads : InPush(t) => call[t].arg \in Values
          /\ \A t \in Threads : InPop(t) => call[t].arg = NoValue

(* The capacity given to the constructor bounds the queue, although a push *)
(* may have slept, been woken and been overtaken since it saw room.        *)
CapacityRespected == capacity > 0 => Len(q) <= capacity

(* No lost wakeup (lines 39-65): as long as a popper sleeps, every queued   *)
(* item has a thread on its way to it, namely a notification still to be    *)
(* sent or a popper that was woken and has not yet run.  Only an unbounded  *)
(* queue has this: with a capacity, pushers wait on the same condition      *)
(* variable and swallow notifications.                                      *)
Notifiers == {t \in Threads : call[t].op = "notify"}
Woken == {t \in Threads : InPop(t) /\ t \notin asleep}
NoLostWakeup ==
  capacity = 0 /\ asleep # {} => Len(q) <= Cardinality(Notifiers) + Cardinality(Woken)

(* close() ends every wait, in pop and in push (notify_all, lines 82-86). *)
CloseReleases == \A t \in Threads : (closed /\ Blocked(t)) ~> ~Blocked(t)

(* Every operation takes effect atomically on an abstract FIFO: the push at *)
(* its enqueue, the pop at its dequeue; waiting, waking and notifying are   *)
(* invisible.                                                               *)
Fifo == INSTANCE FifoQueue WITH
          items  <- q,
          status <- [t \in Threads |-> IF call[t].op = "notify"
                                       THEN [op |-> "pushed", arg |-> NoValue]
                                       ELSE call[t]]
FifoSpec == Fifo!Spec
================================================================================
