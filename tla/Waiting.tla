-------------------------------- MODULE Waiting --------------------------------
(***************************************************************************)
(* Threads that wait for what another thread has done: the monitor counter *)
(* (Threads/Monitor), the programs of Threads/Thread Synchronization that  *)
(* coordinate with a condition variable or with a promise and its future,  *)
(* and the one-shot event on two atomic flags (Atomics/one_shot_event.cpp).*)
(* `value` is what is waited for, as a number: 1 is a condition that is    *)
(* set or a future that is ready, whether it holds a value or the exception*)
(* of producer_consumer_2.cpp.  A step is a critical section, a            *)
(* notification, or one access to an atomic flag.                          *)
(***************************************************************************)
EXTENDS Naturals

VARIABLES program,   (* the program that runs                               *)
          pc,        (* per thread: what it does next                       *)
          value,     (* value_, condition, the future's state, fired        *)
          asleep,    (* threads that are blocked                            *)
          announced, (* std::atomic<bool> waiting of the one-shot event     *)
          updates,   (* per notifier: updates it has made                   *)
          seen,      (* per waiter: the value it went on with               *)
          early      (* history: a notification found nobody asleep         *)

own == <<value, asleep, announced, updates, seen, early>>

(* The programs: how many threads wait and notify, how often each notifier  *)
(* updates, the value that is waited for, whether the waiter tests it,      *)
(* whether the notification is sent inside the critical section, and to all.*)
ThreadSafeCounter == [name |-> "counter", waiters |-> 1, notifiers |-> 2, rounds |-> 3,
                      threshold |-> 6, tests |-> TRUE, inside |-> TRUE, all |-> TRUE]
WithPredicate     == [name |-> "predicate", waiters |-> 3, notifiers |-> 1, rounds |-> 1,
                      threshold |-> 1, tests |-> TRUE, inside |-> FALSE, all |-> TRUE]
WithoutPredicate  == [name |-> "no predicate", waiters |-> 1, notifiers |-> 1, rounds |-> 1,
                      threshold |-> 1, tests |-> FALSE, inside |-> FALSE, all |-> FALSE]
PromiseAndFuture  == [name |-> "future", waiters |-> 1, notifiers |-> 1, rounds |-> 1,
                      threshold |-> 1, tests |-> TRUE, inside |-> TRUE, all |-> TRUE]
SharedFuture      == [PromiseAndFuture EXCEPT !.name = "shared future", !.waiters = 2]
ExceptionalFuture == [PromiseAndFuture EXCEPT !.name = "exceptional future"]
OneShotEvent      == [WithPredicate EXCEPT !.name = "one shot", !.waiters = 1, !.all = FALSE]
Mine == {ThreadSafeCounter, WithPredicate, WithoutPredicate, PromiseAndFuture, SharedFuture,
         ExceptionalFuture, OneShotEvent}
Runs == program.name \in {"counter", "predicate", "no predicate", "future",
                          "shared future", "exceptional future", "one shot"}

Waiters == 1 .. program.waiters
Notifiers == program.waiters + 1 .. program.waiters + program.notifiers

Init == /\ program \in Mine
        /\ pc = [t \in Waiters \cup Notifiers |->
                   IF t \in Notifiers THEN "update" ELSE IF program = OneShotEvent THEN "load" ELSE "enter"]
        /\ value = 0
        /\ asleep = {}
        /\ announced = FALSE
        /\ updates = [t \in Notifiers |-> 0]
        /\ seen = [t \in Waiters |-> 0]
        /\ early = FALSE

Goto(t, loc) == pc' = [pc EXCEPT ![t] = loc]
Arrived == value >= program.threshold
Resume(t) == seen' = [seen EXCEPT ![t] = value] /\ Goto(t, "done")
Block(t) == asleep' = asleep \cup {t} /\ Goto(t, "wait")
--------------------------------------------------------------------------------
(* reader, wait_for_threshold, get: lock, and wait unless the test says no. *)
Enter(t) == /\ pc[t] = "enter"
            /\ \/ program.tests /\ Arrived /\ Resume(t) /\ UNCHANGED asleep
               \/ ~(program.tests /\ Arrived) /\ Block(t) /\ UNCHANGED seen
            /\ UNCHANGED <<value, announced, updates, early>>

WakeUpWithoutTest(t) == /\ pc[t] = "wait" /\ t \notin asleep
                        /\ Resume(t)
                        /\ UNCHANGED <<value, asleep, announced, updates, early>>
(* Woken, with the mutex again: a waiter that tests goes back to sleep.     *)
WakeUp(t) == /\ pc[t] = "wait" /\ t \notin asleep
             /\ \/ (Arrived \/ ~program.tests) /\ Resume(t) /\ UNCHANGED asleep
                \/ ~Arrived /\ program.tests /\ Block(t) /\ UNCHANGED seen
             /\ UNCHANGED <<value, announced, updates, early>>

SpuriousWake(t) == /\ t \in asleep
                   /\ asleep' = asleep \ {t}
                   /\ UNCHANGED <<program, pc, value, announced, updates, seen, early>>
--------------------------------------------------------------------------------
(* increment, writer, set_value: the update, and the notification when it   *)
(* is sent with the mutex held, which the counter does only at its threshold.*)
Update(t) == /\ pc[t] = "update"
             /\ value' = value + 1
             /\ updates' = [updates EXCEPT ![t] = @ + 1]
             /\ asleep' = IF program.inside /\ Arrived' THEN {} ELSE asleep
             /\ Goto(t, IF ~program.inside THEN "notify"
                        ELSE IF updates'[t] = program.rounds THEN "done" ELSE "update")
             /\ UNCHANGED <<announced, seen, early>>

(* notify_all or notify_one after the unlock; the signaler of the one-shot  *)
(* event notifies only if the flag it takes down was up.                    *)
Notify(t) == /\ pc[t] = "notify"
             /\ \/ /\ program = OneShotEvent /\ ~announced
                   /\ UNCHANGED <<asleep, early>>
                \/ /\ program # OneShotEvent \/ announced
                   /\ \/ program.all /\ asleep' = {}
                      \/ ~program.all /\ asleep = {} /\ UNCHANGED asleep
                      \/ ~program.all /\ \E w \in asleep : asleep' = asleep \ {w}
                   /\ early' = (asleep = {})
             /\ announced' = FALSE
             /\ Goto(t, "done")
             /\ UNCHANGED <<value, updates, seen>>
--------------------------------------------------------------------------------
(* The waiter of the one-shot event: look, announce, look again, wait.      *)
LoadFired(t) == /\ pc[t] \in {"load", "reload"}
                /\ \/ Arrived /\ Resume(t)
                   \/ /\ ~Arrived /\ UNCHANGED seen
                      /\ Goto(t, IF pc[t] = "load" THEN "announce" ELSE "enter")
                /\ UNCHANGED <<value, asleep, announced, updates, early>>

AnnounceNothing(t) == /\ pc[t] = "announce"
                      /\ Goto(t, "reload")
                      /\ UNCHANGED own
Announce(t) == /\ pc[t] = "announce"
               /\ announced' = TRUE
               /\ Goto(t, "reload")
               /\ UNCHANGED <<value, asleep, updates, seen, early>>

Run(t) == /\ Runs /\ t \in DOMAIN pc
          /\ UNCHANGED program
          /\ \/ Enter(t) \/ WakeUp(t) \/ LoadFired(t) \/ Announce(t)
             \/ Update(t) \/ Notify(t)
--------------------------------------------------------------------------------
TypeOK == Runs =>
  /\ pc \in [Waiters \cup Notifiers -> {"enter", "wait", "load", "announce", "reload",
                                        "update", "notify", "done"}]
  /\ value \in 0 .. program.notifiers * program.rounds
  /\ asleep \subseteq {t \in Waiters : pc[t] = "wait"}
  /\ announced \in BOOLEAN /\ early \in BOOLEAN
  /\ updates \in [Notifiers -> 0 .. program.rounds]
  /\ seen \in [Waiters -> Nat]

(* No waiter goes on before what it waits for has happened, however it was  *)
(* woken (monitor.h line 49, conditional_coordination_predicates.cpp line   *)
(* 22, one_shot_event.cpp lines 25-30); a wait without a test may.          *)
NobodyGoesOnEarly == Runs /\ program.tests =>
  \A t \in Waiters : pc[t] = "done" => seen[t] >= program.threshold

(* Every waiter goes on: a notification cannot fall between its test and    *)
(* its sleep.  The reader without a test sleeps for good if the writer was  *)
(* first (condtional_coordination.cpp line 20).                             *)
WaitersResume == Runs
                   ~> \/ \A t \in DOMAIN pc : pc[t] = "done"
                      \/ program = WithoutPredicate /\ early
================================================================================
