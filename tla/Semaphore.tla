------------------------------- MODULE Semaphore -------------------------------
(***************************************************************************)
(* Semaphore (Threads/Semaphore/semaphore.h): a counter behind a mutex and *)
(* a condition variable; release adds one unless the counter is at its     *)
(* maximum, and then the release is lost; acquire waits while the counter  *)
(* is zero.  Driven as in Threads/Semaphore/main.cpp: threads that release *)
(* once and threads that acquire once.  A step is a critical section.      *)
(***************************************************************************)
EXTENDS Integers, FiniteSets

CONSTANTS Inserters,     (* threads running sem.release()                   *)
          Relinquishers, (* threads running sem.acquire()                   *)
          MaxCounter     (* max_counter; 10 in the code                     *)

Threads == Inserters \cup Relinquishers

ASSUME SemaphoreAssumption == /\ IsFiniteSet(Inserters) /\ IsFiniteSet(Relinquishers)
                              /\ Inserters \cap Relinquishers = {}
                              /\ MaxCounter \in Nat \ {0}

VARIABLES counter,   (* int counter                                         *)
          asleep,    (* threads in the wait set of cv                       *)
          pc,        (* per thread: "call", "wait", "done"                  *)
          dropped    (* history: threads whose release had no effect        *)

vars == <<counter, asleep, pc, dropped>>

Init == /\ counter = 0
        /\ asleep = {}
        /\ pc = [t \in Threads |-> "call"]
        /\ dropped = {}

Goto(t, loc) == pc' = [pc EXCEPT ![t] = loc]
--------------------------------------------------------------------------------
ReleaseWithoutNotify(t) == /\ t \in Inserters /\ pc[t] = "call"
                           /\ counter < MaxCounter
                           /\ counter' = counter + 1
                           /\ Goto(t, "done")
                           /\ UNCHANGED <<asleep, dropped>>
Release(t) == /\ t \in Inserters /\ pc[t] = "call"
              /\ \/ /\ counter < MaxCounter
                    /\ counter' = counter + 1
                    /\ UNCHANGED dropped
                 \/ /\ counter = MaxCounter
                    /\ dropped' = dropped \cup {t}
                    /\ UNCHANGED counter
              /\ asleep' = {}                    (* cv.notify_all()         *)
              /\ Goto(t, "done")

(* acquire, entered or woken: test the counter with mut held.               *)
AcquireWithIf(t) == /\ t \in Relinquishers /\ t \notin asleep
                    /\ \/ /\ pc[t] = "call" /\ counter = 0
                          /\ asleep' = asleep \cup {t}
                          /\ Goto(t, "wait")
                          /\ UNCHANGED counter
                       \/ /\ pc[t] = "wait" \/ (pc[t] = "call" /\ counter > 0)
                          /\ counter' = counter - 1
                          /\ Goto(t, "done")
                          /\ UNCHANGED asleep
                    /\ UNCHANGED dropped
Acquire(t) == /\ t \in Relinquishers /\ t \notin asleep
              /\ pc[t] \in {"call", "wait"}
              /\ \/ /\ counter = 0
                    /\ asleep' = asleep \cup {t}
                    /\ Goto(t, "wait")
                    /\ UNCHANGED counter
                 \/ /\ counter > 0
                    /\ counter' = counter - 1
                    /\ Goto(t, "done")
                    /\ UNCHANGED asleep
              /\ UNCHANGED dropped

SpuriousWake(t) == /\ t \in asleep
                   /\ asleep' = asleep \ {t}
                   /\ UNCHANGED <<counter, pc, dropped>>
--------------------------------------------------------------------------------
Finished == \A t \in Threads : pc[t] = "done"

Next == \/ \E t \in Threads : Release(t) \/ Acquire(t) \/ SpuriousWake(t)
        \/ Finished /\ UNCHANGED vars

Spec == Init /\ [][Next]_vars
FairSpec == Spec /\ \A t \in Threads : WF_vars(Release(t) \/ Acquire(t))
--------------------------------------------------------------------------------
TypeOK == /\ counter \in 0 .. MaxCounter
          /\ pc \in [Threads -> {"call", "wait", "done"}]
          /\ asleep \subseteq {t \in Relinquishers : pc[t] = "wait"}
          /\ dropped \subseteq {t \in Inserters : pc[t] = "done"}

(* No unit is conjured up: however waits and wakeups interleave, there are   *)
(* never more completed acquires than releases that took effect (lines      *)
(* 10-32: the test after a wakeup is made again under the mutex).           *)
Released == {t \in Inserters : pc[t] = "done"}
Acquired == {t \in Relinquishers : pc[t] = "done"}
AcquiresAreBacked == Cardinality(Acquired) <= Cardinality(Released \ dropped)

(* Nobody sleeps while there is a unit to take: acquire tests and waits in  *)
(* one critical section, and every release wakes all waiters.               *)
NobodySleepsOnUnits == counter > 0 => asleep = {}

(* Every unit finds its acquirer: in the end as many acquires have completed *)
(* as there are units for, and only those that no unit is left for still     *)
(* wait (with main.cpp's 5 inserters and 4 relinquishers: none).             *)
Units == Cardinality(Inserters \ dropped)
UnitsAreTaken ==
  <>[](Cardinality(Acquired) = IF Units < Cardinality(Relinquishers) THEN Units
                               ELSE Cardinality(Relinquishers))
================================================================================
