---------------------------- MODULE Semaphore_proofs ----------------------------
(* Semaphore, for every number of threads and every maximum.                  *)
EXTENDS Semaphore, FiniteSetTheorems, TLAPS

(* The strengthening of AcquiresAreBacked: where every unit is.               *)
UnitsConserved == counter + Cardinality(Acquired) = Cardinality(Released \ dropped)
IInv == TypeOK /\ UnitsConserved /\ NobodySleepsOnUnits

LEMMA Finite ==
  /\ IsFiniteSet(Acquired) /\ Cardinality(Acquired) \in Nat
  /\ IsFiniteSet(Released \ dropped) /\ Cardinality(Released \ dropped) \in Nat
  <1>1. Acquired \in SUBSET Relinquishers /\ Released \ dropped \in SUBSET Inserters
    BY DEF Acquired, Released
  <1> QED BY <1>1, SemaphoreAssumption, FS_Subset, FS_CardinalityType

LEMMA SemaphoreInit == Init => IInv
  <1> SUFFICES ASSUME Init PROVE IInv
    OBVIOUS
  <1>1. Acquired = {} /\ Released \ dropped = {}
    BY DEF Init, Acquired, Released, Threads
  <1>2. UnitsConserved
    BY <1>1, FS_EmptySet DEF Init, UnitsConserved
  <1> QED BY <1>2, SemaphoreAssumption DEF Init, IInv, TypeOK, NobodySleepsOnUnits

LEMMA ReleaseStep == ASSUME IInv, NEW t \in Threads, Release(t) PROVE IInv'
  <1> USE SemaphoreAssumption DEF Goto, Threads
  <1>0. t \in Inserters /\ pc[t] = "call" /\ pc' = [pc EXCEPT ![t] = "done"]
    BY DEF Release
  <1>1. TypeOK'
    BY DEF IInv, TypeOK, Release
  <1>2. Acquired' = Acquired
    BY <1>0 DEF IInv, TypeOK, Acquired
  <1>3. t \notin Released /\ Released' = Released \cup {t} /\ t \notin dropped
    BY <1>0 DEF IInv, TypeOK, Released
  <1>4. CASE counter < MaxCounter /\ counter' = counter + 1 /\ UNCHANGED dropped
    <2>1. Released' \ dropped' = (Released \ dropped) \cup {t}
      BY <1>3, <1>4
    <2>2. Cardinality(Released' \ dropped') = Cardinality(Released \ dropped) + 1
      BY <1>3, <2>1, Finite, FS_AddElement
    <2>3. counter \in Nat
      BY DEF IInv, TypeOK
    <2>4. UnitsConserved'
      BY <1>2, <1>4, <2>2, <2>3, Finite DEF IInv, UnitsConserved
    <2> QED BY <1>1, <2>4 DEF IInv, Release, NobodySleepsOnUnits
  <1>5. CASE counter = MaxCounter /\ dropped' = dropped \cup {t} /\ UNCHANGED counter
    <2>1. Released' \ dropped' = Released \ dropped
      BY <1>3, <1>5
    <2> QED BY <1>1, <1>2, <1>5, <2>1 DEF IInv, UnitsConserved, Release, NobodySleepsOnUnits
  <1> QED BY <1>4, <1>5 DEF Release

LEMMA AcquireStep == ASSUME IInv, NEW t \in Threads, Acquire(t) PROVE IInv'
  <1> USE SemaphoreAssumption DEF Goto, Threads
  <1>0. t \in Relinquishers /\ pc[t] \in {"call", "wait"} /\ t \notin Inserters /\ UNCHANGED dropped
    BY DEF Acquire
  <1>1. TypeOK'
    BY <1>0 DEF IInv, TypeOK, Acquire
  <1>2. Released' = Released
    BY <1>0 DEF IInv, TypeOK, Released, Acquire
  <1>3. CASE counter = 0 /\ Goto(t, "wait") /\ UNCHANGED counter
    <2>1. Acquired' = Acquired
      BY <1>0, <1>3 DEF IInv, TypeOK, Acquired
    <2> QED BY <1>0, <1>1, <1>2, <1>3, <2>1 DEF IInv, UnitsConserved, NobodySleepsOnUnits
  <1>4. CASE counter > 0 /\ counter' = counter - 1 /\ Goto(t, "done") /\ UNCHANGED asleep
    <2>1. t \notin Acquired /\ Acquired' = Acquired \cup {t}
      BY <1>0, <1>4 DEF IInv, TypeOK, Acquired
    <2>2. Cardinality(Acquired') = Cardinality(Acquired) + 1
      BY <2>1, Finite, FS_AddElement
    <2>3. counter \in Nat
      BY DEF IInv, TypeOK
    <2> QED BY <1>0, <1>1, <1>2, <1>4, <2>2, <2>3, Finite
            DEF IInv, UnitsConserved, NobodySleepsOnUnits
  <1> QED BY <1>3, <1>4 DEF Acquire

LEMMA SemaphoreStep == IInv /\ [Next]_vars => IInv'
  <1> SUFFICES ASSUME IInv, [Next]_vars PROVE IInv'
    OBVIOUS
  <1>1. CASE UNCHANGED vars
    BY <1>1 DEF vars, IInv, TypeOK, UnitsConserved, NobodySleepsOnUnits, Acquired, Released
  <1>2. ASSUME NEW t \in Threads, SpuriousWake(t) PROVE IInv'
    BY <1>2 DEF SpuriousWake, IInv, TypeOK, UnitsConserved, NobodySleepsOnUnits, Acquired, Released
  <1> QED BY <1>1, <1>2, ReleaseStep, AcquireStep DEF Next

LEMMA SemaphoreInvariant == Spec => []IInv
  BY SemaphoreInit, SemaphoreStep, PTL DEF Spec

(* The counter stays between 0 and its maximum and only acquirers wait.       *)
THEOREM SemaphoreTypeCorrect == Spec => []TypeOK
  <1>1. IInv => TypeOK
    BY DEF IInv
  <1> QED BY <1>1, SemaphoreInvariant, PTL

(* Never more acquires than releases that took effect.                        *)
THEOREM SemaphoreBacked == Spec => []AcquiresAreBacked
  <1>1. IInv => AcquiresAreBacked
    BY Finite DEF IInv, TypeOK, UnitsConserved, AcquiresAreBacked
  <1> QED BY <1>1, SemaphoreInvariant, PTL

(* No acquirer sleeps beside a unit it could take.                            *)
THEOREM SemaphoreWakes == Spec => []NobodySleepsOnUnits
  <1>1. IInv => NobodySleepsOnUnits
    BY DEF IInv
  <1> QED BY <1>1, SemaphoreInvariant, PTL
================================================================================
