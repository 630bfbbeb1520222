-------------------------------- MODULE LazyInit --------------------------------
(***************************************************************************)
(* Objects created on first use: the four getters of Lazy Initialization/  *)
(* source.cpp, and the programs of the repository that call them or a copy *)
(* of them from several threads.  A getter looks at a pointer; two of them *)
(* guard the creation with a mutex and a second look, two with a once flag *)
(* (std::call_once, and the guard of a local static).  A step is one look, *)
(* one operation on a guard or the creation, whose constructor touches     *)
(* nothing that is shared.  Objects are numbered as they are created.      *)
(***************************************************************************)
EXTENDS Naturals, Sequences, FiniteSets, Functions

CONSTANT Threads   (* threads that call the getters; 2 or 10 in the code    *)

VARIABLES program,   (* the program that runs: the getters a thread calls   *)
          pc,        (* per thread: its place in the getter                 *)
          pointer,   (* pInstance, pSmartInstance, the static's address     *)
          guard,     (* per getter: the holder of its mutex or once flag    *)
          made,      (* the objects: the getter that created each           *)
          got        (* per thread: what its getters have returned          *)

own == <<pointer, guard, made, got>>

(* The getters: how they guard the creation, and the pointer they look at.  *)
DCLP     == [guardedBy |-> "mutex", pointer |-> "pInstance"]
CallOnce == [guardedBy |-> "once", pointer |-> "pInstance"]
Meyers   == [guardedBy |-> "once", pointer |-> "instance"]
Smart    == [guardedBy |-> "mutex", pointer |-> "pSmartInstance"]
Getters  == {DCLP, CallOnce, Meyers, Smart}

(* The programs, as what each of their threads calls.                       *)
WorkerOfSource      == [name |-> "worker", calls |-> <<DCLP, CallOnce, Meyers, Smart>>]
ProcessWithCallOnce == [name |-> "process", calls |-> <<CallOnce>>]
ProcessWithAtomic   == [name |-> "atomic process", calls |-> <<DCLP>>]
TaskWithSingleton   == [name |-> "task", calls |-> <<Meyers>>]
Mine == {WorkerOfSource, ProcessWithCallOnce, ProcessWithAtomic, TaskWithSingleton}
Runs == program.name \in {"worker", "process", "atomic process", "task"}

Callers == 1 .. Threads
Null == 0                (* objects are 1, 2, ...                            *)
Free == 0                (* a guard nobody holds                             *)
Over == Threads + 1      (* a once flag whose callable has returned          *)

Init == /\ program \in Mine
        /\ pc = [t \in Callers |-> "look"]
        /\ pointer = [p \in {g.pointer : g \in Getters} |-> Null]
        /\ guard = [g \in Getters |-> Free]
        /\ made = <<>>
        /\ got = [t \in Callers |-> <<>>]

Getter(t) == program.calls[Len(got[t]) + 1]
Pointer(t) == pointer[Getter(t).pointer]
By(t, how) == Getter(t).guardedBy = how
Goto(t, loc) == pc' = [pc EXCEPT ![t] = loc]
Seize(t) == guard[Getter(t)] = Free /\ guard' = [guard EXCEPT ![Getter(t)] = t]
Leave(t, state) == guard' = [guard EXCEPT ![Getter(t)] = state]
--------------------------------------------------------------------------------
(* The first check, without the lock. *)
Look(t) == /\ pc[t] = "look" /\ By(t, "mutex")
           /\ Goto(t, IF Pointer(t) = Null THEN "lock" ELSE "return")
           /\ UNCHANGED own

Lock(t) == /\ pc[t] = "lock"
           /\ Seize(t)
           /\ Goto(t, "lookAgain")
           /\ UNCHANGED <<pointer, made, got>>

LookOnlyOnce(t) == /\ pc[t] = "lookAgain"
                   /\ Goto(t, "create")
                   /\ UNCHANGED own
LookAgain(t) == /\ pc[t] = "lookAgain"
                /\ Goto(t, IF Pointer(t) = Null THEN "create" ELSE "unlock")
                /\ UNCHANGED own

(* call_once: the first to come runs the callable, the others wait for it.  *)
EnterOnce(t) == /\ pc[t] = "look" /\ By(t, "once")
                /\ \/ Seize(t) /\ Goto(t, "create")
                   \/ guard[Getter(t)] = Over /\ Goto(t, "return") /\ UNCHANGED guard
                /\ UNCHANGED <<pointer, made, got>>

Create(t) == /\ pc[t] = "create"
             /\ made' = Append(made, Getter(t))
             /\ pointer' = [pointer EXCEPT ![Getter(t).pointer] = Len(made')]
             /\ Goto(t, "unlock")
             /\ UNCHANGED <<guard, got>>

Unlock(t) == /\ pc[t] = "unlock"
             /\ Leave(t, IF By(t, "once") THEN Over ELSE Free)
             /\ Goto(t, "return")
             /\ UNCHANGED <<pointer, made, got>>

(* The pointer is read again to be returned. *)
Return(t) == /\ pc[t] = "return"
             /\ got' = [got EXCEPT ![t] = Append(@, Pointer(t))]
             /\ Goto(t, IF Len(got'[t]) = Len(program.calls) THEN "done" ELSE "look")
             /\ UNCHANGED <<pointer, guard, made>>

Run(t) == /\ Runs /\ t \in Callers
          /\ UNCHANGED program
          /\ \/ Look(t) \/ Lock(t) \/ LookAgain(t) \/ EnterOnce(t)
             \/ Create(t) \/ Unlock(t) \/ Return(t)
--------------------------------------------------------------------------------
Objects == 0 .. 4      (* Null, and at most one object of each getter        *)

TypeOK == Runs =>
  /\ pc \in [Callers -> {"look", "lock", "lookAgain", "create", "unlock", "return", "done"}]
  /\ \A p \in DOMAIN pointer : pointer[p] \in Objects
  /\ guard \in [Getters -> Callers \cup {Free, Over}]
  /\ made \in Seq(Getters)
  /\ \A t \in Callers : got[t] \in Seq(Objects) /\ Len(got[t]) <= Len(program.calls)

Finished == \A t \in DOMAIN pc : pc[t] = "done"

(* Each getter creates its object once, however many threads look at the    *)
(* pointer before the first of them has stored it (lines 46-49 and 57-59    *)
(* of source.cpp, "Only created once").  No getter returns null, and those  *)
(* that return what the flag or the mutex protected agree on it in all      *)
(* threads; getTestInstance_DCLP is exempt in source.cpp, where             *)
(* getTestInstance_CallOnce replaces its object.                            *)
Agree(k) == \A t, u \in Callers : k <= Len(got[t]) /\ k <= Len(got[u]) => got[t][k] = got[u][k]
CreatedOnce == Runs =>
  /\ IsInjective(made)
  /\ Finished => {made[k] : k \in DOMAIN made} = {program.calls[k] : k \in DOMAIN program.calls}
  /\ \A t \in Callers : \A k \in DOMAIN got[t] : got[t][k] # Null
  /\ \A k \in DOMAIN program.calls : program.calls[k] # DCLP \/ Len(program.calls) = 1 => Agree(k)
================================================================================
