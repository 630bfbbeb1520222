-------------------------------- MODULE Sections --------------------------------
(***************************************************************************)
(* Threads that enter critical sections of one mutex: a plain mutex        *)
(* (objects.cpp, mutex_example_1.cpp, unique_mtx.cpp), also around an      *)
(* atomic count (Atomics/atomic_example.cpp), a spin lock                  *)
(* (Atomics/spin_lock.cpp), a timed mutex that is tried for (unique_mtx2), *)
(* a shared mutex (read_write.cpp) and a recursive one (recursive_mutex).  *)
(* `amount` is what the mutex protects: the int that is modified, or the    *)
(* number of lines printed.  A step takes or gives back the mutex once, or *)
(* loads or stores the value.                                              *)
(***************************************************************************)
EXTENDS Naturals, Sequences, Functions

CONSTANTS Sharers,   (* threads a main starts in a loop: 5, 10, or 40 readers *)
          Repeats    (* how often a thread's loop goes round: 5, or 10000000  *)

VARIABLES program,   (* the program that runs                               *)
          pc,        (* per thread: what it does next                       *)
          amount,    (* Data::value, item_count, x, or lines printed        *)
          loaded,    (* per thread: the value it has loaded                 *)
          held,      (* per thread: how often it holds the mutex            *)
          section,   (* per thread: the sections it has left                *)
          stores     (* per thread: its stores in this section              *)

own == <<amount, loaded, held, section, stores>>

(* A thread: for each section it enters, how deep it locks and how often it *)
(* updates the amount; by how much, and whether it asks for the mutex shared*)
Writer(delta) == [depth |-> <<1>>, updates |-> <<1>>, delta |-> delta, shared |-> FALSE]
Reader == [Writer(0) EXCEPT !.updates = <<0>>, !.shared = TRUE]

TestThread == [name |-> "test_thread", initial |-> 10, does |-> [t \in 1 .. Sharers |-> Writer(t)]]
Shopper    == [name |-> "shopper", initial |-> 0,
               does |-> [t \in 1 .. 2 |-> [Writer(1) EXCEPT !.updates = <<Repeats>>]]]
AtomicShopper == [Shopper EXCEPT !.name = "atomic shopper"]
PrintTask  == [name |-> "print task", initial |-> 0,
               does |-> [t \in 1 .. 3 |-> [Writer(1) EXCEPT !.depth = [k \in 1 .. Repeats |-> 1],
                                                           !.updates = [k \in 1 .. Repeats |-> 1]]]]
SpinTask   == [name |-> "spin task", initial |-> 0, does |-> [t \in 1 .. Sharers |-> Writer(1)]]
TimedTasks == [name |-> "timed tasks", initial |-> 0, does |-> [t \in 1 .. 2 |-> Writer(1)]]
ReadWrite  == [name |-> "read and write", initial |-> 0,
               does |-> [t \in 1 .. Sharers + 2 |-> IF t <= 2 THEN Writer(1) ELSE Reader]]
Factorial  == [name |-> "factorial", initial |-> 0,
               does |-> [t \in 1 .. Sharers |-> [Writer(1) EXCEPT !.depth = <<3 + ((t - 1) % 3), 1>>,
                                                                 !.updates = <<0, 1>>]]]
Mine == {TestThread, Shopper, AtomicShopper, PrintTask, SpinTask, TimedTasks, ReadWrite, Factorial}
Runs == program.name \in {"test_thread", "shopper", "atomic shopper", "print task", "spin task",
                          "timed tasks", "read and write", "factorial"}

Does(t) == program.does[t]
Depth(t) == Does(t).depth[section[t] + 1]
Updates(t) == Does(t).updates[section[t] + 1]

Init == /\ program \in Mine
        /\ pc = [t \in DOMAIN program.does |-> "lock"]
        /\ amount = program.initial
        /\ loaded = [t \in DOMAIN pc |-> 0]
        /\ held = [t \in DOMAIN pc |-> 0]
        /\ section = [t \in DOMAIN pc |-> 0]
        /\ stores = [t \in DOMAIN pc |-> 0]

Goto(t, loc) == pc' = [pc EXCEPT ![t] = loc]
Free(t) == \A u \in DOMAIN pc \ {t} : held[u] = 0 \/ (Does(t).shared /\ Does(u).shared)
--------------------------------------------------------------------------------
LockWithoutWaiting(t) == /\ pc[t] = "lock"
                         /\ held' = [held EXCEPT ![t] = @ + 1]
                         /\ Goto(t, IF held'[t] < Depth(t) THEN "lock"
                                    ELSE IF Updates(t) = 0 THEN "unlock" ELSE "load")
                         /\ UNCHANGED <<amount, loaded, section, stores>>
(* lock, lock_shared, test_and_set, and the recursive calls that lock again.*)
Lock(t) == /\ pc[t] = "lock" /\ Free(t)
           /\ held' = [held EXCEPT ![t] = @ + 1]
           /\ Goto(t, IF held'[t] < Depth(t) THEN "lock"
                      ELSE IF Updates(t) = 0 THEN "unlock" ELSE "load")
           /\ UNCHANGED <<amount, loaded, section, stores>>

(* The loops of test_and_set and try_lock_for that have to go round again.  *)
TryAgain(t) == /\ program \in {SpinTask, TimedTasks}
               /\ pc[t] = "lock" /\ ~Free(t)
               /\ UNCHANGED <<pc, own>>

Load(t) == /\ pc[t] = "load" /\ program # AtomicShopper
           /\ loaded' = [loaded EXCEPT ![t] = amount]
           /\ Goto(t, "store")
           /\ UNCHANGED <<amount, held, section, stores>>

Store(t) == /\ pc[t] = "store"
            /\ amount' = loaded[t] + Does(t).delta
            /\ stores' = [stores EXCEPT ![t] = @ + 1]
            /\ Goto(t, IF stores'[t] < Updates(t) THEN "load" ELSE "unlock")
            /\ UNCHANGED <<loaded, held, section>>

(* item_count++ of an atomic *)
FetchAdd(t) == /\ pc[t] = "load" /\ program = AtomicShopper
               /\ amount' = amount + Does(t).delta
               /\ stores' = [stores EXCEPT ![t] = @ + 1]
               /\ Goto(t, IF stores'[t] < Updates(t) THEN "load" ELSE "unlock")
               /\ UNCHANGED <<loaded, held, section>>

UnlockOneLevel(t) == /\ pc[t] = "unlock"
                     /\ held' = [held EXCEPT ![t] = @ - 1]
                     /\ section' = [section EXCEPT ![t] = @ + 1]
                     /\ stores' = [stores EXCEPT ![t] = 0]
                     /\ Goto(t, IF section'[t] = Len(Does(t).depth) THEN "done" ELSE "lock")
                     /\ UNCHANGED <<amount, loaded>>
(* unlock, clear, or a lock guard's destructor, at every level of the calls.*)
Unlock(t) == /\ pc[t] = "unlock"
             /\ held' = [held EXCEPT ![t] = @ - 1]
             /\ \/ held[t] > 1 /\ UNCHANGED <<pc, section, stores>>
                \/ /\ held[t] = 1
                   /\ section' = [section EXCEPT ![t] = @ + 1]
                   /\ stores' = [stores EXCEPT ![t] = 0]
                   /\ Goto(t, IF section'[t] = Len(Does(t).depth) THEN "done" ELSE "lock")
             /\ UNCHANGED <<amount, loaded>>

Run(t) == /\ Runs /\ t \in DOMAIN pc
          /\ UNCHANGED program
          /\ \/ Lock(t) \/ TryAgain(t) \/ Load(t) \/ Store(t) \/ FetchAdd(t) \/ Unlock(t)
--------------------------------------------------------------------------------
TypeOK == Runs =>
  /\ \A t \in DOMAIN pc : /\ pc[t] \in {"lock", "load", "store", "unlock", "done"}
                          /\ section[t] \in 0 .. Len(Does(t).depth)
                          /\ pc[t] # "done" => held[t] \in 0 .. Depth(t)
                          /\ pc[t] # "done" => stores[t] \in 0 .. Updates(t)
  /\ amount \in Nat /\ loaded \in [DOMAIN pc -> Nat]

Finished == \A t \in DOMAIN pc : pc[t] = "done"
Added(t) == Does(t).delta * SumFunctionOnSet(Does(t).updates, 1 .. section[t])

(* No update is lost or half done: whatever the interleaving, what is read  *)
(* between sections is the initial value and what the sections left behind  *)
(* have added, and at the end every update is there (objects.cpp line 92    *)
(* and mutex_example_1.cpp line 26 print it).                               *)
NoUpdateLost == Runs /\ (\A t \in DOMAIN pc : held[t] = 0) =>
  amount = program.initial + SumFunction([t \in DOMAIN pc |-> Added(t)])
================================================================================
