------------------------------- MODULE SpawnTree -------------------------------
(***************************************************************************)
(* Threads that create threads and join them.  ThreadUnroll<Outer, Rest...>*)
(* (Threads/thread_unroll.cc) starts Outer threads, each of which applies  *)
(* ThreadUnroll<Rest...>, down to the call of the function; fibo.cc and    *)
(* toggle.cc start one level of threads; thread_local.cpp starts one after *)
(* the other has been joined; in managing_thread.cpp an exception passes a *)
(* thread that nobody has joined.  The threads are numbered level by level,*)
(* main being 0.  A step starts a thread, joins one, or calls the function.*)
(***************************************************************************)
EXTENDS Naturals, Sequences, Functions

CONSTANTS Grids,    (* dimensions <<NX, NY, ...>> of the grid               *)
          NumThreads (* num_threads of fibo.cc, 8                            *)

VARIABLES program, pc,
          captured,   (* per thread: the i its lambda has captured          *)
          started,    (* per thread: the threads it has started, its i      *)
          joined,     (* per thread: the threads it has joined              *)
          processed,  (* the cells the function was called for              *)
          aborted     (* std::terminate was called                          *)

own == <<captured, started, joined, processed, aborted>>

(* The programs: their levels, whether a thread is joined before the next is*)
(* started, and whether main throws once its thread runs.                   *)
Unroll(grid)   == [name |-> "unroll", dims |-> grid, inTurn |-> FALSE, throws |-> FALSE]
FiboWorkers    == [name |-> "fibo", dims |-> <<NumThreads>>, inTurn |-> FALSE, throws |-> FALSE]
RunnerTrue     == [name |-> "toggle", dims |-> <<1>>, inTurn |-> FALSE, throws |-> FALSE]
ThreadLocal    == [name |-> "thread local", dims |-> <<2>>, inTurn |-> TRUE, throws |-> FALSE]
ManagingThread == [name |-> "managing", dims |-> <<1>>, inTurn |-> FALSE, throws |-> TRUE]
Mine == {Unroll(grid) : grid \in Grids} \cup {FiboWorkers, RunnerTrue, ThreadLocal, ManagingThread}
Runs == program.name \in {"unroll", "fibo", "toggle", "thread local",
                          "managing"}

(* The threads of level l are Start[l] .. Start[l] + Width[l] - 1.          *)
Depth == Len(program.dims)
Width[l \in 0 .. Depth] == IF l = 0 THEN 1 ELSE Width[l - 1] * program.dims[l]
Start[l \in 0 .. Depth] == IF l = 0 THEN 0 ELSE Start[l - 1] + Width[l - 1]
Threads == 0 .. Start[Depth] + Width[Depth] - 1
Level(t) == CHOOSE l \in 0 .. Depth : t \in Start[l] .. Start[l] + Width[l] - 1
Outer(t) == program.dims[Level(t) + 1]
Child(t, i) == Start[Level(t) + 1] + (t - Start[Level(t)]) * Outer(t) + i
Parent(t) == CHOOSE p \in Threads : Level(p) + 1 = Level(t) /\ \E i \in 0 .. Outer(p) - 1 : Child(p, i) = t
IsLeaf(t) == Level(t) = Depth

(* args..., i: the indices captured by the thread and by those above it.    *)
Path[t \in Threads] == IF t = 0 THEN <<>> ELSE Append(Path[Parent(t)], t)
Cell(t) == [l \in 1 .. Len(Path[t]) |-> captured[Path[t][l]]]

Init == /\ program \in Mine
        /\ pc = [t \in Threads |-> IF t = 0 THEN "start" ELSE "unborn"]
        /\ captured = [t \in Threads |-> 0]
        /\ started = [t \in Threads |-> 0] /\ joined = [t \in Threads |-> 0]
        /\ processed = <<>> /\ aborted = FALSE

Begins(t) == IF IsLeaf(t) THEN "call" ELSE "start"
--------------------------------------------------------------------------------
(* threads.emplace_back: the lambda takes i by value, args by reference.    *)
Spawn(t) ==
  /\ pc[t] = "start" /\ started[t] < Outer(t)
  /\ LET child == Child(t, started[t]) IN
       /\ captured' = [captured EXCEPT ![child] = started[t]]
       /\ pc' = [pc EXCEPT ![child] = Begins(child),
                           ![t] = IF started[t] + 1 = Outer(t) \/ program.inTurn THEN "join" ELSE "start"]
  /\ started' = [started EXCEPT ![t] = @ + 1]
  /\ UNCHANGED <<joined, processed, aborted>>

(* A thread cannot be started, or main throws.  std::terminate: the         *)
(* exception leaves main, a thread's function, or a frame with a joinable   *)
(* thread; only managing_thread.cpp catches it, when it has no thread.      *)
Throw(t) ==
  /\ \/ pc[t] = "start" /\ started[t] < Outer(t)
     \/ program.throws /\ t = 0 /\ pc[t] = "join"
  /\ pc' = [u \in Threads |-> "done"]
  /\ aborted' = ~(program.throws /\ pc[t] = "start")
  /\ UNCHANGED <<captured, started, joined, processed>>

(* The joins, in the order in which the threads were started.               *)
NextJoin(t) == /\ joined' = [joined EXCEPT ![t] = @ + 1]
               /\ pc' = [pc EXCEPT ![t] = IF joined'[t] = Outer(t) THEN "done"
                                          ELSE IF joined'[t] = started[t] THEN "start" ELSE "join"]
               /\ UNCHANGED <<captured, started, processed, aborted>>
JoinTheLast(t) == /\ pc[t] = "join" /\ ~program.throws
                  /\ joined[t] + 1 = started[t] => pc[Child(t, joined[t])] = "done"
                  /\ NextJoin(t)
Join(t) == /\ pc[t] = "join" /\ ~program.throws
           /\ pc[Child(t, joined[t])] = "done"
           /\ NextJoin(t)

(* func(args...) of the innermost level, through the references in args.    *)
Call(t) == /\ pc[t] = "call"
           /\ processed' = Append(processed, Cell(t))
           /\ pc' = [pc EXCEPT ![t] = "done"]
           /\ UNCHANGED <<captured, started, joined, aborted>>

Run(t) == /\ Runs /\ t \in Threads
          /\ UNCHANGED program
          /\ \/ Spawn(t) \/ Throw(t) \/ Join(t) \/ Call(t)
--------------------------------------------------------------------------------
TypeOK == Runs =>
  /\ pc \in [Threads -> {"unborn", "start", "join", "call", "done"}]
  /\ started \in [Threads -> Nat] /\ joined \in [Threads -> Nat] /\ captured \in [Threads -> Nat]
  /\ \A t \in Threads : joined[t] <= started[t]
  /\ Len(processed) <= Width[Depth] /\ aborted \in BOOLEAN

(* Unless a thread cannot be started, no thread ends before the threads it  *)
(* has started, so the indices read through references by the function *)
(* are still there (thread_unroll.cc lines 17-26), and when main has ended  *)
(* the function has been called once for each cell of the grid.             *)
ParentsEndLast == Runs /\ ~aborted /\ ~program.throws =>
  /\ \A t \in Threads \ {0} : pc[t] # "done" => pc[Parent(t)] # "done"
  /\ IsInjective(processed)
  /\ pc[0] = "done" => Len(processed) = Width[Depth]
================================================================================
