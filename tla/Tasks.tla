--------------------------------- MODULE Tasks ---------------------------------
(***************************************************************************)
(* Tasks whose result is fetched through a future (Asynchronous            *)
(* Programming): std::async with its launch policies (launch_opts.cpp) and *)
(* for several tasks at once (concurrent_tasks.cpp), a packaged_task in a  *)
(* detached thread, its result fed to the next one (asynk_task_launch.cpp),*)
(* and a packaged_task and its future given to two threads                 *)
(* (packaged_task.cpp).  Thread 0 is main and thread k runs task k, unless *)
(* the task is deferred.  A step is a launch, the end of a task, a get or  *)
(* a join; the sleeps order nothing.  a and b of packaged_task.cpp are 1.  *)
(***************************************************************************)
EXTENDS Naturals, Sequences

CONSTANT Numbers   (* how many numbers concurrent_tasks.cpp squares, 5      *)

VARIABLES program, pc,
          step,      (* how far main has come in what the program does      *)
          deferred,  (* tasks that run when their result is asked for       *)
          input,     (* per task: the argument it was launched with         *)
          result,    (* per task: its shared state, NotReady before         *)
          runs,      (* history: per task, the threads that have run it     *)
          fetched    (* the results that get has returned, in order         *)

own == <<step, deferred, input, result, runs, fetched>>

NotReady == 0
Launch(k) == [op |-> "launch", task |-> k]
Get(k)    == [op |-> "get", task |-> k]
Start(k)  == [op |-> "start", task |-> k]
Join(k)   == [op |-> "join", task |-> k]

(* The programs: what main does, the policies each task may run by, and who *)
(* gets the results; Argument is what a task is launched with, Value its    *)
(* result.                                                                  *)
LaunchOptions   == [name |-> "launch options", getter |-> 0,
                    policies |-> <<{"async"}, {"deferred"}, {"async", "deferred"}>>,
                    does |-> <<Launch(1), Get(1), Launch(2), Get(2), Launch(3), Get(3)>>]
ConcurrentTasks == [name |-> "concurrent tasks", getter |-> 0,
                    policies |-> [k \in 1 .. Numbers |-> {"async"}],
                    does |-> [k \in 1 .. Numbers |-> Launch(k)] \o [k \in 1 .. Numbers |-> Get(k)]]
DetachedTasks   == [name |-> "detached tasks", getter |-> 0, policies |-> <<{"async"}, {"async"}>>,
                    does |-> <<Launch(1), Get(1), Launch(2), Get(2)>>]
PackagedTask    == [name |-> "packaged task", getter |-> 2, policies |-> <<{"async"}>>,
                    does |-> <<Launch(1), Start(2), Join(1), Join(2)>>]
Mine == {LaunchOptions, ConcurrentTasks, DetachedTasks, PackagedTask}
Runs == program.name \in {"launch options", "concurrent tasks",
                          "detached tasks", "packaged task"}

TaskIds == DOMAIN program.policies
Threads == 0 .. (IF program = PackagedTask THEN 2 ELSE Len(program.policies))

Argument(k) == CASE program = ConcurrentTasks -> k
                 [] program = DetachedTasks -> IF k = 1 THEN 21 ELSE result[k - 1]
                 [] OTHER -> 1
Value(k) == CASE program = LaunchOptions -> 42
              [] program = ConcurrentTasks -> input[k] * input[k]
              [] program = DetachedTasks -> IF k = 1 THEN input[k] * 2 ELSE input[k] + 10
              [] program = PackagedTask -> input[k] + input[k]

Init == /\ program \in Mine
        /\ pc = [t \in Threads |-> IF t = 0 THEN "main" ELSE "unborn"]
        /\ step = 1 /\ deferred = {} /\ fetched = <<>>
        /\ input = [k \in TaskIds |-> 0]
        /\ result = [k \in TaskIds |-> NotReady]
        /\ runs = [k \in TaskIds |-> <<>>]

Does == program.does[step]
At(t, op, k) == t = 0 /\ pc[0] = "main" /\ Does.op = op /\ Does.task = k
Asks(t, k) == At(t, "get", k) \/ (t = program.getter /\ pc[t] = "get" /\ k = 1)

(* Thread t goes on: main to its next step, another thread to its end.      *)
GoOn(t, others) ==
  /\ step' = IF t = 0 /\ step < Len(program.does) THEN step + 1 ELSE step
  /\ pc' = [others EXCEPT ![t] = IF t = 0 /\ step < Len(program.does) THEN "main" ELSE "done"]
--------------------------------------------------------------------------------
(* std::async, or the thread that runs a packaged_task.                     *)
StartTask(t, k) ==
  /\ At(t, "launch", k)
  /\ input' = [input EXCEPT ![k] = Argument(k)]
  /\ \E policy \in program.policies[k] :
       /\ deferred' = IF policy = "deferred" THEN deferred \cup {k} ELSE deferred
       /\ GoOn(t, [pc EXCEPT ![k] = IF policy = "deferred" THEN "done" ELSE "task"])
  /\ UNCHANGED <<result, runs, fetched>>

(* std::thread thread_2(display_result, std::move(fut)) *)
StartGetter(t, k) == /\ At(t, "start", k)
                     /\ GoOn(t, [pc EXCEPT ![k] = "get"])
                     /\ UNCHANGED <<deferred, input, result, runs, fetched>>

Finish(t, k) == /\ result' = [result EXCEPT ![k] = Value(k)]
                /\ runs' = [runs EXCEPT ![k] = Append(@, t)]
                /\ UNCHANGED <<deferred, input, fetched>>

(* The task returns in its own thread and makes the future ready.           *)
EndTask(t) == /\ pc[t] = "task" /\ GoOn(t, pc) /\ Finish(t, t)

(* get() of a deferred task runs it, the first time, in the thread that asks*)
RunDeferred(t, k) == /\ Asks(t, k) /\ k \in deferred /\ result[k] = NotReady
                     /\ Finish(t, k) /\ UNCHANGED <<pc, step>>

GetWithoutWaiting(t, k) == /\ Asks(t, k) /\ (k \in deferred => result[k] # NotReady)
                           /\ fetched' = Append(fetched, result[k])
                           /\ GoOn(t, pc)
                           /\ UNCHANGED <<deferred, input, result, runs>>
GetResult(t, k) == /\ Asks(t, k) /\ result[k] # NotReady
                   /\ fetched' = Append(fetched, result[k])
                   /\ GoOn(t, pc)
                   /\ UNCHANGED <<deferred, input, result, runs>>

JoinThread(t, k) == /\ At(t, "join", k) /\ pc[k] = "done"
                    /\ GoOn(t, pc)
                    /\ UNCHANGED <<deferred, input, result, runs, fetched>>

Run(t) == /\ Runs /\ t \in Threads
          /\ UNCHANGED program
          /\ \/ EndTask(t)
             \/ \E k \in TaskIds : StartTask(t, k) \/ RunDeferred(t, k) \/ GetResult(t, k)
             \/ \E k \in Threads : StartGetter(t, k) \/ JoinThread(t, k)
--------------------------------------------------------------------------------
TypeOK == Runs =>
  /\ pc \in [Threads -> {"main", "unborn", "task", "get", "done"}]
  /\ step \in DOMAIN program.does /\ deferred \subseteq TaskIds
  /\ input \in [TaskIds -> Nat] /\ result \in [TaskIds -> Nat]
  /\ \A k \in TaskIds : runs[k] \in Seq(Threads)
  /\ fetched \in Seq(Nat)

Results == CASE program = LaunchOptions -> <<42, 42, 42>>
             [] program = ConcurrentTasks -> [k \in 1 .. Numbers |-> k * k]
             [] program = DetachedTasks -> <<42, 52>>
             [] program = PackagedTask -> <<2>>

(* However the threads of the tasks are scheduled, the results come out in  *)
(* the order of the calls of get, each that of its own task; no task runs   *)
(* twice, a deferred one runs in the thread that asks for it and never if   *)
(* nobody has asked, and the others run in threads of their own.            *)
ResultsInOrder == Runs =>
  /\ fetched = SubSeq(Results, 1, Len(fetched))
  /\ \A k \in TaskIds : runs[k] \in {<<>>, <<IF k \in deferred THEN program.getter ELSE k>>}
  /\ \A k \in deferred : runs[k] # <<>> => Len(fetched) >= k - 1
  /\ pc[0] = "done" => Len(fetched) = Len(Results)
================================================================================
