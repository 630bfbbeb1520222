---------------------------- MODULE SingleQueuePool ----------------------------
(***************************************************************************)
(* The single-queue ThreadPool of Data Structures/thread_pool.cpp over one *)
(* unbounded concurrent_queue, driven as Data Structures/main.cpp drives   *)
(* it: a main thread submits tasks and then destroys the pool.  Tasks may  *)
(* submit further tasks if WorkersSubmit.  A collector is a task like the  *)
(* last one of main.cpp: submitted after the others, it spins until all of *)
(* them have completed.                                                    *)
(***************************************************************************)
EXTENDS Naturals, Sequences, FiniteSets

CONSTANTS Workers,        (* the thread_count threads of the pool           *)
          Main,           (* the thread that owns the pool                  *)
          Tasks,          (* every Func that may be submitted, once each    *)
          Collectors,     (* the tasks that spin on completed_tasks         *)
          Dummy,          (* the empty lambda the destructor pushes         *)
          NoTask,         (* an empty Func                                  *)
          WorkersSubmit   (* a running task may call submit                 *)

ASSUME PoolAssumption == /\ IsFiniteSet(Workers)
                         /\ Workers # {}
                         /\ Main \notin Workers
                         /\ Collectors \subseteq Tasks
                         /\ Dummy \notin Tasks
                         /\ NoTask \notin Tasks \cup {Dummy}
                         /\ WorkersSubmit \in BOOLEAN

VARIABLES q, closed, asleep, call,   (* work_queue                          *)
          stopping,   (* std::atomic<bool> stopping                         *)
          left,       (* dummies ~ThreadPool has still to push              *)
          pc,         (* where each thread is                               *)
          job,        (* per worker: its local variable `task`              *)
          sub,        (* per thread: the argument of its submit, not pushed *)
          offered,    (* history: tasks on which submit was called          *)
          accepted,   (* history: tasks pushed onto work_queue              *)
          finished,   (* history: tasks whose call returned                 *)
          dropped     (* history: tasks popped by a worker that then quit   *)

queueVars == <<q, closed, asleep, call>>
history == <<offered, accepted, finished, dropped>>
vars == <<queueVars, stopping, left, pc, job, sub, history>>

Threads == Workers \cup {Main}

Q == INSTANCE ConcurrentQueue WITH
       Values   <- Tasks \cup {Dummy},
       NoValue  <- NoTask,
       Capacities <- {0},
       capacity <- 0,
       MaxLen   <- 0

Init == /\ Q!Init
        /\ stopping = FALSE
        /\ left = 0
        /\ pc = [t \in Threads |-> IF t = Main THEN "client" ELSE "pop"]
        /\ job = [w \in Workers |-> NoTask]
        /\ sub = [t \in Threads |-> NoTask]
        /\ offered = {} /\ accepted = {} /\ finished = {} /\ dropped = {}

Goto(t, loc) == pc' = [pc EXCEPT ![t] = loc]
Quiet(t) == sub[t] = NoTask /\ Q!Ready(t)    (* t is not inside submit *)
--------------------------------------------------------------------------------
(* submit: the test of stopping, the push, and the notification are three  *)
(* steps; the destructor can run between any two of them.                  *)

MaySubmit(t) == \/ t = Main /\ pc[t] = "client"
                \/ WorkersSubmit /\ t \in Workers /\ pc[t] = "run"

Submit(t) == /\ MaySubmit(t)
             /\ Quiet(t)
             /\ \E k \in Tasks \ offered :
                  /\ k \in Collectors => Tasks \ Collectors \subseteq offered
                  /\ offered' = offered \cup {k}
                  /\ sub' = IF stopping THEN sub ELSE [sub EXCEPT ![t] = k]
             /\ UNCHANGED <<queueVars, stopping, left, pc, job, accepted, finished, dropped>>

SubmitPushKeepingTask(t) == /\ sub[t] # NoTask
                            /\ Q!Push(t, sub[t])
                            /\ accepted' = accepted \cup {sub[t]}
                            /\ UNCHANGED <<stopping, left, pc, job, sub, offered, finished, dropped>>
SubmitPush(t) == /\ sub[t] # NoTask
                 /\ Q!Push(t, sub[t])
                 /\ accepted' = accepted \cup {sub[t]}
                 /\ sub' = [sub EXCEPT ![t] = NoTask]
                 /\ UNCHANGED <<stopping, left, pc, job, offered, finished, dropped>>

ForgetNotify(t) == /\ call[t].op = "notify"
                   /\ call' = [call EXCEPT ![t].op = "pushed"]
                   /\ UNCHANGED <<q, closed, asleep, stopping, left, pc, job, sub, history>>
Notify(t) == /\ Q!NotifyOne(t)
             /\ UNCHANGED <<stopping, left, pc, job, sub, history>>
--------------------------------------------------------------------------------
(* ~ThreadPool *)

DestroyOneShort == /\ pc[Main] = "client" /\ Quiet(Main)
                   /\ stopping' = TRUE
                   /\ left' = Cardinality(Workers) - 1
                   /\ Goto(Main, "destroy")
                   /\ UNCHANGED <<queueVars, job, sub, history>>
Destroy == /\ pc[Main] = "client" /\ Quiet(Main)
           /\ stopping' = TRUE
           /\ left' = Cardinality(Workers)
           /\ Goto(Main, "destroy")
           /\ UNCHANGED <<queueVars, job, sub, history>>

PushDummy == /\ pc[Main] = "destroy"
             /\ left > 0
             /\ Q!Push(Main, Dummy)
             /\ left' = left - 1
             /\ UNCHANGED <<stopping, pc, job, sub, history>>

JoinAll == /\ pc[Main] = "destroy"
           /\ left = 0
           /\ Q!Ready(Main)
           /\ \A w \in Workers : pc[w] = "exit"
           /\ Goto(Main, "done")
           /\ UNCHANGED <<queueVars, stopping, left, job, sub, history>>
--------------------------------------------------------------------------------
(* worker *)

PopTask(w) == /\ pc[w] = "pop"
              /\ Q!Pop(w) \/ Q!PopWake(w)
              /\ IF call'[w].op = "popped"
                 THEN Goto(w, "check") /\ job' = [job EXCEPT ![w] = call'[w].arg]
                 ELSE UNCHANGED <<pc, job>>
              /\ UNCHANGED <<stopping, left, sub, history>>

CheckStop(w) == /\ pc[w] = "check"
                /\ IF stopping
                   THEN /\ Goto(w, "exit")
                        /\ dropped' = dropped \cup ({job[w]} \cap Tasks)
                        /\ job' = [job EXCEPT ![w] = NoTask]
                   ELSE Goto(w, "run") /\ UNCHANGED <<job, dropped>>
                /\ UNCHANGED <<queueVars, stopping, left, sub, offered, accepted, finished>>

(* A collector's loop, `while (completed_tasks.load() < num_tasks)`. *)
BodyCanReturn(k) == k \in Collectors => Tasks \ Collectors \subseteq finished
Spinning(w) == pc[w] = "run" /\ ~BodyCanReturn(job[w])
Spin(w) == Spinning(w) /\ UNCHANGED vars

FinishTask(w) == /\ pc[w] = "run" /\ Quiet(w)
                 /\ BodyCanReturn(job[w])
                 /\ Goto(w, "pop")
                 /\ finished' = finished \cup {job[w]}
                 /\ job' = [job EXCEPT ![w] = NoTask]
                 /\ UNCHANGED <<queueVars, stopping, left, sub, offered, accepted, dropped>>

SpuriousWake(w) == /\ Q!SpuriousWake(w)
                   /\ UNCHANGED <<stopping, left, pc, job, sub, history>>
--------------------------------------------------------------------------------
Destructor == PushDummy \/ JoinAll
Call(t) == SubmitPush(t) \/ Notify(t)
Worker(w) == PopTask(w) \/ CheckStop(w) \/ FinishTask(w)

Terminated == pc[Main] = "done" /\ UNCHANGED vars

Next == \/ \E t \in Threads : Submit(t) \/ Call(t)
        \/ Destroy \/ Destructor
        \/ \E w \in Workers : Worker(w) \/ Spin(w) \/ SpuriousWake(w)
        \/ Terminated

Spec == Init /\ [][Next]_vars

(* Threads are scheduled and tasks return; main submits its tasks and, once *)
(* it is in the destructor, goes on there.  When its sleep ends, if ever    *)
(* before the tasks do, is left open, and spurious wakeups are not promised.*)
FairSpec == /\ Spec
            /\ WF_vars(Submit(Main)) /\ WF_vars(Destructor)
            /\ \A t \in Threads : WF_vars(Call(t))
            /\ \A w \in Workers : WF_vars(Worker(w))
--------------------------------------------------------------------------------
TypeOK == /\ q \in Seq(Tasks \cup {Dummy})
          /\ closed = FALSE
          /\ asleep \subseteq {w \in Workers : pc[w] = "pop" /\ Q!InPop(w)}
          /\ call \in [Threads -> [op : Q!Ops, arg : Tasks \cup {Dummy, NoTask}]]
          /\ stopping \in BOOLEAN
          /\ left \in 0 .. Cardinality(Workers)
          /\ pc \in [Threads -> {"client", "destroy", "done", "pop", "check", "run", "exit"}]
          /\ job \in [Workers -> Tasks \cup {Dummy, NoTask}]
          /\ sub \in [Threads -> Tasks \cup {NoTask}]

(* Shutdown cannot starve (lines 15-38): once stopping is set, every worker *)
(* that will still pop has an item to pop, queued or about to be queued.    *)
(* One dummy per worker suffices because a worker that pops after stopping  *)
(* quits without popping again.                                             *)
StillToPop == {w \in Workers : pc[w] \in {"pop", "run"}}
ShutdownNeverStarves == stopping => Cardinality(StillToPop) <= Len(q) + left

(* No task is lost or run twice: an accepted task is in exactly one place,  *)
(* and only a pool that is stopping drops one.                              *)
Copies(k) == Cardinality({i \in DOMAIN q : q[i] = k})
             + Cardinality({w \in Workers : job[w] = k})
             + Cardinality({k} \cap finished)
             + Cardinality({k} \cap dropped)
EveryTaskInOnePlace == /\ \A k \in Tasks : Copies(k) = IF k \in accepted THEN 1 ELSE 0
                       /\ ~stopping => dropped = {}

(* The destructor returns: the workers see stopping, one pop each.  Only a  *)
(* collector that waits for a task the shutdown threw away (main.cpp line   *)
(* 72) can hold it up.                                                      *)
ShutdownCompletes == stopping ~> (pc[Main] = "done" \/ [](\E w \in Workers : Spinning(w)))

(* main.cpp as written, as long as its sleep lasts: every task completes,   *)
(* the collector included, although it occupies a worker while it spins.    *)
AllTasksComplete == <>(finished = Tasks \/ stopping)
================================================================================
