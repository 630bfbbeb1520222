---------------------------- MODULE MultiQueuePool -----------------------------
(***************************************************************************)
(* The work-stealing ThreadPool of Data Structures/                        *)
(* multi_queue_thread_pool.{h,cpp}: one concurrent_queue per worker,       *)
(* submissions dealt round-robin, a worker that finds its own queue empty  *)
(* scans the others once and then blocks on its own.  The local queues are *)
(* unbounded and never closed, and only the owner ever waits on one, so a  *)
(* queue is its contents plus "its owner is asleep".  Driven as in         *)
(* SingleQueuePool (Data Structures/main.cpp).                             *)
(***************************************************************************)
EXTENDS Naturals, Sequences, FiniteSets

CONSTANTS ThreadCount,    (* thread_count                                   *)
          Main,           (* the thread that owns the pool                  *)
          Tasks,          (* every Func that may be submitted, once each    *)
          Collectors,     (* the tasks that spin on completed_tasks         *)
          Dummy,          (* the empty lambda the destructor pushes         *)
          NoTask,         (* an empty Func                                  *)
          WorkersSubmit   (* a running task may call submit                 *)

Workers == 0 .. ThreadCount - 1
Threads == Workers \cup {Main}

ASSUME PoolAssumption == /\ ThreadCount \in Nat \ {0}
                         /\ Main \notin Workers
                         /\ Collectors \subseteq Tasks
                         /\ Dummy \notin Tasks
                         /\ NoTask \notin Tasks \cup {Dummy}
                         /\ WorkersSubmit \in BOOLEAN

VARIABLES q,          (* per worker: thread_data[w]->local_queue            *)
          asleep,     (* workers waiting on the condition of their queue    *)
          stopping,   (* std::atomic<bool> stopping                         *)
          next,       (* submit's static counter, modulo thread_count       *)
          woken,      (* how many dummies ~ThreadPool has pushed            *)
          pc,         (* where each thread is                               *)
          job,        (* per worker: its local variable `task`              *)
          scan,       (* per worker: victims the steal loop has still to try*)
          sub,        (* per thread: the push in progress                   *)
          offered,    (* history: tasks on which submit was called          *)
          accepted,   (* history: tasks pushed                              *)
          finished,   (* history: tasks whose call returned                 *)
          dropped,    (* history: tasks popped by a worker that then quit   *)
          robbed      (* history: workers whose dummy another worker took   *)

history == <<offered, accepted, finished, dropped>>
vars == <<q, asleep, stopping, next, woken, pc, job, scan, sub, history, robbed>>

NoPush == [at |-> "none", task |-> NoTask, idx |-> 0]

Init == /\ q = [w \in Workers |-> <<>>]
        /\ asleep = {}
        /\ stopping = FALSE
        /\ next = 0
        /\ woken = 0
        /\ pc = [t \in Threads |-> IF t = Main THEN "client" ELSE "loop"]
        /\ job = [w \in Workers |-> NoTask]
        /\ scan = [w \in Workers |-> <<>>]
        /\ sub = [t \in Threads |-> NoPush]
        /\ offered = {} /\ accepted = {} /\ finished = {} /\ dropped = {}
        /\ robbed = {}

Goto(t, loc) == pc' = [pc EXCEPT ![t] = loc]
Quiet(t) == sub[t] = NoPush          (* t is in no push *)
--------------------------------------------------------------------------------
(* submit: test of stopping, fetch_add, push, notify_one. *)

MaySubmit(t) == \/ t = Main /\ pc[t] = "client"
                \/ WorkersSubmit /\ t \in Workers /\ pc[t] = "run"

Submit(t) == /\ MaySubmit(t)
             /\ Quiet(t)
             /\ \E k \in Tasks \ offered :
                  /\ k \in Collectors => Tasks \ Collectors \subseteq offered
                  /\ offered' = offered \cup {k}
                  /\ sub' = IF stopping THEN sub
                            ELSE [sub EXCEPT ![t] = [at |-> "reserve", task |-> k, idx |-> 0]]
             /\ UNCHANGED <<q, asleep, stopping, next, woken, pc, job, scan,
                            accepted, finished, dropped, robbed>>

Reserve(t) == /\ sub[t].at = "reserve"
              /\ next' = (next + 1) % ThreadCount
              /\ sub' = [sub EXCEPT ![t].at = "push", ![t].idx = next]
              /\ UNCHANGED <<q, asleep, stopping, woken, pc, job, scan, history, robbed>>

PushWithoutNotify(t) == /\ sub[t].at = "push"
                        /\ q' = [q EXCEPT ![sub[t].idx] = Append(@, sub[t].task)]
                        /\ accepted' = accepted \cup ({sub[t].task} \cap Tasks)
                        /\ sub' = [sub EXCEPT ![t] = NoPush]
                        /\ UNCHANGED <<asleep, stopping, next, woken, pc, job, scan,
                                       offered, finished, dropped, robbed>>
Push(t) == /\ sub[t].at = "push"
           /\ q' = [q EXCEPT ![sub[t].idx] = Append(@, sub[t].task)]
           /\ accepted' = accepted \cup ({sub[t].task} \cap Tasks)
           /\ sub' = [sub EXCEPT ![t].at = "notify"]
           /\ UNCHANGED <<asleep, stopping, next, woken, pc, job, scan,
                          offered, finished, dropped, robbed>>

Notify(t) == /\ sub[t].at = "notify"
             /\ asleep' = asleep \ {sub[t].idx}
             /\ sub' = [sub EXCEPT ![t] = NoPush]
             /\ UNCHANGED <<q, stopping, next, woken, pc, job, scan, history, robbed>>
--------------------------------------------------------------------------------
(* ~ThreadPool *)

DestroySkippingFirst == /\ pc[Main] = "client" /\ Quiet(Main)
                        /\ stopping' = TRUE
                        /\ woken' = 1
                        /\ Goto(Main, "destroy")
                        /\ UNCHANGED <<q, asleep, next, job, scan, sub, history, robbed>>
Destroy == /\ pc[Main] = "client" /\ Quiet(Main)
           /\ stopping' = TRUE
           /\ Goto(Main, "destroy")
           /\ UNCHANGED <<q, asleep, next, woken, job, scan, sub, history, robbed>>

PushDummy == /\ pc[Main] = "destroy" /\ Quiet(Main)
             /\ woken < ThreadCount
             /\ woken' = woken + 1
             /\ sub' = [sub EXCEPT ![Main] = [at |-> "push", task |-> Dummy, idx |-> woken]]
             /\ UNCHANGED <<q, asleep, stopping, next, pc, job, scan, history, robbed>>

AllDummiesPushed == pc[Main] = "destroy" /\ Quiet(Main) /\ woken = ThreadCount

JoinAll == /\ AllDummiesPushed
           /\ \A w \in Workers : pc[w] = "exit"
           /\ Goto(Main, "done")
           /\ UNCHANGED <<q, asleep, stopping, next, woken, job, scan, sub, history, robbed>>
--------------------------------------------------------------------------------
(* worker *)

(* try_pop or pop of the nonempty queue of v, by w. *)
TakeLeavingCopy(w, v) == /\ q[v] # <<>>
                         /\ job' = [job EXCEPT ![w] = Head(q[v])]
                         /\ robbed' = IF Head(q[v]) = Dummy /\ v # w THEN robbed \cup {v} ELSE robbed
                         /\ UNCHANGED q
Take(w, v) == /\ q[v] # <<>>
              /\ job' = [job EXCEPT ![w] = Head(q[v])]
              /\ q' = [q EXCEPT ![v] = Tail(@)]
              /\ robbed' = IF Head(q[v]) = Dummy /\ v # w THEN robbed \cup {v} ELSE robbed

LoopTest(w) == /\ pc[w] = "loop"
               /\ Goto(w, IF stopping THEN "exit" ELSE "own")
               /\ UNCHANGED <<q, asleep, stopping, next, woken, job, scan, sub, history, robbed>>

(* The victims in the order of lines 56-59, from any start: `own` of them   *)
(* come before the worker itself, which is left out.                        *)
Victims(w, start) ==
  LET own == (w + ThreadCount - start) % ThreadCount
  IN [i \in 1 .. ThreadCount - 1 |-> (start + (IF i > own THEN i ELSE i - 1)) % ThreadCount]

TryOwn(w) == /\ pc[w] = "own"
             /\ \/ Take(w, w) /\ Goto(w, "run") /\ UNCHANGED scan
                \/ /\ q[w] = <<>>
                   /\ \E start \in Workers : scan' = [scan EXCEPT ![w] = Victims(w, start)]
                   /\ Goto(w, "steal")
                   /\ UNCHANGED <<q, job, robbed>>
             /\ UNCHANGED <<asleep, stopping, next, woken, sub, history>>

Steal(w) == /\ pc[w] = "steal"
            /\ \/ /\ scan[w] = <<>>
                  /\ Goto(w, "block")
                  /\ UNCHANGED <<q, job, scan, robbed>>
               \/ /\ scan[w] # <<>>
                  /\ Take(w, Head(scan[w]))
                  /\ scan' = [scan EXCEPT ![w] = <<>>]
                  /\ Goto(w, "run")
               \/ /\ scan[w] # <<>>
                  /\ q[Head(scan[w])] = <<>>
                  /\ scan' = [scan EXCEPT ![w] = Tail(@)]
                  /\ UNCHANGED <<q, job, pc, robbed>>
            /\ UNCHANGED <<asleep, stopping, next, woken, sub, history>>

(* pop on the own queue: take, or wait; a woken owner re-tests only its own *)
(* queue, it does not go back to stealing.                                  *)
BlockOwn(w) == /\ pc[w] = "block"
               /\ w \notin asleep
               /\ \/ Take(w, w) /\ Goto(w, "check") /\ UNCHANGED asleep
                  \/ /\ q[w] = <<>>
                     /\ asleep' = asleep \cup {w}
                     /\ UNCHANGED <<q, job, pc, robbed>>
               /\ UNCHANGED <<stopping, next, woken, scan, sub, history>>

CheckStop(w) == /\ pc[w] = "check"
                /\ IF stopping
                   THEN /\ Goto(w, "exit")
                        /\ dropped' = dropped \cup ({job[w]} \cap Tasks)
                        /\ job' = [job EXCEPT ![w] = NoTask]
                   ELSE Goto(w, "run") /\ UNCHANGED <<job, dropped>>
                /\ UNCHANGED <<q, asleep, stopping, next, woken, scan, sub,
                               offered, accepted, finished, robbed>>

BodyCanReturn(k) == k \in Collectors => Tasks \ Collectors \subseteq finished
Spinning(w) == pc[w] = "run" /\ ~BodyCanReturn(job[w])
Spin(w) == Spinning(w) /\ UNCHANGED vars

FinishTask(w) == /\ pc[w] = "run" /\ Quiet(w)
                 /\ BodyCanReturn(job[w])
                 /\ Goto(w, "loop")
                 /\ finished' = finished \cup ({job[w]} \cap Tasks)
                 /\ job' = [job EXCEPT ![w] = NoTask]
                 /\ UNCHANGED <<q, asleep, stopping, next, woken, scan, sub,
                                offered, accepted, dropped, robbed>>

SpuriousWake(w) == /\ w \in asleep
                   /\ asleep' = asleep \ {w}
                   /\ UNCHANGED <<q, stopping, next, woken, pc, job, scan, sub, history, robbed>>
--------------------------------------------------------------------------------
Destructor == PushDummy \/ JoinAll
Call(t) == Reserve(t) \/ Push(t) \/ Notify(t)
Worker(w) == LoopTest(w) \/ TryOwn(w) \/ Steal(w) \/ BlockOwn(w) \/ CheckStop(w) \/ FinishTask(w)

Terminated == pc[Main] = "done" /\ UNCHANGED vars

Next == \/ \E t \in Threads : Submit(t) \/ Call(t)
        \/ Destroy \/ Destructor
        \/ \E w \in Workers : Worker(w) \/ Spin(w) \/ SpuriousWake(w)
        \/ Terminated

Spec == Init /\ [][Next]_vars

(* As in SingleQueuePool: threads run, tasks return, main submits and, once *)
(* in the destructor, goes on; whether it enters it is left open.           *)
FairSpec == /\ Spec
            /\ WF_vars(Submit(Main)) /\ WF_vars(Destructor)
            /\ \A t \in Threads : WF_vars(Call(t))
            /\ \A w \in Workers : WF_vars(Worker(w))
--------------------------------------------------------------------------------
TypeOK == /\ q \in [Workers -> Seq(Tasks \cup {Dummy})]
          /\ asleep \subseteq {w \in Workers : pc[w] = "block"}
          /\ stopping \in BOOLEAN
          /\ next \in Workers
          /\ woken \in 0 .. ThreadCount
          /\ pc \in [Threads -> {"client", "destroy", "done", "loop", "own", "steal",
                                 "block", "check", "run", "exit"}]
          /\ job \in [Workers -> Tasks \cup {Dummy, NoTask}]
          /\ scan \in [Workers -> Seq(Workers)]
          /\ sub \in [Threads -> {NoPush} \cup [at : {"reserve", "push", "notify"},
                                                 task : Tasks \cup {Dummy}, idx : Workers]]

(* An owner never sleeps over its own nonempty queue unless the push that   *)
(* filled it has its notification still to send.                            *)
OwnerIsWoken == \A w \in asleep :
                  q[w] # <<>> => \E t \in Threads : sub[t].at = "notify" /\ sub[t].idx = w

(* An accepted task is in exactly one place although any worker may take it *)
(* from any queue; only a pool that is stopping drops one.                  *)
Positions(k, w) == {i \in DOMAIN q[w] : q[w][i] = k}
Copies(k) == Cardinality(UNION {{w} \X Positions(k, w) : w \in Workers})
             + Cardinality({w \in Workers : job[w] = k})
             + Cardinality({k} \cap finished)
             + Cardinality({k} \cap dropped)
EveryTaskInOnePlace == /\ TypeOK
                       /\ \A k \in Tasks : Copies(k) = IF k \in accepted THEN 1 ELSE 0
                       /\ ~stopping => dropped = {}

(* When the destructor has pushed and announced every dummy, the only       *)
(* workers still asleep with no wakeup on its way are those whose dummy     *)
(* another worker stole: nothing else can keep the joins waiting.           *)
SleepersWereRobbed ==
  AllDummiesPushed => \A w \in asleep : q[w] = <<>> => w \in robbed

(* While main does not destroy the pool, every submitted task runs: the     *)
(* owner of the queue it was dealt to returns to it if nobody steals it.    *)
(* Only an owner that spins in a collector may keep it waiting.             *)
Behind(k, w) == k = job[w] \/ k \in {q[w][i] : i \in DOMAIN q[w]}
AcceptedTasksRun ==
  \A k \in Tasks :
    k \in accepted ~> \/ k \in finished \/ stopping
                      \/ [](\E w \in Workers : Spinning(w) /\ Behind(k, w))

(* Line 26: "Wake up all workers by pushing a dummy task to each local      *)
(* queue"; the destructor joins them all and reports a clean shutdown.      *)
ShutdownCompletes == stopping ~> pc[Main] = "done"

(* The same, for a shutdown in which no dummy is stolen and no collector    *)
(* waits for a task that was thrown away.                                   *)
UnrobbedShutdownCompletes ==
  stopping ~> (pc[Main] = "done" \/ robbed # {} \/ [](\E w \in Workers : Spinning(w)))

(* multi_queue_thread_pool.h line 16: "Idle workers steal tasks from other  *)
(* workers' queues", so main.cpp's tasks all complete, its last one too,    *)
(* as long as main sleeps.                                                  *)
AllTasksComplete == <>(finished = Tasks \/ stopping)
================================================================================
