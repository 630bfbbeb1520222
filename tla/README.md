# A verification project for Accelerated

The repository is a collection of C and C++ programs about parallel and concurrent
programming. There is no single application: it has a handful of *components* that
others could use (a blocking queue, two thread pools on top of it, a lock-free stack and
queue, a bank account, a semaphore, a monitor) and several dozen *programs* of one file,
each of which shows one technique. This directory holds TLA+ models of the components and
of the programs whose threads really share state, the TLC runs that check them, and
theorems about them that TLAPS proves. The GPU programs (OpenCL and CUDA) are among them:
host, command queue, work-groups and barriers.

Paths below are relative to `src/`; C&P stands for `Concurrency & Parallelism`, LF for
`Atomics/Lock Free Programming`, GPU for `GPU Programming`.

## 1. Inventory

### The components

| part | state | operations | interacts with |
|---|---|---|---|
| `concurrent_queue<T>` (C&P/Data Structures/concurrent_queue.h) | a `std::queue`, `capacity`, `closed`, one mutex, one condition variable for "not empty" *and* "not full" | `push`, `pop`, `try_pop`, `close`, `empty` | the pools call it; the queue test of main.cpp too |
| single-queue `ThreadPool` (thread_pool.cpp, single_queue_thread_pool.h) | one queue of `Func`, `stopping`, the workers | `submit`, the worker loop, the destructor | tasks may call `submit`; main.cpp submits tasks and a collector that spins on a counter |
| work-stealing `ThreadPool` (multi_queue_thread_pool.cpp/.h) | a queue per worker, the round-robin counter, `stopping` | `submit`, the worker loop with its steal scan, the destructor | the same main.cpp |
| `LockFreeStack` (LF/Data Structures/lock_free_stack.cc) | `head`, `next` of each node | `push`; main's threads, joins and count | – |
| `LockFreeQueue` (LF/Data Structures/lock_free_queue.cc) | `head`, `tail`, `next` and `data` of each node, which nodes are allocated | `produce`, `consume`, the destructor | main's producers and consumers, which share a plain `int` |
| `BankAccount` (C&P/Mutual Exclusion/mutex_example.cpp) | two balances, a mutex each | `transfer`, `Transfer` with its reversed retry | – |
| `Semaphore` (C&P/Threads/Semaphore) | a counter with a maximum, a mutex, a condition variable | `release`, `acquire` | main's nine threads |
| `Monitor` and the programs that wait (C&P/Threads/Monitor, C&P/Threads/Thread Synchronization, Atomics/one_shot_event.cpp) | a value under a mutex, wait sets, a future's shared state, an atomic waited on | wait with and without a predicate, notify, `set_value`, `set_exception`, fire | – |
| `ConfigManager` (LF/config_manager.cpp) | an atomic `shared_ptr` to an immutable configuration, and the counts that free one | `current`, `update` | main's reader and writer |
| asynchronous tasks (C&P/Asynchronous Programming) | per task: its policy, its shared state, who runs it | `std::async` by each policy, `packaged_task`, `get`, `join` | one task's result is the next one's argument |
| trees of threads (C&P/Threads/thread_unroll.cc, fibo.cc, toggle.cc, thread_local.cpp, managing_thread.cpp) | which threads are started and joined, what their lambdas captured | start, join, the call of the innermost function, an exception | parents wait for children |
| GPU programs (GPU/OpenCL, GPU/cuda) | the command queue, arrays in global memory, per work-item its place, its cell of local memory and its accumulator | the host's calls and their errors, enqueue, finish, read back; a kernel's loads, barriers, shuffles and writes | host and device through the queue and the arrays |

The programs: two tables of dining philosophers, four ways of creating an object on first
use, counters (plain, atomic, counted down, with a winner flag), a producer and a consumer
that poll a flag, a fetcher with a progress bar, a parallel sieve, two parallel sums and a
Monte-Carlo loop, and critical sections under every kind of mutex the standard library has.

`PROJECT.json` lists every part, the ones without a model too.

### What is hard here

* **Wakeups.** The queue notifies after it has unlocked, and with `notify_one`, on a
  condition variable that pushers and poppers share. Whether a sleeping popper can be left
  behind, and what a bounded queue does, depends on orders that the tests never force.
* **Shutdown.** Neither pool closes its queues. The destructor sets `stopping`, pushes one
  dummy task per worker and joins. It races with `submit` (which tests `stopping` and
  pushes later), with workers that popped a real task and only then test `stopping`, and,
  in the second pool, with thieves.
* **Lock-free retries.** Each operation is a sequence of single loads, stores and
  compare-exchanges with every other thread in between. Spurious failures of
  `compare_exchange_weak`, a tail that lags, and nodes deleted while somebody still holds
  a pointer to them are out of reach of a test.
* **Deadlock and retry** in opposite-direction transfers and around the table.
* **Test, then act.** Double-checked locking, flags that are polled, wait without a
  predicate, `vector<bool>` elements that share a word, unlocked `++`.
* **Who runs what, and when.** A deferred task runs in the thread that asks for it, once; a
  lambda that captures a loop index by reference would see it change; a parent that returns
  before it has joined its children takes the things they refer to with it.
* **Snapshots.** A reader holds one configuration while the writer replaces it twice.
* **Barriers and edges.** Work-items of a group read what others wrote on the other side of
  a barrier, groups are rounded up beyond the data, several groups run at a time in any
  order, and a call of the host may fail at any point of the sequence.

### What makes each part correct

A queue is a FIFO: each call takes effect once, atomically, between its start and its
return; nobody sleeps while there is something to do; a capacity is kept. A pool runs each
accepted task exactly once unless it is being destroyed, never loses one silently, and its
destructor returns. A lock-free structure is linearizable, keeps its list intact, frees
each node once and reads none that was freed. Money is conserved and no balance is
negative. Units of a semaphore are not invented and nobody sleeps on one. An object is
created once and everybody gets that one. A waiter goes on neither too early nor never.
Parallel loops treat each index once. The host reads back what the kernels were to compute,
or an error, and nothing in between. A task runs once and its result is fetched when it is
there. A parent ends last. A reader sees one whole configuration. Every program ends, or it is known which thread
does not.

## 2. Modules

| module | models | EXTENDS / INSTANCE |
|---|---|---|
| `ConcurrentQueue` | concurrent_queue.h | refines `FifoQueue` |
| `FifoQueue` | the abstract queue: calls take effect in one atomic step each | – |
| `QueueTest` | the queue test of main.cpp, 15 items through capacity 10 | `ConcurrentQueue` |
| `SingleQueuePool` | thread_pool.cpp, single_queue_thread_pool.h, the pool test of main.cpp | `ConcurrentQueue` |
| `MultiQueuePool` | multi_queue_thread_pool.cpp/.h, the pool test of main.cpp | – |
| `LockFreeStack` | lock_free_stack.cc | – |
| `LockFreeQueue` | produce and consume, one step per shared access | – |
| `LockFreeQueueMain` | main and the destructor of lock_free_queue.cc | `LockFreeQueue`, refines `LinearizableQueue` |
| `LinearizableQueue` | the abstract queue `LockFreeQueueMain` implements | – |
| `BankAccount` | mutex_example.cpp | – |
| `Semaphore` | semaphore.h and its main.cpp | – |
| `Philosophers` | deadlock_dining_philosophers.cpp, try_lock_dining_philosophers.cpp | – |
| `LazyInit` | Lazy Initialization/source.cpp and the three other programs with such getters | – |
| `Waiting` | counter.cpp over monitor.h; four condition-variable, promise and future programs; one_shot_event.cpp | – |
| `Counting` | data_race.cpp, basic_counter.cpp, thread_pool.cpp of LF, atomics_class.cpp | – |
| `HandOver` | producer_consumer.cpp (Mutual Exclusion), thread_coordination.cpp | – |
| `ParallelLoops` | prime_sieve.cpp, parallel_sum.cpp, vector_parallel_sum.cpp, pi_monteCarlo.c | – |
| `Sections` | atomic_example.cpp, objects.cpp, mutex_example_1.cpp, unique_mtx.cpp, unique_mtx2.cpp, read_write.cpp, recursive_mutex.cpp, spin_lock.cpp | – |
| `Kernels` | the seven OpenCL hosts with their kernels and the five CUDA kernels | – |
| `Tasks` | launch_opts.cpp, concurrent_tasks.cpp, asynk_task_launch.cpp, packaged_task.cpp | – |
| `SpawnTree` | thread_unroll.cc, fibo.cc, toggle.cc, thread_local.cpp, managing_thread.cpp | – |
| `Snapshots` | config_manager.cpp | – |
| `Programs` | one program of the eleven modules above runs | all eleven |
| `MC*` | the instance TLC checks and what makes it an interesting one | their component |
| `*_proofs` | the component's theorems and their lemmas; those about the program modules are all in `Programs_proofs`, `LockFreeQueueMain_proofs` has those of the lock-free queue | their component, `TLAPS` |

### How state and actions correspond to the code

* A thread's place in its code is `pc` (`call` in `ConcurrentQueue`, where a call's
  progress, argument and result are one record). The names of the places are those of the
  operations that come next.
* **What is one step.** Code between `lock` and `unlock` (or a wait) touches only data
  that this mutex protects, so it is one step; a call of `wait` ends a step and its return
  starts the next one, which tests the predicate again. A notification after the unlock is
  a step of its own (`NotifyOne`): that gap is one of the hazards. In the two places where
  a critical section is itself the subject (`BankAccount`, `Sections`) lock, every load,
  every store and unlock are steps, and the mutexes are variables. On atomics and on
  unprotected data every single access is a step.
* **Condition variables** are the set of threads asleep. `notify_one` removes any one
  member, `notify_all` all of them, and `SpuriousWake` removes one at any time.
* **Memory** is sequentially consistent. The code's weaker orders (relaxed in two
  counters, release/acquire in the lock-free structures) are outside the models, and so
  is what a plain `int` written by two threads does beyond losing increments.
* **History variables** (`pushed`, `delivered`, `accepted`, `finished`, `dropped`,
  `robbed`, `early`, `seen`, `dangling`, `runs`, `printed`) record what happened so that a property can
  speak of it; no guard reads one, except that a task is submitted once and the
  collector counts finished tasks, which is the program's own counter.
* **Bounds** are constants: `MaxLen` (items in a queue), `Tasks`, `Nodes`/`Cells` (what
  `new` returns), `Pushes`, `Transfers`, `Rounds`, `Items`, `Sharers`, `Repeats`,
  `Elements`, `Grids`, `Reads`...
  All but the first are also bounds of the programs, with smaller values.
* **Kernels** compute with bags instead of numbers: a value is the bag of the terms that
  went into it, so a term that is missing, counted twice or taken from somewhere else shows,
  and rounding does not. Memory that nothing has written holds the bag `Before`. A step of
  a work-item is what it does between two accesses that another item may disturb; a barrier
  is a step of the whole group; at most `ComputeUnits` groups are between their first and
  last step.
* **Programs of one module share its variables.** A module of small programs has a
  constant record per program (what its threads do, in which order), and its actions read
  that record.
* Definitions named for what they get wrong (`PushWakeIgnoringClose`, `TestThenSet`,
  `DeleteTwo`...) stand in front of the definition they vary and are used by no
  specification: they are the bugs each property was shown to detect
  (`mutants` in `PROJECT.json`).

## 3. Runs

`tlc -config X.cfg M`, where `X` is the run's name and `M` the name up to `_`.

| run | instance | checks | result |
|---|---|---|---|
| `MCConcurrentQueue` | 3 threads that call anything at any time, 2 values, unbounded and capacity 1, at most 3 items | `CapacityRespected`, `NoLostWakeup`, `CloseReleases`, `FifoSpec` | holds |
| `QueueTest_hang` | main.cpp's own 15 and 10 | `TestCompletes` | **violated** |
| `MCSingleQueuePool` | 2 workers, 3 tasks, one a collector, tasks submit tasks | `ShutdownNeverStarves`, `EveryTaskInOnePlace`, `ShutdownCompletes`, `AllTasksComplete` | holds |
| `MCMultiQueuePool` | the same | `OwnerIsWoken`, `EveryTaskInOnePlace`, `SleepersWereRobbed`, `AcceptedTasksRun`, `UnrobbedShutdownCompletes` | holds |
| `MCMultiQueuePool_stolen_dummy` | 2 workers, 2 tasks | `ShutdownCompletes` | **violated** |
| `MCMultiQueuePool_idle_sleeps` | 2 workers, tasks and a collector | `AllTasksComplete` | **violated** |
| `MCLockFreeStack` | 3 threads, 2 pushes each, spurious failures | `ListIsHistory`, `PublishedNodesAreFrozen`, `AllPushesComplete` | holds |
| `MCLockFreeQueueMain` | 2 producers, 2 consumers, the destructor, spurious failures | `ListIsIntact`, `HandedOutAndFreedOnce`, `Linearizable`, `ProgramEnds` | holds |
| `MCLockFreeQueueMain_delete` | the same, without spurious failures | `NoDanglingAccess` | **violated** |
| `MCBankAccount` | 2 threads one way, 1 the other, 2 transfers each | `MoneyConserved`, `NeverOverdrawn`, `AllTransfersEnd` | holds |
| `MCSemaphore` | main's 5 releases and 4 acquires, maximum 3 | `AcquiresAreBacked`, `NobodySleepsOnUnits`, `UnitsAreTaken` | holds |
| `MCPrograms` | each program of the eleven modules | `TypeOK`, the safety properties below, `WaitersResume`, `ProgramsEnd` | holds |

What they show, and why the bounds suffice:

* **MCConcurrentQueue.** The queue implements the atomic FIFO (`FifoSpec`) with every
  wait, wakeup and late notification. `NoLostWakeup`: while a popper of an unbounded queue
  sleeps, every item queued has a notification or a woken popper on its way. It needs the
  three threads, because a third must come between a notification and the thread it wakes.
  `CapacityRespected` needs a pusher that slept, was woken and was overtaken: two pushers
  and capacity 1. Capacity 0 is the pools' queue.
* **QueueTest.** `push` waits for room on the condition variable that only `push` and
  `close` notify; `pop` notifies nobody. A writer that is 10 items ahead sleeps for good,
  and so does the reader when it has emptied the queue. (In practice the reader's shorter
  delays keep this from happening.)
* **SingleQueuePool.** One dummy per worker suffices (`ShutdownNeverStarves`): a worker
  that pops after `stopping` quits, whatever it popped. Hence the destructor returns, also
  with a `submit` that slips in behind the dummies. What it does to tasks is visible in
  `EveryTaskInOnePlace`: one popped during shutdown is dropped. `ShutdownCompletes` has one
  exception, stated in it: a collector that waits for a dropped task spins for ever. Two
  workers and three tasks let one worker eat what was meant for the other with tasks in
  front of, between and behind the dummies.
* **MultiQueuePool.** The same shutdown does not carry over. A worker that is still
  scanning steals the dummy of one that sleeps, and the join hangs
  (`MCMultiQueuePool_stolen_dummy`); `SleepersWereRobbed` and `UnrobbedShutdownCompletes`
  say that this, and a spinning collector, is the only way to hang. A worker that once
  found nothing blocks on its own queue and never scans again
  (`MCMultiQueuePool_idle_sleeps`), so a task dealt to the queue of a worker that runs the
  collector is never run; `AcceptedTasksRun` says that no other task waits for ever. Two
  workers are the smallest pool that steals; a third adds victims but no new order, since
  a scan looks at one queue at a time. The module has its own queue operations because a
  steal combines `try_pop`s of several queues in one worker; they are those of
  `ConcurrentQueue` for capacity 0, and the notification is a separate step here too.
* **LockFreeStack.** The list is at any time the history of the successful pushes, a node
  in it never changes, and every push completes.
* **LockFreeQueueMain.** Every call of `produce` and `consume` takes effect in one atomic
  step of a FIFO (`Linearizable` checks the refinement; a `consume` that answers false does
  so only if the queue was empty at some moment of the call), the list is never broken, each
  value is handed out once, each node deleted once and none leaked. But a consumer deletes
  a node that another is about to read (`MCLockFreeQueueMain_delete`). The passing run goes
  on as if the read returned the old contents, which is what an allocator that does not
  reuse the node gives: `Linearizable` holds for that build. With reuse (ABA) it need not.
* **BankAccount.** The mutexes make five loads and stores one transfer, in both directions
  at once and through the reversed retry of a transfer that could not be covered. Amounts
  below and above the initial balance make success, retry and double failure happen.
* **Semaphore.** With a maximum of three, some of the five releases can be lost, so units
  and releases differ; `UnitsAreTaken` says that as many acquirers finish as units allow.
* **Programs.** One program runs at a time; they share a run because they share nothing
  else.

  | property | says | programs and bounds |
  |---|---|---|
  | `NeighboursEatApart` | a philosopher who eats holds both forks | five forks, as in the code |
  | `CreatedOnce` | one object per getter, the same for everybody | two threads: a creator and one that looks |
  | `NobodyGoesOnEarly`, `WaitersResume` | a waiter passes neither before what it waits for nor never | as in the code |
  | `CountsAddUp` | atomics lose nothing, a plain int keeps at least two increments, exactly one thread announces the end | two threads, three rounds (losing all but two takes three) |
  | `ItemsInOrder` | items are handed over in order and once | four items |
  | `LoopsAreExact` | the sieve leaves the primes, the shared words of `vector<bool>` included; the division into chunks with a rest adds each element once | `n` from 2 to 13 and sizes 3 to 7 with up to five threads: more threads than blocks, chunks with every rest; words of four elements |
  | `NoUpdateLost` | updates under any of the mutexes add up | three threads where a main starts five to forty in a loop (the mutex held, and two that wait), three rounds where a loop goes round five or ten million times |
  | `HostGetsResults` | if the host reports success it has read what the kernels compute from the whole input; if not, an error; nothing is read before it is there | groups of four over three and five elements (a group that is not full, two groups), a 3 by 1 product over 3 with tiles of two (rests in both directions, two rounds), two compute units |
  | `ResultsInOrder` | each task runs once, by a thread its policy allows, and results come in the order they are asked for | the three policies, four concurrent squares |
  | `ParentsEndLast` | the function is called once per cell of the grid, and no thread ends before its children | grids 2 by 2 and 1 by 2 by 1, three workers, a start that fails at any point |
  | `SnapshotsAreWhole` | a reader prints level and mode of one version, versions in order, from memory that is not freed; in the end only the last configuration is left | two readers with two turns instead of one with five, the two updates of the code |
  | `ProgramsEnd` | everybody gets to the end | see section 4 |

  The instance has about 63,000 states and takes about two minutes.

The type invariants are parts of other properties where no run lists them
(`EveryTaskInOnePlace` of the work-stealing pool and `ListIsIntact` include theirs), or
proved (section 6).

## 4. Fairness

Every liveness property assumes weak fairness per thread: the scheduler does not stop a
thread for ever, and a mutex is held only for finitely many instructions. Nothing makes a
thread start a call it need not make, nothing makes main enter a pool's destructor, and
**spurious wakeups are possible but never promised**: a program that ends only because of
one does not end. Weak fairness is enough for threads that wait for mutexes too: the
transfers, sections and meals of a run are finitely many, so a lock that others keep
taking is free for good in the end. `LockFreeStack` and `LockFreeQueueMain` need more:
strong fairness for *some* compare-exchange succeeding. `compare_exchange_weak` may fail
without cause, but no hardware lets it fail always; which thread succeeds is left open, so
a thread may lose arbitrarily many races.

`ProgramsEnd` has three exceptions, all stated in it. Philosophers with `try_lock` can pick
up and put back their left forks in step for ever, until one of them has eaten
(`MayDineForEver`). The reader that waits without a predicate sleeps for good if the writer
was first (`WaitersResume` says when it does go on). In thread_coordination.cpp `completed`
is never set, so two of its threads poll for ever (`BarIsFull`).

The device of `Kernels` runs whatever groups it has started: work-items are scheduled
fairly within a group that has a compute unit, and a group that waits for one gets it when
another has ended. No item waits for another group, so nothing more is needed.

## 5. Findings

1. **concurrent_queue.h:53**: `pop` and `try_pop` never notify a waiting `push`; main.cpp's
   queue test can hang (`QueueTest_hang`).
2. **multi_queue_thread_pool.cpp:61**: the destructor's dummy can be stolen; the destructor
   then hangs, although line 26 wants to "Wake up all workers".
3. **multi_queue_thread_pool.cpp:71**: idle workers sleep on their own queue instead of
   stealing, contrary to multi_queue_thread_pool.h:16; main.cpp's tasks need not complete.
4. **lock_free_queue.cc:85**: "Safe to delete old dummy/head" is not: another thread may
   still dereference it.

Read from the code and not the subject of a run: source.cpp:131 says that only one object
was created, but each of the four getters creates its own and one overwrites another's
pointer; thread_coordination.cpp never sets `completed`; shared_mutex.cpp locks a mutex a
second time at lines 16 and 19; prime_sieve.cpp with n = 3 or 4 and five threads reads past
its vector, to no effect (`LoopsAreExact` covers it); parallel_reduction.cpp looks at
`devices[0]` without the test for an empty list that the others have; the two ends of the
stencil's result come back as they were before the kernel, uninitialized; the fused CUDA
kernel adds to `z`, which nothing has set to zero; the CUDA and OpenCL vector additions
look at no error, so a run without a device reports whatever memory held; main.c of the
matrix multiplication uses `TS` in a kernel that never defines it;
host.cpp starts groups of 8 rows of items for the 32-row tiles of nonlinear_tiled_matmul.cpp,
so most of a tile is read uninitialized; producer_consumer.cpp can leave items in its deque; lock_free_queue.cc:104 lets
consumers quit before the producers have begun.

## 6. Theorems

All for arbitrary constants that meet the modules' named assumptions (finite, disjoint
sets of threads; special values outside the sets they are special to; natural numbers).
`MainAssumption` asks for finitely many producers and cells, and for more cells than
producers: main starts a fixed number of threads, and memory that `new` would fail to
return is outside the model. The modules that `Programs` instantiates name no
assumptions; the theorems about them state the ones they need, which only say that counts
are natural numbers, that there are two forks and one item, thread or element at least, that
the sieve's `n` is from 2 on, since prime_sieve.cpp returns at once below that, and that the
size of a work-group and the side of a tile are powers of two above 1 (256, 16 and 32 in the
code): the reduction and the shuffles halve them.

| module | theorem | states |
|---|---|---|
| `ConcurrentQueue_proofs` | `TypeCorrect` | `Spec => []TypeOK` |
| | `CapacityHolds` | `Spec => []CapacityRespected` |
| | `WakeupsHold` | `Spec => []NoLostWakeup` |
| | `ImplementsFifo` | `Spec => FifoSpec` |
| `SingleQueuePool_proofs` | `PoolTypeCorrect` | `Spec => []TypeOK` |
| | `EveryTaskHasOnePlace` | `Spec => []EveryTaskInOnePlace` |
| | `ShutdownHolds` | `Spec => []ShutdownNeverStarves` |
| `MultiQueuePool_proofs` | `MultiQueueTypeCorrect` | `Spec => []TypeOK` |
| | `EveryTaskHasOnePlace` | `Spec => []EveryTaskInOnePlace` |
| | `OwnersAreWoken` | `Spec => []OwnerIsWoken` |
| | `OnlyRobbedSleep` | `Spec => []SleepersWereRobbed` |
| `LockFreeStack_proofs` | `StackTypeCorrect` | `Spec => []TypeOK` |
| | `StackIsHistory` | `Spec => []ListIsHistory` |
| | `StackIsFrozen` | `Spec => PublishedNodesAreFrozen` |
| `LockFreeQueueMain_proofs` | `ListStaysIntact` | `Spec => []ListIsIntact` |
| | `HandedOutOnce` | `Spec => []HandedOutAndFreedOnce` |
| | `ProgramIsLinearizable` | `Spec => Linearizable` |
| `BankAccount_proofs` | `BankConserves` | `Spec => []MoneyConserved` |
| | `BankSolvent` | `Spec => []NeverOverdrawn` |
| `Semaphore_proofs` | `SemaphoreTypeCorrect` | `Spec => []TypeOK` |
| | `SemaphoreBacked` | `Spec => []AcquiresAreBacked` |
| | `SemaphoreWakes` | `Spec => []NobodySleepsOnUnits` |
| `Programs_proofs` | `NeighboursDoNotEatTogether` | `Spec => []NeighboursEatApart`, from two forks on |
| | `CreatesOnce` | `Spec => []CreatedOnce`, for any number of threads but none |
| | `ReadersSeeSnapshots` | `Spec => []SnapshotsAreWhole`, for any number of readers and turns |
| | `WaitersTest` | `Spec => []NobodyGoesOnEarly` |
| | `ItemsComeInOrder` | `Spec => []ItemsInOrder`, for any number of items but none |
| | `CountersAddUp` | `Spec => []CountsAddUp`, for any numbers of threads and rounds but none |
| | `ResultsComeInOrder` | `Spec => []ResultsInOrder`, for any number of concurrent tasks but none |
| | `LoopsComputeExactly` | `Spec => []LoopsAreExact`, for any `n`, sizes, teams and length of a word |
| | `ThreadsEndLeavesFirst` | `Spec => []ParentsEndLast`, for any grids and number of workers |
| | `UpdatesAreKept` | `Spec => []NoUpdateLost`, for any numbers of threads and rounds |
| | `HostsGetResults` | `Spec => []HostGetsResults`, for any lengths, dimensions, powers of two and number of compute units |

The arguments:

* **Queue.** `TypeOK` is inductive because it includes that only a thread inside a wait is
  in the wait set. `CapacityRespected` is inductive relative to it. `NoLostWakeup` counts:
  items ≤ notifications to come + poppers woken, whenever a popper sleeps; each action
  changes each of the three numbers by at most one. It needs `NobodyInPush`: without a
  capacity no pusher ever waits, so a notification cannot be swallowed by one. The
  refinement maps a call whose notification is still to be sent to one that has returned;
  every action is then an abstract call, an abstract return or a stutter.
* **Pool.** Relative to `TypeOK`, the workers that still pop never outnumber the items plus
  the dummies to come: a pop takes an item and a worker away together, because the worker
  goes to `check` and, while `stopping`, from there only to `exit`.
* **Tasks in one place** (both pools). Copies of a task are counted in the queues, in the
  workers' hands and in the two histories; sums of cardinalities are awkward to reason
  about, so the invariant is stated by places instead: a task is nowhere, or at one
  position of a queue and with no worker, or with one worker and in no queue, or over.
  Append and Tail move positions one to one, and each action moves one task from one place
  to another. That the copies then add up to one is a lemma about the places.
* **Work-stealing pool.** `OwnerIsWoken` is inductive relative to `TypeOK`: only a push
  makes a queue nonempty, and it is then the push that still has to notify; a thief only
  takes. `SleepersWereRobbed` is not inductive: it needs `ShutdownInv`, which follows the
  dummy of every worker the destructor's loop has served. It is being pushed, or in the
  worker's queue, or stolen, or the worker has taken it, and then, `stopping` being set, the
  worker passes only through `run`, `check` and `loop` to `exit` and can sleep no more.
* **Stack.** `ListIsHistory` needs `Private`: the node a thread is about to publish is in
  nobody else's hands and not in the list, and at the compare-exchange its `next` is the
  head the thread loaded. So a compare-exchange that succeeds prepends to the very list
  that was loaded.
* **Lock-free queue.** One inductive invariant gives all three theorems:
  `QueueInv == \E s, n, h, k : Inv(s, n, h, k)`, where the history of the queue is made a
  witness: `s` holds the `n` nodes that were ever linked, in order, `h` is the place of
  `head` and `k` that of `tail` in it. Then `next` links each node of `s` to the one behind
  it, what a thread has taken for the head or the tail is in `s` and no later than where
  that has got to since, the nodes before `h` are deleted or about to be, and a node that is
  not linked yet is in nobody else's hands. `Chain`, which
  the properties speak of, is a recursive function; that it is `s` from `h` on is shown
  by a least counterexample, because no induction theorem can be instantiated. For the
  refinement, a produce maps to its link, a consume to its swing of `head`, and a miss
  to its return, by when `sawEmpty` records that the queue was empty during the call.
* **Bank.** `Exclusive` (a thread inside a transfer holds both mutexes, and nobody else
  holds one) lets `Fresh` hold: what a thread loaded is still the balance when it stores.
* **Semaphore.** `UnitsConserved`: the counter plus the completed acquires is the effective
  releases. With `TypeOK` and "nobody sleeps while the counter is positive", inductive.
* **Programs.** The theorems below are about the composition: `OneModuleRuns` says that
  a step never changes the program, and that while a program of one module runs, a step is
  one of that module or leaves all its variables alone. The rest is an invariant of the
  module.
* **Philosophers.** `HoldsAt` says which forks a philosopher holds at each place; no step
  touches a fork that another one holds. With one fork left and right would be the same
  mutex, hence at least two.
* **Lazy initialization.** The thread between its second look and the end of the getter
  holds the guard; a once flag is free only before the object exists and over only after
  it. The difficulty is the pointer that two getters of source.cpp share: `ObjectsAt` and
  `CallOrder` say that the object of `getTestInstance_DCLP` can be replaced, but only after
  it was made, because every thread calls that getter first.
* **Snapshots.** `Counted`: a configuration is allocated exactly while somebody points to
  it; `ReaderAt` and `LinesAt` order what a reader has printed, what it holds and what the
  manager points to by version.
* **Waiting.** `WaitingInv` says that a waiter of a program that tests has gone on only with
  a value it has seen at its threshold; a wakeup, spurious or not, only sends it back to
  its test.
* **Hand-over.** What was printed and what is in the deque are together the items pushed so
  far, in order; `finished` is set behind the last of them.
* **Counters.** `Marks` holds a mark for each round a thread has finished. An atomic
  counter is the number of marks; what a thread has loaded from the plain int, or anybody
  has stored, is at most that number, and after a round of its own never 0, which
  makes two the least total from two rounds on. The workers that have yet to count
  themselves out are as many as `left` says, so exactly one sees it become 0; a winner flag
  set twice would need two threads that found it clear.
* **Tasks.** `FetchInv` follows each task by what main has done (`Reached`: how far its
  launches and gets have come): not launched, running in its own thread, deferred and
  not begun, or finished with the result that its input implies. A deferred task begins
  only in the thread that calls `get`, and a result is fetched in the order of the calls.
* **Loops.** The sieve of Eratosthenes is proved for every `n`: `ClearedMeans` says
  which numbers stage 1 clears when it has got to `i` (those with a divisor from 2 to `i`
  whose square is not above them), and `StageOneIsPrimes` that at the root of `n` what is
  left is the primes. With that `SieveInv` is short: the multiple a worker clears is
  composite, hence clear, so a word that is written back is what it was, whoever read it
  when. The adding loops: boundaries that do not descend from 0 to `n` (`Boundaries`; the
  recursively defined `ChunkStart` is shown to be the shares in closed form) cut `0 .. n - 1`
  into parts that are apart and leave out nothing (`StepsCover`).

* **Trees of threads.** `SpawnInv` says of every thread how many of its children it has
  started and joined, and by that where they are: started ones have begun, joined ones are
  done, the others unborn. So a thread behind its joins has no child left that runs, and
  by one more step none of its descendants. The numbering carries the rest: the widths of
  the levels are a recursive function over the grid, and that the levels are intervals one
  behind the other, that a child lies in the level below and has one parent, and that the
  leaves are the cells of the grid, is shown from least counterexamples over the levels.
  `CellsCalled` then relates what was processed to the leaves that are done.
* **Critical sections.** `LockInv`: `HoldApart` (two threads that hold the mutex both hold it
  shared, and such threads update nothing), `SectionAt` (a thread that loads or stores holds
  it as deep as its section locks, and what it has loaded is still the amount), `AmountIs`
  (the amount is the initial one and the sum over the threads of what they have added, the
  section they are in included). Sums over a finite set of threads, and that a change of
  one summand changes the sum by as much, are lemmas about the fold.
* **Kernels.** `DeviceInv` says how far the device has got: `d` of the enqueued kernels are
  done and have computed what they should (`Computed`), the command queue holds the rest in
  order and then the read, arrays of kernels that have not begun are as before, and where the
  host is says what it has enqueued and read. Of the kernel that runs, `KernelRuns` says
  what its items hold. The items of a group go through its phases together
  (`Together`), since they leave a barrier together. In the reduction an item whose place in
  the group is below the stride holds the sum of the elements whose place is its own modulo
  the stride (`ReducesTo`), before and after its addition of a round; what it adds is
  not written in the same round. In the tiled products an item has loaded its two cells of
  the tile of the round, and has accumulated the products of the rounds before (`Upto`): the
  terms of a round are those of `Tile` columns of one operand and rows of the other, read
  from cells of the group's other items, which are loaded because the group is past the
  barrier and stay until all have turned. In the warp shuffles a lane holds `count` times the
  terms with `count` times twice the offset equal to the tile. That each element of the result
  is written by one item, and by which, is arithmetic of division and remainder.
  Bags are compared by their domains and counts (`JoinSets`, and the lemmas around it).

**Only model-checked:** all liveness (the prover does not handle fairness and `ENABLED` here),
and of the invariants one: `TypeOK` of `Programs`, a conjunction over all eleven modules, of
which each theorem above proves the part it needs, so that proving it as a whole would add
nothing to them. Facts by induction over data (`Chain`, `Cleared`, `ChunkStart`, the widths of a
tree's levels, sums over threads) are won from the least counterexample over `Nat` or from
lemmas about finite sets, because the induction theorems of the library cannot be instantiated
here. No module declares a `RECURSIVE` operator.

## 7. Not modelled

* Functions and fragments that nothing runs: `double_check.cpp`, the two deadlock examples
  without threads, the livelock stub, `Monitor::wait_for`, `mark_multiples`,
  try_lock.cpp (its loop never begins). async_task_manager.cpp copies futures and does not
  compile; async_await.cpp is one task of the cppcoro library, which is not in the
  repository.
* Programs of one thread, or whose threads share nothing: the string monitor, basic_ops.cpp,
  the coroutine files (each resume runs to the next yield with nothing in between), OMP's
  loops.c and fibonacci.c, tag_dispatching.cc and unrolling.cc, the drivers of sieve and sum
  (command line and clock).
* Programs without defined behaviour in any run: shared_mutex.cpp (it locks a mutex twice),
  basics.cpp (a plain bool is polled), exec_policies.cpp's counter, OpenCL/Basics/main.c
  (the address of the source is passed as a size) and OpenCL/Kernels (local size 32 by 8 for
  tiles of 32 rows).
* Memory weaker than sequentially consistent, and memory that is handed out again while a
  stale pointer to it exists (ABA): see section 3 on `LockFreeQueueMain`.
* Arithmetic: floating-point rounding, random numbers, what a kernel's formula computes.
  The model of the device runs one kernel at a time, which is what an in-order queue
  promises; timing queries (`clGetEventInfo`, `clock`) are left out. main.c of the matrix
  multiplication is read as it is meant (`TS` defined, `M` a variable), since as it stands
  no compiler accepts its kernel.
* Output, random delays, the lifetime of main.cpp's locals (its counter dies before the
  pool's destructor joins).

## 8. Plan

The order in which the project was and will be built. Done: the queue and its
refinement; the two pools; the lock-free stack and queue; bank account and semaphore; the
eleven modules of programs, the GPU programs among them; the theorems above.

What is left, in this order:

1. The lock-free queue with an allocator that reuses nodes, which needs a weaker
   `Linearizable` and a bound on the reuses.
2. A protocol of resume, yield and return for the three coroutine files, once one of them
   shares a generator between threads.
