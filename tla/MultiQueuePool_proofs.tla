------------------------- MODULE MultiQueuePool_proofs --------------------------
(* Theorems about MultiQueuePool, for every number of workers and tasks.      *)
EXTENDS MultiQueuePool, FiniteSetTheorems, TLAPS

LEMMA WorkersAreNaturals == 0 \in Workers /\ \A w \in Workers : w \in Nat /\ (w + 1) % ThreadCount \in Workers
  BY PoolAssumption DEF Workers

(* A take shortens one queue by its first item, which the worker then holds.  *)
LEMMA TakeTypes ==
  ASSUME TypeOK, NEW w \in Workers, NEW v \in Workers, Take(w, v)
  PROVE  /\ q' \in [Workers -> Seq(Tasks \cup {Dummy})]
         /\ job' \in [Workers -> Tasks \cup {Dummy, NoTask}]
  <1>1. q[v] \in Seq(Tasks \cup {Dummy}) /\ q[v] # <<>>
    BY DEF TypeOK, Take
  <1>2. Head(q[v]) \in Tasks \cup {Dummy} /\ Tail(q[v]) \in Seq(Tasks \cup {Dummy})
    BY <1>1
  <1> QED BY <1>2 DEF TypeOK, Take

LEMMA VictimsAreWorkers ==
  ASSUME NEW w \in Workers, NEW start \in Workers
  PROVE  Victims(w, start) \in Seq(Workers)
  <1> DEFINE own == (w + ThreadCount - start) % ThreadCount
             place(i) == start + (IF i > own THEN i ELSE i - 1)
  <1>1. ThreadCount \in Nat /\ ThreadCount > 0 /\ start \in Nat /\ w \in Nat
    BY PoolAssumption DEF Workers
  <1>2. own \in Nat
    BY PoolAssumption DEF Workers
  <1>3. ASSUME NEW i \in 1 .. ThreadCount - 1 PROVE place(i) \in Nat
    BY <1>1, <1>2
  <1>4. ASSUME NEW i \in 1 .. ThreadCount - 1 PROVE place(i) % ThreadCount \in Workers
    <2>1. \A n \in Nat : n % ThreadCount \in 0 .. ThreadCount - 1
      BY <1>1
    <2> HIDE DEF place
    <2> QED BY <1>3, <2>1, <1>4 DEF Workers
  <1>5. Victims(w, start) \in [1 .. ThreadCount - 1 -> Workers]
    BY <1>4 DEF Victims
  <1> QED BY <1>1, <1>5

LEMMA TypeInit == Init => TypeOK
  <1> SUFFICES ASSUME Init PROVE TypeOK
    OBVIOUS
  <1> USE WorkersAreNaturals DEF Init
  <1>1. q \in [Workers -> Seq(Tasks \cup {Dummy})] /\ scan \in [Workers -> Seq(Workers)]
    OBVIOUS
  <1>2. woken \in 0 .. ThreadCount /\ next \in Workers
    BY PoolAssumption
  <1>3. sub \in [Threads -> {NoPush} \cup [at : {"reserve", "push", "notify"},
                                          task : Tasks \cup {Dummy}, idx : Workers]]
    OBVIOUS
  <1> QED BY <1>1, <1>2, <1>3 DEF TypeOK

LEMMA TypeStep == TypeOK /\ [Next]_vars => TypeOK'
  <1> SUFFICES ASSUME TypeOK, [Next]_vars PROVE TypeOK'
    OBVIOUS
  <1> USE PoolAssumption, WorkersAreNaturals DEF Threads, Goto, history
  <1>1. CASE UNCHANGED vars
    BY <1>1 DEF TypeOK, vars
  <1>2. ASSUME NEW t \in Threads, Submit(t) PROVE TypeOK'
    BY <1>2 DEF TypeOK, Submit
  <1>3. ASSUME NEW t \in Threads, Reserve(t) PROVE TypeOK'
    <2>1. next \in Workers /\ next' \in Workers
      BY <1>3 DEF TypeOK, Reserve
    <2>2. sub[t] \in [at : {"reserve", "push", "notify"}, task : Tasks \cup {Dummy}, idx : Workers]
      BY <1>3 DEF TypeOK, Reserve, NoPush
    <2>3. [sub[t] EXCEPT !.at = "push", !.idx = next]
             \in [at : {"reserve", "push", "notify"}, task : Tasks \cup {Dummy}, idx : Workers]
      BY <2>1, <2>2
    <2>4. sub' = [sub EXCEPT ![t] = [sub[t] EXCEPT !.at = "push", !.idx = next]]
      BY <1>3 DEF TypeOK, Reserve
    <2>5. sub' \in [Threads -> {NoPush} \cup [at : {"reserve", "push", "notify"},
                                             task : Tasks \cup {Dummy}, idx : Workers]]
      BY <2>3, <2>4 DEF TypeOK
    <2> QED BY <1>3, <2>1, <2>5 DEF TypeOK, Reserve
  <1>4. ASSUME NEW t \in Threads, Push(t) PROVE TypeOK'
    <2>1. sub[t].task \in Tasks \cup {Dummy} /\ sub[t].idx \in Workers
      BY <1>4 DEF TypeOK, Push, NoPush
    <2>2. Append(q[sub[t].idx], sub[t].task) \in Seq(Tasks \cup {Dummy})
      BY <2>1 DEF TypeOK
    <2>3. q' \in [Workers -> Seq(Tasks \cup {Dummy})]
      BY <1>4, <2>1, <2>2 DEF TypeOK, Push
    <2>4. sub[t] \in [at : {"reserve", "push", "notify"}, task : Tasks \cup {Dummy}, idx : Workers]
      BY <1>4 DEF TypeOK, Push, NoPush
    <2>5. [sub[t] EXCEPT !.at = "notify"]
             \in [at : {"reserve", "push", "notify"}, task : Tasks \cup {Dummy}, idx : Workers]
      BY <2>4
    <2>6. sub' = [sub EXCEPT ![t] = [sub[t] EXCEPT !.at = "notify"]]
      BY <1>4 DEF TypeOK, Push
    <2>7. sub' \in [Threads -> {NoPush} \cup [at : {"reserve", "push", "notify"},
                                             task : Tasks \cup {Dummy}, idx : Workers]]
      BY <2>5, <2>6 DEF TypeOK
    <2> QED BY <1>4, <2>3, <2>7 DEF TypeOK, Push
  <1>5. ASSUME NEW t \in Threads, Notify(t) PROVE TypeOK'
    BY <1>5 DEF TypeOK, Notify, NoPush
  <1>6. CASE Destroy
    BY <1>6 DEF TypeOK, Destroy
  <1>7. CASE PushDummy
    <2>1. woken \in Workers /\ woken' \in 0 .. ThreadCount
      BY <1>7 DEF TypeOK, PushDummy, Workers
    <2> QED BY <1>7, <2>1 DEF TypeOK, PushDummy
  <1>8. CASE JoinAll
    BY <1>8 DEF TypeOK, JoinAll
  <1>9. ASSUME NEW w \in Workers, LoopTest(w) PROVE TypeOK'
    BY <1>9 DEF TypeOK, LoopTest
  <1>10. ASSUME NEW w \in Workers, TryOwn(w) PROVE TypeOK'
    <2>1. CASE Take(w, w) /\ Goto(w, "run") /\ UNCHANGED scan
      BY <1>10, <2>1, TakeTypes DEF TypeOK, TryOwn
    <2>2. ASSUME NEW start \in Workers, scan' = [scan EXCEPT ![w] = Victims(w, start)],
                 Goto(w, "steal"), UNCHANGED <<q, job, robbed>>
          PROVE  TypeOK'
      BY <1>10, <2>2, VictimsAreWorkers DEF TypeOK, TryOwn
    <2> QED BY <1>10, <2>1, <2>2 DEF TryOwn
  <1>11. ASSUME NEW w \in Workers, Steal(w) PROVE TypeOK'
    <2>1. CASE scan[w] = <<>>
      <3>1. Goto(w, "block") /\ UNCHANGED <<q, job, scan>>
        BY <1>11, <2>1 DEF Steal
      <3> QED BY <1>11, <3>1 DEF TypeOK, Steal
    <2>2. CASE scan[w] # <<>>
      <3>0. scan[w] \in Seq(Workers)
        BY DEF TypeOK
      <3>1. Head(scan[w]) \in Workers /\ Tail(scan[w]) \in Seq(Workers) /\ <<>> \in Seq(Workers)
        BY <2>2, <3>0
      <3>2. CASE Take(w, Head(scan[w])) /\ Goto(w, "run") /\ scan' = [scan EXCEPT ![w] = <<>>]
        BY <1>11, <3>1, <3>2, TakeTypes DEF TypeOK, Steal
      <3>3. CASE scan' = [scan EXCEPT ![w] = Tail(@)] /\ UNCHANGED <<q, job, pc>>
        BY <1>11, <3>1, <3>3 DEF TypeOK, Steal
      <3> QED BY <1>11, <2>2, <3>2, <3>3 DEF Steal
    <2> QED BY <2>1, <2>2
  <1>12. ASSUME NEW w \in Workers, BlockOwn(w) PROVE TypeOK'
    <2>1. CASE Take(w, w)
      BY <1>12, <2>1, TakeTypes DEF TypeOK, BlockOwn
    <2>2. CASE UNCHANGED <<q, job, pc, robbed>>
      BY <1>12, <2>2 DEF TypeOK, BlockOwn
    <2> QED BY <1>12, <2>1, <2>2 DEF BlockOwn
  <1>13. ASSUME NEW w \in Workers, CheckStop(w) PROVE TypeOK'
    BY <1>13 DEF TypeOK, CheckStop
  <1>14. ASSUME NEW w \in Workers, FinishTask(w) PROVE TypeOK'
    BY <1>14 DEF TypeOK, FinishTask
  <1>15. ASSUME NEW w \in Workers, SpuriousWake(w) PROVE TypeOK'
    BY <1>15 DEF TypeOK, SpuriousWake
  <1> QED BY <1>1, <1>2, <1>3, <1>4, <1>5, <1>6, <1>7, <1>8, <1>9, <1>10, <1>11, <1>12,
             <1>13, <1>14, <1>15
          DEF Next, Call, Destructor, Worker, Spin, Terminated

(* Every reachable state is well typed; only a worker in the blocking pop of  *)
(* its own queue sleeps.                                                      *)
THEOREM MultiQueueTypeCorrect == Spec => []TypeOK
  BY TypeInit, TypeStep, PTL DEF Spec
--------------------------------------------------------------------------------
(* Sleeping owners.  Only a push fills a queue, and the push that fills the   *)
(* queue of a sleeping owner still has its notification to send.              *)

LEMMA WokenStep == TypeOK /\ OwnerIsWoken /\ [Next]_vars => OwnerIsWoken'
  <1> DEFINE Announced(w) == \E t \in Threads : sub[t].at = "notify" /\ sub[t].idx = w
  <1> SUFFICES ASSUME TypeOK, OwnerIsWoken, [Next]_vars,
                      NEW w \in Workers, w \in asleep', q'[w] # <<>>
               PROVE  Announced(w)'
    BY TypeStep DEF OwnerIsWoken, TypeOK
  <1>1. ASSUME w \in asleep, q[w] # <<>> PROVE Announced(w)
    BY <1>1 DEF OwnerIsWoken
  <1> USE DEF Goto, history
  <1>2. CASE UNCHANGED vars
    BY <1>1, <1>2 DEF vars
  <1>3. ASSUME NEW t \in Threads, Submit(t) PROVE Announced(w)'
    BY <1>1, <1>3 DEF TypeOK, Submit, Quiet, NoPush
  <1>4. ASSUME NEW t \in Threads, Reserve(t) PROVE Announced(w)'
    BY <1>1, <1>4 DEF TypeOK, Reserve
  <1>5. ASSUME NEW t \in Threads, Push(t) PROVE Announced(w)'
    <2>1. sub[t].idx \in Workers
      BY <1>5 DEF TypeOK, Push, NoPush
    <2>2. sub'[t].at = "notify" /\ sub'[t].idx = sub[t].idx
      BY <1>5 DEF TypeOK, Push
    <2>3. CASE sub[t].idx = w
      BY <2>2, <2>3
    <2>4. CASE sub[t].idx # w
      BY <1>1, <1>5, <2>1, <2>4 DEF TypeOK, Push
    <2> QED BY <2>3, <2>4
  <1>6. ASSUME NEW t \in Threads, Notify(t) PROVE Announced(w)'
    BY <1>1, <1>6 DEF TypeOK, Notify
  <1>7. CASE Destroy \/ JoinAll
    BY <1>1, <1>7 DEF Destroy, JoinAll
  <1>8. CASE PushDummy
    BY <1>1, <1>8 DEF TypeOK, PushDummy, Quiet, NoPush
  <1>9. ASSUME NEW u \in Workers, NEW v \in Workers, Take(u, v), UNCHANGED <<asleep, sub>>
        PROVE  Announced(w)'
    <2>1. q[w] # <<>>
      BY <1>9 DEF TypeOK, Take
    <2> QED BY <1>1, <1>9, <2>1
  <1>10. ASSUME NEW u \in Workers, TryOwn(u) PROVE Announced(w)'
    <2>1. UNCHANGED <<asleep, sub>> /\ (Take(u, u) \/ UNCHANGED q)
      BY <1>10 DEF TryOwn
    <2> QED BY <1>1, <1>9, <2>1
  <1>11. ASSUME NEW u \in Workers, Steal(u) PROVE Announced(w)'
    <2>1. UNCHANGED <<asleep, sub>> /\ (UNCHANGED q \/ (scan[u] # <<>> /\ Take(u, Head(scan[u]))))
      BY <1>11 DEF Steal
    <2>2. scan[u] # <<>> => Head(scan[u]) \in Workers
      <3>1. scan[u] \in Seq(Workers)
        BY DEF TypeOK
      <3> QED BY <3>1
    <2> QED BY <1>1, <1>9, <2>1, <2>2
  <1>12. ASSUME NEW u \in Workers, BlockOwn(u) PROVE Announced(w)'
    <2>1. CASE Take(u, u) /\ UNCHANGED asleep
      BY <1>9, <1>12, <2>1 DEF BlockOwn
    <2>2. CASE q[u] = <<>> /\ asleep' = asleep \cup {u} /\ UNCHANGED q
      BY <1>1, <1>12, <2>2 DEF BlockOwn
    <2> QED BY <1>12, <2>1, <2>2 DEF BlockOwn
  <1>13. ASSUME NEW u \in Workers, LoopTest(u) \/ CheckStop(u) \/ FinishTask(u) \/ SpuriousWake(u)
         PROVE  Announced(w)'
    BY <1>1, <1>13 DEF LoopTest, CheckStop, FinishTask, SpuriousWake
  <1> HIDE DEF Announced
  <1> QED BY <1>2, <1>3, <1>4, <1>5, <1>6, <1>7, <1>8, <1>10, <1>11, <1>12, <1>13
          DEF Next, Call, Destructor, Worker, Spin, Terminated

(* concurrent_queue's wait and notify: an owner never sleeps over its own     *)
(* nonempty queue unless the notification of the push that filled it is       *)
(* still to come, whoever pushed and whoever stole in between.                *)
THEOREM OwnersAreWoken == Spec => []OwnerIsWoken
  <1>1. Init => OwnerIsWoken
    BY DEF Init, OwnerIsWoken
  <1> QED BY <1>1, WokenStep, MultiQueueTypeCorrect, PTL DEF Spec
--------------------------------------------------------------------------------
(* Shutdown.  The dummy of every worker served by the loop of ~ThreadPool is  *)
(* being pushed, in its queue, stolen, or has moved the worker out of every   *)
(* state in which it could still go to sleep.                                 *)

Holds(s) == \E i \in DOMAIN s : s[i] = Dummy
Served(w) == \/ sub[Main].at = "push" /\ sub[Main].task = Dummy /\ sub[Main].idx = w
             \/ Holds(q[w])
             \/ w \in robbed
             \/ pc[w] \in {"run", "check", "loop", "exit"}
ShutdownInv == /\ TypeOK
               /\ pc[Main] = "client" => woken = 0
               /\ pc[Main] # "client" => stopping
               /\ \A w \in Workers : w < woken => Served(w)

LEMMA AppendHolds ==
  ASSUME NEW S, NEW s \in Seq(S), NEW e \in S
  PROVE  /\ Holds(s) => Holds(Append(s, e))
         /\ e = Dummy => Holds(Append(s, e))
  BY DEF Holds

LEMMA TailHolds ==
  ASSUME NEW S, NEW s \in Seq(S), s # <<>>, Holds(s), Head(s) # Dummy
  PROVE  Holds(Tail(s))
  <1>1. PICK i \in DOMAIN s : s[i] = Dummy
    BY DEF Holds
  <1>2. i # 1 /\ i \in 1 .. Len(s)
    BY <1>1
  <1>3. i - 1 \in 1 .. Len(Tail(s)) /\ Tail(s)[i - 1] = s[i]
    BY <1>2
  <1>4. i - 1 \in DOMAIN Tail(s)
    BY <1>3
  <1> QED BY <1>1, <1>3, <1>4 DEF Holds

LEMMA TakeServes ==
  ASSUME TypeOK, NEW u \in Workers, NEW v \in Workers, Take(u, v), NEW w \in Workers,
         Holds(q[w])
  PROVE  Holds(q'[w]) \/ w \in robbed' \/ w = u
  <1>1. CASE w # v
    BY <1>1 DEF TypeOK, Take
  <1>2. CASE w = v
    <2>1. q'[w] = Tail(q[w]) /\ q[w] \in Seq(Tasks \cup {Dummy}) /\ q[w] # <<>>
      BY <1>2 DEF TypeOK, Take
    <2>2. CASE Head(q[w]) = Dummy
      BY <1>2, <2>2 DEF Take
    <2>3. CASE Head(q[w]) # Dummy
      BY <2>1, <2>3, TailHolds
    <2> QED BY <2>2, <2>3
  <1> QED BY <1>1, <1>2

LEMMA TakeRobs ==
  ASSUME NEW u, NEW v, Take(u, v)
  PROVE  robbed \subseteq robbed'
  BY DEF Take

LEMMA ServedStep ==
  ASSUME ShutdownInv, [Next]_vars, NEW w \in Workers, w < woken
  PROVE  Served(w)'
  <1>1. TypeOK /\ Served(w) /\ stopping /\ w # Main /\ Main \in Threads /\ w \in Threads
    BY PoolAssumption DEF ShutdownInv, TypeOK, Workers, Threads
  <1> USE <1>1 DEF Goto, history
  <1>2. CASE UNCHANGED vars
    BY <1>2 DEF vars, Served
  <1>3. ASSUME NEW t \in Threads, Submit(t) PROVE Served(w)'
    BY <1>3 DEF TypeOK, Submit, Served
  <1>4. ASSUME NEW t \in Threads, Reserve(t) PROVE Served(w)'
    BY <1>4 DEF TypeOK, Reserve, Served
  <1>5. ASSUME NEW t \in Threads, Push(t) PROVE Served(w)'
    <2>1. sub[t].task \in Tasks \cup {Dummy} /\ sub[t].idx \in Workers
      BY <1>5 DEF TypeOK, Push, NoPush
    <2>2. q' = [q EXCEPT ![sub[t].idx] = Append(@, sub[t].task)] /\ UNCHANGED <<pc, robbed>>
      BY <1>5 DEF Push
    <2>3. q[w] \in Seq(Tasks \cup {Dummy})
      BY DEF TypeOK
    <2>4. CASE Holds(q[w])
      BY <2>1, <2>2, <2>3, <2>4, AppendHolds DEF TypeOK, Served
    <2>5. CASE sub[Main].at = "push" /\ sub[Main].task = Dummy /\ sub[Main].idx = w
      <3>1. CASE t = Main
        <4>1. q'[w] = Append(q[w], Dummy)
          BY <2>2, <2>5, <3>1 DEF TypeOK
        <4>2. Holds(q'[w])
          BY <2>3, <4>1, AppendHolds
        <4> QED BY <4>2 DEF Served
      <3>2. CASE t # Main
        BY <1>5, <2>5, <3>2 DEF TypeOK, Push, Served
      <3> QED BY <3>1, <3>2
    <2> QED BY <2>2, <2>4, <2>5 DEF Served
  <1>6. ASSUME NEW t \in Threads, Notify(t) PROVE Served(w)'
    BY <1>6 DEF TypeOK, Notify, Served, NoPush
  <1>7. CASE Destroy \/ JoinAll
    BY <1>7 DEF TypeOK, Destroy, JoinAll, Served
  <1>8. CASE PushDummy
    BY <1>8 DEF TypeOK, PushDummy, Quiet, NoPush, Served
  <1>9. ASSUME NEW u \in Workers, NEW v \in Workers, Take(u, v), UNCHANGED sub,
               Goto(u, "run") \/ Goto(u, "check")
        PROVE  Served(w)'
    <2>1. CASE w = u
      BY <1>9, <2>1 DEF TypeOK, Served
    <2>2. CASE w # u
      <3>1. pc'[w] = pc[w]
        BY <1>9, <2>2 DEF TypeOK
      <3>2. robbed \subseteq robbed'
        BY <1>9, TakeRobs
      <3>3. CASE Holds(q[w])
        BY <1>9, <2>2, <3>3, TakeServes DEF Served
      <3> QED BY <1>9, <3>1, <3>2, <3>3 DEF Served
    <2> QED BY <2>1, <2>2
  <1>10. ASSUME NEW u \in Workers, TryOwn(u) PROVE Served(w)'
    <2>1. CASE Take(u, u) /\ Goto(u, "run")
      BY <1>9, <1>10, <2>1 DEF TryOwn
    <2>2. CASE Goto(u, "steal") /\ UNCHANGED <<q, robbed>>
      BY <1>10, <2>2 DEF TypeOK, TryOwn, Served
    <2> QED BY <1>10, <2>1, <2>2 DEF TryOwn
  <1>11. ASSUME NEW u \in Workers, Steal(u) PROVE Served(w)'
    <2>1. CASE scan[u] = <<>>
      BY <1>11, <2>1 DEF TypeOK, Steal, Served
    <2>2. CASE scan[u] # <<>>
      <3>1. scan[u] \in Seq(Workers)
        BY DEF TypeOK
      <3>2. Head(scan[u]) \in Workers
        BY <2>2, <3>1
      <3>3. CASE Take(u, Head(scan[u])) /\ Goto(u, "run")
        BY <1>9, <1>11, <3>2, <3>3 DEF Steal
      <3>4. CASE UNCHANGED <<q, pc, robbed>>
        BY <1>11, <3>4 DEF Steal, Served
      <3> QED BY <1>11, <2>2, <3>3, <3>4 DEF Steal
    <2> QED BY <2>1, <2>2
  <1>12. ASSUME NEW u \in Workers, BlockOwn(u) PROVE Served(w)'
    <2>1. CASE Take(u, u) /\ Goto(u, "check")
      BY <1>9, <1>12, <2>1 DEF BlockOwn
    <2>2. CASE UNCHANGED <<q, pc, robbed>>
      BY <1>12, <2>2 DEF BlockOwn, Served
    <2> QED BY <1>12, <2>1, <2>2 DEF BlockOwn
  <1>13. ASSUME NEW u \in Workers, LoopTest(u) \/ CheckStop(u) \/ FinishTask(u)
         PROVE  Served(w)'
    BY <1>13 DEF TypeOK, LoopTest, CheckStop, FinishTask, Served
  <1>14. ASSUME NEW u \in Workers, SpuriousWake(u) PROVE Served(w)'
    BY <1>14 DEF SpuriousWake, Served
  <1> QED BY <1>2, <1>3, <1>4, <1>5, <1>6, <1>7, <1>8, <1>10, <1>11, <1>12, <1>13, <1>14
          DEF Next, Call, Destructor, Worker, Spin, Terminated

(* Main goes from client to destroy to done; the flag is raised on the way    *)
(* and only ~ThreadPool counts dummies.                                       *)
LEMMA DestructorStep ==
  ASSUME ShutdownInv, [Next]_vars
  PROVE  /\ pc'[Main] = "client" => woken' = 0
         /\ pc'[Main] # "client" => stopping'
         /\ \/ woken' = woken
            \/ /\ woken' = woken + 1
               /\ sub'[Main] = [at |-> "push", task |-> Dummy, idx |-> woken]
  <1>1. TypeOK /\ Main \in Threads /\ Main \notin Workers
    BY PoolAssumption DEF ShutdownInv, Threads
  <1> USE <1>1 DEF Goto, history, ShutdownInv
  <1>2. CASE UNCHANGED vars
    BY <1>2 DEF vars
  <1>3. ASSUME NEW t \in Threads, Submit(t) \/ Call(t) PROVE UNCHANGED <<pc, woken, stopping>>
    BY <1>3 DEF Submit, Call, Reserve, Push, Notify
  <1>4. CASE Destroy
    BY <1>4 DEF TypeOK, Destroy
  <1>5. CASE PushDummy
    BY <1>5 DEF TypeOK, PushDummy
  <1>6. CASE JoinAll
    BY <1>6 DEF TypeOK, JoinAll, AllDummiesPushed
  <1>7. ASSUME NEW w \in Workers, LoopTest(w) \/ CheckStop(w) \/ FinishTask(w) \/ SpuriousWake(w)
        PROVE  pc'[Main] = pc[Main] /\ UNCHANGED <<woken, stopping>>
    BY <1>7 DEF TypeOK, LoopTest, CheckStop, FinishTask, SpuriousWake
  <1>8. ASSUME NEW w \in Workers, TryOwn(w) \/ Steal(w) \/ BlockOwn(w)
        PROVE  pc'[Main] = pc[Main] /\ UNCHANGED <<woken, stopping>>
    BY <1>8 DEF TypeOK, TryOwn, Steal, BlockOwn
  <1> QED BY <1>2, <1>3, <1>4, <1>5, <1>6, <1>7, <1>8
          DEF Next, Destructor, Worker, Spin, Terminated

LEMMA ShutdownStep == ShutdownInv /\ [Next]_vars => ShutdownInv'
  <1> SUFFICES ASSUME ShutdownInv, [Next]_vars PROVE ShutdownInv'
    OBVIOUS
  <1>1. TypeOK'
    BY TypeStep DEF ShutdownInv
  <1>2. ASSUME NEW w \in Workers, w < woken' PROVE Served(w)'
    <2>1. CASE w < woken
      BY <2>1, ServedStep
    <2>2. CASE ~(w < woken)
      <3>1. w \in Nat /\ woken \in Nat
        BY WorkersAreNaturals, PoolAssumption DEF ShutdownInv, TypeOK
      <3>2. w = woken /\ sub'[Main] = [at |-> "push", task |-> Dummy, idx |-> woken]
        BY <1>2, <2>2, <3>1, DestructorStep
      <3> QED BY <3>2 DEF Served
    <2> QED BY <2>1, <2>2
  <1> QED BY <1>1, <1>2, DestructorStep DEF ShutdownInv

(* ~ThreadPool wakes by dummies: once every dummy is pushed and announced, a  *)
(* worker still asleep over an empty queue is one whose dummy was stolen, for *)
(* every number of workers and whatever they are doing when it is called.     *)
THEOREM OnlyRobbedSleep == Spec => []SleepersWereRobbed
  <1>1. Init => ShutdownInv
    <2> SUFFICES ASSUME Init PROVE ShutdownInv
      OBVIOUS
    <2>1. TypeOK /\ pc[Main] = "client" /\ woken = 0
      BY TypeInit DEF Init, Threads
    <2>2. \A w \in Workers : ~(w < 0)
      BY WorkersAreNaturals
    <2> QED BY <2>1, <2>2 DEF ShutdownInv
  <1>2. ShutdownInv => SleepersWereRobbed
    <2> SUFFICES ASSUME ShutdownInv, AllDummiesPushed, NEW w \in asleep, q[w] = <<>>
                 PROVE  w \in robbed
      BY DEF SleepersWereRobbed
    <2>1. w \in Workers /\ pc[w] = "block" /\ w < ThreadCount
      BY PoolAssumption DEF ShutdownInv, TypeOK, Workers
    <2>2. Served(w) /\ sub[Main] = NoPush
      BY <2>1 DEF ShutdownInv, AllDummiesPushed, Quiet
    <2>3. ~Holds(q[w])
      BY DEF Holds
    <2> QED BY <2>1, <2>2, <2>3 DEF Served, NoPush
  <1> QED BY <1>1, <1>2, ShutdownStep, PTL DEF Spec
--------------------------------------------------------------------------------
(* Where a task is: at one position of one queue, in the hands of one worker, *)
(* or in one of the two histories.                                            *)
Holders(k) == {w \in Workers : job[w] = k}
NotQueued(k) == \A v \in Workers : Positions(k, v) = {}

Queued(k) == /\ \E v \in Workers : /\ \E i \in DOMAIN q[v] : Positions(k, v) = {i}
                                   /\ \A u \in Workers \ {v} : Positions(k, u) = {}
             /\ Holders(k) = {} /\ k \notin finished /\ k \notin dropped
Held(k) == /\ \E w \in Workers : Holders(k) = {w}
           /\ NotQueued(k) /\ k \notin finished /\ k \notin dropped
Over(k) == /\ (k \in finished) # (k \in dropped)
           /\ NotQueued(k) /\ Holders(k) = {}
Nowhere(k) == NotQueued(k) /\ Holders(k) = {} /\ k \notin finished /\ k \notin dropped
PlaceOf(k) == IF k \in accepted THEN Queued(k) \/ Held(k) \/ Over(k) ELSE Nowhere(k)

(* The inductive invariant: a task that is still to be pushed is no task of   *)
(* the pool yet and has one submitter, and a worker that looks for a task     *)
(* holds none.                                                                *)
ToPush(t) == sub[t].at \in {"reserve", "push"} /\ sub[t].task \in Tasks
SubmittedOnce == /\ accepted \subseteq offered
                 /\ \A t \in Threads : ToPush(t) => sub[t].task \in offered \ accepted
                 /\ \A t, u \in Threads :
                      ToPush(t) /\ ToPush(u) /\ sub[t].task = sub[u].task => t = u
PlaceInv == /\ \A k \in Tasks : PlaceOf(k)
            /\ SubmittedOnce
            /\ \A w \in Workers : pc[w] \notin {"run", "check"} => job[w] = NoTask
            /\ ~stopping => dropped = {}

LEMMA AppendPositions ==
  ASSUME NEW S, NEW s \in Seq(S), NEW e \in S, NEW k
  PROVE  {i \in DOMAIN Append(s, e) : Append(s, e)[i] = k}
           = {i \in DOMAIN s : s[i] = k} \cup (IF e = k THEN {Len(s) + 1} ELSE {})
  <1>1. /\ DOMAIN s = 1 .. Len(s) /\ DOMAIN Append(s, e) = 1 .. Len(s) + 1 /\ Len(s) \in Nat
        /\ \A i \in 1 .. Len(s) : Append(s, e)[i] = s[i]
        /\ Append(s, e)[Len(s) + 1] = e
    OBVIOUS
  <1> QED BY <1>1

LEMMA TailPositions ==
  ASSUME NEW S, NEW s \in Seq(S), s # <<>>, NEW k
  PROVE  /\ {i \in DOMAIN Tail(s) : Tail(s)[i] = k}
              = {i - 1 : i \in {j \in DOMAIN s : s[j] = k} \ {1}}
         /\ 1 \in {j \in DOMAIN s : s[j] = k} <=> k = Head(s)
  <1>1. /\ DOMAIN s = 1 .. Len(s) /\ DOMAIN Tail(s) = 1 .. Len(s) - 1
        /\ Len(s) \in Nat \ {0}
        /\ \A i \in 1 .. Len(s) - 1 : Tail(s)[i] = s[i + 1]
        /\ Head(s) = s[1]
    OBVIOUS
  <1>2. ASSUME NEW i \in DOMAIN Tail(s), Tail(s)[i] = k
        PROVE  i \in {j - 1 : j \in {m \in DOMAIN s : s[m] = k} \ {1}}
    <2>1. i + 1 \in {m \in DOMAIN s : s[m] = k} \ {1} /\ i = (i + 1) - 1
      BY <1>1, <1>2
    <2> QED BY <2>1
  <1>3. ASSUME NEW j \in DOMAIN s, s[j] = k, j # 1
        PROVE  j - 1 \in DOMAIN Tail(s) /\ Tail(s)[j - 1] = k
    BY <1>1, <1>3
  <1> QED BY <1>1, <1>2, <1>3

LEMMA PlaceInit == Init => PlaceInv
  <1> SUFFICES ASSUME Init PROVE PlaceInv
    OBVIOUS
  <1> USE PoolAssumption DEF Init
  <1>1. \A k \in Tasks : Nowhere(k) /\ k \notin accepted
    BY DEF Nowhere, NotQueued, Positions, Holders
  <1>2. \A t \in Threads : ~ToPush(t)
    BY DEF ToPush, NoPush
  <1> QED BY <1>1, <1>2 DEF PlaceInv, PlaceOf, SubmittedOnce

LEMMA Unmoved ==
  ASSUME NEW k \in Tasks, PlaceOf(k), \A v \in Workers : Positions(k, v)' = Positions(k, v),
         Holders(k)' = Holders(k), k \in accepted' <=> k \in accepted,
         k \in finished' <=> k \in finished, k \in dropped' <=> k \in dropped
  PROVE  PlaceOf(k)'
  <1>1. \A v \in Workers : (\E i \in DOMAIN q[v] : Positions(k, v) = {i})
                             => \E i \in DOMAIN q'[v] : Positions(k, v)' = {i}
    BY DEF Positions
  <1>2. Queued(k) => Queued(k)'
    BY <1>1 DEF Queued
  <1>3. NotQueued(k)' <=> NotQueued(k)
    BY DEF NotQueued
  <1> QED BY <1>2, <1>3 DEF PlaceOf, Held, Over, Nowhere

(* Wherever a worker with empty hands takes an item from, the task it takes   *)
(* changes its place and no other task does.                                  *)
LEMMA TakeMoves ==
  ASSUME TypeOK, PlaceInv, NEW w \in Workers, NEW v \in Workers, Take(w, v), job[w] = NoTask,
         UNCHANGED <<accepted, finished, dropped>>, NEW k \in Tasks
  PROVE  PlaceOf(k)'
  <1>1. /\ q[v] \in Seq(Tasks \cup {Dummy}) /\ q[v] # <<>>
        /\ q' = [q EXCEPT ![v] = Tail(q[v])] /\ job' = [job EXCEPT ![w] = Head(q[v])]
    BY DEF TypeOK, Take
  <1>2. /\ q'[v] = Tail(q[v])
        /\ \A u \in Workers \ {v} : q'[u] = q[u]
    BY <1>1 DEF TypeOK
  <1>3. /\ Positions(k, v)' = {i - 1 : i \in Positions(k, v) \ {1}}
        /\ 1 \in Positions(k, v) <=> k = Head(q[v])
    <2>1. /\ {i \in DOMAIN Tail(q[v]) : Tail(q[v])[i] = k}
                = {i - 1 : i \in {j \in DOMAIN q[v] : q[v][j] = k} \ {1}}
          /\ 1 \in {j \in DOMAIN q[v] : q[v][j] = k} <=> k = Head(q[v])
      BY <1>1, TailPositions
    <2> QED BY <1>2, <2>1, Zenon DEF Positions
  <1>4. \A u \in Workers \ {v} : Positions(k, u)' = Positions(k, u)
    BY <1>2 DEF Positions
  <1>5. Holders(k)' = IF k = Head(q[v]) THEN Holders(k) \cup {w} ELSE Holders(k)
    BY <1>1, PoolAssumption DEF TypeOK, Holders
  <1>6. CASE k = Head(q[v])
    <2>1. Queued(k) /\ k \in accepted
      BY <1>3, <1>6 DEF PlaceInv, PlaceOf, Held, Over, Nowhere, NotQueued
    <2>2. PICK u \in Workers : /\ \E i \in DOMAIN q[u] : Positions(k, u) = {i}
                               /\ \A x \in Workers \ {u} : Positions(k, x) = {}
      BY <2>1 DEF Queued
    <2>3. u = v /\ Positions(k, v) = {1}
      BY <1>3, <1>6, <2>2
    <2>4. NotQueued(k)'
      BY <1>3, <1>4, <2>2, <2>3 DEF NotQueued
    <2> QED BY <1>5, <1>6, <2>1, <2>4 DEF Queued, PlaceOf, Held
  <1>7. CASE k # Head(q[v]) /\ Positions(k, v) = {}
    <2>1. \A u \in Workers : Positions(k, u)' = Positions(k, u)
      BY <1>3, <1>4, <1>7
    <2> QED BY <1>5, <1>7, <2>1, Unmoved DEF PlaceInv
  <1>8. CASE k # Head(q[v]) /\ Positions(k, v) # {}
    <2>1. Queued(k) /\ k \in accepted
      BY <1>8 DEF PlaceInv, PlaceOf, Held, Over, Nowhere, NotQueued
    <2>2. PICK i \in DOMAIN q[v] : /\ Positions(k, v) = {i}
                                   /\ \A u \in Workers \ {v} : Positions(k, u) = {}
      BY <1>8, <2>1 DEF Queued
    <2>3. i # 1 /\ Positions(k, v)' = {i - 1}
      BY <1>3, <1>8, <2>2
    <2>4. i - 1 \in DOMAIN q'[v]
      BY <1>1, <1>2, <2>3
    <2>5. \A u \in Workers \ {v} : Positions(k, u)' = {}
      BY <1>4, <2>2
    <2> QED BY <1>5, <1>8, <2>1, <2>3, <2>4, <2>5 DEF PlaceOf, Queued
  <1> QED BY <1>6, <1>7, <1>8

LEMMA PlaceStep == TypeOK /\ PlaceInv /\ [Next]_vars => PlaceInv'
  <1> SUFFICES ASSUME TypeOK, PlaceInv, [Next]_vars PROVE PlaceInv'
    OBVIOUS
  <1> USE PoolAssumption DEF Threads, Goto, history
  (* Most steps move no task. *)
  <1>u. ASSUME UNCHANGED <<q, job, accepted, finished, dropped>>
        PROVE  \A k \in Tasks : PlaceOf(k)'
    <2> TAKE k \in Tasks
    <2>1. (\A v \in Workers : Positions(k, v)' = Positions(k, v)) /\ Holders(k)' = Holders(k)
      BY <1>u DEF Positions, Holders
    <2> QED BY <1>u, <2>1, Unmoved DEF PlaceInv
  <1>s. ASSUME UNCHANGED <<sub, offered, accepted>> PROVE SubmittedOnce'
    BY <1>s DEF PlaceInv, SubmittedOnce, ToPush
  <1>1. CASE UNCHANGED vars
    BY <1>1, <1>u, <1>s DEF PlaceInv, vars
  <1>2. ASSUME NEW t \in Threads, Submit(t) PROVE PlaceInv'
    <2>1. UNCHANGED <<q, job, accepted, finished, dropped, stopping, pc>>
      BY <1>2 DEF Submit
    <2>2. PICK k \in Tasks \ offered :
            /\ offered' = offered \cup {k}
            /\ sub' = IF stopping THEN sub
                      ELSE [sub EXCEPT ![t] = [at |-> "reserve", task |-> k, idx |-> 0]]
      BY <1>2 DEF Submit
    <2>3. SubmittedOnce'
      BY <2>1, <2>2 DEF TypeOK, PlaceInv, SubmittedOnce, ToPush
    <2> QED BY <1>u, <2>1, <2>3 DEF PlaceInv
  <1>3. ASSUME NEW t \in Threads, Reserve(t) PROVE PlaceInv'
    <2>1. /\ sub[t].at = "reserve" /\ sub' = [sub EXCEPT ![t].at = "push", ![t].idx = next]
          /\ UNCHANGED <<q, job, offered, accepted, finished, dropped, stopping, pc>>
      BY <1>3 DEF Reserve
    <2>2. sub'[t].task = sub[t].task /\ \A u \in Threads \ {t} : sub'[u] = sub[u]
      <3>1. sub[t] \in [at : {"reserve", "push", "notify"}, task : Tasks \cup {Dummy}, idx : Workers]
        BY <2>1 DEF TypeOK, NoPush
      <3> QED BY <2>1, <3>1 DEF TypeOK
    <2>3. \A u \in Threads : (ToPush(u)' => ToPush(u)) /\ sub'[u].task = sub[u].task
      BY <2>1, <2>2 DEF ToPush
    <2>4. SubmittedOnce'
      BY <2>1, <2>3 DEF PlaceInv, SubmittedOnce
    <2> QED BY <1>u, <2>1, <2>4 DEF PlaceInv
  <1>4. ASSUME NEW t \in Threads, Push(t) PROVE PlaceInv'
    <2>0. PICK k, v : k = sub[t].task /\ v = sub[t].idx
      OBVIOUS
    <2>1. /\ sub[t].at = "push" /\ q' = [q EXCEPT ![v] = Append(q[v], k)]
          /\ accepted' = accepted \cup ({k} \cap Tasks)
          /\ UNCHANGED <<job, offered, finished, dropped, stopping, pc>>
          /\ sub' = [sub EXCEPT ![t].at = "notify"]
      BY <1>4, <2>0 DEF Push
    <2>2. k \in Tasks \cup {Dummy} /\ v \in Workers /\ q[v] \in Seq(Tasks \cup {Dummy})
      BY <2>0, <2>1 DEF TypeOK, NoPush
    <2>3. sub'[t].at = "notify" /\ \A u \in Threads \ {t} : sub'[u] = sub[u]
      <3>1. sub[t] \in [at : {"reserve", "push", "notify"}, task : Tasks \cup {Dummy}, idx : Workers]
        BY <2>1 DEF TypeOK, NoPush
      <3> QED BY <2>1, <3>1 DEF TypeOK
    <2>4. SubmittedOnce'
      <3>1. k \in Tasks => k \in offered
        BY <2>0, <2>1 DEF PlaceInv, SubmittedOnce, ToPush
      <3>2. \A u \in Threads : ToPush(u)' => u # t /\ ToPush(u) /\ sub'[u] = sub[u]
        BY <2>3 DEF ToPush
      <3>3. k \in Tasks => ToPush(t)
        BY <2>0, <2>1 DEF ToPush
      <3>4. \A u \in Threads : ToPush(u)' => sub[u].task # k
        BY <2>0, <3>2, <3>3 DEF PlaceInv, SubmittedOnce, ToPush
      <3> QED BY <2>1, <3>1, <3>2, <3>4 DEF PlaceInv, SubmittedOnce
    <2>5. ASSUME NEW j \in Tasks
          PROVE  /\ Positions(j, v)' = Positions(j, v) \cup (IF j = k THEN {Len(q[v]) + 1} ELSE {})
                 /\ \A u \in Workers \ {v} : Positions(j, u)' = Positions(j, u)
                 /\ Holders(j)' = Holders(j)
      <3>1. q'[v] = Append(q[v], k) /\ \A u \in Workers \ {v} : q'[u] = q[u]
        BY <2>1, <2>2 DEF TypeOK
      <3>2. Positions(j, v)' = Positions(j, v) \cup (IF j = k THEN {Len(q[v]) + 1} ELSE {})
        BY <2>2, <3>1, AppendPositions DEF Positions
      <3> QED BY <2>1, <3>1, <3>2 DEF Positions, Holders
    <2>6. ASSUME NEW j \in Tasks, j # k PROVE PlaceOf(j)'
      <3>1. \A u \in Workers : Positions(j, u)' = Positions(j, u)
        BY <2>5, <2>6
      <3> QED BY <2>1, <2>5, <2>6, <3>1, Unmoved DEF PlaceInv
    <2>7. ASSUME k \in Tasks PROVE PlaceOf(k)'
      <3>1. k \notin accepted
        BY <2>0, <2>1, <2>7 DEF PlaceInv, SubmittedOnce, ToPush
      <3>2. Nowhere(k)
        BY <2>7, <3>1 DEF PlaceInv, PlaceOf
      <3>3. Positions(k, v)' = {Len(q[v]) + 1} /\ \A u \in Workers \ {v} : Positions(k, u)' = {}
        BY <2>2, <2>5, <2>7, <3>2 DEF Nowhere, NotQueued
      <3>4. Len(q[v]) + 1 \in DOMAIN q'[v]
        BY <2>1, <2>2 DEF TypeOK
      <3>5. Holders(k)' = {} /\ k \notin finished' /\ k \notin dropped' /\ k \in accepted'
        BY <2>1, <2>5, <2>7, <3>2 DEF Nowhere
      <3> QED BY <2>2, <3>3, <3>4, <3>5 DEF PlaceOf, Queued
    <2> QED BY <2>1, <2>4, <2>6, <2>7 DEF PlaceInv
  <1>5. ASSUME NEW t \in Threads, Notify(t) PROVE PlaceInv'
    <2>1. /\ sub' = [sub EXCEPT ![t] = NoPush]
          /\ UNCHANGED <<q, job, offered, accepted, finished, dropped, stopping, pc>>
      BY <1>5 DEF Notify
    <2>2. SubmittedOnce'
      BY <2>1 DEF TypeOK, PlaceInv, SubmittedOnce, ToPush, NoPush
    <2> QED BY <1>u, <2>1, <2>2 DEF PlaceInv
  <1>6. CASE Destroy
    BY <1>6, <1>u, <1>s DEF Destroy, PlaceInv, TypeOK
  <1>7. CASE PushDummy
    <2>1. /\ sub' = [sub EXCEPT ![Main] = [at |-> "push", task |-> Dummy, idx |-> woken]]
          /\ UNCHANGED <<q, job, offered, accepted, finished, dropped, stopping, pc>>
      BY <1>7 DEF PushDummy
    <2>2. SubmittedOnce'
      BY <2>1 DEF TypeOK, PlaceInv, SubmittedOnce, ToPush
    <2> QED BY <1>u, <2>1, <2>2 DEF PlaceInv
  <1>8. CASE JoinAll
    BY <1>8, <1>u, <1>s DEF JoinAll, PlaceInv, TypeOK
  <1>9. ASSUME NEW w \in Workers, LoopTest(w) PROVE PlaceInv'
    BY <1>9, <1>u, <1>s DEF LoopTest, PlaceInv, TypeOK
  (* A worker takes an item. *)
  <1>t. ASSUME NEW w \in Workers, NEW v \in Workers, Take(w, v), pc[w] \notin {"run", "check"},
               pc' = [pc EXCEPT ![w] = "run"] \/ pc' = [pc EXCEPT ![w] = "check"],
               UNCHANGED <<sub, offered, accepted, finished, dropped, stopping>>
        PROVE  PlaceInv'
    <2>1. job[w] = NoTask /\ job' = [job EXCEPT ![w] = Head(q[v])]
      BY <1>t DEF PlaceInv, Take
    <2> QED BY <1>t, <1>s, <2>1, TakeMoves DEF PlaceInv, TypeOK
  <1>10. ASSUME NEW w \in Workers, TryOwn(w) PROVE PlaceInv'
    BY <1>10, <1>t, <1>u, <1>s DEF TryOwn, PlaceInv, TypeOK
  <1>11. ASSUME NEW w \in Workers, Steal(w) PROVE PlaceInv'
    <2>1. CASE scan[w] # <<>> /\ Take(w, Head(scan[w])) /\ Goto(w, "run")
      <3>1. scan[w] \in Seq(Workers)
        BY DEF TypeOK
      <3>2. Head(scan[w]) \in Workers
        BY <2>1, <3>1
      <3> QED BY <1>11, <1>t, <2>1, <3>2 DEF Steal
    <2>2. CASE UNCHANGED <<q, job>> /\ (Goto(w, "block") \/ UNCHANGED pc)
      BY <1>11, <1>u, <1>s, <2>2 DEF Steal, PlaceInv, TypeOK
    <2> QED BY <1>11, <2>1, <2>2 DEF Steal
  <1>12. ASSUME NEW w \in Workers, BlockOwn(w) PROVE PlaceInv'
    BY <1>12, <1>t, <1>u, <1>s DEF BlockOwn, PlaceInv
  <1>13. ASSUME NEW w \in Workers, CheckStop(w) PROVE PlaceInv'
    <2>1. CASE stopping
      <3>1. /\ dropped' = dropped \cup ({job[w]} \cap Tasks)
            /\ job' = [job EXCEPT ![w] = NoTask]
            /\ pc' = [pc EXCEPT ![w] = "exit"]
            /\ UNCHANGED <<q, sub, offered, accepted, finished, stopping>>
        BY <1>13, <2>1 DEF CheckStop
      <3>2. ASSUME NEW k \in Tasks PROVE PlaceOf(k)'
        <4>1. (\A v \in Workers : Positions(k, v)' = Positions(k, v)) /\ Holders(k)' = Holders(k) \ {w}
          BY <3>1 DEF TypeOK, Positions, Holders
        <4>2. CASE job[w] = k
          <5>1. w \in Holders(k) /\ k \in dropped'
            BY <3>1, <4>2 DEF Holders
          <5>2. k \in accepted /\ Holders(k) = {w} /\ NotQueued(k) /\ k \notin finished
            BY <5>1 DEF PlaceInv, PlaceOf, Queued, Held, Over, Nowhere
          <5> QED BY <3>1, <4>1, <5>1, <5>2 DEF PlaceOf, Over, NotQueued
        <4>3. CASE job[w] # k
          BY <3>1, <4>1, <4>3, Unmoved DEF PlaceInv, Holders
        <4> QED BY <4>2, <4>3
      <3> QED BY <1>s, <2>1, <3>1, <3>2 DEF PlaceInv, TypeOK
    <2>2. CASE ~stopping
      BY <1>13, <1>u, <1>s, <2>2 DEF CheckStop, PlaceInv, TypeOK
    <2> QED BY <2>1, <2>2
  <1>14. ASSUME NEW w \in Workers, FinishTask(w) PROVE PlaceInv'
    <2>1. /\ finished' = finished \cup ({job[w]} \cap Tasks)
          /\ job' = [job EXCEPT ![w] = NoTask]
          /\ pc' = [pc EXCEPT ![w] = "loop"]
          /\ UNCHANGED <<q, sub, offered, accepted, dropped, stopping>>
      BY <1>14 DEF FinishTask
    <2>2. ASSUME NEW k \in Tasks PROVE PlaceOf(k)'
      <3>1. (\A v \in Workers : Positions(k, v)' = Positions(k, v)) /\ Holders(k)' = Holders(k) \ {w}
        BY <2>1 DEF TypeOK, Positions, Holders
      <3>2. CASE job[w] = k
        <4>1. w \in Holders(k) /\ k \in finished'
          BY <2>1, <3>2 DEF Holders
        <4>2. k \in accepted /\ Holders(k) = {w} /\ NotQueued(k) /\ k \notin dropped
          BY <4>1 DEF PlaceInv, PlaceOf, Queued, Held, Over, Nowhere
        <4> QED BY <2>1, <3>1, <4>1, <4>2 DEF PlaceOf, Over, NotQueued
      <3>3. CASE job[w] # k
        BY <2>1, <3>1, <3>3, Unmoved DEF PlaceInv, Holders
      <3> QED BY <3>2, <3>3
    <2> QED BY <1>s, <2>1, <2>2 DEF PlaceInv, TypeOK
  <1>15. ASSUME NEW w \in Workers, SpuriousWake(w) PROVE PlaceInv'
    BY <1>15, <1>u, <1>s DEF SpuriousWake, PlaceInv
  <1> QED BY <1>1, <1>2, <1>3, <1>4, <1>5, <1>6, <1>7, <1>8, <1>9, <1>10, <1>11, <1>12,
             <1>13, <1>14, <1>15
          DEF Next, Call, Destructor, Worker, Spin, Terminated

LEMMA PlaceCounts == TypeOK /\ PlaceInv => EveryTaskInOnePlace
  <1> SUFFICES ASSUME PlaceInv, NEW k \in Tasks
               PROVE  Copies(k) = IF k \in accepted THEN 1 ELSE 0
    BY DEF PlaceInv, EveryTaskInOnePlace
  <1> DEFINE P == UNION {{w} \X Positions(k, w) : w \in Workers}
             F == {k} \cap finished
             D == {k} \cap dropped
  <1>1. Copies(k) = Cardinality(P) + Cardinality(Holders(k)) + Cardinality(F) + Cardinality(D)
    BY DEF Copies, Holders
  <1>2. Cardinality({}) = 0 /\ \A x : Cardinality({x}) = 1
    BY FS_EmptySet, FS_Singleton
  <1>3. /\ Cardinality(F) = IF k \in finished THEN 1 ELSE 0
        /\ Cardinality(D) = IF k \in dropped THEN 1 ELSE 0
    <2>1. F = (IF k \in finished THEN {k} ELSE {}) /\ D = (IF k \in dropped THEN {k} ELSE {})
      OBVIOUS
    <2> HIDE DEF F, D
    <2> QED BY <1>2, <2>1
  <1>4. PlaceOf(k)
    BY DEF PlaceInv
  <1>p. NotQueued(k) => Cardinality(P) = 0
    <2>1. NotQueued(k) => P = {}
      BY DEF NotQueued
    <2> HIDE DEF P
    <2> QED BY <1>2, <2>1
  <1> HIDE DEF F, D
  <1>5. CASE Nowhere(k)
    <2>1. Cardinality(Holders(k)) = 0
      BY <1>2, <1>5 DEF Nowhere
    <2>2. k \notin accepted
      BY <1>4, <1>5 DEF PlaceOf, Queued, Held, Over, Nowhere, NotQueued, Positions
    <2> QED BY <1>1, <1>3, <1>5, <1>p, <2>1, <2>2 DEF Nowhere
  <1>6. CASE Queued(k)
    <2>1. PICK v \in Workers : /\ \E i \in DOMAIN q[v] : Positions(k, v) = {i}
                               /\ \A u \in Workers \ {v} : Positions(k, u) = {}
      BY <1>6 DEF Queued
    <2>2. PICK i \in DOMAIN q[v] : Positions(k, v) = {i}
      BY <2>1
    <2>3. P = {<<v, i>>}
      BY <2>1, <2>2
    <2> HIDE DEF P
    <2>4. Cardinality(P) = 1 /\ Cardinality(Holders(k)) = 0
      BY <1>2, <1>6, <2>3, Zenon DEF Queued
    <2> QED BY <1>1, <1>3, <1>4, <1>6, <2>1, <2>2, <2>4 DEF PlaceOf, Queued, Nowhere, NotQueued
  <1>7. CASE Held(k)
    <2>1. Cardinality(Holders(k)) = 1
      BY <1>2, <1>7, Zenon DEF Held
    <2> QED BY <1>1, <1>3, <1>4, <1>7, <1>p, <2>1 DEF PlaceOf, Held, Nowhere
  <1>8. CASE Over(k)
    <2>1. Cardinality(Holders(k)) = 0
      BY <1>2, <1>8 DEF Over
    <2> QED BY <1>1, <1>3, <1>4, <1>8, <1>p, <2>1 DEF PlaceOf, Over, Nowhere
  <1> QED BY <1>4, <1>5, <1>6, <1>7, <1>8 DEF PlaceOf

(* No task is lost and none runs twice although every worker may take it from *)
(* any queue: a task that was pushed is at one position of one queue, or with *)
(* one worker, or finished, or dropped by a pool that is stopping.            *)
THEOREM EveryTaskHasOnePlace == Spec => []EveryTaskInOnePlace
  BY PlaceInit, PlaceStep, PlaceCounts, MultiQueueTypeCorrect, PTL DEF Spec
================================================================================
