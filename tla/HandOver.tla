-------------------------------- MODULE HandOver --------------------------------
(***************************************************************************)
(* Data handed from one thread to another with a mutex and a flag that is  *)
(* polled.  Mutual Exclusion/producer_consumer.cpp: the producer fills a   *)
(* deque and sets `finished`; the consumer drains the deque while it is    *)
(* not set.  Threads/Thread Synchronization/thread_coordination.cpp: the   *)
(* fetcher appends blocks to s_data and raises update_progress, the        *)
(* progress bar polls that flag, and the processor polls `completed`,      *)
(* which nobody sets.  A step is a critical section or a load of           *)
(* `finished`; the delays order nothing.                                   *)
(***************************************************************************)
EXTENDS Naturals, Sequences

CONSTANT Items   (* num_items, 10, and the five blocks of fetch_data        *)

VARIABLES program,    (* the program that runs                              *)
          pc,         (* per thread: what it does next                      *)
          q,          (* the deque q, or the blocks s_data consists of      *)
          next,       (* the loop variable of the producer or fetcher       *)
          finished,   (* finished                                           *)
          updated,    (* update_progress                                    *)
          completed,  (* completed                                          *)
          output      (* what the other side has printed                    *)

own == <<q, next, finished, updated, completed, output>>

ProducerConsumer == [name |-> "producer and consumer", begins |-> <<"push", "test">>]
Coordination     == [name |-> "coordination", begins |-> <<"fetch", "progress", "process">>]
Mine == {ProducerConsumer, Coordination}
Runs == program.name \in {"producer and consumer", "coordination"}

Produced == [k \in 1 .. Items |-> k]

Init == /\ program \in Mine
        /\ pc = program.begins
        /\ q = <<>>
        /\ next = 1
        /\ finished = FALSE
        /\ updated = FALSE
        /\ completed = FALSE
        /\ output = <<>>

Goto(t, loc) == pc' = [pc EXCEPT ![t] = loc]
--------------------------------------------------------------------------------
(* producer: a push under p_mtx per item, then `finished` under p_mtx.      *)
PushOneTooMany(t) == /\ pc[t] = "push"
                     /\ q' = Append(q, next)
                     /\ next' = next + 1
                     /\ Goto(t, IF next > Items THEN "finish" ELSE "push")
                     /\ UNCHANGED <<finished, updated, completed, output>>
Push(t) == /\ pc[t] = "push"
           /\ q' = Append(q, next)
           /\ next' = next + 1
           /\ Goto(t, IF next' > Items THEN "finish" ELSE "push")
           /\ UNCHANGED <<finished, updated, completed, output>>

Finish(t) == /\ pc[t] = "finish"
             /\ finished' = TRUE
             /\ Goto(t, "done")
             /\ UNCHANGED <<q, next, updated, completed, output>>

(* consumer: look at `finished`, then pop everything under p_mtx.           *)
TestFinished(t) == /\ pc[t] = "test"
                   /\ Goto(t, IF finished THEN "done" ELSE "drain")
                   /\ UNCHANGED own

DrainFromTheBack(t) == /\ pc[t] = "drain"
                       /\ q' = <<>>
                       /\ output' = output \o [k \in 1 .. Len(q) |-> q[Len(q) + 1 - k]]
                       /\ Goto(t, "test")
                       /\ UNCHANGED <<next, finished, updated, completed>>
Drain(t) == /\ pc[t] = "drain"
            /\ q' = <<>>
            /\ output' = output \o q
            /\ Goto(t, "test")
            /\ UNCHANGED <<next, finished, updated, completed>>
--------------------------------------------------------------------------------
(* fetch_data: the block and the flag under data_mutex.                     *)
Fetch(t) == /\ pc[t] = "fetch"
            /\ q' = Append(q, next)
            /\ next' = next + 1
            /\ updated' = TRUE
            /\ Goto(t, IF next' > Items THEN "leave" ELSE "fetch")
            /\ UNCHANGED <<finished, completed, output>>

(* completed_mutex is taken and given back: nothing is done under it.       *)
LeaveFetch(t) == /\ pc[t] = "leave"
                 /\ Goto(t, "done")
                 /\ UNCHANGED own

(* progress_bar: under data_mutex, once update_progress is seen set; the    *)
(* turns of its inner loop that find it clear change nothing.               *)
Progress(t) == /\ pc[t] = "progress" /\ updated
               /\ output' = Append(output, Len(q))
               /\ updated' = FALSE
               /\ Goto(t, "testCompleted")
               /\ UNCHANGED <<q, next, finished, completed>>

TestCompleted(t) == /\ pc[t] = "testCompleted"
                    /\ Goto(t, IF completed THEN "done" ELSE "progress")
                    /\ UNCHANGED own

(* process_data polls `completed`, and would then print the data and end.   *)
Process(t) == /\ pc[t] = "process"
              /\ Goto(t, IF completed THEN "done" ELSE "process")
              /\ UNCHANGED own

Run(t) == /\ Runs /\ t \in DOMAIN pc
          /\ UNCHANGED program
          /\ \/ Push(t) \/ Finish(t) \/ TestFinished(t) \/ Drain(t)
             \/ Fetch(t) \/ LeaveFetch(t) \/ Progress(t) \/ TestCompleted(t) \/ Process(t)
--------------------------------------------------------------------------------
TypeOK == Runs =>
  /\ \A t \in DOMAIN pc : pc[t] \in {"push", "finish", "test", "drain", "fetch", "leave",
                                     "progress", "testCompleted", "process", "done"}
  /\ q \in Seq(1 .. Items) /\ next \in 1 .. Items + 1
  /\ finished \in BOOLEAN /\ updated \in BOOLEAN /\ completed \in BOOLEAN
  /\ output \in Seq(1 .. Items)

(* Whatever the interleaving, the consumer prints the items in the order in *)
(* which they were pushed, and each item has been printed or is still in    *)
(* the deque: it may end with items left there, which nobody pops.          *)
ItemsInOrder == program = ProducerConsumer =>
  /\ output \o q = SubSeq(Produced, 1, next - 1)
  /\ pc[2] = "done" => next > Items

(* What Coordination comes to: the fetcher ends and the progress bar has    *)
(* printed the full length (lines 51-56), although it may then poll for ever*)
(* like the processor.                                                      *)
BarIsFull == /\ program = Coordination /\ pc[1] = "done"
             /\ output # <<>> /\ output[Len(output)] = Items
================================================================================
