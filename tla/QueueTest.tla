------------------------------- MODULE QueueTest -------------------------------
(***************************************************************************)
(* The TEST_QUEUE part of Data Structures/main.cpp: a writer thread pushes *)
(* Items strings into one concurrent_queue of the given capacity, a reader *)
(* thread pops as many, and main waits for both.  The strings "Data-i" are *)
(* their numbers.  The sleeps order nothing and are not modelled.          *)
(***************************************************************************)
EXTENDS Naturals, Sequences

CONSTANTS Writer, Reader, NoValue,
          Items,          (* 15 in the code                                 *)
          QueueCapacity   (* 10 in the code                                 *)

VARIABLES q, closed, asleep, call,   (* the queue                           *)
          sent,                      (* i of the loop in writer()           *)
          received                   (* what reader() popped so far         *)

Q == INSTANCE ConcurrentQueue WITH
       Threads  <- {Writer, Reader},
       Values   <- 0 .. Items - 1,
       Capacities <- {QueueCapacity},
       capacity   <- QueueCapacity,
       MaxLen   <- Items

vars == <<q, closed, asleep, call, sent, received>>

Init == /\ Q!Init
        /\ sent = 0
        /\ received = <<>>

WriterPush == /\ sent < Items
              /\ Q!Push(Writer, sent)
              /\ sent' = sent + 1
              /\ UNCHANGED received

WriterContinue == /\ Q!Continue(Writer)
                  /\ UNCHANGED <<sent, received>>

ReaderPop == /\ Len(received) < Items
             /\ Q!Pop(Reader) \/ Q!PopWake(Reader)
             /\ received' = IF call'[Reader].op = "popped"
                            THEN Append(received, call'[Reader].arg)
                            ELSE received
             /\ UNCHANGED sent

SpuriousWake == /\ \E t \in {Writer, Reader} : Q!SpuriousWake(t)
                /\ UNCHANGED <<sent, received>>

Completed == /\ sent = Items
             /\ Q!Ready(Writer)
             /\ Len(received) = Items

Next == \/ WriterPush \/ WriterContinue
        \/ ReaderPop
        \/ SpuriousWake
        \/ Completed /\ UNCHANGED vars

(* Both threads keep running while they can; wakeups without a notification *)
(* are possible but not promised by the standard.                           *)
Spec == Init /\ [][Next]_vars
FairSpec == Spec /\ WF_vars(WriterPush \/ WriterContinue) /\ WF_vars(ReaderPop)
--------------------------------------------------------------------------------
(* The writer's and the reader's get() return: main.cpp lines 84-86 print   *)
(* "--- Queue test completed ---".                                          *)
TestCompletes == <>Completed
================================================================================
