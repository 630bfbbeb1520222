------------------------------- MODULE MCSemaphore -----------------------------
(***************************************************************************)
(* Semaphore for TLC: the five releases and four acquires of main.cpp, under*)
(* a maximum that some of the releases can meet and be lost at.            *)
(***************************************************************************)
EXTENDS Semaphore

MCMaxCounter == 3
ASSUME ReleasesCanBeLost == Cardinality(Inserters) > MCMaxCounter
ASSUME AcquiresCanWait == Cardinality(Relinquishers) > MCMaxCounter
================================================================================
