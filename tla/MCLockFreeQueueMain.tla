--------------------------- MODULE MCLockFreeQueueMain -------------------------
(***************************************************************************)
(* LockFreeQueueMain for TLC: the cells are the dummy node and one node per*)
(* produce, and there are two threads of each kind to race for an end.     *)
(***************************************************************************)
EXTENDS LockFreeQueueMain

ASSUME RacingThreads == Cardinality(Producers) >= 2 /\ Cardinality(Consumers) >= 2
ASSUME OneCellPerNode == Cardinality(Cells) = Cardinality(Producers) + 1
================================================================================
