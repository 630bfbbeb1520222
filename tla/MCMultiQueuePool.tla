---------------------------- MODULE MCMultiQueuePool ---------------------------
(***************************************************************************)
(* MultiQueuePool for TLC: two workers, so that each has one to rob and one*)
(* to be robbed by, and tasks enough that both can be dealt something.     *)
(***************************************************************************)
EXTENDS MultiQueuePool

MCThreadCount == 2
ASSUME TaskForEveryWorker == Cardinality(Tasks) >= MCThreadCount
================================================================================
