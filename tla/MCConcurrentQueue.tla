---------------------------- MODULE MCConcurrentQueue --------------------------
(***************************************************************************)
(* ConcurrentQueue for TLC: the queue of the pools, which is unbounded, and*)
(* the smallest bounded one, with enough room in the model for a push that *)
(* overtakes a sleeping one to show, and enough threads that a third can   *)
(* come between a notification and the thread it wakes.                    *)
(***************************************************************************)
EXTENDS ConcurrentQueue

MCCapacities == {0, 1}
MCMaxLen     == 3
ASSUME ThirdThread == Cardinality(Threads) >= 3
================================================================================
