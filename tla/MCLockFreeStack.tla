----------------------------- MODULE MCLockFreeStack ---------------------------
(***************************************************************************)
(* LockFreeStack for TLC: one node for every push, several pushes by several*)
(* threads, so that a loser of one race meets the winners of the next.     *)
(***************************************************************************)
EXTENDS LockFreeStack

MCPushes == 2
ASSUME OneNodePerPush == Cardinality(Nodes) = Cardinality(Threads) * MCPushes
================================================================================
