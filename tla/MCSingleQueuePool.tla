---------------------------- MODULE MCSingleQueuePool --------------------------
(***************************************************************************)
(* SingleQueuePool for TLC: more tasks than workers, one of them the       *)
(* collector, and a worker left over to run what the collector waits for.  *)
(***************************************************************************)
EXTENDS SingleQueuePool

ASSUME TasksPileUp == Cardinality(Tasks) > Cardinality(Workers)
ASSUME WorkerLeftOver == Collectors # {} /\ Cardinality(Collectors) < Cardinality(Workers)
================================================================================
