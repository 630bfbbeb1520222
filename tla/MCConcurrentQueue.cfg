CONSTANTS
  Threads = {t1, t2, t3}
  Values = {a, b}
  NoValue = NoValue
  Capacities <- MCCapacities
  MaxLen <- MCMaxLen
SPECIFICATION FairSpec
INVARIANTS
  CapacityRespected
  NoLostWakeup
PROPERTIES
  CloseReleases
  FifoSpec
