CONSTANTS
  Workers = {w1, w2}
  Main = main
  Tasks = {k1, k2, k3}
  Collectors = {k3}
  Dummy = dummy
  NoTask = NoTask
  WorkersSubmit = TRUE
SPECIFICATION FairSpec
INVARIANTS
  ShutdownNeverStarves
  EveryTaskInOnePlace
PROPERTIES
  ShutdownCompletes
  AllTasksComplete
