CONSTANTS
  ThreadCount <- MCThreadCount
  Main = main
  Tasks = {k1, k2, k3}
  Collectors = {k3}
  Dummy = dummy
  NoTask = NoTask
  WorkersSubmit = TRUE
SPECIFICATION FairSpec
INVARIANTS
  OwnerIsWoken
  EveryTaskInOnePlace
  SleepersWereRobbed
PROPERTIES
  AcceptedTasksRun
  UnrobbedShutdownCompletes
