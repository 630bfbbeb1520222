CONSTANTS
  ThreadCount <- MCThreadCount
  Main = main
  Tasks = {k1, k2}
  Collectors = {}
  Dummy = dummy
  NoTask = NoTask
  WorkersSubmit = FALSE
SPECIFICATION FairSpec
PROPERTIES
  ShutdownCompletes
