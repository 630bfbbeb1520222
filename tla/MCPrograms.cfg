CONSTANTS
  Forks = 5
  GetterThreads = 2
  CounterThreads = 2
  Rounds = 3
  Items = 4
  Limits <- MCLimits
  Sizes <- MCSizes
  Teams <- MCTeams
  Word = 4
  Sharers = 3
  Repeats = 3
  Elements <- MCElements
  GroupSize = 4
  Tile = 2
  Dimensions <- MCDimensions
  ComputeUnits = 2
  Numbers = 4
  Grids <- MCGrids
  NumThreads = 3
  Readers = 2
  Reads = 2
SPECIFICATION FairSpec
INVARIANTS
  TypeOK
  NeighboursEatApart
  CreatedOnce
  NobodyGoesOnEarly
  CountsAddUp
  ItemsInOrder
  LoopsAreExact
  NoUpdateLost
  HostGetsResults
  ResultsInOrder
  ParentsEndLast
  SnapshotsAreWhole
PROPERTIES
  WaitersResume
  ProgramsEnd
