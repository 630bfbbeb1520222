CONSTANTS
  Writer = writer
  Reader = reader
  NoValue = NoValue
  Items = 15
  QueueCapacity = 10
SPECIFICATION FairSpec
PROPERTIES
  TestCompletes
