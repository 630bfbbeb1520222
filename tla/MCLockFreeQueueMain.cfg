CONSTANTS
  Producers = {p1, p2}
  Consumers = {c1, c2}
  Main = main
  Cells = {n1, n2, n3}
  Null = Null
  NoValue = NoValue
  WeakCasMayFail = TRUE
SPECIFICATION FairSpec
INVARIANTS
  ListIsIntact
  HandedOutAndFreedOnce
PROPERTIES
  Linearizable
  ProgramEnds
