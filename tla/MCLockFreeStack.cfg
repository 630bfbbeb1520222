CONSTANTS
  Threads = {t1, t2, t3}
  Nodes = {n1, n2, n3, n4, n5, n6}
  Null = Null
  Pushes <- MCPushes
  WeakCasMayFail = TRUE
SPECIFICATION FairSpec
INVARIANTS
  ListIsHistory
PROPERTIES
  PublishedNodesAreFrozen
  AllPushesComplete
