CONSTANTS
  Producers = {p1, p2}
  Consumers = {c1, c2}
  Main = main
  Cells = {n1, n2, n3}
  Null = Null
  NoValue = NoValue
  WeakCasMayFail = FALSE
SPECIFICATION Spec
INVARIANTS
  NoDanglingAccess
