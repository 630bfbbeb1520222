CONSTANTS
  Inserters = {i1, i2, i3, i4, i5}
  Relinquishers = {r1, r2, r3, r4}
  MaxCounter <- MCMaxCounter
SPECIFICATION FairSpec
INVARIANTS
  AcquiresAreBacked
  NobodySleepsOnUnits
PROPERTIES
  UnitsAreTaken
