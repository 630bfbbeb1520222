CONSTANTS
  A = A
  B = B
  Forward = {t1, t3}
  Backward = {t2}
  Free = Free
  Initial <- MCInitial
  Amounts <- MCAmounts
  Transfers <- MCTransfers
SPECIFICATION FairSpec
INVARIANTS
  MoneyConserved
  NeverOverdrawn
PROPERTIES
  AllTransfersEnd
