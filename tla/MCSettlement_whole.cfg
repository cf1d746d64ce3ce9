SPECIFICATION Spec
CHECK_DEADLOCK FALSE
CONSTANTS
  kYes = kYes
  pShort = pShort
  LegOrder <- MCLegOrder
  IsYesSide <- MCSides
  Hits = 2
  Books = {TRUE}
  MaxBuys = 1
  MaxRestarts = 1
INVARIANTS PayoutStoredWhole
