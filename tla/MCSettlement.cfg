SPECIFICATION FairSpec
CHECK_DEADLOCK FALSE
CONSTANTS
  kYes = kYes
  pShort = pShort
  LegOrder <- MCOneLeg
  IsYesSide <- MCSides
  Hits = 2
  Books = {TRUE}
  MaxBuys = 1
  MaxRestarts = 1
INVARIANTS TypeOK
PROPERTIES PositionsClose TradedLegsGetRecords
