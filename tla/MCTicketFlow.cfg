CHECK_DEADLOCK FALSE
SPECIFICATION FairSpec
CONSTANTS
  c1 = c1
  c2 = c2
  a1 = a1
  a2 = a2
  Clicks = {c1}
  AutoRuns = {a1, a2}
  Stakes = {2}
  Cap = 3
  MaxDropped = 1
  RunsAhead = 2
INVARIANTS TypeOK InflightExact SerialTraderKeepsCap AuditTruthful CleanDrain OneFillPerCooldown OneMissPerWindow
PROPERTIES TicketsFinish DrainCompletes
