CHECK_DEADLOCK FALSE
SPECIFICATION Spec
CONSTANTS
  c1 = c1
  c2 = c2
  a1 = a1
  a2 = a2
  Clicks = {c1, c2}
  AutoRuns = {a1, a2}
  Stakes = {1, 2}
  Cap = 4
  MaxDropped = 1
  RunsAhead = 2
INVARIANTS CapNeverExceeded
