SPECIFICATION FairSpec
CONSTANTS
  s1 = s1
  s2 = s2
  Slugs = {s1}
  DarkAfter = 2
  PriorityDarkAfter = 0
  RepairSweep = 1
  MaxRepairAttempts = 2
  MaxEscalations = 2
  ReconnectCooldown = 3
  PlayStates = {"confirmed"}
  MaxUnreadable = 1
PROPERTIES StuckEscalates
