SPECIFICATION FairSpec
CONSTANTS
  g1 = g1
  g2 = g2
  c1 = c1
  w1 = w1
  w2 = w2
  w3 = w3
  w4 = w4
  Groups = {g1, g2}
  Calls = {c1}
  Pass = Pass
  Gens = {w1, w2, w3, w4}
  NoGen = NoGen
  MaxRestarts = 1
INVARIANTS TypeOK MemoryMatchesDb OfferedKnown CoveredAtRest OneFeed
PROPERTIES RegisteredIsFed
CHECK_DEADLOCK FALSE
