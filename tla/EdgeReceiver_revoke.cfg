SPECIFICATION FairSpec
CONSTANTS
  e1 = e1
  e3 = e3
  f2 = f2
  n2 = n2
  NoEdge = NoEdge
  NoOne = NoOne
  Edges = {e1, n2}
  Prior <- Tombstone
  Neutral = {n2}
  Handlers = {h1}
  Tasks = {k1}
  KnownAtStart = {"source", "target"}
  InExpansion = TRUE
  Page = 2
  MaxEvicts = 0
  MaxFaults = 0
  MaxProfiles = 0
  MaxLosses = 1
  MaxCopies = 0
  MaxMishaps = 2
CHECK_DEADLOCK FALSE
PROPERTIES RevocationTakesEffect
