SPECIFICATION Spec
CONSTANTS
  e1 = e1
  e3 = e3
  f2 = f2
  n2 = n2
  NoEdge = NoEdge
  NoOne = NoOne
  Edges = {e1, n2, e3, f2}
  Prior <- Forked
  Neutral = {n2}
  Handlers = {h1, h2}
  Tasks = {k1}
  KnownAtStart = {"target"}
  InExpansion = TRUE
  Page = 2
  MaxEvicts = 1
  MaxFaults = 1
  MaxProfiles = 1
  MaxLosses = 1
  MaxCopies = 1
  MaxMishaps = 1
SYMMETRY Symmetry
CHECK_DEADLOCK FALSE
INVARIANTS
  ChainIntact
  NoStrandedOrphan
  RevokedIsErased
  GapsFetchedOnce
