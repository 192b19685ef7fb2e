SPECIFICATION TrustSpec
CONSTANTS
  Ranks = {1, 2, 3}
  Tabs = {b1, b2}
  MaxClock = 2
  MaxLog = 3
  a1 = a1
  a2 = a2
  h1 = h1
  h2 = h2
SYMMETRY Symmetry
CHECK_DEADLOCK FALSE
INVARIANTS
  LogIsLinear WalksAgree StoreIsFrontier
PROPERTIES
  PeerFollows
