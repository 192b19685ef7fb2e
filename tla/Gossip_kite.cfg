SPECIFICATION Spec
CONSTANTS
  Instances = {"a", "b", "c", "d"}
  Origin = "a"
  Interested <- Kite
  K = 2
  Threads = {t1, t2}
  Classes = {"move", "other"}
  MaxForgets = 1
  MaxFaults = 1
  NoOne = NoOne
CHECK_DEADLOCK FALSE
INVARIANTS
  FanoutIsBounded
PROPERTIES
  GossipCarriesTheRest
