SPECIFICATION FederationSpec
CONSTANTS
  AllMoves <- MCMoves
  NoMove <- MCNoMove
  Instances = {"s", "a", "b"}
  Self = "s"
  Skew = 1
  Requests = {1, 2}
  MaxTime = 2
  MaxJoins = 1
  Nodes = {"h", "g", "r"}
  OldHome = "h"
  NewHome = "g"
  MovedAt = 1
  Issuers = {"i1", "i2", "j1"}
  IssuerAt <- MCIssuerAt
  Pushes = {"p", "s"}
  PushAt <- MCPushAt
  MaxNow = 1
  MaxIssued = 2
  Peers = {"p", "q"}
  Recent <- MCRecent
  Ceremonies = {1, 2}
  Joiners = {1, 2}
  TTL = 0
  MaxAge = 0
  LastHour = 1
  FanoutMax = 1
  Batch = 1
CHECK_DEADLOCK FALSE
INVARIANTS
  HomeFollowsMoves StatusConverges ContentConverges RecoveryIsComplete
PROPERTIES
  ImplementsRegister RegistrationSound ErasureStands
