SPECIFICATION DeliverySpec
CONSTANTS
  Peers = {p1, p2}
  Callers = {c1}
  Sizes = {1, 2, 4}
  Routes = {"content", "edges"}
  TotalBytes = 3
  BytesPerPeer = 3
  ObjectsPerPeer = 2
  MaxBatch = 2
  MaxObjects = 2
  NoOne = NoOne
  Keys = {1, 2, 3}
  HashA <- MCHashA
  HashB <- MCHashB
  Wrap = 16
  Bits = 8
  HashCount = 2
  Unit = 4
  LocalKeys = {1, 2}
  High = 80
  Low = 60
  Sides = {"a", "b"}
  MaxRequests = 2
  MaxSent = 5
  LruSize = 3
  Window = 2
  Offered <- MCOffered
  Proposed <- MCProposed
  AllRows <- MCAllRows
  Kinds = {"edges", "moves"}
  Limit = 2
  Lookups <- MCLookups
  MaxErased = 2
SYMMETRY Symmetry
CHECK_DEADLOCK FALSE
INVARIANTS
  Conservation HandshakeAgrees EachEnvelopeOnce FiltersSound WalkIsExact
PROPERTIES
  FirstReceiptInOrder
