SPECIFICATION FairSpec
CONSTANTS
  Peers = {p1}
  Callers = {c1, c2}
  Sizes = {1, 2, 3}
  Routes = {content}
  TotalBytes = 1
  BytesPerPeer = 2
  ObjectsPerPeer = 2
  MaxBatch = 1
  MaxObjects = 3
  NoOne = NoOne
CHECK_DEADLOCK FALSE
INVARIANTS NoLostWakeup OneWorker BatchIsVisible
PROPERTIES QueuesEmpty FirstReceiptInOrder
