SPECIFICATION HomeSpec
CONSTANTS
  r1 = r1
  r2 = r2
  r3 = r3
  t1 = t1
  t2 = t2
  Routes = {"push", "content", "backfill", "prior_home", "challenge"}
  Window = 3
  Cap = 3
  KeyCap = 2
  Batches = {1, 2}
  ByteCap = 3
  Sizes = {1, 2}
  MaxFlying = 2
  MaxTime = 6
  Patches = {"a", "b"}
  Body <- MCBody
  Start <- MCStart
  Uploads = {1, 2}
  Size <- MCSize
  DayTicks = 2
  LastTick = 3
  MaxRestarts = 1
SYMMETRY Symmetry
CHECK_DEADLOCK FALSE
INVARIANTS
  ConfigSound LimitsHold PinsDense ReportsArrive
PROPERTIES
  StaleReadsBounded AttachmentsStand
