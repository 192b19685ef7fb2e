SPECIFICATION Spec
CONSTANTS
  Tabs = {b1, b2}
  Ranks = {1, 2, 3, 4}
  MaxClock = 1
  MaxLog = 3
CHECK_DEADLOCK FALSE
INVARIANTS NoLocalFork
