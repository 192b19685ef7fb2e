SPECIFICATION ReadingSpec
CHECK_DEADLOCK FALSE
INVARIANTS
  TripIsWhole ThreadIsWhole RoomsAreWhole
