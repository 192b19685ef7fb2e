SPECIFICATION ProgressSpec
CONSTANTS
  Targets = {"t", "u"}
  Clicks = {1, 2}
  MaxFails = 1
CHECK_DEADLOCK FALSE
PROPERTIES
  GapsHeal PurgedIsReflected Settles
