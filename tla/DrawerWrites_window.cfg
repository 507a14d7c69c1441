SPECIFICATION DrawersSpec
CONSTANTS
  AddKeys = {ka}
  RemoveKeys = {kd}
  MaxDrawerIds = 1
  MaxIntents = 3
  MaxDrawerFaults = 1
INVARIANTS CrashWindowClosed
CHECK_DEADLOCK FALSE
