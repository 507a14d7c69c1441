SPECIFICATION DrawerSpec
CONSTANTS
  DrawerLast = 1
  DrawerAdds = {1}
  DrawerSlots = {s1, s2}
  DrawerOverlapping = {}
  MaxOthers = 0
  MaxDrawerFaults = 2
INVARIANTS AckedAddStays
CHECK_DEADLOCK FALSE
