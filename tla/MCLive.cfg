SPECIFICATION LiveSpec
CONSTANTS
  Procs = {p1}
  Adds = {a1}
  Invalidates = {i1}
  NoOp = NoOp
  Setups <- Interrupted
  MemoryCalls = {m1, m2, m3}
  LeaseCalls = {l1}
  QueueLimit = 2
  NoCall = NoCall
INVARIANTS AdmissionHolds
PROPERTIES IntentsSettle LeaseAnswered EveryCallAnswered
CHECK_DEADLOCK FALSE
