SPECIFICATION Spec
CONSTANTS
  Procs = {p1}
  Adds = {a1}
  Invalidates = {i1}
  NoOp = NoOp
  Setups <- Replayed
INVARIANTS ReplicasAgree
CHECK_DEADLOCK FALSE
