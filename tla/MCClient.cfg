SPECIFICATION ClientSpec
CONSTANTS
  Procs = {p1, p2}
  Adds = {a1, a2}
  Invalidates = {i1, i2}
  NoOp = NoOp
  Setups <- AllSetups
  Sharers = {q1}
  Hands = {t1, t2}
  ProcessOf <- OneProcess
  NoHand = NoHand
  MaxGrants = 3
  MaxAuthFaults = 1
  AddKeys = {ka}
  RemoveKeys = {kd}
  MaxDrawerIds = 2
  MaxIntents = 3
  MaxDrawerFaults = 2
SYMMETRY MCSymmetry
INVARIANTS Converged IntentsKept SessionInv DrawersConverge
PROPERTIES SessionSteps
CHECK_DEADLOCK FALSE
