SPECIFICATION AuthSpec
CONSTANTS
  Sharers = {p1, p2}
  Hands = {t1, t2}
  ProcessOf <- ProcessEach
  NoHand = NoHand
  MaxGrants = 3
  MaxAuthFaults = 0
PROPERTIES NoSpentTokenShown
CHECK_DEADLOCK FALSE
