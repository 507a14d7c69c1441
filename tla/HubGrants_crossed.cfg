SPECIFICATION HubSpec
CONSTANTS
  Browsers = {b1, b2}
  Refreshers = {c1, c2}
  MaxAttempts = 2
  MaxTokens = 3
INVARIANTS RevokedStays
CHECK_DEADLOCK FALSE
