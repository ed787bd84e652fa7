SPECIFICATION Spec
CONSTANTS
  Workers = {w1}
  Sessions = {}
  None = None
  MaxAttempts = 1
  Limit = 2
  MaxMessages = 3
  MaxCrashes = 2
  MaxFaults = 1
  MaxRetired = 0
CHECK_DEADLOCK FALSE
INVARIANT
  FirstAttemptsInOrder
