SPECIFICATION Spec
CONSTANTS
  Workers = {w1}
  Sessions = {s1}
  None = None
  MaxAttempts = 2
  Limit = 2
  MaxMessages = 2
  MaxCrashes = 0
  MaxFaults = 0
  MaxRetired = 1
CHECK_DEADLOCK FALSE
INVARIANT
  FailureSurfaced
