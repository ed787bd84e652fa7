SPECIFICATION Spec
CONSTANTS
  Workers = {w1, w2}
  Sessions = {s1}
  None = None
  MaxAttempts = 2
  Limit = 2
  MaxMessages = 1
  MaxCrashes = 1
  MaxFaults = 1
  MaxRetired = 1
CHECK_DEADLOCK FALSE
INVARIANTS
  AttemptsBounded FailureSurfacedUnlessLost
PROPERTIES
  DeliveryEnds
