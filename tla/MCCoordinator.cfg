SPECIFICATION Spec
CONSTANTS
  Conversations = {c1, c2}
  Messages = {m1, m2, m3}
  Stops = {x1, x2}
  Responses = {a1}
  Turns = {t1, t2, t3}
  Interactions = {i1, i2}
  None = None
  Concurrency = 2
  MaxOutstanding = 2
  MaxCrashes = 1
CHECK_DEADLOCK FALSE
SYMMETRY Symmetry
INVARIANTS
  TypeOK PoolIsCounted WorkConserving WaitingIsAnswerable PermissionByOperator
PROPERTIES
  EventUsedOnce StopSticks
