SPECIFICATION Spec
CONSTANTS
  Conversations = {c1, c2}
  Messages = {m1, m2, m3}
  Stops = {}
  Responses = {a1}
  Turns = {t1, t2}
  Interactions = {i1, i2}
  None = None
  Concurrency = 1
  MaxOutstanding = 1
  MaxCrashes = 0
CHECK_DEADLOCK FALSE
INVARIANTS
  NoUnhandledRejection FollowUpsInOrder
PROPERTIES
  ImplementsSerial QueuedRuns
