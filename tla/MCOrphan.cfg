SPECIFICATION Spec
CONSTANTS
  Conversations = {c1, c2}
  Messages = {m1, m2}
  Stops = {}
  Responses = {}
  Turns = {t1, t2, t3}
  Interactions = {i1}
  None = None
  Concurrency = 1
  MaxOutstanding = 1
  MaxCrashes = 1
CHECK_DEADLOCK FALSE
INVARIANT
  QueuedHasPlace
