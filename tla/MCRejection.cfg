SPECIFICATION Spec
CONSTANTS
  Conversations = {c1}
  Messages = {m1, m2}
  Stops = {x1}
  Responses = {}
  Turns = {t1, t2, t3}
  Interactions = {i1}
  None = None
  Concurrency = 1
  MaxOutstanding = 1
  MaxCrashes = 0
CHECK_DEADLOCK FALSE
INVARIANT
  NoUnhandledRejection
