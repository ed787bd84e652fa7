SPECIFICATION Spec
CONSTANTS
  Sessions = {s1, s2}
  Conversations = {c1, c2}
  None = None
  RetentionMs = 1
  Retirable = {"failed"}
  MaxTime = 1
  MaxCrashes = 1
CHECK_DEADLOCK FALSE
INVARIANTS
  HasWorktree RemovalExcludesTurns
PROPERTIES
  ExpiredIsRetired
