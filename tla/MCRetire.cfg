SPECIFICATION Spec
CONSTANTS
  Sessions = {s1, s2}
  Conversations = {c1}
  None = None
  RetentionMs = 1
  Retirable = {"queued", "running", "completed", "interrupted", "failed", "stopped"}
  MaxTime = 2
  MaxCrashes = 1
CHECK_DEADLOCK FALSE
INVARIANTS
  LiveHasWorktree
