SPECIFICATION TranscriptSpec
CONSTANTS
  Bodies = {b1, b2, b3}
  ToolUses = {k1, k2}
  Provider = "linear"
  Turns = 3
SYMMETRY MCSymmetry
CHECK_DEADLOCK FALSE
INVARIANTS
  PostsWhatWasSaid ToolCallsAreKeptOnce
