SPECIFICATION Spec
CONSTANTS
  Sessions = {s1, s2}
  Calls = {k1, k2}
  Replies = {p1, p2}
  Rules = {r1, r2}
  None = None
  Connector = "slack"
  Proposals <- MCProposals
  Texts <- MCTexts
  Questions = 2
  Clears = FALSE
  MaxTurns = 2
SYMMETRY MCSymmetry
CHECK_DEADLOCK FALSE
INVARIANTS
  DecidedAsTold RulesAreGranted AnswersFit
