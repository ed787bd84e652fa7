SPECIFICATION Spec
CONSTANTS
  Processes = {p1, p2}
  Versions = {1, 3}
  Facts = {a, b}
  Files = {f1, f2, f3}
  None = None
  StopsFirst = TRUE
  MaxKills = 2
SYMMETRY Symmetry
CHECK_DEADLOCK FALSE
INVARIANTS
  NothingIsLost MigratedInOrder
