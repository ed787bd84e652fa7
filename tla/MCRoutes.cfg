SPECIFICATION Spec
CONSTANTS
  Clients = {c1, c2}
  Lives = {l1}
  Bindings = {b1, b2}
  None = None
  MaxClosing = 0
  MaxFaults = 1
CHECK_DEADLOCK FALSE
PROPERTIES
  ListedStaysRouted
