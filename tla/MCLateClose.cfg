SPECIFICATION Spec
CONSTANTS
  Clients = {c1}
  Lives = {l1, l2}
  Bindings = {b1, b2}
  None = None
  MaxClosing = 1
  MaxFaults = 1
CHECK_DEADLOCK FALSE
PROPERTY ListedIsRouted
