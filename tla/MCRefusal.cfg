SPECIFICATION Spec
CONSTANTS
  Clients = {c1}
  Lives = {l1}
  Bindings = {b1}
  None = None
  MaxClosing = 0
  MaxFaults = 1
CHECK_DEADLOCK FALSE
INVARIANT OnlyRefusalEndsTheDaemon
