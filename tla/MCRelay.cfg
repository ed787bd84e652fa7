SPECIFICATION Spec
CONSTANTS
  Sockets = {s1, s2}
  Installations = {i1, i2}
  Bindings = {b1}
  Requests = {r1, r2}
  Notice = Notice
  None = None
  Capacity = 2
CHECK_DEADLOCK FALSE
INVARIANTS
  WorkConserving OutboxBounded RegistryIsExact RoutedOnly NoFrameTwice
PROPERTIES
  ImplementsExchange DeliveryEnds
