SPECIFICATION Spec
CONSTANTS
  setting = setting
  removing = removing
  b1 = b1
  b2 = b2
  Clis <- MCClis
  CommandsOf <- MCCommandsOf
  Ids = {b1, b2}
  ConnectorOf <- MCConnectorOf
  Workspaces = {w1, w2}
  Renewing = {"linear"}
  None = None
  MaxIdentities = 2
  MaxKills = 1
  MaxMet = 1
INVARIANTS
  EveryBindingHasItsSecret
