\* Two servers and one pick: the call never returns, and the system stops.
CONSTANTS
  NumServers = 2
  Kinds = {"object"}
  Depth = 1
  Width = 16
  CanPick = TRUE
  CanFail = FALSE
  MaxHandles = 1
  MaxCalls = 3
  None = None
SPECIFICATION Spec
PROPERTIES
  PickReturns
CHECK_DEADLOCK FALSE
