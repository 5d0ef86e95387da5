SPECIFICATION Spec
CONSTANTS
  MaxVersions = 2
  MaxSwitches = 3
  ModelRounds <- TwoRounds
  Received = 0
INVARIANT DisconnectHandled
CHECK_DEADLOCK FALSE
