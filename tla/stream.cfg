SPECIFICATION FairSpec
CONSTANTS
  MaxVersions = 2
  MaxSwitches = 3
  ModelRounds <- TwoRounds
  Received = 0
INVARIANTS TypeOK NoDanglingOperation OneOperationUnderWay
PROPERTIES EventuallyFreed NewRoundStreamed
CHECK_DEADLOCK FALSE
