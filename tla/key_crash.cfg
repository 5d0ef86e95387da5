SPECIFICATION Spec
CONSTANTS
  Admins <- OneAdmin
  MaxVersion = 2
  MaxCrashes = 1
INVARIANT CheckpointsRemainDecryptable
CHECK_DEADLOCK FALSE
