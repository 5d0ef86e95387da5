SPECIFICATION Spec
CONSTANTS
  Admins <- OneAdmin
  MaxVersion = 4
  MaxCrashes = 3
INVARIANTS BlobsReadable KeysOnDisk StoreKeyAgree RecordedKeyKnown
CHECK_DEADLOCK FALSE
