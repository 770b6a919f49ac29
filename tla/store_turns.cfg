SPECIFICATION FairSpec
CONSTANTS
  MaxChange = 3
  MaxGen = 3
  Batch = 2
  CompactAt = 1
  Modes <- BothModes
  Faults <- FaultPoints
  OtherBuilder = TRUE
  OldCatalog = TRUE
INVARIANT
  TypeOK
PROPERTY
  LockReleased
CHECK_DEADLOCK FALSE
