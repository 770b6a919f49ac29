SPECIFICATION Spec
CONSTANTS
  MaxChange = 4
  MaxGen = 3
  Batch = 2
  CompactAt = 1
  Modes = {"background"}
  Faults = {"install"}
  OtherBuilder = FALSE
  OldCatalog = FALSE
INVARIANT
  RestartNotStale
CHECK_DEADLOCK FALSE
