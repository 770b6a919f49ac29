SPECIFICATION Spec
CONSTANTS
  MaxChange = 4
  MaxGen = 4
  Batch = 2
  CompactAt = 1
  Modes = {"background"}
  Faults <- HarmlessFaults
  OtherBuilder = TRUE
  OldCatalog = FALSE
INVARIANT
  RestartNotStale
CHECK_DEADLOCK FALSE
