SPECIFICATION Spec
CONSTANTS
  MaxChange = 5
  MaxGen = 4
  Batch = 2
  CompactAt = 2
  Modes = {"foreground"}
  Faults = {"unmark"}
  OtherBuilder = FALSE
  OldCatalog = FALSE
INVARIANT
  Recoverable
CHECK_DEADLOCK FALSE
