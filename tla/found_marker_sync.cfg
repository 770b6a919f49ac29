SPECIFICATION Spec
CONSTANTS
  MaxChange = 5
  MaxGen = 4
  Batch = 2
  CompactAt = 2
  Modes = {"foreground"}
  Faults = {"markerSync"}
  OtherBuilder = FALSE
  OldCatalog = FALSE
INVARIANT
  AckedDurable
CHECK_DEADLOCK FALSE
