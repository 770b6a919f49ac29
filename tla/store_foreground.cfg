SPECIFICATION Spec
CONSTANTS
  MaxChange = 6
  MaxGen = 5
  Batch = 2
  CompactAt = 2
  Modes = {"foreground"}
  Faults <- ForegroundFaults
  OtherBuilder = FALSE
  OldCatalog = FALSE
INVARIANTS
  AckedDurable
  Recoverable
  ReadersSeeOnePair
  CatalogHonest
PROPERTY
  ImplementsLogicalIndex
CHECK_DEADLOCK FALSE
