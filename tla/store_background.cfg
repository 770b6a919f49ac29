SPECIFICATION Spec
CONSTANTS
  MaxChange = 5
  MaxGen = 4
  Batch = 2
  CompactAt = 2
  Modes = {"background"}
  Faults <- BackgroundFaults
  OtherBuilder = FALSE
  OldCatalog = FALSE
INVARIANTS
  AckedDurable
  Recoverable
  ReadersSeeOnePair
  CatalogHonest
PROPERTIES
  BaseFollowsLog
  ImplementsLogicalIndex
CHECK_DEADLOCK FALSE
