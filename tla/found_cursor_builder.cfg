SPECIFICATION Spec
CONSTANTS
  MaxChange = 4
  MaxGen = 4
  Batch = 2
  CompactAt = 2
  Modes = {"background"}
  Faults = {}
  OtherBuilder = TRUE
  OldCatalog = FALSE
INVARIANT
  CatalogHonest
CHECK_DEADLOCK FALSE
