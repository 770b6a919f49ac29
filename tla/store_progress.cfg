SPECIFICATION FairSpec
CONSTANTS
  MaxChange = 5
  MaxGen = 4
  Batch = 2
  CompactAt = 2
  Modes = {"background"}
  Faults = {}
  OtherBuilder = TRUE
  OldCatalog = FALSE
PROPERTY
  FoldedEventually
CHECK_DEADLOCK FALSE
