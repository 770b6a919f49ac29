SPECIFICATION ServiceSpec
CONSTANTS
  Leftovers = {"clean", "reset", "published"}
  TornMarkers = FALSE
  MaxBuilds = 2
  MaxLogged = 3
  Inodes = {1, 2, 3}
  Names = {"a", "b"}
  MaxFsOps = 2
  SweepDepth = 3
  Paths <- Places
  Above <- FoldersAbove
  Rank <- NameOrder
  Records = {"f1", "f2", "dir"}
  SweptPaths = {"r", "a"}
  SweptRecords = {"dir"}
  MaxEdits = 2
  MaxTransactions = 4
  SweepBatch = 1
  ResolveAhead = FALSE
  WatchedPaths = {"r", "a", "ab", "ax"}
  MaxNameOps = 4
  MaxDeletedHandles = 2
  MaxFsChanges = 2
  MaxFsCommits = 2
  MaxBases = 2
  SameCursor = FALSE
  RootIno = 1
  Inos = {1, 2, 3, 4, 5, 6, 7}
  FolderInos = {1, 2, 3}
  LinkNames = {"a", "b"}
  LongNames = {"b"}
  FirstLinks <- VolumeLinks
  FirstInos = {1, 2, 3, 4, 5, 6}
  Shards <- TwoThreads
  MaxOffset = 9
  BatchItems = 3
  MaxVolumeOps = 2
  MftRoot = 5
  MftNumbers = {0, 1, 2, 3, 4, 5, 6}
  FirstNumbers = {0, 1, 2, 3, 4, 5}
  FirstMft <- FirstTable
  MftNames = {"a", "b"}
  Layouts <- MftLayouts
  RecordClusters = 2
  NamesMove = FALSE
  MaxMftOps = 2
  FolderRecords = {"dir"}
  Bytes <- FileBytes
  TotalsBase <- FirstTotals
  TotalsWrites <- FolderWrites
  MaxTotalsLog = 4
  MaxTotalsFolds = 2
  TreeDepth = 3
  TreeRows = 2
  Files = {"x", "y"}
  Linked = {"x"}
  Contents = {1, 2}
  MaxUserEdits = 2
  TimesRestored = FALSE
  FileNames = {"a", "b", "c"}
  Owned = {"a", "b"}
  MaxActions = 3
  Queries = {"p", "q"}
  MaxIndexOps = 2
  MaxTyped = 1
  StartupChanges = FALSE
  Mounts = {"m1", "m2"}
  Entries = {"e1", "e2"}
  MountOf <- OneEach
  MaxChanges = 1
  MaxScans = 2
  AwaitHelper = TRUE
INVARIANTS
  
  PlanExact
  
  WatchExact
  NoChangeSkipped
  ScanExact
  
  
  UndoRestores
  SettledIsCurrent
  
CHECK_DEADLOCK FALSE
