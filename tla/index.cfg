SPECIFICATION IndexSpec
CONSTANTS
  Paths <- Tree
  Above <- FoldersAbove
  Rank <- ByteOrder
  Records = {"r1", "r2"}
  OverlayBase <- FirstIndex
  OverlayWrites <- FolderWrites
  MaxFrames = 3
  MaxBatch = 2
  MaxGeneration = 2
  InPlaceResets = FALSE
  MaxReaderFrames = 2
  PinnedRows <- Pinned
  CatalogWrites <- RowWrites
  MaxLogged = 2
  MaxRevision = 3
  Queries = {"q1", "q2"}
  MatchRank <- Ranking
  Letters <- LettersOf
  FirstListed <- Listing1
  PageBatches <- Batches
  Capacity = 2
  MaxPages = 1
  Retained = 2
  MaxCommits = 4
  SizeOf <- Number
  SourceOf <- Number
  FirstBase <- Builds
  BlockRecords = 2
  PageLimit = 1
  MaxBlockChanges = 2
  MaxCompactions = 2
  BaseRows <- Rows
  NameOf <- FileNames
  ExtOf <- Extensions
  ListingWrites <- RowChanges
  ListQueries <- Lists
  FirstChunk = 1
  LargestChunk = 2
  LivePage = 1
  PageRows = 2
  KnownExts = {"x"}
  SizeMax = 3
  LatestTime = 8
  MaxListingWrites = 2
  QuickTerms <- SearchedTerms
  QuickLists <- RankedQueries
  LetterK = 3
  KelvinSign = 9
  RecallCap = 3
  InitialDepth = 3
  KeptLeaders = 3
  MaxCandidates = 9
  Builders = {"desktop", "terminal"}
  CatalogReaders = {"r"}
  MaxGenerations = 4
  MaxKills = 1
  PreparedBefore = {TRUE, FALSE}
INVARIANTS
  OpenMeansLog
  FilterIsExact
  
  CatalogSound
  FoldersListed
  PagesSound
  BlocksSound
  SearchSound
  JoinsOneBase
PROPERTY
  CompactionKeepsIndex
CHECK_DEADLOCK FALSE
