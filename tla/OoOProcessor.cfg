SPECIFICATION FairSpec
CONSTANTS
  Programs <- BothPrograms
  PCs <- Instructions
  HashPC <- ByParity
  Entries <- FewEntries
  NoInst = NoInst
  StoreSetSize = 2
  PipeLength = 2
  MaxIRequests = 2
  FetchWidth = 2
  IssueWidth = 1
  RetireWidth = 1
  InstQueueSize = 2
  MaxROBSize = 3
  Serialize = 1
  Threshold = 3
  MaxBatch = 3
  MaxItems = 4
  MaxReplays = 1
INVARIANTS TypeOK HeldInOrder ResourcesAccounted BlockedHasWaker RecoveryFlushes LastFetchedIsLive
PROPERTIES EventuallyDrains
