CONSTANTS
  FolderCalls = {"folder"}
  TextCalls = {"one", "two"}
  Batches <- MCBatches
  Nodes <- MCNodes
  Files <- MCNodes
  Kind <- MCKind
  Root = 0
  Members <- MCMembers
  MaxFiles = 3
  MaxArchiveDepth = 2
  RetryAttempts = 2
  MaxRemoteFaults = 1
  MaxMessage = 2
  StoredBefore = {2}
  TextRequests <- MCRequests
  FolderStem = "folder"
  MaxSeconds = 1
  MaxCrashes = 1
SPECIFICATION FairSpec
CHECK_DEADLOCK FALSE
INVARIANT TypeOK
INVARIANT ScanAccountsForTheTree
INVARIANT FileHoldsItsRows
INVARIANT RunningMeansInterrupted
INVARIANT MistralIsLeftClean
PROPERTY ExportsEnd
