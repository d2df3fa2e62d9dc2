CONSTANTS
  MaxId = 2
  Texts = {"a", "b"}
  Trash = "trash"
  NoText = "none"
  MaxChunks = 2
  ChunkCount <- MCChunkCount
  Syncs = {c1, c2}
  MaxActive = 1
  Limits = {0}
  Resyncs = {FALSE}
  BatchSize = 1
  MaxPage = 2
  MaxEdits = 1
  MaxRemovals = 0
  MaxFaults = 1
  Aborts = {"disconnect", "crash"}
  MaxAborts = 1
SPECIFICATION FairSpec
CHECK_DEADLOCK FALSE
INVARIANT SearchableBelowWatermark
PROPERTY SyncTerminates
PROPERTY StartedJobSettles
