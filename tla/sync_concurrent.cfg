CONSTANTS
  MaxId = 3
  Texts = {"a"}
  Trash = "trash"
  NoText = "none"
  MaxChunks = 2
  ChunkCount <- MCChunkCount
  Syncs = {c1, c2}
  MaxActive = 2
  Limits = {0}
  Resyncs = {TRUE, FALSE}
  BatchSize = 2
  MaxPage = 2
  MaxEdits = 0
  MaxRemovals = 1
  MaxFaults = 1
  Aborts = {}
  MaxAborts = 0
SPECIFICATION Spec
CHECK_DEADLOCK FALSE
SYMMETRY Symmetry
INVARIANT TypeOK
INVARIANT WatermarkSound
INVARIANT SyncInv
INVARIANT StoredTextsSearchable
PROPERTY ImplementsSyncLog
