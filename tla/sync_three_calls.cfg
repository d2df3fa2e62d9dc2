CONSTANTS
  MaxId = 2
  Texts = {"a"}
  Trash = "trash"
  NoText = "none"
  MaxChunks = 2
  ChunkCount <- MCChunkCount
  Syncs = {c1, c2, c3}
  MaxActive = 2
  Limits = {0}
  Resyncs = {TRUE, FALSE}
  BatchSize = 2
  MaxPage = 2
  MaxEdits = 0
  MaxRemovals = 0
  MaxFaults = 0
  Aborts = {}
  MaxAborts = 0
SPECIFICATION Spec
CHECK_DEADLOCK FALSE
SYMMETRY Symmetry
INVARIANT StoredTextsSearchable
