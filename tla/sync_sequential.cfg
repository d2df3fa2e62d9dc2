CONSTANTS
  MaxId = 3
  Texts = {"a", "b"}
  Trash = "trash"
  NoText = "none"
  MaxChunks = 2
  ChunkCount <- MCChunkCount
  Syncs = {c1, c2, c3}
  MaxActive = 1
  Limits = {0, 2}
  Resyncs = {TRUE, FALSE}
  BatchSize = 3
  MaxPage = 2
  MaxEdits = 0
  MaxRemovals = 0
  MaxFaults = 1
  Aborts = {"crash"}
  MaxAborts = 1
SPECIFICATION Spec
CHECK_DEADLOCK FALSE
SYMMETRY Symmetry
INVARIANT DuplicatesResolve
INVARIANT OneCanonicalPerText
PROPERTY WatermarkNeverRegresses
