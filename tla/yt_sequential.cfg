CONSTANTS
  MaxId = 1
  Texts = {"long", "short"}
  Trash = "trash"
  NoText = "none"
  MaxChunks = 2
  ChunkCount <- MCChunkCount
  Calls = {r1, r2, r3}
  MaxActive = 1
  Kinds = {"download", "transcribe", "bot"}
  MaxSidecarFaults = 1
  Mishaps = {"database", "deadline", "crash"}
  MaxMishaps = 1
SPECIFICATION Spec
CHECK_DEADLOCK FALSE
SYMMETRY Symmetry
INVARIANT TranscribedIsSearchable
