CONSTANTS
  MaxId = 1
  Texts = {"long", "short"}
  Trash = "trash"
  NoText = "none"
  MaxChunks = 2
  ChunkCount <- MCChunkCount
  Calls = {r1, r2, r3}
  MaxActive = 2
  Kinds = {"download", "transcribe", "bot"}
  MaxSidecarFaults = 1
  Mishaps = {}
  MaxMishaps = 0
SPECIFICATION FairSpec
CHECK_DEADLOCK FALSE
INVARIANT TypeOK
INVARIANT RunningMeansWorking
INVARIANT JobsTellTheOutcome
PROPERTY RunningEnds
