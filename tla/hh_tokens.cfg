SPECIFICATION Spec
CONSTANTS
  Processes = {"api", "bot"}
  Calls = {"extraction", "access", "code"}
  Batches <- BatchesOfInstance
  ProcessOf <- ProcessOfInstance
  Cancellable = {"access", "code"}
  Exchanges = {"code"}
  Workers = {"e1", "e2", "a1", "x1"}
  CallOf <- CallOfInstance
  MaxAttempts = 2
  MaxPairs = 3
  MaxFaults = 1
INVARIANT TypeOK
INVARIANT EnvFileLetsIn
PROPERTY RefreshedOnce
PROPERTY CallsEnd
CHECK_DEADLOCK FALSE
