CONSTANTS
  Runs = 2
  Callers <- MCCallers
  Operations = {"SAFE", "SAFE-CREATE"}
  Batches = {"approve"}
  MaxRetries = 0
  InitialNonces = {0}
  Bodies = {"json", "garbled"}
SPECIFICATION FairProgramSpec
INVARIANTS
  SafeIsReady
  LateDeploymentsOnly
  PanicsTellTheTruth
  DeployNeedsNoSafe
PROPERTIES
  RunEnds
CHECK_DEADLOCK FALSE
