CONSTANTS
  g1 = g1
  g2 = g2
  b1 = b1
  b2 = b2
  Callers <- MCCallers
  Operations = {"SAFE", "PROXY", "SAFE-CREATE"}
  Batches <- MCBatches
  MaxRetries = 1
  InitialNonces = {0}
  Bodies = {"json", "empty"}
SPECIFICATION Spec
SYMMETRY MCSymmetry
INVARIANTS
  TypeOK
  SafeExecutionIsPrepared
  FailureIsFinal
PROPERTIES
  ImplementsOperations
CHECK_DEADLOCK FALSE
