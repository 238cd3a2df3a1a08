CONSTANTS
  g1 = g1
  g2 = g2
  b1 = b1
  b2 = b2
  Callers = {g1}
  Operations = {"PROXY"}
  Batches = {b1}
  MaxRetries = 1
  InitialNonces = {0, 1}
  Bodies = {"json", "empty"}
SPECIFICATION Spec
INVARIANT ProxyExecutionIsPrepared
CHECK_DEADLOCK FALSE
