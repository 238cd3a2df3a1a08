CONSTANTS
  MillisPerSecond = 10
  MillisThreshold = 100
  Timestamps <- MCTimestamps
  StartTime = 101
  Horizon = 102
  Callers = {g1, g2}
  Requests <- MCRequests
  Tokens = {"", "token"}
SPECIFICATION FairSpec
INVARIANT
  SignatureCoversRequest
PROPERTIES
  StepsOfBuilderAuth
  HeadersReturn
CHECK_DEADLOCK FALSE
