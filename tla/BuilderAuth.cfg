CONSTANTS
  MillisPerSecond = 10
  MillisThreshold = 100
  Timestamps <- MCTimestamps
  MaxRetries = 2
  Window = 2
  StartTime = 101
  Horizon = 108
  MaxCalls = 2
SPECIFICATION Spec
INVARIANTS
  TypeOK
  ValidityIsHonest
  FallbackServes
  UnauthorizedMeansSlow
  SignersAgree
CHECK_DEADLOCK FALSE
