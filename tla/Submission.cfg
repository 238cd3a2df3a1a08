CONSTANTS
  me = me
  MaxRetries = 2
  BaseDelay = 1
  MaxBackoffExponent = 1
  Second = 1
  DurationLimit = 64
  Statuses = {200, 400, 401, 429, 503}
  RetryAfters <- MCRetryAfters
  Operations = {"SAFE", "PROXY", "SAFE-CREATE"}
  Nonces = {1}
  Window = 3
  Horizon = 6
SPECIFICATION Spec
INVARIANTS
  FirstErrorIsFinal
PROPERTIES
  StepsOfRelayClient
  DuplicatesExpire
CHECK_DEADLOCK FALSE
