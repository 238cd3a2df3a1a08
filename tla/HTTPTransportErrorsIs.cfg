CONSTANTS
  MaxRetries = 1
  BaseDelay = 5
  MaxBackoffExponent = 1
  Second = 10
  DurationLimit = 128
  Statuses <- MCStatuses
  RetryAfters <- MCRetryAfters
SPECIFICATION Spec
INVARIANT ErrorsIsDecides
CHECK_DEADLOCK FALSE
