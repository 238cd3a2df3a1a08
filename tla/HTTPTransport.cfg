CONSTANTS
  MaxRetries = 3
  BaseDelay = 5
  MaxBackoffExponent = 1
  Second = 10
  DurationLimit = 128
  Statuses <- MCStatuses
  RetryAfters <- MCRetryAfters
SPECIFICATION FairSpec
INVARIANTS
  TypeOK
  AttemptBudget
  OutcomeTellsLastReply
  PauseFollowsLastReply
  CancellationSurfaces
PROPERTIES
  CancelledBetweenAttempts
  ImplementsCall
  Terminates
CHECK_DEADLOCK FALSE
