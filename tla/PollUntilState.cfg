CONSTANTS
  Second = 2
  DefaultFrequency = 4
  DefaultPolls = 3
  WaitPolls = 4
  Calls <- MCCalls
  WaitOptions <- MCWaitOptions
SPECIFICATION FairSpec
INVARIANTS
  TypeOK
  WaitTellsTheTruth
  TimeoutIsEarned
PROPERTIES
  QueriesAreSpaced
  CancelledBetweenPolls
  Terminates
CHECK_DEADLOCK FALSE
