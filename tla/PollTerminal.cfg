CONSTANTS
  Second = 2
  DefaultFrequency = 4
  DefaultPolls = 3
  WaitPolls = 4
  Calls <- MinedOnly
  WaitOptions <- MCWaitOptions
SPECIFICATION Spec
PROPERTY TerminalEndsTheWait
CHECK_DEADLOCK FALSE
