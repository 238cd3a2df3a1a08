CONSTANTS
  g1 = g1
  g2 = g2
  g3 = g3
  l1 = l1
  l2 = l2
  noop = noop
  Goroutines <- MCGoroutines
  StandardLoggers <- MCLoggers
  NoOpLogger = noop
  Levels = {1, 4}
  MaxCalls = 2
SPECIFICATION Spec
SYMMETRY MCSymmetry
INVARIANTS
  TypeOK
  Linearizable
CHECK_DEADLOCK FALSE
