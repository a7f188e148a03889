CONSTANTS
  Paths = {p, q}
  Nested = {q}
  Key <- ClashLater
  Workers = {w1, w2}
  Stoppers = {s}
  MaxEdits = 3
  MaxRestarts = 1
SPECIFICATION FairSpec
CHECK_DEADLOCK FALSE
INVARIANTS
  SettledInSync
  WaitGroupBalanced
PROPERTIES
  NoWriteAfterStop
  StopTerminates
