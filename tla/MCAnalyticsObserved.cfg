CONSTANTS
  e1 = e1
  e2 = e2
  published = published
  linked = linked
  Events = {e1, e2}
  KindOf <- TwoKinds
  Buffer = 2
  MaxFaults = 0
  MaxRestarts = 1
SPECIFICATION Spec
CHECK_DEADLOCK FALSE
\* One at a time: each is violated.
INVARIANTS
  RestartsDoNotDoubleCount
  \* ShutdownFlushesAll
