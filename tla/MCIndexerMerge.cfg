CONSTANTS
  Paths = {p}
  Nested = {}
  Key <- ClashLater
  Workers = {w1, w2}
  Stoppers = {s}
  MaxEdits = 3
  MaxRestarts = 0
SPECIFICATION Spec
CHECK_DEADLOCK FALSE
INVARIANTS
  MergedInSync
