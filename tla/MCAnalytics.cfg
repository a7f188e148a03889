CONSTANTS
  e1 = e1
  e2 = e2
  published = published
  linked = linked
  Events = {e1, e2}
  KindOf <- TwoKinds
  Buffer = 1
  MaxFaults = 1
  MaxRestarts = 1
SPECIFICATION FairSpec
CHECK_DEADLOCK FALSE
INVARIANTS
  StoredOnce
  ShutdownKeepsEvents
  CountsMatchCursor
PROPERTIES
  PipelinesGoOn
