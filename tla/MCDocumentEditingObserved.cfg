CONSTANTS
  Docs = {"a", "b"}
  Scanned = {"a"}
  Movable = {"b"}
  Tabs = {"t"}
  NoTab = NoTab
  NoText = NoText
  MaxEdits = 2
  MaxRequests = 2
  MaxFaults = 1
SPECIFICATION Spec
CHECK_DEADLOCK FALSE
INVARIANTS
  TypeOK
  \* CommittedIsServed   \* is violated
