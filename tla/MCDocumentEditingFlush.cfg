CONSTANTS
  Docs = {"a"}
  Scanned = {"a"}
  Movable = {}
  Tabs = {"t"}
  NoTab = NoTab
  NoText = NoText
  MaxEdits = 2
  MaxRequests = 3
  MaxFaults = 0
SPECIFICATION Spec
CHECK_DEADLOCK FALSE
INVARIANTS
  PublishedIsCurrent
