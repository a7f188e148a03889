CONSTANTS
  Docs = {"a", "b"}
  Scanned = {"a"}
  Movable = {"b"}
  Tabs = {"t"}
  NoTab = NoTab
  NoText = NoText
  MaxEdits = 2
  MaxRequests = 2
  MaxFaults = 1
SPECIFICATION FairSpec
CHECK_DEADLOCK FALSE
INVARIANTS
  SettledIsCommitted
PROPERTIES
  DraftNotLost
  PublishAnswered
