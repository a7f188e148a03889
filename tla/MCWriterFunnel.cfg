CONSTANTS
  Calls = {c1, c2, b}
  Background = {b}
  Closers = {k1, k2}
  Cap = 1
  NoCall = NoCall
SPECIFICATION FairSpec
CHECK_DEADLOCK FALSE
INVARIANTS
  TypeOK
  TruthfulReturn
  AtMostOnce
  CloseIsQuiescent
PROPERTIES
  NoLateCommit
  WriteLogSpec
  EveryoneIsServed
