CONSTANTS
  Calls = {c1, b}
  Background = {b}
  Closers = {k1, k2}
  Cap = 1
  NoCall = NoCall
SPECIFICATION FairSpec
CHECK_DEADLOCK FALSE
PROPERTIES
  EverySubmitReturns
