CONSTANTS
  daemon = daemon
  cli = cli
  a1 = a1
  a2 = a2
  b1 = b1
  q = q
  r = r
  s = s
  NoReg = NoReg
  Regs = {daemon, cli}
  Mirrored = {daemon}
  Calls = {a1, a2, b1}
  RegOf <- TwoAndOne
  Asked <- SomeOps
  Repos = {q, r, s}
  Stored = {q}
  Movable = {q}
  NameOf <- Names
  RootOf <- SameRoot
SPECIFICATION FairSpec
CHECK_DEADLOCK FALSE
INVARIANTS
  ManifestsWellFormed
  AcknowledgedStays
  OwnWritesAgree
PROPERTIES
  CallsReturn
