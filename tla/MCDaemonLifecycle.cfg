CONSTANTS
  Daemons = {d1, d2, d3}
  Cmds = {r}
  Restarts = {r}
  Nobody = Nobody
SPECIFICATION FairSpec
CHECK_DEADLOCK FALSE
INVARIANTS
  RunFilesTrustworthy
  RestartIsSequential
PROPERTIES
  StopsEnd
