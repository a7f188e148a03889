CONSTANTS
  Daemons = {d1, d2, d3}
  Cmds = {k, r}
  Restarts = {r}
  Nobody = Nobody
SPECIFICATION Spec
CHECK_DEADLOCK FALSE
SYMMETRY Symmetry
INVARIANTS
  RunFilesTrustworthy
  RestartIsSequential
