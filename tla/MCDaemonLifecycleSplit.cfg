CONSTANTS
  Daemons = {d1, d2, d3}
  Cmds = {k}
  Restarts = {}
  Nobody = Nobody
SPECIFICATION Spec
CHECK_DEADLOCK FALSE
INVARIANTS
  OneDaemonServes
