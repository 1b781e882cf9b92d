\* Two services are enough: one hanging probe, one slow restart.
CONSTANTS
  s1 = s1
  s2 = s2
  s3 = s3
  Services <- MCServices
  Pids <- MCPids
  Timeout = 2
  MaxFaults = 0

SPECIFICATION Spec
SYMMETRY Symmetry

INVARIANTS
  FullTimeoutBeforeKill

\* the handler stops once it has returned
CHECK_DEADLOCK FALSE
