\* Two services; children end by any status or signal, and no call fails.
CONSTANTS
  s1 = s1
  s2 = s2
  s3 = s3
  Services <- MCServices
  Pids <- MCPids
  Timeout = 2
  MaxFaults = 0

SPECIFICATION Spec
SYMMETRY Symmetry

INVARIANTS
  SuccessMeansSuccess

\* the handler stops once it has returned
CHECK_DEADLOCK FALSE
