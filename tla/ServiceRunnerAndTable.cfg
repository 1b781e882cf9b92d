\* The handler: two services, up to two failed calls, two ticks before the deadline.
\* The table: five keys, two of which have the same hash; two resizes.
CONSTANTS
  s1 = s1
  s2 = s2
  s3 = s3
  Services <- MCServices
  Pids <- MCPids
  Timeout = 2
  MaxFaults = 2
  a = a
  b = b
  c = c
  d = d
  e = e
  x = x
  y = y
  Null = Null
  Keys <- MCKeys
  Hash <- MCHash
  Values <- MCValues
  MinSize = 2

SPECIFICATION BothSpec

INVARIANTS
  OneOutcome
  ActsOnlyOnEnabled
  OutcomeJustified
  CounterCoveredByTable
  CutShortOnlyAfterHang
  NoChildLeftBehind
  InBothLists

PROPERTIES
  Termination
  KeepsPromise
  KeepsMapPromise

\* the handler stops once it has returned
CHECK_DEADLOCK FALSE
