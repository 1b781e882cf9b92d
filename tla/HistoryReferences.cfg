\* The id of a line: no call fails but on the lock of another process.
CONSTANTS
  w1 = w1
  w2 = w2
  r1 = r1
  r2 = r2
  Nobody = Nobody
  Writers <- MCWriters
  Readers <- MCReaders
  Procs <- MCProcs
  Root <- MCRoot
  Jobs <- MCJobs
  Faults = FALSE

SPECIFICATION HistorySpec

INVARIANTS
  ReferencesHold

\* it stops once every process is over
CHECK_DEADLOCK FALSE
