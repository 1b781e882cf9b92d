\* Two commands and two readers, every failure and crash.
CONSTANTS
  w1 = w1
  w2 = w2
  r1 = r1
  r2 = r2
  Nobody = Nobody
  Writers <- MCWriters
  Readers <- MCReaders
  Procs <- MCProcs
  Root <- MCRoot
  Jobs <- MCJobs
  Faults = TRUE

SPECIFICATION HistorySpec

INVARIANTS
  WholeOrAbsent
  ReturnsWhatItRecorded
  RecordedWhenAlone

PROPERTIES
  HookEnds

\* it stops once every process is over
CHECK_DEADLOCK FALSE
