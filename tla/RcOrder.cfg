\* Three scripts, two keywords, four options and tokens of magic comments.
CONSTANTS
  s1 = s1
  s2 = s2
  s3 = s3
  virtual = virtual
  k1 = k1
  k2 = k2
  Scripts <- MCScripts
  Names <- MCNames
  Keywords <- MCKeywords
  Provided <- MCProvided
  Packaged <- MCPackaged
  Budget = 4

SPECIFICATION RcSpec

INVARIANTS
  KeepCountCounts
  PrintedOnce
  DependentsFirst
  PrintsWhatIsWanted

PROPERTIES
  RcEnds

\* it stops once it has printed, or failed
CHECK_DEADLOCK FALSE
