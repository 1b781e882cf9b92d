\* Three scripts, three options and tokens: -o and two requirements.
CONSTANTS
  s1 = s1
  s2 = s2
  s3 = s3
  virtual = virtual
  k1 = k1
  k2 = k2
  Scripts <- MCScripts
  Names <- MCNames
  Keywords <- MCKeywords
  Provided <- MCProvided
  Packaged <- MCPackaged
  Budget = 3

SPECIFICATION RcSpec

INVARIANTS
  RequiredFirst

\* it stops once it has printed, or failed
CHECK_DEADLOCK FALSE
