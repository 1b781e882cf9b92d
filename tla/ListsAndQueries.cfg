\* The list: up to four elements; a crash stops the client.  The boot environments: two
\* processes; the latest one is kept.  The query: one option with every argument; or two,
\* and every history of three commands.
CONSTANTS
  c1 = c1
  c2 = c2
  c3 = c3
  c4 = c4
  v1 = v1
  v2 = v2
  v3 = v3
  Null = Null
  Cells <- MCCells
  Data <- MCData
  Key <- MCKey
  p1 = p1
  p2 = p2
  Word = 16
  Pkgs = {p1, p2}
  Commands = {"upgrade"}
  On <- MCUpgrade
  Forced = TRUE
  Setting <- MCKeepOne
  Start = 1
  MaxTime = 3
  MaxChanges = 0
  Faults = FALSE
  IntBits = 20
  Now <- MCNow
  NumberTexts <- MCAllNumberTexts
  DateArguments <- MCAllDateArguments
  Patterns <- MCPatterns
  Stores <- MCStores
  MaxOptions = 2
  MayFail = TRUE

SPECIFICATION AllSpec

CONSTRAINT MCArguments

INVARIANTS
  BothDirections
  RejectsWhatIsSelected
  NumbersAreExact
  DatesAreRead
  GuessTakesTheOnlyReading
  ShowsTheLatest
  LinesUnderTheirCommand

PROPERTIES
  Sorted
  KeepsListPromise
  KeepsTheLatest
  DestroysOnlyItsOwn
