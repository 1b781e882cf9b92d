\* One option with every argument: dates with the name or the abbreviation of a month.
CONSTANTS
  IntBits = 20
  Now <- MCNow
  NumberTexts <- MCAllNumberTexts
  DateArguments <- MCAllDateArguments
  Patterns <- MCPatterns
  Stores <- MCStores
  MaxOptions = 2
  MayFail = TRUE

SPECIFICATION QuerySpec

CONSTRAINT MCArguments

INVARIANTS
  AbbreviationsAreRead

\* a command ends
CHECK_DEADLOCK FALSE
