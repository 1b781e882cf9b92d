\* One process, every failure, commands that change packages, a period.
CONSTANTS
  p1 = p1
  p2 = p2
  Word = 16
  Pkgs = {p1}
  Commands = {"upgrade", "install"}
  On <- MCUpgrade
  Forced = FALSE
  Setting <- MCOneDay
  Start = 2
  MaxTime = 4
  MaxChanges = 2
  Faults = TRUE

SPECIFICATION Spec

INVARIANTS
  RollbackUndoesTheCommand

PROPERTIES
  CommandsEnd
  DestroysOnlyTheOld
