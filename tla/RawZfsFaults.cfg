\* Every way through the choice of a method, every failure.
CONSTANTS
  Word = 16
  Filesystems <- MCFilesystems
  Layouts <- MCLayouts
  Pool <- MCPool
  Above <- MCAbove
  HaveBE = TRUE
  Setting <- MCKeepTwo
  r1 = r1
  r2 = r2
  r3 = r3
  Rounds <- MCRounds
  MaxSeconds = 2
  Faults = TRUE

SPECIFICATION RawSpec

SYMMETRY AnyRounds

CONSTRAINT FewOrphans

INVARIANTS
  OnlyTheLatestRemain
  LastRoundsStayWhole

PROPERTIES
  KeepsTheLatestOfEach
