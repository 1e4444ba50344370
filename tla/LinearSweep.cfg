SPECIFICATION FairSpec
CONSTANTS
  MaxImage = 3
  MaxSeeds = 2
INVARIANTS
  TypeOK
  SweepTiles
  RangeListedOnce
  NoLineTwice
  ExitStatusIsExplained
PROPERTY Terminates
CHECK_DEADLOCK FALSE
