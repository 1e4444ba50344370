SPECIFICATION FairSpec
CONSTANTS
  None = None
  Ranges <- AllRanges
  Instructions <- Holds
INVARIANTS
  TypeOK
  EvidenceIsInside
  ConventionIsObserved
  SlotsTileTheRun
  EveryReadHasItsSlot
PROPERTY Terminates
CHECK_DEADLOCK FALSE
