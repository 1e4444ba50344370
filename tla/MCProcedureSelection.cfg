SPECIFICATION FairSpec
CONSTANTS
  None = None
  Units <- UnitsChecked
  CodeOffsets <- OffsetsChecked
  Instructions <- InstructionsChecked
INVARIANTS
  TypeOK
  SpansOwnTheirBlocks
  RoutineIsItsOwn
  SelectionIsDeclared
PROPERTY Terminates
CHECK_DEADLOCK FALSE
