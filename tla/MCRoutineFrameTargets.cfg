SPECIFICATION Spec
CONSTANTS
  None = None
  Ranges <- FramingRanges
  Instructions <- Holds
INVARIANT NearTargetsAreLinear
CHECK_DEADLOCK FALSE
