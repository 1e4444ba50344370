SPECIFICATION Spec
CONSTANTS
  None = None
  Ranges <- FramingRanges
  Instructions <- Holds
INVARIANT AllocatedFrameNeedsReset
CHECK_DEADLOCK FALSE
