SPECIFICATION Spec
CONSTANTS
  None = None
  Ranges <- AccessRanges
  Instructions <- Holds
INVARIANT UnreadIsPopped
CHECK_DEADLOCK FALSE
