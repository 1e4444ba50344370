SPECIFICATION SpecImage
CONSTANTS
  None = None
  Files <- FilesChecked
  LoadSegments <- OtherSegments
  Maps <- MapsChecked
INVARIANT EveryLoadFindsEntryPoints
CHECK_DEADLOCK FALSE
