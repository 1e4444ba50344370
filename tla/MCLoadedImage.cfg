SPECIFICATION SpecImage
CONSTANTS
  None = None
  Files <- FilesChecked
  LoadSegments <- Segments
  Maps <- MapsChecked
INVARIANTS
  ImageTypeOK
  OnlyTargetsChange
  FixupsAddUp
  AddressNamesItsByte
  ColumnIsPerBlock
  PointersReadAsListed
  DefaultLoadFindsEntryPoints
CHECK_DEADLOCK FALSE
