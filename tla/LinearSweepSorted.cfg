SPECIFICATION Spec
CONSTANTS
  MaxImage = 3
  MaxSeeds = 2
INVARIANT ListingIsSorted
CHECK_DEADLOCK FALSE
