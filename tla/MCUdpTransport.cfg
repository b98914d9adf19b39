SPECIFICATION FairSpec
CONSTANTS
  MaxLookups = 2
  MaxCopies = 3
INVARIANTS
  ConnectedCanWrite
  NewestCommandLast
PROPERTIES
  WantedWins
