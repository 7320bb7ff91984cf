SPECIFICATION MCSpec
CONSTANTS
  SnSpace = 3
  Ueids = {1, 2}
  Half = 3
  OverflowWraps = TRUE
  Buffers = {b1, b2, b3}
  Stations <- MCStations
  MaxSends = 2
  MaxMade = 3
  MaxHanded = 0
SYMMETRY BufferSymmetry
INVARIANTS
  TypeOK
  OneDirection
  SpeaksForFirst
PROPERTIES
  AbandonsInTwoPlaces
CHECK_DEADLOCK FALSE
