SPECIFICATION Spec
CONSTANTS
  Half = 4
  OverflowWraps = FALSE
  Buffers = {b1, b2, b3}
  Increases = {1, 2}
  Skips = {0, 1, 3}
SYMMETRY BufferSymmetry
INVARIANTS
  TypeOK
  Ownership
  FirstMeansEmpty
  Sorted
PROPERTIES
  LostOnlyToDuplicate
  SkipPurges
