SPECIFICATION MCSpec
CONSTANTS
  Half = 4
  OverflowWraps = TRUE
  Buffers = {b1, b2, b3}
  Increases = {1}
  Skips = {1}
  MaxNumber = 9
  MaxResets = 2
SYMMETRY BufferSymmetry
INVARIANT
  GetFindsWaiting
