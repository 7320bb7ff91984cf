SPECIFICATION MCSpec
CONSTANTS
  Half = 4
  OverflowWraps = TRUE
  Buffers = {b1, b2, b3}
  Increases = {1}
  Skips = {1, 2}
  MaxNumber = 10
  MaxResets = 2
SYMMETRY BufferSymmetry
INVARIANTS
  AnswersTruly
PROPERTIES
  ImplementsIdeal
  HandedInOrder
