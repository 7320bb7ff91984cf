SPECIFICATION FairSpec
CONSTANTS
  Chunk = 3
  Sizes = {0, 1, 2, 3, 5, 7}
  MaxBytes = 16
INVARIANTS
  TypeOK
  ChunksAligned
  NoBacklog
PROPERTIES
  ImplementsStream
  ChunkSent
