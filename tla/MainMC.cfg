SPECIFICATION MCFairSpec
CONSTANTS
  Ports = {1, 2}
  MaxEntries = 3
  MaxFd = 7
INVARIANTS
  TypeOK
  ZeroGivenOnce
  OnePortEach
  DescriptorsOwned
  CutsOffAtBadCodec
PROPERTY
  PortServed
