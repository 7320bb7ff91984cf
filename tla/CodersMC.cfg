SPECIFICATION MCSpec
CONSTANTS
  Pairs <- MCPairs
  Lengths <- MCLengths
INVARIANTS
  TypeOK
  SameDuration
  OrderKept
  NoDrift
CHECK_DEADLOCK FALSE
