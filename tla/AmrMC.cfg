SPECIFICATION MCSpec
CONSTANTS
  Pairs <- MCPairs
  Lengths <- MCLengths
INVARIANT
  AmrRoundTrip
CHECK_DEADLOCK FALSE
