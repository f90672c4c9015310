SPECIFICATION Spec
CONSTANTS
  AddrSpace = 6
  OverflowChecks = TRUE
  Bases <- MCBases
  Sizes <- MCSizes
  RawSizes <- MCZeroSize
  MaxRanges = 3
INVARIANT
  LastAddrSafe
