SPECIFICATION FairSpec
CONSTANTS
  AddrSpace = 12
  OverflowChecks = TRUE
  Layouts <- MCLayouts
  HostSize = 12
  PageSize = 2
  Kinds <- MCKinds
  Addrs <- MCAddrs
  Counts <- MCCounts
  MAX_ACCESS_CHUNK = 2
  SrcLen = 5
  SliceKinds <- MCStreamKinds
  MaxInterrupts = 1
  MaxUnmaps = 1
INVARIANTS
  WrittenInPlace
  NoStrayWrite
  ReadInPlace
  ShortForAReason
  CheckRangeExact
  
PROPERTY
  Terminates
