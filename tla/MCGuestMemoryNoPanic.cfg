SPECIFICATION Spec
CONSTANTS
  AddrSpace = 12
  OverflowChecks = TRUE
  Layouts <- MCLayouts
  HostSize = 12
  PageSize = 2
  Kinds <- MCReadFrom
  Addrs <- MCAddrs
  Counts <- MCCounts
  MAX_ACCESS_CHUNK = 2
  SrcLen = 5
  SliceKinds = {}
  MaxInterrupts = 1
  MaxUnmaps = 1
INVARIANT
  ErrorNotPanic
