SPECIFICATION WSpec
CONSTANTS
  AddrSpace = 8
  OverflowChecks = FALSE
  a = a
  b = b
  f = f
  g = g
  x = x
  y = y
  Anon = Anon
  NoFile = NoFile
  Free = Free
  External = External
  Leaked = Leaked
  MM_HIGHEST_VAD_ADDRESS = 3
  INVALID_HANDLE_VALUE = g
  Ids <- MCIds
  PageSize = 2
  NumPages = 4
  ExternalPages <- MCExternal
  Fds <- MCFds
  Files <- MCFiles
  FileLens <- MCFileLens
  Unstatable <- MCUnstatable
  Offsets <- MCOffsets
  Sizes <- MCSizes
  MaxOffsets = 2
SYMMETRY Symmetry
INVARIANTS
  MappingsMatchObjects
  FdNamesItsFile
  UnixFdsOverlapExact

  
  
