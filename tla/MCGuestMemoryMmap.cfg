SPECIFICATION Spec
CONSTANTS
  AddrSpace = 6
  OverflowChecks = TRUE
  Bases <- MCBases
  Sizes <- MCSizes
  RawSizes <- MCRawSizes
  MaxRanges = 3
INVARIANTS
  TypeOK
  SortedDisjoint
  QueriesExact
PROPERTIES
  InsertExact
  RemoveExact
  FromRangesExact
