SPECIFICATION Spec
CONSTANTS
  AddrSpace = 64
  OverflowChecks = TRUE
  Bits = 6
  ByteSpace = 4
  ValueSize = 3
INVARIANTS
  AlignUpExact
  
  EndianExact
