SPECIFICATION Spec
CONSTANTS
  AddrSpace = 16
  OverflowChecks = FALSE
  Base = 6
  Size = 7
  ElemSizes = {1, 2, 4}
  Nums <- MCNums
INVARIANTS
  TypeOK
  InsideBuffer
  AccessInside
PROPERTIES
  
  AccessExact
