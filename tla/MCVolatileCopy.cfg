SPECIFICATION CopySpec
CONSTANTS
  Word = 8
  SrcAddrs <- MCAddrs
  DstAddrs <- MCAddrs
  Lens <- MCLens
INVARIANTS
  NotTorn
  AlignedAndInside
  CopiesAll
PROPERTY
  Returns
