SPECIFICATION Spec
CONSTANTS
  AddrSpace = 16
  OverflowChecks = TRUE
  t1 = t1
  t2 = t2
  Threads = {t1, t2}
  ALG = 4
  Map <- MCMap
  Requests <- MCAligned
  OwnerWrites <- MCOwnerApart
  HostSize = 12
  Vals = {0, 1}
INVARIANT
  AlignedAccessWorks
