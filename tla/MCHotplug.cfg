SPECIFICATION HFairSpec
CONSTANTS
  Threads = {t1, t2}
  Objs = {o1, o2, o3}
  Guards = {g1, g2}
  Regions = {r1, r2}
  MapVals <- Maps
  InitMap <- MCInitMap
  Updates <- HotplugUpdates
  NoThread = NoThread
  NoObj = NoObj
  NoGuard = NoGuard
  NoVal = NoVal
INVARIANTS
  TypeOK
  StrongExact
  MutualExclusion
  BaseIsCurrent
  MappedWhileReachable
PROPERTIES
  Snapshots
  LockProgress
