SPECIFICATION FairSpec
CONSTANTS
  r1 = r1
  r2 = r2
  f1 = f1
  f2 = f2
  None = None
  Families = {f1, f2}
  Requests = {r1, r2}
  MaxActive = 1
CHECK_DEADLOCK FALSE
INVARIANTS
  TypeOK
  CapacityKept
  NoStreamLeft
  CacheFollowsStream
  OverIsOver
PROPERTIES
  EverythingEnds
