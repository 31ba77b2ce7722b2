\* Two goroutines, one of them with a viewer, and two rooms in one cache that
\* sweeps as soon as it holds both.
CONSTANTS
  g1 = g1
  g2 = g2
  r1 = r1
  r2 = r2
  Goroutines = {g1, g2}
  Viewers = {g1}
  Rooms = {r1, r2}
  Platform <- SamePlatform
  HUYA_CACHE_TTL = 1
  DOUYU_CACHE_TTL = 1
  FixedTTL = 3
  FAIL_TTL = 0
  CacheLimit = 1
  MaxTime = 2
SPECIFICATION FairSpec
INVARIANTS OneFetchPerRoom
PROPERTIES NoRollback NoEarlyLoss ImplementsService
