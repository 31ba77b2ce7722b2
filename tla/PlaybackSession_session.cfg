\* One session of up to four connections; the handler stops at its end.
CONSTANTS
  CacheTTL = 2
  TTL = 1
  MaxReconn = 3
  MaxConsecFail = 2
  MaxTime = 4
CHECK_DEADLOCK FALSE
SPECIFICATION FairSpec
INVARIANTS TypeOK OneResponse GivesUp ConsumedOnce
PROPERTIES ConnectsInTime LeavingEndsAll
