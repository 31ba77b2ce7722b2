\* One channel, two requests and a restart at once, under fairness.
CONSTANTS
  Channels = {c1}
  Viewers = {v1, v2}
  Restarters = {r1}
  Procs = {p1, p2}
  None = None
  IDLE = 1
  STALE = 0
  WARMUP = 0
SPECIFICATION FairSpec
INVARIANTS TypeOK SingleWriter NoOrphan OwnFiles JoinerHasStarter
PROPERTIES NoEarlyReap StuckIsReplaced
