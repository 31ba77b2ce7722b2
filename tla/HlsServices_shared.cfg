\* One channel that both services are asked for.
CONSTANTS
  Channels = {c1}
  Viewers = {v1}
  Restarters = {r1}
  Procs = {p1}
  None = None
  IDLE = 0
  STALE = 0
  WARMUP = 0
  OldHandlers = {h1}
  OldProcs = {q1}
SPECIFICATION ServicesSpec
INVARIANTS OldTypeOK OldNoKeyError
