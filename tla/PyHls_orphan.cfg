\* One key and two requests at once.
CONSTANTS
  Keys = {k1}
  Handlers = {h1, h2}
  Procs = {p1, p2, p3}
  None = None
  HLS_IDLE = 1
  HLS_STALE = 1
  HLS_WARMUP = 1
SPECIFICATION Spec
INVARIANTS EveryFfmpegIsWatched
