\* Two rooms, two checks that may overlap, one request, crashes at any time.
CONSTANTS
  Rooms = {r1, r2}
  Checkers = {h1, h2}
  Requests = {q1}
  ALIVE_MAXAGE = 2
  ALIVE_TRIGGER = 2
  RECENT = 1
SYMMETRY Symmetry
SPECIFICATION Spec
INVARIANTS OneCheck HonestSnapshot OnlyRecentFailuresHidden
PROPERTIES NoSnapshotRegress
