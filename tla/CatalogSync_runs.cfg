\* Two runs at once, pages that fail or come late, alarms and crashes.
CONSTANTS
  Syncs = {s1, s2}
  Rooms = {r1, r2}
  general = general
  together = together
  Directories = {general, together}
  PageLimit <- Limits
  MaxPages = 5
  DouyuPages = 2
  MinHuya = 2
  MinDouyu = 2
  NoOne = NoOne
  NoFile = NoFile
SPECIFICATION FairSpec
INVARIANTS LastGood
PROPERTIES NoOldResult LockFreed
