\* Two requests for a logo, one for a room and one platform that is prewarmed by
\* two workers with two rooms; the five minutes are one step of the clock.
CONSTANTS
  Handlers = {h1, h2}
  Logos = {l1}
  Askers = {a1}
  Pages <- SmallPages
  Kinds = {"real", "number", "name"}
  HUYA_MAX_RATIO = 2
  Platforms = {huya}
  Catalogs <- TwoLists
  Resolvers = {w1, w2}
  PREWARM_PER_GROUP = 1
  PREWARM_MAX_CHANNELS = 2
  NoRid = 0
  Gap = 1
SPECIFICATION AioSpec
INVARIANTS NoSecondDownload SentWhole LiveRoomFound BestStream
PROPERTIES OnePassAtATime PassEnds
