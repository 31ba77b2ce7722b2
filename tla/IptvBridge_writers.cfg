\* Two runs of the bridge beside a NAS script, which takes no lock; at most two
\* good lines for a channel, two threads to probe with.
CONSTANTS
  Bridges = {b1, b2}
  Copies = {n1}
  c1 = c1
  c2 = c2
  c3 = c3
  k1 = k1
  k2 = k2
  k3 = k3
  Channels = {c1, c2, c3}
  Rejected = {c3}
  Results <- Offers
  MinChannels = 2
  NoOne = NoOne
  NoFile = NoFile
  Size = 6
  Keys = {k1, k2, k3}
  Channel <- Names
  Key <- Addresses
  Limit = 2
  Workers = 2
SYMMETRY Symmetry
SPECIFICATION BridgeSpec
INVARIANTS ShareOrExhausted PublishedPassed
PROPERTIES EnoughByBridge NothingRejectedByBridge NoOldList
