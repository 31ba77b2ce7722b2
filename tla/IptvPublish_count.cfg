\* The list of the NAS has no EXTINF line.
CONSTANTS
  Bridges = {b1, b2}
  Copies = {n1}
  Channels = {c1, c2, c3}
  Rejected = {c3}
  Results <- AllLists
  MinChannels = 2
  NoOne = NoOne
  NoFile = NoFile
SYMMETRY Symmetry
SPECIFICATION Spec
INVARIANTS EnoughPublished
