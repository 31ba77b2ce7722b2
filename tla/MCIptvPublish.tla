--------------------------- MODULE MCIptvPublish ----------------------------
(***************************************************************************)
(* IptvPublish for TLC: three channels, one of them on the blocklist.      *)
(***************************************************************************)
EXTENDS IptvPublish, TLC

AllLists == SUBSET Channels

Symmetry ==
  Permutations(Bridges) \cup Permutations(Copies) \cup Permutations(Channels \ Rejected)
=============================================================================
