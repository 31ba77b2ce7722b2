---------------------------- MODULE MCIptvBridge ----------------------------
(***************************************************************************)
(* IptvBridge for TLC: six lines of three channels, one of them rejected.  *)
(* The first round probes two addresses, the second one that two channels  *)
(* share, the third one that a channel lists twice.                        *)
(***************************************************************************)
EXTENDS IptvBridge, TLC

CONSTANTS c1, c2, c3, k1, k2, k3

Names == <<c1, c2, c1, c3, c2, c1>>
Addresses == <<k1, k2, k2, k3, k2, k1>>

\* None, too few, too few that pass, and enough.
Offers == {{}, {c1}, {c1, c3}, {c1, c2, c3}}

Symmetry == Permutations(Bridges)
=============================================================================
