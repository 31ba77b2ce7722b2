---------------------------- MODULE MCWhitelist -----------------------------
(***************************************************************************)
(* Whitelist for TLC: two rooms, two checkers that may overlap, and limits  *)
(* of one or two ticks.                                                     *)
(***************************************************************************)
EXTENDS Whitelist, TLC

Symmetry == Permutations(Rooms) \cup Permutations(Checkers)
=============================================================================
