----------------------------- MODULE MCResolver -----------------------------
(***************************************************************************)
(* A small instance of Resolver for TLC.                                   *)
(***************************************************************************)
EXTENDS Resolver, TLC

CONSTANTS g1, g2, r1, r2

\* Two rooms that share one cache, one flight group and its size limit.
SamePlatform == r1 :> "huya" @@ r2 :> "huya"
=============================================================================
