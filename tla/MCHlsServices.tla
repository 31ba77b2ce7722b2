--------------------------- MODULE MCHlsServices ----------------------------
(***************************************************************************)
(* HlsServices for TLC: one channel, one request and one process at a time  *)
(* of each service, a restart, limits of no tick.                           *)
(***************************************************************************)
EXTENDS HlsServices
=============================================================================
