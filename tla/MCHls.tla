------------------------------- MODULE MCHls --------------------------------
(***************************************************************************)
(* Hls for TLC: one channel, and limits of the watchdog of no or one tick.  *)
(***************************************************************************)
EXTENDS Hls
=============================================================================
