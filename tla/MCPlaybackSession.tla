------------------------- MODULE MCPlaybackSession --------------------------
(***************************************************************************)
(* PlaybackSession for TLC: its configurations give small values to the     *)
(* limits that the code sets at 600 reconnections and 3 failures in a row.  *)
(***************************************************************************)
EXTENDS PlaybackSession
=============================================================================
