---------------------------- MODULE MCFlvResume -----------------------------
(***************************************************************************)
(* FlvResume for TLC: a range of timestamps small enough to reach its end,  *)
(* and CDN timestamps below, around and beyond the 60 ms of the resumption. *)
(***************************************************************************)
EXTENDS FlvResume

SparseTS == {0, 1, 40, 61, 150, 398, 399}

\* Sound 110 ms ahead of the picture, far from the end of the range.
AheadTS == {0, 40, 150}
=============================================================================
