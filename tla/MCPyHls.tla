------------------------------ MODULE MCPyHls -------------------------------
(***************************************************************************)
(* PyHls for TLC: one key, two handlers, limits of one tick.                *)
(***************************************************************************)
EXTENDS PyHls
=============================================================================
