--------------------------- MODULE MCCatalogSync ----------------------------
(***************************************************************************)
(* CatalogSync for TLC: two rooms, two overlapping runs, two directories,  *)
(* of which one is fetched as far as the site reports.                     *)
(***************************************************************************)
EXTENDS CatalogSync

CONSTANTS general, together

Limits == [d \in Directories |-> IF d = general THEN MaxPages - 1 ELSE 0]
=============================================================================
