----------------------------- MODULE MCCatalog -----------------------------
(***************************************************************************)
(* Values of the constants of Catalog for model checking.                  *)
(***************************************************************************)
EXTENDS Catalog, TLC

CONSTANTS s1, c1

MCIds == 1 .. 3

=============================================================================
