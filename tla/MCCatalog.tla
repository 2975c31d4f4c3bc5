----------------------------- MODULE MCCatalog ------------------------------
(* One product, and two requests at a time. *)
EXTENDS Catalog, TLC

CONSTANTS p1, c1, c2

=============================================================================
