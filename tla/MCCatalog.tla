------------------------------ MODULE MCCatalog ------------------------------
(* Small instances of Catalog for TLC. *)
EXTENDS Catalog, TLC

CONSTANTS d0, d1, d2, d3

\* A database without a name, two that share theirs, and one with its own.
MixedNames == (d0 :> 0 @@ d1 :> 1 @@ d2 :> 2 @@ d3 :> 2)
=============================================================================
