---------------------------- MODULE MCCatalogueUse ----------------------------
(* Instances of CatalogueUse for TLC. *)
EXTENDS CatalogueUse, TLC

Interchangeable == Permutations(Calls) \cup Permutations(Users)
=============================================================================
