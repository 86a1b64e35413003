------------------------- MODULE MCResourceCatalog -------------------------
(* ResourceCatalog with interchangeable editors. *)
EXTENDS ResourceCatalog, TLC

Symmetry == Permutations(Editor)
============================================================================
