--------------------------- MODULE MCProductImages --------------------------
(* Instances of SiteFiles for TLC. *)
EXTENDS SiteFiles, TLC

Symmetry == Permutations(Names) \union Permutations(Threads) \union Permutations(Products)
=============================================================================
