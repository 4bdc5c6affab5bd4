------------------------------ MODULE MCChatPage ------------------------------
(* Instances of SitePages for TLC. *)
EXTENDS SitePages, TLC

Symmetry == Permutations(Threads)
=============================================================================
