---------------------------- MODULE MCModeration ----------------------------
(* Instances of Moderation for TLC. *)
EXTENDS Moderation, TLC

Symmetry == Permutations(Reporters)
=============================================================================
