-------------------------- MODULE MCAccountTables ---------------------------
(* Instances of AccountTables for TLC. *)
EXTENDS AccountTables, TLC
=============================================================================
