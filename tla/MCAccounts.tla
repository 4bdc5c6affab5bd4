----------------------------- MODULE MCAccounts -----------------------------
(* Instances of Accounts for TLC: the runs that end in a counterexample. *)
EXTENDS Accounts, TLC
=============================================================================
