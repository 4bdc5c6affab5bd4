------------------------------ MODULE MCWallet ------------------------------
(* Instances of WalletSite for TLC. *)
EXTENDS WalletSite, TLC

CONSTANTS a, b    \* the users

\* a can afford two payments of 2, so paying twice for the same thing shows;
\* b can afford one of them, so that two at once compete for the balance.
Uneven == (a :> 4) @@ (b :> 3)
Even == (a :> 3) @@ (b :> 3)

Symmetry == Permutations(Requests)
=============================================================================
