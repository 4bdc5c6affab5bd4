------------------------------- MODULE Ledger -------------------------------
(***************************************************************************)
(* What the wallet promises, with nothing of how it is done: a transfer is *)
(* one indivisible step that moves an amount between two distinct active   *)
(* users, never overdraws the sender, and spends its idempotency key.      *)
(***************************************************************************)
EXTENDS Integers, Sequences

CONSTANTS Users, Keys, MinAmount, MaxAmount, Opening

VARIABLES balance, transfers, status

Amounts == MinAmount .. MaxAmount

Row(s, r, a, k) == [sender |-> s, recipient |-> r, amount |-> a, key |-> k]

Spent(k) == \E i \in DOMAIN transfers : transfers[i].key = k

Init ==
  /\ balance = Opening
  /\ transfers = << >>
  /\ status = [u \in Users |-> "active"]

Pay(s, r, a, k) ==
  /\ s # r
  /\ status[s] = "active" /\ status[r] = "active"
  /\ balance[s] >= a
  /\ ~Spent(k)
  /\ balance' = [balance EXCEPT ![s] = @ - a, ![r] = @ + a]
  /\ transfers' = Append(transfers, Row(s, r, a, k))
  /\ UNCHANGED status

SetStatus(u, new) ==
  /\ status' = [status EXCEPT ![u] = new]
  /\ UNCHANGED <<balance, transfers>>

Next ==
  \/ \E u \in Users, new \in {"active", "dormant"} : SetStatus(u, new)
  \/ \E s, r \in Users, a \in Amounts, k \in Keys : Pay(s, r, a, k)

Spec == Init /\ [][Next]_<<balance, transfers, status>>
=============================================================================
