---------------------------- MODULE ProductLife -----------------------------
(***************************************************************************)
(* What the moderation of listings promises, without requests, locks and   *)
(* transactions: one step per change that anyone can see.  A product that  *)
(* was changed on the strength of a row it no longer had is lost, and a    *)
(* report that was decided twice is disputed: nothing else is promised of  *)
(* those.                                                                  *)
(***************************************************************************)
EXTENDS Integers, FiniteSets

CONSTANTS Products, Reporters, Threshold

VARIABLES
  status,    \* of each product
  last,      \* the status with which it was last on sale
  report,    \* report[p][u]: u's report on p
  lost, disputed

vars == <<status, last, report, lost, disputed>>

OnSale == {"active", "sold"}
Statuses == OnSale \union {"hidden", "deleted"}

Init ==
  /\ status = [p \in Products |-> "active"]
  /\ last = [p \in Products |-> "active"]
  /\ report = [p \in Products |-> [u \in Reporters |-> "none"]]
  /\ lost = {} /\ disputed = {}

Becomes(p, new) ==
  /\ status' = [status EXCEPT ![p] = new]
  /\ last' = [last EXCEPT ![p] = IF new \in OnSale THEN new ELSE @]

Sell(p) ==
  /\ status[p] \in OnSale
  /\ \E new \in OnSale : Becomes(p, new)
  /\ UNCHANGED <<report, lost, disputed>>

Hide(p) ==
  /\ status[p] \in OnSale
  /\ Becomes(p, "hidden")
  /\ UNCHANGED <<report, lost, disputed>>

Restore(p) ==
  /\ status[p] = "hidden"
  /\ Becomes(p, last[p])
  /\ UNCHANGED <<report, lost, disputed>>

Delete(p) ==
  /\ Becomes(p, "deleted")
  /\ UNCHANGED <<report, lost, disputed>>

\* Anything may become of a lost product.
Lose(p) ==
  /\ \E new \in Statuses : Becomes(p, new)
  /\ lost' = lost \union {p}
  /\ UNCHANGED <<report, disputed>>

Standing(reports, p) ==
  {u \in Reporters : reports[p][u] \in {"pending", "confirmed"}}

\* A user's only report on p, which hides p if it is one too many.
Report(p, u) ==
  /\ report[p][u] = "none"
  /\ report' = [report EXCEPT ![p][u] = "pending"]
  /\ IF Cardinality(Standing(report', p)) >= Threshold
     THEN /\ Becomes(p, "hidden")
          /\ \/ status[p] # "deleted" /\ UNCHANGED lost
             \/ lost' = lost \union {p}
     ELSE UNCHANGED <<status, last, lost>>
  /\ UNCHANGED disputed

\* Once for each report.
Decide(p, u) ==
  /\ \E decision \in {"confirmed", "rejected"} :
       report' = [report EXCEPT ![p][u] = decision]
  /\ \/ report[p][u] = "pending" /\ UNCHANGED disputed
     \/ report[p][u] # "none" /\ disputed' = disputed \union {<<p, u>>}
  /\ UNCHANGED <<status, last, lost>>

Next ==
  \E p \in Products :
    \/ Sell(p) \/ Hide(p) \/ Restore(p) \/ Delete(p) \/ Lose(p)
    \/ \E u \in Reporters : Report(p, u) \/ Decide(p, u)

Spec == Init /\ [][Next]_vars
=============================================================================
