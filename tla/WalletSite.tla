------------------------------ MODULE WalletSite -----------------------------
(***************************************************************************)
(* Wallet and, side by side with it, WalletPage over a ledger of its own:  *)
(* Wallet's transfers are payments of that ledger (ImplementsLedger), so   *)
(* the page need not wait for their single statements.  An execution takes *)
(* one of the two and leaves the other as it began.                        *)
(***************************************************************************)
EXTENDS Wallet

CONSTANTS
  Reader, PerPage,
  PageKeys          \* bound: the payments while the page is read

ASSUME ReaderAssumption == Reader \in Users /\ PerPage \in Nat

VARIABLES funds, entries, standing, page   \* WalletPage

\* Payments of one point and up, so that sums tell them apart.
Funds == INSTANCE WalletPage WITH
  MinAmount <- 1, Keys <- PageKeys,
  balance <- funds, transfers <- entries, status <- standing

pageVars == <<funds, entries, standing, page>>

SiteInit == Init /\ Funds!Init

SiteNext ==
  \/ Next /\ Funds!Init /\ UNCHANGED pageVars
  \/ Init /\ Funds!Next /\ UNCHANGED vars

SiteSpec == SiteInit /\ [][SiteNext]_<<vars, pageVars>>

FairSiteSpec == SiteSpec /\ Fairness

\* The property of the module that is composed by INSTANCE: see there.
BalanceExplained == Funds!BalanceExplained
=============================================================================
