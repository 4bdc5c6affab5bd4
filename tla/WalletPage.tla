----------------------------- MODULE WalletPage ------------------------------
(***************************************************************************)
(* The first page of a wallet: the balance and the latest transfers, read  *)
(* one after the other, each in a snapshot of its own, while others pay.   *)
(* What the payments do is taken from Ledger, which the transfers of       *)
(* Wallet implement.                                                       *)
(***************************************************************************)
EXTENDS Integers, Sequences, FiniteSets, Functions

CONSTANTS
  Users, Keys, MinAmount, MaxAmount, Opening,
  Reader,     \* whose page it is
  PerPage

VARIABLES
  balance, transfers, status,   \* the ledger
  page

vars == <<balance, transfers, status, page>>

L == INSTANCE Ledger

NoPage == [pc |-> "idle", summary |-> -1, rows |-> {}, total |-> 0]

Init == L!Init /\ page = NoPage

\* Transfers the reader sent or received.  (The page can be narrowed to one
\* direction, which is a selection of the same rows.)
History ==
  {i \in DOMAIN transfers : Reader \in {transfers[i].sender, transfers[i].recipient}}

\* ORDER BY created_at DESC, id DESC LIMIT PerPage.
Newest == {i \in History : Cardinality({j \in History : j > i}) < PerPage}

\* login_required admits no suspended user; it is one more read.
index ==
  /\ page.pc = "idle" /\ status[Reader] = "active"
  /\ page' = [page EXCEPT !.pc = "first"]
  /\ UNCHANGED <<balance, transfers, status>>

\* Without the row the page is a 404.
get_wallet_summary(from, to) ==
  /\ page.pc = from
  /\ page' = IF status[Reader] = "active"
             THEN [page EXCEPT !.pc = to, !.summary = balance[Reader]] ELSE NoPage
  /\ UNCHANGED <<balance, transfers, status>>

\* list_transfer_history: COUNT ...
CountHistory(from, to) ==
  /\ page.pc = from
  /\ page' = [page EXCEPT !.pc = to, !.total = Cardinality(History)]
  /\ UNCHANGED <<balance, transfers, status>>

\* ... and the rows of the first page.
ReadHistory(from, to) ==
  /\ page.pc = from
  /\ page' = [page EXCEPT !.pc = to, !.rows = Newest]
  /\ UNCHANGED <<balance, transfers, status>>

\* Mutant: the history is read before the balance.
Reads_HistoryFirst ==
  \/ CountHistory("first", "second") \/ ReadHistory("second", "third")
  \/ get_wallet_summary("third", "shown")

Reads ==
  \/ get_wallet_summary("first", "second")
  \/ CountHistory("second", "third") \/ ReadHistory("third", "shown")

Leave ==
  /\ page.pc = "shown"
  /\ page' = NoPage
  /\ UNCHANGED <<balance, transfers, status>>

Next ==
  \/ index \/ Reads \/ Leave
  \/ L!Next /\ UNCHANGED page

Spec == Init /\ [][Next]_vars

-----------------------------------------------------------------------------
(* Properties. *)

\* What the rows make of the opening balance.
Net(rows) ==
  Opening[Reader] +
  SumFunctionOnSet([i \in DOMAIN transfers |-> IF transfers[i].recipient = Reader
                      THEN transfers[i].amount ELSE -transfers[i].amount], rows)

\* The balance on the page is explained by the transfers below it: leaving out
\* some of the newest, which came after the balance was read, the history adds
\* up to it.  A user is never shown money that no line accounts for.
BalanceExplained ==
  page.pc = "shown" /\ Cardinality(page.rows) < PerPage =>
    \E last \in page.rows \union {0} :
      page.summary = Net({i \in page.rows : i <= last})
=============================================================================
