-------------------------- MODULE ModerationProofs ---------------------------
(***************************************************************************)
(* Theorems about Moderation for any products, reporters, threads and      *)
(* threshold.                                                              *)
(***************************************************************************)
EXTENDS Moderation, TLAPS

Change == [op : {"owner", "delete", "hide", "restore"}, pc : {"loaded"},
           product : Products, seen : ProductRow, new : ProductRow]

Decision == [op : {"decide"}, pc : {"decided"}, product : Products,
             reporter : Reporters, decision : Decisions]

Reporting == [op : {"report"}, pc : {"checked", "inserted", "counted", "restricting"},
              product : Products, reporter : Reporters, seen : ProductRow]

TypeInv ==
  /\ product \in [Products -> ProductRow]
  /\ report \in [Products -> [Reporters -> Effective \union Decisions \union {"none"}]]
  /\ thread \in [Threads -> {Resting} \union Change \union Decision \union Reporting]
  /\ sale \in [Products -> OnSale]

LEMMA WrittenRow ==
  ASSUME NEW p \in Products, product \in [Products -> ProductRow],
         NEW seen \in ProductRow, NEW new \in ProductRow
  PROVE  /\ Written(p, seen, new) \in ProductRow
         /\ Written(p, seen, new).status =
              IF new.status # seen.status THEN new.status ELSE product[p].status
         /\ Written(p, seen, new).previous =
              IF new.previous # seen.previous THEN new.previous ELSE product[p].previous
BY DEF Written, ProductRow, OnSale

LEMMA RestingFacts == Resting.pc = "idle" /\ Resting.op = "none"
BY DEF Resting

\* The row a report that is inserted will be counted with.
Reported(t) ==
  [report EXCEPT ![thread[t].product][thread[t].reporter] = "pending"]

Enough(t) == EffectiveCount(Reported(t), thread[t].product) >= Threshold

\* What a handler makes of the row it has loaded.
ChangeOf(t) ==
  thread[t].pc = "loaded" =>
    /\ thread[t].seen.status = "deleted" => thread[t].new = thread[t].seen
    /\ thread[t].seen.status = "hidden" /\ thread[t].new.status \in OnSale =>
         /\ thread[t].op = "restore"
         /\ thread[t].seen.previous \in OnSale =>
              thread[t].new.status = thread[t].seen.previous
    /\ thread[t].new.status = "hidden" =>
         \/ thread[t].new = thread[t].seen
         \/ /\ thread[t].seen.status \in OnSale
            /\ thread[t].new.previous = thread[t].seen.status

\* A report holds the write lock while it counts, so its count is still right
\* when it commits, and it is the user's only one.
ReportOf(t) ==
  /\ thread[t].op = "report" => thread[t].seen.status \in OnSale
  /\ thread[t].pc \in {"inserted", "counted", "restricting"} =>
       lock = t /\ report[thread[t].product][thread[t].reporter] = "none"
  /\ thread[t].pc = "counted" => ~Enough(t)
  /\ thread[t].pc = "restricting" => Enough(t)

DecisionOf(t) ==
  thread[t].pc = "decided" => report[thread[t].product][thread[t].reporter] # "none"

\* The history follows the rows.
SaleInv == \A p \in Products : product[p].status \in OnSale => sale[p] = product[p].status

IInv ==
  /\ TypeInv /\ SaleInv /\ HiddenRemembersStatus
  /\ \A t \in Threads : ChangeOf(t) /\ ReportOf(t) /\ DecisionOf(t)

-----------------------------------------------------------------------------
\* A step that leaves the rows alone keeps what is said of them; of the threads it
\* is enough to look at the one that moves.
LEMMA ThreadMoves ==
  ASSUME IInv, NEW t \in Threads, UNCHANGED <<product, report, sale, stale>>,
         TypeInv', \A s \in Threads \ {t} : thread'[s] = thread[s],
         \A s \in Threads \ {t} : lock = s => lock' = s,
         ChangeOf(t)', ReportOf(t)', DecisionOf(t)'
  PROVE  IInv'
<1>1. SaleInv' /\ HiddenRemembersStatus'
  BY DEF IInv, SaleInv, HiddenRemembersStatus
<1>2. ASSUME NEW s \in Threads \ {t} PROVE ChangeOf(s)' /\ DecisionOf(s)'
  BY DEF IInv, ChangeOf, DecisionOf
<1>3. ASSUME NEW s \in Threads \ {t} PROVE ReportOf(s)'
  BY DEF IInv, ReportOf, Enough, Reported, EffectiveCount
<1> QED BY <1>1, <1>2, <1>3 DEF IInv

LEMMA LoadedSafe ==
  ASSUME IInv, NEW t \in Threads, NEW p \in Products,
         NEW op \in {"owner", "delete", "hide", "restore"}, NEW new \in ProductRow,
         Loaded(t, op, p, new),
         product[p].status = "deleted" => new = product[p],
         product[p].status = "hidden" /\ new.status \in OnSale =>
           /\ op = "restore"
           /\ product[p].previous \in OnSale => new.status = product[p].previous,
         new.status = "hidden" =>
           new = product[p] \/ (product[p].status \in OnSale /\ new.previous = product[p].status)
  PROVE  IInv'
<1>1. product[p] \in ProductRow
  BY DEF IInv, TypeInv
<1>2. /\ UNCHANGED <<product, report, lock, sale, stale>>
      /\ \A s \in Threads \ {t} : thread'[s] = thread[s]
      /\ thread'[t].pc = "loaded" /\ thread'[t].op = op
      /\ thread'[t].seen = product[p] /\ thread'[t].new = new
  BY DEF IInv, TypeInv, Loaded
<1>3. TypeInv'
  BY <1>1 DEF IInv, TypeInv, Loaded, Change
<1>4. ChangeOf(t)' /\ ReportOf(t)' /\ DecisionOf(t)'
  BY <1>2 DEF ChangeOf, ReportOf, DecisionOf
<1> QED BY <1>2, <1>3, <1>4, ThreadMoves

LEMMA RowFacts ==
  ASSUME NEW row \in ProductRow
  PROVE  /\ row = [status |-> row.status, previous |-> row.previous]
         /\ row.status \in OnSale \union {"hidden", "deleted"}
         /\ row.previous \in OnSale \union {"none"}
BY DEF ProductRow

LEMMA OwnersAndAdministratorsSafe ==
  ASSUME IInv, NEW t \in Threads, NEW p \in Products,
         \/ \E requested \in OnSale : change_product_status(t, p, requested)
         \/ soft_delete_product(t, p)
         \/ admin_hide(t, p) \/ admin_restore(t, p) \/ admin_delete(t, p)
  PROVE  IInv'
<1> DEFINE row == product[p]
<1>1. row \in ProductRow
  BY DEF IInv, TypeInv
<1>2. ASSUME NEW requested \in OnSale, change_product_status(t, p, requested) PROVE IInv'
  <2> DEFINE new == [row EXCEPT !.status = requested]
  <2>1. new \in ProductRow /\ new.status = requested
    BY <1>1 DEF ProductRow
  <2>2. Loaded(t, "owner", p, new) /\ row.status \in OnSale
    BY <1>2 DEF change_product_status, Editable
  <2> HIDE DEF new
  <2> QED BY <2>1, <2>2, LoadedSafe DEF OnSale
<1>3. ASSUME soft_delete_product(t, p) PROVE IInv'
  <2> DEFINE new == [row EXCEPT !.status = "deleted"]
  <2>1. new \in ProductRow /\ new.status = "deleted"
    BY <1>1 DEF ProductRow
  <2>2. Loaded(t, "delete", p, new) /\ row.status # "deleted"
    BY <1>3 DEF soft_delete_product
  <2> HIDE DEF new
  <2> QED BY <2>1, <2>2, LoadedSafe DEF OnSale
<1>4. ASSUME admin_hide(t, p) PROVE IInv'
  <2>1. HiddenRow(row) \in ProductRow /\ HiddenRow(row).status = "hidden"
    BY <1>1, <1>4 DEF HiddenRow, ProductRow, admin_hide
  <2>2. HiddenRow(row) = row \/ (row.status \in OnSale /\ HiddenRow(row).previous = row.status)
    BY <1>1, <1>4, RowFacts DEF HiddenRow, admin_hide
  <2>3. Loaded(t, "hide", p, HiddenRow(row)) /\ row.status # "deleted"
    BY <1>4 DEF admin_hide
  <2> QED BY <2>1, <2>2, <2>3, LoadedSafe DEF OnSale
<1>5. ASSUME admin_restore(t, p) PROVE IInv'
  <2>1. /\ RestoredRow(row) \in ProductRow /\ RestoredRow(row).status \in OnSale
        /\ row.previous \in OnSale => RestoredRow(row).status = row.previous
    BY <1>1 DEF RestoredRow, ProductRow, OnSale
  <2>2. Loaded(t, "restore", p, RestoredRow(row)) /\ row.status = "hidden"
    BY <1>5 DEF admin_restore
  <2> QED BY <2>1, <2>2, LoadedSafe DEF OnSale
<1>6. ASSUME admin_delete(t, p) PROVE IInv'
  <2>1. /\ DeletedRow(row) \in ProductRow /\ DeletedRow(row).status = "deleted"
        /\ row.status = "deleted" => DeletedRow(row) = row
    BY <1>1 DEF DeletedRow, ProductRow, OnSale
  <2>2. Loaded(t, "delete", p, DeletedRow(row))
    BY <1>6 DEF admin_delete
  <2> QED BY <2>1, <2>2, LoadedSafe DEF OnSale
<1> QED BY <1>2, <1>3, <1>4, <1>5, <1>6

-----------------------------------------------------------------------------
\* A commit over the row that was loaded, or one that changes nothing.
LEMMA WriteFacts ==
  ASSUME IInv, NEW p \in Products, NEW seen \in ProductRow, NEW new \in ProductRow,
         Write(p, seen, new)
  PROVE  /\ product' \in [Products -> ProductRow] /\ sale' \in [Products -> OnSale]
         /\ product'[p] = Written(p, seen, new)
         /\ \A q \in Products \ {p} : product'[q] = product[q] /\ sale'[q] = sale[q]
         /\ sale'[p] = IF product'[p].status \in OnSale THEN product'[p].status ELSE sale[p]
         /\ stale \subseteq stale'
         /\ p \notin stale' => product'[p] = product[p] \/ (seen = product[p] /\ product'[p] = new)
<1> DEFINE row == Written(p, seen, new)
<1>1. product \in [Products -> ProductRow] /\ sale \in [Products -> OnSale]
  BY DEF IInv, TypeInv
<1>2. row \in ProductRow
  BY <1>1, WrittenRow
<1>3. /\ product' = [product EXCEPT ![p] = row]
      /\ sale' = [sale EXCEPT ![p] = IF row.status \in OnSale THEN row.status ELSE @]
      /\ stale' = IF seen # product[p] /\ row # product[p] THEN stale \union {p} ELSE stale
  BY DEF Write
<1>4. seen = product[p] => row = new
  <2>1. seen = product[p] => row.status = new.status /\ row.previous = new.previous
    BY <1>1, WrittenRow
  <2> QED BY <1>2, <2>1, RowFacts
<1> HIDE DEF row
<1>5. product'[p] = row /\ \A q \in Products \ {p} : product'[q] = product[q] /\ sale'[q] = sale[q]
  BY <1>1, <1>3
<1>6. sale'[p] = IF row.status \in OnSale THEN row.status ELSE sale[p]
  BY <1>1, <1>3
<1>7. product' \in [Products -> ProductRow] /\ sale' \in [Products -> OnSale]
  BY <1>1, <1>2, <1>3
<1>8. stale \subseteq stale' /\ (p \notin stale' => seen = product[p] \/ row = product[p])
  BY <1>3
<1> QED BY <1>4, <1>5, <1>6, <1>7, <1>8 DEF row

LEMMA WriteSafe ==
  ASSUME IInv, NEW p \in Products, NEW seen \in ProductRow, NEW new \in ProductRow,
         Write(p, seen, new),
         new.status = "hidden" =>
           new = seen \/ (seen.status \in OnSale /\ new.previous = seen.status)
  PROVE  SaleInv' /\ HiddenRemembersStatus'
<1>1. SaleInv'
  BY WriteFacts DEF IInv, SaleInv
<1>2. ASSUME NEW q \in Products \ stale', product'[q].status = "hidden"
      PROVE  product'[q].previous = sale'[q]
  <2>1. q \notin stale
    BY WriteFacts
  <2>2. CASE q # p
    BY <1>2, <2>1, <2>2, WriteFacts DEF IInv, HiddenRemembersStatus
  <2>3. CASE q = p
    <3>1. sale'[p] = sale[p]
      BY <1>2, <2>3, WriteFacts DEF OnSale
    <3>2. CASE product'[p] = product[p]
      BY <1>2, <2>1, <2>3, <3>1, <3>2 DEF IInv, HiddenRemembersStatus
    <3>3. CASE seen = product[p] /\ product'[p] = new /\ product'[p] # product[p]
      BY <1>2, <2>3, <3>1, <3>3 DEF IInv, SaleInv
    <3> QED BY <1>2, <2>3, <3>2, <3>3, WriteFacts
  <2> QED BY <2>2, <2>3
<1> QED BY <1>1, <1>2 DEF HiddenRemembersStatus

LEMMA FinishFacts ==
  ASSUME IInv, NEW t \in Threads, Finish(t)
  PROVE  /\ thread' \in [Threads -> {Resting} \union Change \union Decision \union Reporting]
         /\ \A s \in Threads \ {t} : thread'[s] = thread[s]
         /\ thread'[t].pc = "idle" /\ thread'[t].op = "none"
BY RestingFacts DEF IInv, TypeInv, Finish

LEMMA ProductCommitSafe ==
  ASSUME IInv, NEW t \in Threads, ProductCommit(t)
  PROVE  IInv'
<1> DEFINE p == thread[t].product
           seen == thread[t].seen
           new == thread[t].new
<1>1. thread[t].pc = "loaded" /\ p \in Products /\ seen \in ProductRow /\ new \in ProductRow
  BY RestingFacts DEF IInv, TypeInv, ProductCommit, At, Change, Decision, Reporting
<1>2. Write(p, seen, new) /\ Finish(t) /\ UNCHANGED <<report, lock>>
  BY DEF ProductCommit
<1>3. new.status = "hidden" =>
        new = seen \/ (seen.status \in OnSale /\ new.previous = seen.status)
  BY <1>1 DEF IInv, ChangeOf
<1> HIDE DEF p, seen, new
<1>4. SaleInv' /\ HiddenRemembersStatus'
  BY <1>1, <1>2, <1>3, WriteSafe
<1>5. TypeInv'
  BY <1>1, <1>2, WriteFacts, FinishFacts DEF IInv, TypeInv
<1>6. ASSUME NEW s \in Threads PROVE ChangeOf(s)' /\ DecisionOf(s)'
  BY <1>2, FinishFacts DEF IInv, ChangeOf, DecisionOf
<1>7. ASSUME NEW s \in Threads PROVE ReportOf(s)'
  BY <1>2, FinishFacts DEF IInv, ReportOf, Enough, Reported, EffectiveCount
<1> QED BY <1>4, <1>5, <1>6, <1>7 DEF IInv

LEMMA DecideSafe ==
  ASSUME IInv, NEW t \in Threads,
         \/ DecideCommit(t)
         \/ \E p \in Products, u \in Reporters, d \in Decisions : DecideLoad(t, p, u, d)
  PROVE  IInv'
<1>1. ASSUME NEW p \in Products, NEW u \in Reporters, NEW d \in Decisions, DecideLoad(t, p, u, d)
      PROVE  IInv'
  <2>1. /\ UNCHANGED <<product, report, lock, sale, stale>>
        /\ \A s \in Threads \ {t} : thread'[s] = thread[s]
        /\ thread'[t].pc = "decided" /\ thread'[t].op = "decide"
        /\ thread'[t].product = p /\ thread'[t].reporter = u
    BY <1>1 DEF IInv, TypeInv, DecideLoad
  <2>2. TypeInv'
    BY <1>1 DEF IInv, TypeInv, DecideLoad, Decision
  <2>3. report[p][u] # "none"
    BY <1>1 DEF DecideLoad, Undecided
  <2>4. ChangeOf(t)' /\ ReportOf(t)' /\ DecisionOf(t)'
    BY <2>1, <2>3 DEF ChangeOf, ReportOf, DecisionOf
  <2> QED BY <2>1, <2>2, <2>4, ThreadMoves
<1>2. ASSUME DecideCommit(t) PROVE IInv'
  <2> DEFINE p == thread[t].product
             u == thread[t].reporter
             d == thread[t].decision
  <2>1. p \in Products /\ u \in Reporters /\ d \in Decisions /\ thread[t].pc = "decided"
    BY <1>2, RestingFacts DEF IInv, TypeInv, DecideCommit, At, Change, Decision, Reporting
  <2>2. /\ report' = [report EXCEPT ![p][u] = d] /\ Finish(t) /\ LockFree
        /\ UNCHANGED <<product, lock, sale, stale>>
    BY <1>2 DEF DecideCommit
  <2>3. report' \in [Products -> [Reporters -> Effective \union Decisions \union {"none"}]]
    BY <2>1, <2>2 DEF IInv, TypeInv
  <2>4. TypeInv' /\ SaleInv' /\ HiddenRemembersStatus'
    BY <2>2, <2>3, FinishFacts DEF IInv, TypeInv, SaleInv, HiddenRemembersStatus
  <2>5. ASSUME NEW q \in Products, NEW v \in Reporters, report[q][v] # "none"
        PROVE  report'[q][v] # "none"
    BY <2>1, <2>2, <2>5 DEF IInv, TypeInv, Decisions
  <2>6. ASSUME NEW s \in Threads PROVE ChangeOf(s)'
    BY <2>2, FinishFacts DEF IInv, ChangeOf
  <2>7. ASSUME NEW s \in Threads PROVE ReportOf(s)'
    BY <2>2, FinishFacts, ModerationAssumption DEF IInv, ReportOf, LockFree
  <2>8. ASSUME NEW s \in Threads PROVE DecisionOf(s)'
    <3>1. thread[s].pc = "decided" => thread[s].product \in Products /\ thread[s].reporter \in Reporters
      BY RestingFacts DEF IInv, TypeInv, Change, Decision, Reporting
    <3> QED BY <2>2, <2>5, <3>1, FinishFacts DEF IInv, DecisionOf
  <2> QED BY <2>4, <2>6, <2>7, <2>8 DEF IInv
<1> QED BY <1>1, <1>2

-----------------------------------------------------------------------------
LEMMA ReportLoadSafe ==
  ASSUME IInv, NEW t \in Threads, NEW p \in Products, NEW u \in Reporters, ReportLoad(t, p, u)
  PROVE  IInv'
<1>1. product[p] \in ProductRow /\ product[p].status \in OnSale
  BY DEF IInv, TypeInv, ReportLoad
<1>2. /\ UNCHANGED <<product, report, lock, sale, stale>>
      /\ \A s \in Threads \ {t} : thread'[s] = thread[s]
      /\ thread'[t].pc = "checked" /\ thread'[t].op = "report" /\ thread'[t].seen = product[p]
  BY DEF IInv, TypeInv, ReportLoad
<1>3. TypeInv'
  BY <1>1 DEF IInv, TypeInv, ReportLoad, Reporting
<1>4. ChangeOf(t)' /\ ReportOf(t)' /\ DecisionOf(t)'
  BY <1>1, <1>2 DEF ChangeOf, ReportOf, DecisionOf
<1> QED BY <1>2, <1>3, <1>4, ThreadMoves

LEMMA ReportingFacts ==
  ASSUME IInv, NEW t \in Threads,
         thread[t].pc \in {"checked", "inserted", "counted", "restricting"}
  PROVE  /\ thread[t] \in Reporting /\ thread[t].op = "report"
         /\ thread[t].product \in Products /\ thread[t].reporter \in Reporters
         /\ thread[t].seen \in ProductRow /\ thread[t].seen.status \in OnSale
BY RestingFacts DEF IInv, TypeInv, ReportOf, Change, Decision, Reporting

LEMMA ReportInsertSafe ==
  ASSUME IInv, NEW t \in Threads, ReportInsert(t)
  PROVE  IInv'
<1>1. thread[t].pc = "checked" /\ LockFree /\ UNCHANGED <<product, report, sale, stale>>
  BY DEF ReportInsert, At
<1>2. \A s \in Threads \ {t} : lock # s
  BY <1>1, ModerationAssumption DEF LockFree
<1>3. CASE Finish(t) /\ UNCHANGED lock
  <2>1. TypeInv'
    BY <1>1, <1>3, FinishFacts DEF IInv, TypeInv
  <2>2. ChangeOf(t)' /\ ReportOf(t)' /\ DecisionOf(t)'
    BY <1>3, FinishFacts DEF ChangeOf, ReportOf, DecisionOf
  <2> QED BY <1>1, <1>2, <1>3, <2>1, <2>2, FinishFacts, ThreadMoves
<1>4. CASE /\ report[thread[t].product][thread[t].reporter] = "none"
           /\ lock' = t /\ thread' = [thread EXCEPT ![t].pc = "inserted"]
  <2>1. thread[t] \in Reporting /\ thread[t].op = "report" /\ thread[t].seen.status \in OnSale
    BY <1>1, ReportingFacts
  <2>2. TypeInv'
    BY <1>1, <1>4, <2>1 DEF IInv, TypeInv, Reporting
  <2>3. /\ \A s \in Threads \ {t} : thread'[s] = thread[s]
        /\ thread'[t].pc = "inserted" /\ thread'[t].op = "report"
        /\ thread'[t].seen = thread[t].seen
        /\ thread'[t].product = thread[t].product /\ thread'[t].reporter = thread[t].reporter
    BY <1>4, <2>1 DEF IInv, TypeInv, Reporting
  <2>4. ChangeOf(t)' /\ ReportOf(t)' /\ DecisionOf(t)'
    BY <1>1, <1>4, <2>1, <2>3 DEF ChangeOf, ReportOf, DecisionOf
  <2> QED BY <1>1, <1>2, <2>2, <2>3, <2>4, ThreadMoves
<1> QED BY <1>3, <1>4 DEF ReportInsert

LEMMA ReportCountSafe ==
  ASSUME IInv, NEW t \in Threads, ReportCount(t)
  PROVE  IInv'
<1> DEFINE next == IF Enough(t) THEN "restricting" ELSE "counted"
<1>1. /\ thread[t].pc = "inserted" /\ UNCHANGED <<product, report, lock, sale, stale>>
      /\ thread' = [thread EXCEPT ![t].pc = next]
  BY DEF ReportCount, At, Enough, Reported
<1>2. /\ thread[t] \in Reporting /\ thread[t].op = "report" /\ thread[t].seen.status \in OnSale
      /\ lock = t /\ report[thread[t].product][thread[t].reporter] = "none"
  BY <1>1, ReportingFacts DEF IInv, ReportOf
<1>3. next \in {"counted", "restricting"} /\ (next = "restricting" <=> Enough(t))
  OBVIOUS
<1> HIDE DEF next
<1>4. TypeInv'
  BY <1>1, <1>2, <1>3 DEF IInv, TypeInv, Reporting
<1>5. /\ \A s \in Threads \ {t} : thread'[s] = thread[s]
      /\ thread'[t].pc = next /\ thread'[t].op = "report"
      /\ thread'[t].seen = thread[t].seen
      /\ thread'[t].product = thread[t].product /\ thread'[t].reporter = thread[t].reporter
  BY <1>1, <1>2 DEF IInv, TypeInv, Reporting
<1>6. Enough(t)' <=> Enough(t)
  BY <1>1, <1>5 DEF Enough, Reported, EffectiveCount
<1>7. ChangeOf(t)' /\ ReportOf(t)' /\ DecisionOf(t)'
  BY <1>1, <1>2, <1>3, <1>5, <1>6 DEF ChangeOf, ReportOf, DecisionOf
<1> QED BY <1>1, <1>4, <1>5, <1>7, ThreadMoves

\* The report and what it does to the product, in one commit.
LEMMA ReportCommitFacts ==
  ASSUME IInv, NEW t \in Threads, ReportCommit(t)
  PROVE  /\ thread[t] \in Reporting /\ lock = t /\ lock' = Unlocked /\ Finish(t)
         /\ report[thread[t].product][thread[t].reporter] = "none" /\ report' = Reported(t)
         /\ \/ ~Enough(t) /\ UNCHANGED <<product, sale, stale>>
            \/ /\ Enough(t)
               /\ Write(thread[t].product, thread[t].seen,
                        [status |-> "hidden", previous |-> thread[t].seen.status])
<1>1. thread[t].pc \in {"counted", "restricting"}
  BY DEF ReportCommit, At
<1>2. /\ thread[t] \in Reporting /\ lock = t
      /\ report[thread[t].product][thread[t].reporter] = "none"
  BY <1>1, ReportingFacts DEF IInv, ReportOf
<1>3. thread[t].pc = "restricting" <=> Enough(t)
  BY <1>1 DEF IInv, ReportOf
<1> QED BY <1>1, <1>2, <1>3 DEF ReportCommit, At, Reported

LEMMA ReportCommitSafe ==
  ASSUME IInv, NEW t \in Threads, ReportCommit(t)
  PROVE  IInv'
<1> DEFINE p == thread[t].product
           seen == thread[t].seen
           hidden == [status |-> "hidden", previous |-> seen.status]
<1>1. /\ p \in Products /\ thread[t].reporter \in Reporters
      /\ seen \in ProductRow /\ seen.status \in OnSale
  BY ReportingFacts DEF ReportCommit, At
<1>2. hidden \in ProductRow /\ hidden.status = "hidden" /\ hidden.previous = seen.status
  BY <1>1 DEF ProductRow
<1>3. /\ SaleInv' /\ HiddenRemembersStatus'
      /\ product' \in [Products -> ProductRow] /\ sale' \in [Products -> OnSale]
  <2>1. CASE UNCHANGED <<product, sale, stale>>
    BY <2>1 DEF IInv, TypeInv, SaleInv, HiddenRemembersStatus
  <2>2. CASE Write(p, seen, hidden)
    <3> HIDE DEF p, seen, hidden
    <3> QED BY <1>1, <1>2, <2>2, WriteFacts, WriteSafe
  <2> QED BY <2>1, <2>2, ReportCommitFacts
<1>4. report' = [report EXCEPT ![p][thread[t].reporter] = "pending"]
  BY ReportCommitFacts DEF Reported
<1>5. report' \in [Products -> [Reporters -> Effective \union Decisions \union {"none"}]]
  BY <1>1, <1>4 DEF IInv, TypeInv, Effective
<1>6. TypeInv'
  BY <1>3, <1>5, ReportCommitFacts, FinishFacts DEF TypeInv
<1>7. ASSUME NEW q \in Products, NEW v \in Reporters, report[q][v] # "none"
      PROVE  report'[q][v] # "none"
  BY <1>1, <1>4, <1>7 DEF IInv, TypeInv
<1>a. /\ \A s \in Threads : s = t \/ thread'[s] = thread[s]
      /\ thread'[t].pc = "idle" /\ thread'[t].op = "none"
  BY ReportCommitFacts, FinishFacts
<1>8. ASSUME NEW s \in Threads PROVE ChangeOf(s)'
  BY <1>a DEF IInv, ChangeOf
<1>9. ASSUME NEW s \in Threads PROVE DecisionOf(s)'
  <2>1. thread[s].pc = "decided" => thread[s].product \in Products /\ thread[s].reporter \in Reporters
    BY RestingFacts DEF IInv, TypeInv, Change, Decision, Reporting
  <2> QED BY <1>7, <1>a, <2>1 DEF IInv, DecisionOf
<1>10. ASSUME NEW s \in Threads PROVE ReportOf(s)'
  <2>1. CASE s = t
    BY <1>a, <2>1 DEF ReportOf
  <2>2. CASE s # t
    <3>1. thread'[s] = thread[s] /\ thread[s].pc \notin {"inserted", "counted", "restricting"}
      BY <2>2, ReportCommitFacts, FinishFacts DEF IInv, ReportOf
    <3> QED BY <3>1 DEF IInv, ReportOf
  <2> QED BY <2>1, <2>2
<1> QED BY <1>3, <1>6, <1>8, <1>9, <1>10 DEF IInv

LEMMA FailsSafe ==
  ASSUME IInv, NEW t \in Threads, Fails(t)
  PROVE  IInv'
<1>1. /\ Finish(t) /\ UNCHANGED <<product, report, sale, stale>>
      /\ lock' = IF lock = t THEN Unlocked ELSE lock
  BY DEF Fails
<1>2. TypeInv'
  BY <1>1, FinishFacts DEF IInv, TypeInv
<1>3. ChangeOf(t)' /\ ReportOf(t)' /\ DecisionOf(t)'
  BY <1>1, FinishFacts DEF ChangeOf, ReportOf, DecisionOf
<1> QED BY <1>1, <1>2, <1>3, FinishFacts, ThreadMoves

LEMMA CrashSafe == ASSUME IInv, Crash PROVE IInv'
<1>1. \A t \in Threads : thread'[t].pc = "idle" /\ thread'[t].op = "none"
  BY RestingFacts DEF Crash
<1>2. TypeInv' /\ SaleInv' /\ HiddenRemembersStatus'
  BY DEF IInv, TypeInv, SaleInv, HiddenRemembersStatus, Crash
<1>3. \A t \in Threads : ChangeOf(t)' /\ ReportOf(t)' /\ DecisionOf(t)'
  BY <1>1 DEF ChangeOf, ReportOf, DecisionOf
<1> QED BY <1>2, <1>3 DEF IInv

-----------------------------------------------------------------------------
LEMMA InitSafe == ASSUME Init PROVE IInv
<1>1. \A t \in Threads : thread[t].pc = "idle" /\ thread[t].op = "none"
  BY RestingFacts DEF Init
<1>2. \A p \in Products : product[p] = [status |-> "active", previous |-> "none"]
  BY DEF Init
<1>3. TypeInv
  BY DEF Init, TypeInv, ProductRow, OnSale
<1>4. SaleInv /\ HiddenRemembersStatus
  BY <1>2 DEF Init, SaleInv, HiddenRemembersStatus
<1>5. \A t \in Threads : ChangeOf(t) /\ ReportOf(t) /\ DecisionOf(t)
  BY <1>1 DEF ChangeOf, ReportOf, DecisionOf
<1> QED BY <1>3, <1>4, <1>5 DEF IInv

LEMMA NextSafe == ASSUME IInv, [Next]_vars PROVE IInv'
<1>1. CASE UNCHANGED vars
  BY <1>1 DEF vars, IInv, TypeInv, SaleInv, HiddenRemembersStatus, ChangeOf, ReportOf,
              DecisionOf, Enough, Reported, EffectiveCount
<1>2. ASSUME NEW t \in Threads, NEW p \in Products, Begin(t, p) PROVE IInv'
  BY <1>2, OwnersAndAdministratorsSafe, ReportLoadSafe, DecideSafe DEF Begin
<1>3. ASSUME NEW t \in Threads,
             ProductCommit(t) \/ DecideCommit(t) \/ ReportInsert(t) \/ ReportCount(t)
             \/ ReportCommit(t) \/ Fails(t)
      PROVE  IInv'
  BY <1>3, ProductCommitSafe, DecideSafe, ReportInsertSafe, ReportCountSafe,
     ReportCommitSafe, FailsSafe
<1>4. CASE Crash
  BY <1>4, CrashSafe
<1> QED BY <1>1, <1>2, <1>3, <1>4 DEF Next

\* What threads carry between load and commit: kept by every step of any handler.
THEOREM Invariance == Spec => []IInv
<1>1. Init => IInv
  BY InitSafe
<1>2. IInv /\ [Next]_vars => IInv'
  BY NextSafe
<1> QED BY <1>1, <1>2, PTL DEF Spec

\* A product that was hidden, while no change of it rested on a replaced row,
\* remembers the status with which it was last on sale.
THEOREM HiddenRemembers == Spec => []HiddenRemembersStatus
BY Invariance, PTL DEF IInv

\* A handler that begins writes nothing.
LEMMA BeginReads ==
  ASSUME NEW t, NEW p, Begin(t, p)
  PROVE  UNCHANGED <<product, report, lock, sale, stale, contested>>
BY DEF Begin, change_product_status, soft_delete_product, admin_hide,
       admin_restore, admin_delete, Loaded, ReportLoad, DecideLoad

\* Rows change in two kinds of steps only.
LEMMA WhoWrites ==
  ASSUME [Next]_vars
  PROVE  \/ UNCHANGED product
         \/ \E t \in Threads : ProductCommit(t) \/ ReportCommit(t)
BY BeginReads DEF Next, vars, DecideCommit, ReportInsert, ReportCount, Fails, Crash

LEMMA WhoReports ==
  ASSUME [Next]_vars
  PROVE  UNCHANGED report \/ \E t \in Threads : DecideCommit(t) \/ ReportCommit(t)
BY BeginReads DEF Next, vars, ProductCommit, ReportInsert, ReportCount, Fails, Crash

\* The report that makes the threshold takes the product off the market in the
\* same step, whatever other requests report, decide, write and fail meanwhile.
THEOREM ThresholdActs == Spec => ThresholdNeverMissed
<1>1. ASSUME IInv, [Next]_vars, NEW p \in Products, Arrives(p)
      PROVE  IF EffectiveCount(report', p) >= Threshold
             THEN product'[p].status = "hidden"
             ELSE product'[p] = product[p]
  <2>1. ~UNCHANGED report
    BY <1>1 DEF Arrives
  <2>2. ASSUME NEW t \in Threads, DecideCommit(t) PROVE FALSE
    <3>1. /\ report' = [report EXCEPT ![thread[t].product][thread[t].reporter] = thread[t].decision]
          /\ thread[t].pc = "decided"
      BY <2>2 DEF DecideCommit, At
    <3>2. thread[t].product \in Products /\ thread[t].reporter \in Reporters
      BY <1>1, <3>1, RestingFacts DEF IInv, TypeInv, Change, Decision, Reporting
    <3>3. report[thread[t].product][thread[t].reporter] # "none"
      BY <1>1, <3>1 DEF IInv, DecisionOf
    <3> QED BY <1>1, <3>1, <3>2, <3>3 DEF IInv, TypeInv, Arrives
  <2>3. ASSUME NEW t \in Threads, ReportCommit(t)
        PROVE  IF EffectiveCount(report', p) >= Threshold
               THEN product'[p].status = "hidden"
               ELSE product'[p] = product[p]
    <3> DEFINE seen == thread[t].seen
               hidden == [status |-> "hidden", previous |-> seen.status]
    <3>1. /\ thread[t].product \in Products /\ thread[t].reporter \in Reporters
          /\ seen \in ProductRow /\ seen.status \in OnSale
      BY <1>1, <2>3, ReportingFacts DEF ReportCommit, At
    <3>2. report' = Reported(t)
      BY <1>1, <2>3, ReportCommitFacts
    <3>3. thread[t].product = p
      BY <1>1, <3>1, <3>2 DEF Reported, Arrives, IInv, TypeInv
    <3>4. EffectiveCount(report', p) >= Threshold <=> Enough(t)
      BY <3>2, <3>3 DEF Enough, EffectiveCount
    <3>5. hidden \in ProductRow /\ hidden.status = "hidden"
      BY <3>1 DEF ProductRow
    <3>6. CASE ~Enough(t)
      BY <1>1, <2>3, <3>4, <3>6, ReportCommitFacts
    <3>7. CASE Enough(t)
      <4>1. Write(p, seen, hidden)
        BY <1>1, <2>3, <3>3, <3>7, ReportCommitFacts
      <4> HIDE DEF seen, hidden
      <4>2. product'[p] = Written(p, seen, hidden)
        BY <1>1, <3>1, <3>5, <4>1, WriteFacts
      <4>3. Written(p, seen, hidden).status = "hidden"
        BY <1>1, <3>1, <3>5, WrittenRow DEF IInv, TypeInv, OnSale
      <4> QED BY <3>4, <3>7, <4>2, <4>3
    <3> QED BY <3>6, <3>7
  <2> QED BY <1>1, <2>1, <2>2, <2>3, WhoReports
<1>2. IInv /\ [Next]_vars =>
        \A p \in Products : Arrives(p) =>
          IF EffectiveCount(report', p) >= Threshold
          THEN product'[p].status = "hidden"
          ELSE product'[p] = product[p]
  BY <1>1
<1> QED BY <1>2, Invariance, PTL DEF Spec, ThresholdNeverMissed

\* What a step makes of a row when it rests on that very row.
LEMMA FreshWrite ==
  ASSUME IInv, [Next]_vars, NEW p \in Products, p \notin stale', product'[p] # product[p]
  PROVE  \/ \E t \in Threads :
              /\ ProductCommit(t) /\ thread[t].seen = product[p] /\ thread[t].new = product'[p]
         \/ product[p].status \in OnSale /\ product'[p].status = "hidden"
<1>1. ASSUME NEW t \in Threads, ProductCommit(t)
      PROVE  thread[t].seen = product[p] /\ thread[t].new = product'[p]
  <2> DEFINE q == thread[t].product
             seen == thread[t].seen
             new == thread[t].new
  <2>1. q \in Products /\ seen \in ProductRow /\ new \in ProductRow
    BY <1>1, RestingFacts DEF IInv, TypeInv, ProductCommit, At, Change, Decision, Reporting
  <2>2. Write(q, seen, new)
    BY <1>1 DEF ProductCommit
  <2> HIDE DEF q, seen, new
  <2>3. q = p
    BY <2>1, <2>2, WriteFacts
  <2>4. seen = product[p] /\ product'[p] = new
    BY <2>1, <2>2, <2>3, WriteFacts
  <2> QED BY <2>4 DEF seen, new
<1>2. ASSUME NEW t \in Threads, ReportCommit(t)
      PROVE  product[p].status \in OnSale /\ product'[p].status = "hidden"
  <2> DEFINE q == thread[t].product
             seen == thread[t].seen
             new == [status |-> "hidden", previous |-> seen.status]
  <2>1. q \in Products /\ seen \in ProductRow /\ seen.status \in OnSale
    BY <1>2, ReportingFacts DEF ReportCommit, At
  <2>2. new \in ProductRow /\ new.status = "hidden"
    BY <2>1 DEF ProductRow
  <2>3. Write(q, seen, new)
    BY <1>2, ReportCommitFacts
  <2> HIDE DEF q, seen, new
  <2>4. q = p
    BY <2>1, <2>2, <2>3, WriteFacts
  <2>5. seen = product[p] /\ product'[p] = new
    BY <2>1, <2>2, <2>3, <2>4, WriteFacts
  <2> QED BY <2>1, <2>2, <2>5
<1> QED BY <1>1, <1>2, WhoWrites

\* As long as no change of a product rests on a replaced row, its deletion is final.
THEOREM DeletionIsFinal == Spec => DeletedIsFinal
<1>1. ASSUME IInv, [Next]_vars, NEW p \in Products, p \notin stale',
             product[p].status = "deleted"
      PROVE  product'[p].status = "deleted"
  <2>1. ASSUME NEW t \in Threads, ProductCommit(t), thread[t].seen = product[p],
               thread[t].new = product'[p]
        PROVE  product'[p] = product[p]
    BY <1>1, <2>1 DEF IInv, ChangeOf, ProductCommit, At
  <2> QED BY <1>1, <2>1, FreshWrite DEF OnSale
<1>2. IInv /\ [Next]_vars =>
        \A p \in Products :
          p \notin stale' /\ product[p].status = "deleted" => product'[p].status = "deleted"
  BY <1>1
<1> QED BY <1>2, Invariance, PTL DEF Spec, DeletedIsFinal

\* As long as no change of a product rests on a replaced row, only an
\* administrator's restore puts it back on sale after it was hidden.
THEOREM RestoreUnhides == Spec => OnlyRestoreUnhides
<1>1. ASSUME IInv, [Next]_vars, NEW p \in Products, p \notin stale',
             product[p].status = "hidden", product'[p].status \in OnSale
      PROVE  \E t \in Threads : thread[t].op = "restore" /\ thread'[t] = Resting
  <2>1. PICK t \in Threads : /\ ProductCommit(t) /\ thread[t].seen = product[p]
                             /\ thread[t].new = product'[p]
    BY <1>1, FreshWrite DEF OnSale
  <2>2. thread[t].op = "restore"
    BY <1>1, <2>1 DEF IInv, ChangeOf, ProductCommit, At
  <2>3. thread'[t] = Resting
    BY <1>1, <2>1 DEF IInv, TypeInv, ProductCommit, Finish
  <2> QED BY <2>2, <2>3
<1>2. IInv /\ [Next]_vars =>
        \A p \in Products :
          /\ p \notin stale'
          /\ product[p].status = "hidden" /\ product'[p].status \in OnSale
          => \E t \in Threads : thread[t].op = "restore" /\ thread'[t] = Resting
  BY <1>1
<1> QED BY <1>2, Invariance, PTL DEF Spec, OnlyRestoreUnhides

\* What left the sale comes back by an administrator's restore only, and what was
\* deleted never, as long as no change rests on a replaced row.
THEOREM OffSaleKept == Spec => OffSaleStaysOff
BY DeletionIsFinal, RestoreUnhides DEF OffSaleStaysOff

-----------------------------------------------------------------------------
(* Implementation of ProductLife. *)

LEMMA LifeBecomes ==
  ASSUME IInv, NEW p \in Products, NEW seen \in ProductRow, NEW new \in ProductRow,
         Write(p, seen, new)
  PROVE  Life!Becomes(p, product'[p].status)
<1> DEFINE now == product'[p].status
<1>1. /\ product \in [Products -> ProductRow] /\ sale \in [Products -> OnSale]
      /\ product' \in [Products -> ProductRow] /\ sale' \in [Products -> OnSale]
  BY WriteFacts DEF IInv, TypeInv
<1>2. /\ \A q \in Products \ {p} : product'[q] = product[q] /\ sale'[q] = sale[q]
      /\ sale'[p] = IF now \in OnSale THEN now ELSE sale[p]
  BY WriteFacts
<1>3. [q \in Products |-> product'[q].status]
        = [[q \in Products |-> product[q].status] EXCEPT ![p] = now]
  BY <1>2
<1>4. sale' = [sale EXCEPT ![p] = IF now \in OnSale THEN now ELSE @]
  BY <1>1, <1>2
<1> QED BY <1>3, <1>4 DEF Life!Becomes, Life!OnSale, OnSale

LEMMA Unwritten ==
  ASSUME IInv, NEW p \in Products, NEW seen \in ProductRow, NEW new \in ProductRow,
         Write(p, seen, new), product'[p] = product[p]
  PROVE  UNCHANGED <<product, sale, stale>>
<1>1. /\ product \in [Products -> ProductRow] /\ sale \in [Products -> OnSale]
      /\ product' \in [Products -> ProductRow] /\ sale' \in [Products -> OnSale]
  BY WriteFacts DEF IInv, TypeInv
<1>2. UNCHANGED product
  BY <1>1, WriteFacts
<1>3. sale'[p] = sale[p]
  BY WriteFacts DEF IInv, SaleInv
<1>4. UNCHANGED sale
  BY <1>1, <1>3, WriteFacts
<1>5. stale' = IF seen # product[p] /\ product'[p] # product[p] THEN stale \union {p} ELSE stale
  BY WriteFacts DEF Write
<1> QED BY <1>2, <1>4, <1>5

LEMMA Stutter ==
  ASSUME UNCHANGED <<product, report, sale, stale, contested>>
  PROVE  [Life!Next]_(Life!vars)
BY DEF Life!vars

LEMMA ReportSteps ==
  ASSUME NEW p \in Products, NEW u \in Reporters, Life!Report(p, u) \/ Life!Decide(p, u)
  PROVE  Life!Next
BY DEF Life!Next

\* A commit of a change is one step of the product's life, or none.
LEMMA ChangeLives ==
  ASSUME IInv, NEW t \in Threads, ProductCommit(t)
  PROVE  [Life!Next]_(Life!vars)
<1> DEFINE p == thread[t].product
           seen == thread[t].seen
           new == thread[t].new
<1>1. /\ thread[t].pc = "loaded" /\ p \in Products
      /\ seen \in ProductRow /\ new \in ProductRow
  BY RestingFacts DEF IInv, TypeInv, ProductCommit, At, Change, Decision, Reporting
<1>2. Write(p, seen, new) /\ UNCHANGED <<report, contested>>
  BY DEF ProductCommit
<1>3. /\ seen.status = "deleted" => new = seen
      /\ seen.status = "hidden" /\ new.status \in OnSale /\ seen.previous \in OnSale =>
           new.status = seen.previous
      /\ new.status = "hidden" => new = seen \/ seen.status \in OnSale
  BY <1>1 DEF IInv, ChangeOf
<1> HIDE DEF p, seen, new
<1>4. Life!Becomes(p, product'[p].status)
  BY <1>1, <1>2, LifeBecomes
<1>5. CASE product'[p] = product[p]
  BY <1>1, <1>2, <1>5, Unwritten, Stutter
<1>6. CASE product'[p] # product[p] /\ p \in stale'
  <2>1. stale' = stale \/ stale' = stale \union {p}
    BY <1>2 DEF Write
  <2>2. stale' = stale \union {p}
    BY <1>6, <2>1
  <2>3. product'[p].status \in Life!Statuses
    BY <1>1, <1>2, WriteFacts DEF ProductRow, Life!Statuses, Life!OnSale, OnSale
  <2>4. Life!Lose(p)
    BY <1>2, <1>4, <2>2, <2>3 DEF Life!Lose, Life!Becomes
  <2> QED BY <1>1, <2>4 DEF Life!Next
<1>7. CASE product'[p] # product[p] /\ p \notin stale'
  <2>1. seen = product[p] /\ new = product'[p] /\ stale' = stale /\ p \notin stale
    BY <1>1, <1>2, <1>7, WriteFacts DEF Write
  <2>2. UNCHANGED <<report, stale, contested>>
    BY <1>2, <2>1
  <2>3. CASE new.status = "deleted"
    BY <1>1, <1>4, <2>1, <2>2, <2>3 DEF Life!Delete, Life!Becomes, Life!Next
  <2>4. CASE new.status = "hidden"
    <3>1. product[p].status \in Life!OnSale
      BY <1>3, <1>7, <2>1, <2>4 DEF Life!OnSale, OnSale
    <3> QED BY <1>1, <1>4, <2>1, <2>2, <2>4, <3>1 DEF Life!Hide, Life!Becomes, Life!Next
  <2>5. CASE new.status \in OnSale /\ seen.status \in OnSale
    BY <1>1, <1>4, <2>1, <2>2, <2>5 DEF Life!Sell, Life!Becomes, Life!Next, Life!OnSale, OnSale
  <2>6. CASE new.status \in OnSale /\ seen.status = "hidden"
    <3>1. product[p].previous = sale[p] /\ sale[p] \in OnSale
      BY <1>1, <2>1, <2>6 DEF IInv, TypeInv, HiddenRemembersStatus
    <3>2. new.status = sale[p]
      BY <1>3, <2>1, <2>6, <3>1
    <3> QED BY <1>1, <1>4, <2>1, <2>2, <2>6, <3>2 DEF Life!Restore, Life!Becomes, Life!Next
  <2> QED BY <1>1, <1>3, <1>7, <2>1, <2>3, <2>4, <2>5, <2>6, RowFacts DEF OnSale
<1> QED BY <1>5, <1>6, <1>7

\* A report and the restriction it causes are one step.
LEMMA ReportLives ==
  ASSUME IInv, NEW t \in Threads, ReportCommit(t)
  PROVE  [Life!Next]_(Life!vars)
<1>p. PICK p \in Products, u \in Reporters :
        p = thread[t].product /\ u = thread[t].reporter
  BY ReportingFacts DEF ReportCommit, At
<1> DEFINE seen == thread[t].seen
           hidden == [status |-> "hidden", previous |-> seen.status]
<1>1. seen \in ProductRow /\ seen.status \in OnSale /\ report[p][u] = "none"
  BY <1>p, ReportingFacts, ReportCommitFacts DEF ReportCommit, At
<1>2. /\ report' = [report EXCEPT ![p][u] = "pending"] /\ UNCHANGED contested
      /\ EffectiveCount(report', p) >= Threshold <=> Enough(t)
  BY <1>p, ReportCommitFacts DEF Reported, Enough, ReportCommit
<1>3. EffectiveCount(report', p) = Life!Cardinality(Life!Standing(report', p))
  BY DEF EffectiveCount, Effective, Life!Standing, Cardinality, Life!Cardinality
<1>4. \/ ~Enough(t) /\ UNCHANGED <<product, sale, stale>>
      \/ Enough(t) /\ Write(p, seen, hidden)
  BY <1>p, ReportCommitFacts
<1>5. hidden \in ProductRow /\ hidden.status = "hidden"
  BY <1>1 DEF ProductRow
<1> HIDE DEF seen, hidden
<1>6. CASE ~Enough(t)
  <2>1. UNCHANGED <<product, sale, stale>>
    BY <1>4, <1>6
  <2>2. Life!Report(p, u)
    BY <1>1, <1>2, <1>3, <1>6, <2>1 DEF Life!Report
  <2> QED BY <2>2, ReportSteps
<1>7. CASE Enough(t)
  <2>1. Write(p, seen, hidden)
    BY <1>4, <1>7
  <2>2. product'[p].status = "hidden"
    BY <1>1, <1>5, <2>1, WriteFacts, WrittenRow DEF IInv, TypeInv, OnSale
  <2>3. Life!Becomes(p, "hidden")
    BY <1>1, <1>5, <2>1, <2>2, LifeBecomes DEF Life!Becomes
  <2>4. (product[p].status # "deleted" /\ stale' = stale) \/ stale' = stale \union {p}
    BY <1>1, <2>1, <2>2, WriteFacts DEF Write, OnSale
  <2>5. Life!Report(p, u)
    BY <1>1, <1>2, <1>3, <1>7, <2>3, <2>4 DEF Life!Report, Life!Becomes
  <2> QED BY <2>5, ReportSteps
<1> QED BY <1>6, <1>7

\* A decision that finds the report decided is a disputed one.
LEMMA DecisionLives ==
  ASSUME IInv, NEW t \in Threads, DecideCommit(t)
  PROVE  [Life!Next]_(Life!vars)
<1> DEFINE p == thread[t].product
           u == thread[t].reporter
           d == thread[t].decision
<1>1. /\ thread[t].pc = "decided"
      /\ p \in Products /\ u \in Reporters /\ d \in {"confirmed", "rejected"}
  BY RestingFacts DEF IInv, TypeInv, DecideCommit, At, Change, Decision, Reporting, Decisions
<1>2. /\ report' = [report EXCEPT ![p][u] = d] /\ UNCHANGED <<product, sale, stale>>
      /\ contested' = IF report[p][u] = "pending" THEN contested
                      ELSE contested \union {<<p, u>>}
  BY DEF DecideCommit
<1>3. report[p][u] # "none"
  BY <1>1 DEF IInv, DecisionOf
<1> HIDE DEF p, u, d
<1>4. Life!Decide(p, u)
  BY <1>1, <1>2, <1>3 DEF Life!Decide
<1> QED BY <1>1, <1>4, ReportSteps

\* Whatever the products, reporters, threads and threshold: the handlers with their
\* unlocked reads, commits, failures and crashes keep to the life of a product that
\* ProductLife describes.
THEOREM LifeImplemented == Spec => ImplementsLife
<1>1. Init => Life!Init
  BY DEF Init, Life!Init
<1>2. ASSUME IInv, [Next]_vars PROVE [Life!Next]_(Life!vars)
  <2>1. CASE UNCHANGED vars
    BY <2>1, Stutter DEF vars
  <2>2. ASSUME NEW t \in Threads, NEW p \in Products, Begin(t, p)
        PROVE  [Life!Next]_(Life!vars)
    BY <2>2, BeginReads, Stutter
  <2>3. ASSUME NEW t \in Threads, ReportInsert(t) \/ ReportCount(t) \/ Fails(t)
        PROVE  [Life!Next]_(Life!vars)
    BY <2>3, Stutter DEF ReportInsert, ReportCount, Fails
  <2>4. CASE Crash
    BY <2>4, Stutter DEF Crash
  <2> QED BY <1>2, <2>1, <2>2, <2>3, <2>4, ChangeLives, ReportLives, DecisionLives DEF Next
<1>3. IInv /\ [Next]_vars => [Life!Next]_(Life!vars)
  BY <1>2
<1> QED BY <1>1, <1>3, Invariance, PTL DEF Spec, ImplementsLife, Life!Spec

-----------------------------------------------------------------------------
\* The lock and the history.
LockInv == lock \in Threads \union {Unlocked} /\ stale \subseteq Products

LEMMA LockStep == ASSUME IInv, LockInv, [Next]_vars PROVE LockInv'
<1> USE RestingFacts DEF IInv, TypeInv, LockInv
<1>1. CASE UNCHANGED vars
  BY <1>1 DEF vars
<1>2. ASSUME NEW t \in Threads, NEW p \in Products, Begin(t, p) PROVE LockInv'
  BY <1>2, BeginReads
<1>3. ASSUME NEW t \in Threads, ProductCommit(t) PROVE LockInv'
  BY <1>3 DEF ProductCommit, At, Write, Change, Decision, Reporting
<1>4. ASSUME NEW t \in Threads, ReportCommit(t) PROVE LockInv'
  BY <1>4 DEF ReportCommit, At, Write, Change, Decision, Reporting
<1>5. ASSUME NEW t \in Threads, DecideCommit(t) \/ ReportInsert(t) \/ ReportCount(t) \/ Fails(t)
      PROVE  LockInv'
  BY <1>5 DEF DecideCommit, ReportInsert, ReportCount, Fails
<1>6. CASE Crash
  BY <1>6 DEF Crash
<1> QED BY <1>1, <1>2, <1>3, <1>4, <1>5, <1>6 DEF Next

\* The type invariant: rows keep to the CHECK constraints of the products table.
THEOREM TypeCorrect == Spec => []TypeOK
<1>1. Init => LockInv
  BY DEF Init, LockInv
<1>2. IInv /\ LockInv /\ [Next]_vars => LockInv'
  BY LockStep
<1>3. IInv /\ LockInv => TypeOK
  <2>1. ASSUME IInv, NEW t \in Threads, "seen" \in DOMAIN thread[t]
        PROVE  thread[t].seen \in ProductRow
    <3>1. thread[t] # Resting /\ thread[t] \notin Decision
      BY <2>1 DEF Resting, Decision
    <3> QED BY <2>1, <3>1 DEF IInv, TypeInv, Change, Reporting
  <2> QED BY <2>1 DEF IInv, TypeInv, LockInv, TypeOK
<1> QED BY <1>1, <1>2, <1>3, Invariance, PTL DEF Spec
=============================================================================
