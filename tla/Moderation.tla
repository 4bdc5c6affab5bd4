----------------------------- MODULE Moderation -----------------------------
(***************************************************************************)
(* The life of a product listing: its owner sells, reactivates and deletes *)
(* it, users report it, enough reports hide it, administrators hide,       *)
(* restore, delete it and decide the reports.                              *)
(*                                                                         *)
(* Every handler loads the row, computes the new one, and commits.  The    *)
(* load takes no lock.  At commit SQLAlchemy writes the columns whose      *)
(* value differs from the loaded one, whatever the row holds by then.      *)
(* A report's INSERT takes SQLite's write lock, which it keeps while it    *)
(* counts, until its commit.                                               *)
(***************************************************************************)
EXTENDS Integers, FiniteSets

CONSTANTS
  Products,
  Reporters,     \* users other than the sellers (SELF_TARGET refuses those)
  Threads,       \* request threads
  Editors,       \* the threads that run owner and administrator handlers
  Unlocked,      \* nobody holds the write lock
  Threshold      \* REPORT_AUTO_RESTRICTION_THRESHOLD

ASSUME ModerationAssumption ==
  /\ Editors \subseteq Threads /\ Unlocked \notin Threads
  /\ Threshold \in Nat \ {0}

VARIABLES
  product,   \* rows: [status, previous], previous = moderation_previous_status
  report,    \* report[p][u]: status of u's report on p, "none": no row
  lock,      \* thread with the write lock
  thread,    \* what each request thread is doing
  sale,      \* history: the status with which p was last on sale
  stale,     \* history: products changed by a handler that had not seen them
             \* as they were
  contested  \* history: reports that were decided by two

vars == <<product, report, lock, thread, sale, stale, contested>>

OnSale == {"active", "sold"}
Effective == {"pending", "confirmed"}
Decisions == {"confirmed", "rejected"}

Resting == [op |-> "none", pc |-> "idle"]

Init ==
  /\ product = [p \in Products |-> [status |-> "active", previous |-> "none"]]
  /\ report = [p \in Products |-> [u \in Reporters |-> "none"]]
  /\ lock = Unlocked
  /\ thread = [t \in Threads |-> Resting]
  /\ sale = [p \in Products |-> "active"]
  /\ stale = {} /\ contested = {}

Idle(t) == thread[t] = Resting
At(t, pc) == thread[t].pc = pc
Finish(t) == thread' = [thread EXCEPT ![t] = Resting]

\* Mutant: reports count without holding the write lock.
LockFree_Always == TRUE

LockFree == lock = Unlocked

-----------------------------------------------------------------------------
(* Unit of work. *)

\* The handler has loaded p's row and made it `new'.
Loaded(t, op, p, new) ==
  /\ thread' = [thread EXCEPT ![t] =
       [op |-> op, pc |-> "loaded", product |-> p, seen |-> product[p], new |-> new]]
  /\ UNCHANGED <<product, report, lock, sale, stale, contested>>

\* UPDATE of the columns the handler changed, on top of what is there now.
Written(p, seen, new) ==
  [f \in {"status", "previous"} |->
     IF new[f] # seen[f] THEN new[f] ELSE product[p][f]]

Write(p, seen, new) ==
  LET row == Written(p, seen, new) IN
  /\ product' = [product EXCEPT ![p] = row]
  /\ sale' = [sale EXCEPT ![p] = IF row.status \in OnSale THEN row.status ELSE @]
  /\ stale' = IF seen # product[p] /\ row # product[p] THEN stale \union {p} ELSE stale

ProductCommit(t) ==
  /\ At(t, "loaded")
  /\ LockFree
  /\ Write(thread[t].product, thread[t].seen, thread[t].new)
  /\ Finish(t)
  /\ UNCHANGED <<report, lock, contested>>

-----------------------------------------------------------------------------
(* The owner. *)

\* Mutant: whatever has not been sold may be edited.
Editable_NotSold(row) == row.status # "sold"

Editable(row) == row.status \in OnSale

change_product_status(t, p, requested) ==
  /\ Idle(t) /\ t \in Editors
  /\ Editable(product[p])
  /\ Loaded(t, "owner", p, [product[p] EXCEPT !.status = requested])

soft_delete_product(t, p) ==
  /\ Idle(t) /\ t \in Editors
  /\ product[p].status # "deleted"
  /\ Loaded(t, "delete", p, [product[p] EXCEPT !.status = "deleted"])

-----------------------------------------------------------------------------
(* Administrators. *)

\* Mutant: nothing is saved.
HiddenRow_Forgetful(row) == [row EXCEPT !.status = "hidden"]

HiddenRow(row) ==
  IF row.status = "hidden" THEN row
  ELSE [status |-> "hidden", previous |-> row.status]

RestoredRow(row) ==
  [status |-> IF row.previous \in OnSale THEN row.previous ELSE "active",
   previous |-> "none"]

DeletedRow(row) ==
  IF row.status = "deleted" THEN row
  ELSE [status |-> "deleted", previous |-> "none"]

admin_hide(t, p) ==
  /\ Idle(t) /\ t \in Editors
  /\ product[p].status # "deleted"
  /\ Loaded(t, "hide", p, HiddenRow(product[p]))

admin_restore(t, p) ==
  /\ Idle(t) /\ t \in Editors
  /\ product[p].status = "hidden"
  /\ Loaded(t, "restore", p, RestoredRow(product[p]))

admin_delete(t, p) ==
  /\ Idle(t) /\ t \in Editors
  /\ Loaded(t, "delete", p, DeletedRow(product[p]))

Undecided(p, u) == report[p][u] = "pending"

DecideLoad(t, p, u, decision) ==
  /\ Idle(t) /\ t \in Editors
  /\ Undecided(p, u)
  /\ thread' = [thread EXCEPT ![t] =
       [op |-> "decide", pc |-> "decided", product |-> p, reporter |-> u,
        decision |-> decision]]
  /\ UNCHANGED <<product, report, lock, sale, stale, contested>>

DecideCommit(t) ==
  LET p == thread[t].product  u == thread[t].reporter IN
  /\ At(t, "decided")
  /\ LockFree
  /\ report' = [report EXCEPT ![p][u] = thread[t].decision]
  /\ contested' = IF report[p][u] = "pending" THEN contested
                  ELSE contested \union {<<p, u>>}
  /\ Finish(t)
  /\ UNCHANGED <<product, lock, sale, stale>>

-----------------------------------------------------------------------------
(* Reports. *)

\* create_product_report and the first look for a report by the same user.
ReportLoad(t, p, u) ==
  /\ Idle(t)
  /\ product[p].status \in OnSale
  /\ report[p][u] = "none"
  /\ thread' = [thread EXCEPT ![t] =
       [op |-> "report", pc |-> "checked", product |-> p, reporter |-> u,
        seen |-> product[p]]]
  /\ UNCHANGED <<product, report, lock, sale, stale, contested>>

\* The flush.  UNIQUE refuses a second report: rollback, answered as duplicate.
ReportInsert(t) ==
  /\ At(t, "checked")
  /\ LockFree
  /\ IF report[thread[t].product][thread[t].reporter] = "none"
     THEN /\ lock' = t
          /\ thread' = [thread EXCEPT ![t].pc = "inserted"]
     ELSE Finish(t) /\ UNCHANGED lock
  /\ UNCHANGED <<product, report, sale, stale, contested>>

EffectiveCount(reports, p) ==
  Cardinality({u \in Reporters : reports[p][u] \in Effective})

\* The count sees this transaction's own row and what was committed before.
ReportCount(t) ==
  LET p == thread[t].product
      seen == [report EXCEPT ![p][thread[t].reporter] = "pending"] IN
  /\ At(t, "inserted")
  /\ thread' = [thread EXCEPT ![t].pc =
       IF EffectiveCount(seen, p) >= Threshold THEN "restricting" ELSE "counted"]
  /\ UNCHANGED <<product, report, lock, sale, stale, contested>>

\* The report turns visible together with the restriction it causes, which is
\* computed from the row loaded before the lock was taken.
ReportCommit(t) ==
  LET p == thread[t].product  seen == thread[t].seen IN
  /\ \/ At(t, "counted") /\ UNCHANGED <<product, sale, stale>>
     \/ /\ At(t, "restricting")
        /\ Write(p, seen, [status |-> "hidden", previous |-> seen.status])
  /\ report' = [report EXCEPT ![p][thread[t].reporter] = "pending"]
  /\ lock' = Unlocked
  /\ Finish(t)
  /\ UNCHANGED contested

-----------------------------------------------------------------------------
\* A statement or the commit fails (busy_timeout included): rollback.
Fails(t) ==
  /\ ~Idle(t)
  /\ Finish(t)
  /\ lock' = IF lock = t THEN Unlocked ELSE lock
  /\ UNCHANGED <<product, report, sale, stale, contested>>

\* The process dies: SQLite rolls back what was not committed.
Crash ==
  /\ thread' = [t \in Threads |-> Resting]
  /\ lock' = Unlocked
  /\ UNCHANGED <<product, report, sale, stale, contested>>

Begin(t, p) ==
  \/ \E requested \in OnSale : change_product_status(t, p, requested)
  \/ soft_delete_product(t, p)
  \/ admin_hide(t, p) \/ admin_restore(t, p) \/ admin_delete(t, p)
  \/ \E u \in Reporters :
       \/ ReportLoad(t, p, u)
       \/ \E decision \in Decisions : DecideLoad(t, p, u, decision)

Next ==
  \/ \E t \in Threads :
       \/ \E p \in Products : Begin(t, p)
       \/ ProductCommit(t) \/ DecideCommit(t)
       \/ ReportInsert(t) \/ ReportCount(t) \/ ReportCommit(t) \/ Fails(t)
  \/ Crash

Spec == Init /\ [][Next]_vars

-----------------------------------------------------------------------------
(* Properties. *)

ProductRow == [status : OnSale \union {"hidden", "deleted"},
               previous : OnSale \union {"none"}]

\* Rows keep to the CHECK constraints of the products table, so no handler's
\* commit is refused by them.
TypeOK ==
  /\ product \in [Products -> ProductRow]
  /\ report \in [Products -> [Reporters -> Effective \union Decisions \union {"none"}]]
  /\ lock \in Threads \union {Unlocked}
  /\ sale \in [Products -> OnSale] /\ stale \subseteq Products
  /\ \A t \in Threads : "seen" \in DOMAIN thread[t] => thread[t].seen \in ProductRow

Arrives(p) == \E u \in Reporters : report[p][u] = "none" /\ report'[p][u] # "none"

\* The report that makes the threshold takes the product off the market in the
\* same step, however many reports run at once; earlier ones change nothing.
ThresholdNeverMissed ==
  [][\A p \in Products : Arrives(p) =>
       IF EffectiveCount(report', p) >= Threshold
       THEN product'[p].status = "hidden"
       ELSE product'[p] = product[p]]_vars

\* A deleted product stays deleted.
DeletedForEver ==
  [][\A p \in Products :
       product[p].status = "deleted" => product'[p].status = "deleted"]_vars

(* The code keeps the rules below as long as no handler's change rests on a    *)
(* row that another one has replaced meanwhile.                                *)

\* Deletion is final.
DeletedIsFinal ==
  [][\A p \in Products :
       p \notin stale' /\ product[p].status = "deleted" =>
         product'[p].status = "deleted"]_vars

\* Only an administrator's restore brings a hidden product back.
OnlyRestoreUnhides ==
  [][\A p \in Products :
       /\ p \notin stale'
       /\ product[p].status = "hidden" /\ product'[p].status \in OnSale
       => \E t \in Threads : thread[t].op = "restore" /\ thread'[t] = Resting]_vars

\* A hidden product remembers whether it was sold: restoring it puts it back to
\* the status it had when it was last on sale.
HiddenRemembersStatus ==
  \A p \in Products \ stale :
    product[p].status = "hidden" => product[p].previous = sale[p]

\* Requests, locks and transactions come to what ProductLife promises: a product
\* is sold, hidden, restored to what it was and deleted as if each were one step,
\* and a report is decided once, except where two handlers worked on one row.
Life == INSTANCE ProductLife WITH
  status <- [p \in Products |-> product[p].status],
  last <- sale, lost <- stale, disputed <- contested

ImplementsLife == Life!Spec

\* What left the sale comes back by an administrator's restore only, and what was
\* deleted never.
OffSaleStaysOff == DeletedIsFinal /\ OnlyRestoreUnhides
=============================================================================
