------------------------------- MODULE Wallet -------------------------------
(***************************************************************************)
(* Point transfers between users: wallet/routes.py transfer_form and       *)
(* transfer_submit, wallet/services.py create_transfer, over SQLite.       *)
(*                                                                         *)
(* A request thread runs                                                   *)
(*    admit -> BEGIN IMMEDIATE -> checks -> INSERT -> debit -> credit ->   *)
(*    audit + COMMIT -> answer                                             *)
(* and other threads run between any two of its statements.  `lock' is     *)
(* SQLite's single write lock, `work' the database as its holder sees it;  *)
(* everybody else sees balance, transfers and audits.                      *)
(***************************************************************************)
EXTENDS Integers, Sequences, FiniteSets, Functions

CONSTANTS
  Users,        \* user accounts; each one has a wallet from registration on
  Requests,     \* request threads of the server
  NoRequest,    \* nobody holds the write lock
  NoUser,       \* a recipient name no account has
  Opening,      \* what each wallet holds at first (100000 at registration, and
                \* anything once transfers have been made)
  MinAmount, MaxAmount,  \* TRANSFER_MIN_AMOUNT, TRANSFER_MAX_AMOUNT
  MaxTokens     \* bound: idempotency tokens the server hands out

ASSUME RequestAssumption == NoRequest \notin Requests
ASSUME UserAssumption == NoUser \notin Users
ASSUME AmountAssumption ==
  /\ MinAmount \in Nat \ {0} /\ MaxAmount \in Nat
  /\ Opening \in [Users -> Nat] /\ MaxTokens \in Nat

VARIABLES
  balance, transfers, audits,  \* committed Wallet, Transfer and AuditLog rows
  status,      \* User.status
  lock,        \* request inside BEGIN IMMEDIATE, or NoRequest
  work,        \* the tables as the write transaction sees them
  req,         \* request threads
  form,        \* the token in the form each user's browser shows; 0: no form
  intent,      \* history: intent[t] is what the user means to pay for with
               \* token t.  The server never sees it.
  misled       \* history: what a user was told no about although it had been
               \* paid, or another request for it was still under way

db == <<balance, transfers, audits>>
vars == <<balance, transfers, audits, status, lock, work, req, form, intent, misled>>

Amounts == MinAmount .. MaxAmount
Typed == (MinAmount - 1) .. MaxAmount   \* what the amount field may hold
Tokens == 1 .. MaxTokens
Keys == Users \X Tokens

Outcomes == {"created", "idempotent", "conflict", "self", "unavailable",
             "password", "funds", "error", "invalid", "login"}

Refusals == {"conflict", "self", "unavailable", "password", "funds", "invalid"}

(* wallet/policy.py: SHA-256 over sender and token is injective. *)
derive_idempotency_key(r) == <<req[r].sender, req[r].token>>

Row(r) == [sender |-> req[r].sender, recipient |-> req[r].to,
           amount |-> req[r].amount, key |-> derive_idempotency_key(r)]

Committed == [balance |-> balance, transfers |-> transfers, audits |-> audits]

-----------------------------------------------------------------------------
(* Client side: the form in the browser. *)

Idle == [pc |-> "idle", sender |-> NoUser, to |-> NoUser, amount |-> 0,
         token |-> 0, correct |-> FALSE, outcome |-> "none"]

Init ==
  /\ balance = Opening
  /\ transfers = << >> /\ audits = {}
  /\ status = [u \in Users |-> "active"]
  /\ lock = NoRequest
  /\ work = Committed
  /\ req = [r \in Requests |-> Idle]
  /\ form = [u \in Users |-> 0]
  /\ intent = << >> /\ misled = {}

\* secrets.token_urlsafe: never handed out before.
NewToken(u, purpose) ==
  /\ Len(intent) < MaxTokens
  /\ intent' = Append(intent, purpose)
  /\ form' = [form EXCEPT ![u] = Len(intent) + 1]

\* GET /wallet/transfer: a fresh form for something new to pay for.
transfer_form(u) ==
  /\ status[u] = "active"
  /\ NewToken(u, Len(intent) + 1)
  /\ UNCHANGED <<db, status, lock, work, req, misled>>

\* The browser posts the form it shows: the first time, on a double click, to
\* resend after a lost answer, or after going back to edit the fields.
Submit(u, r, to, amount, correct) ==
  /\ form[u] # 0
  /\ req[r].pc = "idle"
  /\ req' = [req EXCEPT ![r] =
       [pc |-> "received", sender |-> u, to |-> to, amount |-> amount,
        token |-> form[u], correct |-> correct, outcome |-> "none"]]
  /\ UNCHANGED <<db, status, lock, work, form, intent, misled>>

-----------------------------------------------------------------------------
(* Server side: steps of one request thread. *)

Goto(r, pc) == req' = [req EXCEPT ![r].pc = pc]

Reply(r, outcome) ==
  req' = [req EXCEPT ![r].pc = "answering", ![r].outcome = outcome]

Rollback == lock' = NoRequest /\ work' = Committed

\* login_required, then the form's validators.
Admit(r) ==
  /\ req[r].pc = "received"
  /\ \/ status[req[r].sender] # "active" /\ Reply(r, "login")
     \/ /\ status[req[r].sender] = "active"
        /\ IF req[r].amount \in Amounts THEN Goto(r, "admitted")
                                        ELSE Reply(r, "invalid")
  /\ UNCHANGED <<db, status, lock, work, form, intent, misled>>

\* Mutant: plain BEGIN, the lock comes with the first write only.
LockFree_Deferred == TRUE

LockFree == lock = NoRequest

Begin(r) ==
  /\ req[r].pc = "admitted"
  /\ LockFree
  /\ lock' = r
  /\ work' = Committed
  /\ Goto(r, "begun")
  /\ UNCHANGED <<db, status, form, intent, misled>>

\* Mutant: waits for the lock as long as it takes.
Busy_Never(r) == FALSE

\* PRAGMA busy_timeout expires while another thread holds the lock.
Busy(r) ==
  /\ req[r].pc = "admitted"
  /\ lock # NoRequest
  /\ Reply(r, "error")
  /\ UNCHANGED <<db, status, lock, work, form, intent, misled>>

existing_transfer(r) ==
  {i \in DOMAIN work.transfers :
     work.transfers[i].key = derive_idempotency_key(r)}

\* Mutant: the key alone identifies the request.
SamePayload_KeyOnly(r) == existing_transfer(r) # {}

SamePayload(r) == \E i \in existing_transfer(r) : work.transfers[i] = Row(r)

\* Mutant: an early return without db.session.rollback().
Abort_KeepsLock(r, outcome) == Reply(r, outcome) /\ UNCHANGED <<lock, work>>

\* _rollback_outcome
Abort(r, outcome) == Rollback /\ Reply(r, outcome)

Authentic(r) == status[req[r].sender] = "active" /\ req[r].correct

\* The reads of create_transfer after BEGIN, in their order of precedence.
Check(r) ==
  /\ req[r].pc = "begun"
  /\ \/ ~Authentic(r) /\ Abort(r, "password")
     \/ /\ Authentic(r)
        /\ \/ req[r].to \notin Users /\ Abort(r, "unavailable")
           \/ /\ req[r].to \in Users
              /\ \/ /\ existing_transfer(r) # {}
                    /\ Abort(r, IF SamePayload(r) THEN "idempotent" ELSE "conflict")
                 \/ /\ existing_transfer(r) = {}
                    /\ \/ req[r].to = req[r].sender /\ Abort(r, "self")
                       \/ /\ req[r].to # req[r].sender
                          /\ \/ status[req[r].to] # "active" /\ Abort(r, "unavailable")
                             \/ /\ status[req[r].to] = "active"
                                /\ Goto(r, "checked")
                                /\ UNCHANGED <<lock, work>>
  /\ UNCHANGED <<db, status, form, intent, misled>>

\* db.session.flush(): the row reserves the key inside the transaction.
Insert(r) ==
  /\ req[r].pc = "checked"
  /\ work' = [work EXCEPT !.transfers = Append(@, Row(r))]
  /\ Goto(r, "inserted")
  /\ UNCHANGED <<db, status, lock, form, intent, misled>>

\* Mutant: UPDATE without "balance >= amount".
CanDebit_Unconditional(r) == status[req[r].sender] = "active"

CanDebit(r) ==
  /\ work.balance[req[r].sender] >= req[r].amount
  /\ status[req[r].sender] = "active"

\* UPDATE ... WHERE balance >= amount AND sender active; rowcount decides.
debit_sender(r) ==
  /\ req[r].pc = "inserted"
  /\ \/ ~CanDebit(r) /\ Abort(r, "funds")
     \/ /\ CanDebit(r)
        /\ work' = [work EXCEPT !.balance[req[r].sender] = @ - req[r].amount]
        /\ Goto(r, "debited")
        /\ UNCHANGED lock
  /\ UNCHANGED <<db, status, form, intent, misled>>

CanCredit(r) == status[req[r].to] = "active"

\* The ELSE branch is dead: CanCredit was checked under the same lock.
credit_recipient(r) ==
  /\ req[r].pc = "debited"
  /\ IF CanCredit(r)
     THEN /\ work' = [work EXCEPT !.balance[req[r].to] = @ + req[r].amount]
          /\ Goto(r, "credited")
          /\ UNCHANGED lock
     ELSE Abort(r, "unavailable")
  /\ UNCHANGED <<db, status, form, intent, misled>>

\* add_audit_log for the row, as the write transaction's last statement.
Audited == work.audits \union {Len(work.transfers)}

\* COMMIT.  An exception raised after it became durable is answered as an
\* error like any other: the thread cannot tell.
Commit(r) ==
  /\ req[r].pc = "credited"
  /\ balance' = work.balance
  /\ transfers' = work.transfers
  /\ audits' = Audited
  /\ work' = [work EXCEPT !.audits = Audited]
  /\ lock' = NoRequest
  /\ \/ Reply(r, "created")
     \/ Reply(r, "error")
  /\ UNCHANGED <<status, form, intent, misled>>

InTransaction(r) ==
  req[r].pc \in {"begun", "checked", "inserted", "debited", "credited"}

\* Mutant: each statement commits by itself, the failing one undoes nothing.
Fault_Autocommit(r) ==
  /\ InTransaction(r)
  /\ balance' = work.balance /\ transfers' = work.transfers /\ audits' = work.audits
  /\ lock' = NoRequest
  /\ Reply(r, "error")
  /\ UNCHANGED <<status, work, form, intent, misled>>

\* Any statement, or COMMIT itself, fails: rollback, DATABASE_ERROR.
Fault(r) ==
  /\ InTransaction(r)
  /\ Abort(r, "error")
  /\ UNCHANGED <<db, status, form, intent, misled>>

\* What the browser shows after the answer: the detail page or the login page,
\* the same form under the same token, or the form under a new token.
\* Mutant first: every failed attempt gets a new token.
Rotates_Always(outcome) == outcome \in Refusals \union {"error"}

Rotates(outcome) == outcome \in Refusals

\* A refusal, where the token has paid or another request may still make it pay.
Misleading(r) ==
  /\ req[r].outcome \in Refusals
  /\ \/ \E i \in DOMAIN transfers : transfers[i].key = derive_idempotency_key(r)
     \/ \E s \in Requests \ {r} :
          req[s].pc # "idle" /\ derive_idempotency_key(s) = derive_idempotency_key(r)

\* In a form that comes back under a new token the user tries the same payment
\* again (the password was mistyped, say), or gives up and enters another one.
Deliver(r) ==
  LET u == req[r].sender  outcome == req[r].outcome
      purpose == intent[req[r].token] IN
  /\ req[r].pc = "answering"
  /\ IF Rotates(outcome)
     THEN NewToken(u, purpose) \/ NewToken(u, Len(intent) + 1)
     ELSE /\ form' = [form EXCEPT ![u] =
               IF outcome = "error" THEN req[r].token ELSE 0]
          /\ UNCHANGED intent
  /\ misled' = IF Misleading(r) THEN misled \union {purpose} ELSE misled
  /\ req' = [req EXCEPT ![r] = Idle]
  /\ UNCHANGED <<db, status, lock, work>>

\* The answer never arrives; the browser still shows the old form.
Lose(r) ==
  /\ req[r].pc = "answering"
  /\ req' = [req EXCEPT ![r] = Idle]
  /\ UNCHANGED <<db, status, lock, work, form, intent, misled>>

Serve(r) ==
  \/ Admit(r) \/ Begin(r) \/ Busy(r) \/ Check(r) \/ Insert(r)
  \/ debit_sender(r) \/ credit_recipient(r) \/ Commit(r)
  \/ Deliver(r) \/ Lose(r)

-----------------------------------------------------------------------------
(* The rest of the system. *)

\* An administrator or an automatic suspension commits a status change; like
\* every writer it waits for the write lock.
ChangeStatus(u) ==
  /\ LockFree
  /\ status' = [status EXCEPT ![u] =
       IF @ = "active" THEN "dormant" ELSE "active"]
  /\ UNCHANGED <<db, lock, work, req, form, intent, misled>>

\* The process dies: threads vanish without an answer, SQLite rolls back.
Crash ==
  /\ req' = [r \in Requests |-> Idle]
  /\ Rollback
  /\ UNCHANGED <<db, status, form, intent, misled>>

Next ==
  \/ \E u \in Users : transfer_form(u) \/ ChangeStatus(u)
  \/ \E u \in Users, r \in Requests, to \in Users \union {NoUser},
        amount \in Typed, correct \in BOOLEAN : Submit(u, r, to, amount, correct)
  \/ \E r \in Requests : Serve(r) \/ Fault(r)
  \/ Crash

Spec == Init /\ [][Next]_vars

\* Server threads run and the browser's connection ends one way or the other;
\* nobody is obliged to submit, fail or crash.
Fairness == \A r \in Requests : WF_vars(Serve(r))

-----------------------------------------------------------------------------
(* Properties. *)

PCs == {"idle", "received", "admitted", "begun", "checked", "inserted",
        "debited", "credited", "answering"}

TransferRow == [sender : Users, recipient : Users, amount : Amounts, key : Keys]

Request ==
  [pc : PCs, sender : Users \union {NoUser}, to : Users \union {NoUser},
   amount : Typed \union {0}, token : 0 .. MaxTokens,
   correct : BOOLEAN, outcome : Outcomes \union {"none"}]

\* Type invariant of rows, write transaction, request threads and forms.
TypeOK ==
  /\ balance \in [Users -> Nat]
  /\ transfers \in Seq(TransferRow)
  /\ audits \in SUBSET Nat
  /\ status \in [Users -> {"active", "dormant"}]
  /\ lock \in Requests \union {NoRequest}
  /\ work \in [balance : [Users -> Nat], transfers : Seq(TransferRow),
               audits : SUBSET Nat]
  /\ req \in [Requests -> Request]
  /\ form \in [Users -> 0 .. MaxTokens]
  /\ intent \in Seq(Tokens)
  /\ Len(intent) <= MaxTokens
  /\ misled \subseteq Tokens

\* An idempotency key is spent at most once, however often and however
\* concurrently its form is posted, so INSERT never meets the UNIQUE
\* constraint and create_transfer's IntegrityError branch has nothing to do.
OneTransferPerKey ==
  \A i, j \in DOMAIN work.transfers :
    work.transfers[i].key = work.transfers[j].key => i = j

\* Two committed rows that pay for the same thing.
PaidTwice(i, j) ==
  /\ i # j
  /\ transfers[i].sender = transfers[j].sender
  /\ intent[transfers[i].key[2]] = intent[transfers[j].key[2]]

\* A payment the user wants once is made once, also when it takes several
\* tokens: after "error" and a lost answer he tries again under the same one,
\* which may have paid, and gets a new one for the same payment only with a
\* refusal (wallet/routes.py), when the old one no longer can.  The exception is
\* a refusal that comes when the old one has paid or still can.
IntentPaidOnce ==
  \A i, j \in DOMAIN transfers :
    PaidTwice(i, j) => intent[transfers[i].key[2]] \in misled


\* Sum of the amounts of the transfers in which u plays a part.
Moved(u, part) ==
  SumFunctionOnSet([i \in DOMAIN transfers |-> transfers[i].amount],
                   {i \in DOMAIN transfers : transfers[i][part] = u})

\* The books balance after every step of every interleaving, crash and fault:
\* each wallet holds its opening balance plus what it received minus what it
\* sent, and each transfer has its audit row.
Books ==
  /\ \A u \in Users :
       balance[u] = Opening[u] + Moved(u, "recipient") - Moved(u, "sender")
  /\ audits = DOMAIN transfers

Answered(r, outcomes) == req[r].pc = "answering" /\ req[r].outcome \in outcomes

\* What the user is told is so: success means the very transfer asked for is
\* committed, a conflict that the key paid for something else.
TruthfulAnswer ==
  \A r \in Requests :
    /\ Answered(r, {"created", "idempotent"}) =>
         \E i \in DOMAIN transfers : transfers[i] = Row(r)
    /\ Answered(r, {"conflict"}) =>
         \E i \in DOMAIN transfers :
           /\ transfers[i].key = derive_idempotency_key(r)
           /\ transfers[i] # Row(r)

\* Every committed step is a transfer of the abstract ledger, a status change,
\* or invisible: no crash, fault, retry or interleaving shows half a transfer.
L == INSTANCE Ledger WITH
       balance <- balance, transfers <- transfers, status <- status
ImplementsLedger == L!Spec

\* Every way out of create_transfer ends the write transaction it began, so
\* other writers never wait for ever.
LockReleased == lock # NoRequest ~> lock = NoRequest

\* Every request gets its answer, also when the lock is always taken by others
\* just before it: busy_timeout turns waiting into an error.
RequestsAnswered ==
  \A r \in Requests : req[r].pc = "received" ~> req[r].pc = "idle"
=============================================================================
