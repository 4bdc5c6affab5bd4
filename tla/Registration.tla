---------------------------- MODULE Registration -----------------------------
(***************************************************************************)
(* How accounts come to be: the registration form and flask create-admin.  *)
(* Both look whether the name is free, take their time (scrypt, a prompt), *)
(* and then insert the account, its wallet and, for an administrator, the  *)
(* audit row in one transaction.  The first INSERT takes SQLite's write    *)
(* lock; the UNIQUE constraint decides who gets the name.                  *)
(***************************************************************************)
EXTENDS Integers, Sequences, FiniteSets

CONSTANTS
  Requests,   \* posts of the form and runs of the command
  Names,      \* usernames, stripped and valid
  Nobody

VARIABLES
  users,      \* committed rows
  wallets,    \* names whose account has a wallet row
  audits,     \* names with an 'admin.account_created' row
  writer,     \* the request that holds the write lock, or Nobody
  request

vars == <<users, wallets, audits, writer, request>>

Row(name, role, by) == [name |-> name, role |-> role, by |-> by]

Free(name) == \A u \in users : u.name # name

Resting == [pc |-> "idle"]

Init ==
  /\ users = {} /\ wallets = {} /\ audits = {}
  /\ writer = Nobody
  /\ request = [r \in Requests |-> Resting]

At(r, pc) == request[r].pc = pc

-----------------------------------------------------------------------------
\* Mutant: the administrator is committed before the audit row is added.
Statements_AuditLast(role) ==
  IF role = "admin" THEN <<"users", "wallets", "commit", "audit_logs", "commit">>
  ELSE <<"users", "wallets", "commit">>

\* The statements of the transaction, in the order SQLAlchemy flushes them.
Statements(role) ==
  IF role = "admin" THEN <<"users", "wallets", "audit_logs", "commit">>
  ELSE <<"users", "wallets", "commit">>

\* Mutant: an IntegrityError is not told from other errors.
Caught_Alike(role, unique) == "error"

\* The except clauses; the command makes no difference.
Caught(role, unique) == IF unique /\ role = "user" THEN "duplicate" ELSE "error"

\* users.username is UNIQUE
Unique(name) == Free(name)

\* pending: the rows inserted so far.  failed is history: a statement failed
\* for another reason than the name.
Start(r, name, role) ==
  /\ At(r, "idle")
  /\ request' = [request EXCEPT ![r] =
       [pc |-> IF Free(name) THEN "hashing" ELSE "answer",
        outcome |-> IF Free(name) THEN "none" ELSE "duplicate",
        name |-> name, role |-> role, next |-> 1, pending |-> {}, failed |-> FALSE]]
  /\ UNCHANGED <<users, wallets, audits, writer>>

register_user(r, name) == Start(r, name, "user")
create_admin(r, name) == Start(r, name, "admin")

\* generate_password_hash is through, or the prompt is answered.
Hashed(r) ==
  /\ At(r, "hashing")
  /\ request' = [request EXCEPT ![r].pc = "writing"]
  /\ UNCHANGED <<users, wallets, audits, writer>>

\* The command's passwords differ or are too short.
PromptRefused(r) ==
  /\ At(r, "hashing") /\ request[r].role = "admin"
  /\ request' = [request EXCEPT ![r].pc = "answer", ![r].outcome = "refused"]
  /\ UNCHANGED <<users, wallets, audits, writer>>

Current(r) == Statements(request[r].role)[request[r].next]

\* One INSERT.  The first waits for the write lock.
Insert(r) ==
  /\ At(r, "writing") /\ Current(r) # "commit"
  /\ writer \in {Nobody, r}
  /\ Current(r) = "users" => Unique(request[r].name)
  /\ writer' = r
  /\ request' = [request EXCEPT ![r].next = @ + 1, ![r].pending = @ \union {Current(r)}]
  /\ UNCHANGED <<users, wallets, audits>>

\* A result other than created comes with a rollback.
RollBack(r, outcome, failed) ==
  /\ request' = [request EXCEPT ![r].pc = "answer", ![r].outcome = outcome,
                                ![r].pending = {}, ![r].failed = failed]
  /\ writer' = IF writer = r THEN Nobody ELSE writer
  /\ UNCHANGED <<users, wallets, audits>>

NameTaken(r) ==
  /\ At(r, "writing") /\ Current(r) = "users"
  /\ writer \in {Nobody, r}
  /\ ~Unique(request[r].name)
  /\ RollBack(r, Caught(request[r].role, TRUE), FALSE)

\* Any statement: disk, or another writer for longer than busy_timeout.
StatementFails(r) ==
  /\ At(r, "writing")
  /\ RollBack(r, Caught(request[r].role, FALSE), TRUE)

Commit(r) ==
  LET q == request[r]
      Done(table) == IF table \in q.pending THEN {q.name} ELSE {}
      last == q.next = Len(Statements(q.role))
  IN
  /\ At(r, "writing") /\ Current(r) = "commit"
  /\ users' = users \union IF "users" \in q.pending THEN {Row(q.name, q.role, r)} ELSE {}
  /\ wallets' = wallets \union Done("wallets")
  /\ audits' = audits \union Done("audit_logs")
  /\ writer' = Nobody
  /\ request' = [request EXCEPT ![r].next = @ + 1, ![r].pending = {},
                                ![r].pc = IF last THEN "answer" ELSE "writing",
                                ![r].outcome = IF last THEN "created" ELSE "none"]

\* The answer is sent, or the process is killed, whatever it was doing.
End(r) ==
  /\ ~At(r, "idle")
  /\ request' = [request EXCEPT ![r] = Resting]
  /\ writer' = IF writer = r THEN Nobody ELSE writer
  /\ UNCHANGED <<users, wallets, audits>>

Next ==
  \E r \in Requests :
    \/ \E name \in Names : register_user(r, name) \/ create_admin(r, name)
    \/ Hashed(r) \/ PromptRefused(r) \/ Insert(r) \/ NameTaken(r) \/ StatementFails(r)
    \/ Commit(r) \/ End(r)

Spec == Init /\ [][Next]_vars

-----------------------------------------------------------------------------
(* Properties. *)

\* However many requests found a name free, one account has it.
NameOnce == \A u, v \in users : u.name = v.name => u = v

\* No failure and no crash leaves an account without its wallet, a wallet
\* without its account, or an administrator nobody can find in the audit log.
AccountIsWhole ==
  /\ wallets = {u.name : u \in users}
  /\ audits = {u.name : u \in {v \in users : v.role = "admin"}}

\* What is answered is so: created means by this request, a duplicate is one, and
\* whoever loses the race for a name on the form learns that, not of an error.
AnswerIsTrue ==
  \A r \in Requests : At(r, "answer") =>
    LET q == request[r]  mine == \E u \in users : u.name = q.name /\ u.by = r IN
    /\ q.outcome = "created" => mine
    /\ q.outcome = "duplicate" => ~Free(q.name)
    /\ q.outcome \in {"error", "refused"} => ~mine
    /\ q.outcome = "error" /\ q.role = "user" => q.failed

\* A name has one account at most, and the account is whole.
OneWholeAccount == NameOnce /\ AccountIsWhole
=============================================================================
