----------------------------- MODULE Migrations ------------------------------
(***************************************************************************)
(* flask db upgrade and flask db downgrade over the six revisions of       *)
(* migrations/versions, statement by statement, against a SQLite file that *)
(* holds rows and may be in use.                                           *)
(*                                                                         *)
(* SQLite can take DDL back, but Python's sqlite3 opens a transaction only *)
(* at the first INSERT, UPDATE or DELETE; what comes before it commits by  *)
(* itself.  Alembic commits once per revision, after it has written the    *)
(* revision's number.  batch_alter_table builds a second table, copies the *)
(* rows, drops the first and renames.  app/extensions.py switches foreign  *)
(* keys on for every connection, these included, and so DROP TABLE deletes *)
(* the rows first, with all that cascades from them.                       *)
(***************************************************************************)
EXTENDS Integers, Sequences, FiniteSets, SequencesExt

CONSTANTS
  Written,     \* bound: kinds of rows the application writes
  MaxStops     \* bound: commands that are interrupted

VARIABLES
  db,      \* committed: schema (names of tables, columns, constraints, indexes),
           \* stamp (how many revisions alembic_version says were applied),
           \* rows (the kinds of rows there are); of batch_alter_table: second
           \* (the tables with an _alembic_tmp_ table), copied (rows in the last one)
  cmd,     \* the running command, if any
  stops,   \* interrupted commands so far
  torn     \* history: a command that commits by itself was cut off half way

vars == <<db, cmd, stops, torn>>

-----------------------------------------------------------------------------
(* The revisions *)

Create(t, parts) == [do |-> "create", of |-> t, add |-> {t} \union parts, del |-> {}]
DropTable(t, parts) == [do |-> "drop", of |-> t, add |-> {}, del |-> {t} \union parts]
Index(i) == [do |-> "ddl", of |-> i, add |-> {i}, del |-> {}]
DropIndex(i) == [do |-> "ddl", of |-> i, add |-> {}, del |-> {i}]

\* op.batch_alter_table: add and del are the columns and constraints of t.
Batch(t, add, del) ==
  LET Part(do) == [do |-> do, of |-> t, add |-> add, del |-> del]
  IN <<Part("tmp"), Part("copy"), Part("replace")>>

Tables == <<"users", "audit_logs", "direct_conversations", "products", "reports",
            "transfers", "wallets", "chat_messages">>

\* What later revisions take away again.
FirstParts(t) ==
  CASE t = "products" -> {"ck_products_price_positive"}
    [] t = "transfers" -> {"ck_transfers_amount_positive"}
    [] OTHER -> {}

Foundation == [i \in 1 .. Len(Tables) |-> Create(Tables[i], FirstParts(Tables[i]))]

NoFoundation ==
  LET Dropped == <<"chat_messages", "wallets", "transfers", "reports", "products",
                   "direct_conversations", "audit_logs", "users">>
  IN [i \in 1 .. Len(Dropped) |-> DropTable(Dropped[i], FirstParts(Dropped[i]))]

AuthVersion == {"auth_version", "ck_users_auth_version_positive"}

AddAuthVersion == Batch("users", AuthVersion, {})
RemoveAuthVersion == Batch("users", {}, AuthVersion)

ProductChecks == {"ck_products_price_range", "uq_products_image_filename"}

AddProductConstraints ==
  Batch("products", ProductChecks, {"ck_products_price_positive"})
  \o <<Index("ix_products_public_status_created"),
       Index("ix_products_seller_status_updated"), Index("ix_products_price")>>

RemoveProductConstraints ==
  <<DropIndex("ix_products_price"), DropIndex("ix_products_seller_status_updated"),
    DropIndex("ix_products_public_status_created")>>
  \o Batch("products", {"ck_products_price_positive"}, ProductChecks)

ChatIndexes == <<"ix_chat_messages_conversation_visible_created",
                 "ix_chat_messages_sender_created",
                 "ix_direct_conversations_user1_created",
                 "ix_direct_conversations_user2_created">>

\* Mutant: the indexes first.
AddChatConstraints_IndexFirst ==
  [i \in 1 .. Len(ChatIndexes) |-> Index(ChatIndexes[i])]
  \o Batch("chat_messages", {"ck_chat_messages_is_hidden_boolean"}, {})

AddChatConstraints ==
  Batch("chat_messages", {"ck_chat_messages_is_hidden_boolean"}, {})
  \o [i \in 1 .. Len(ChatIndexes) |-> Index(ChatIndexes[i])]

RemoveChatConstraints ==
  [i \in 1 .. Len(ChatIndexes) |-> DropIndex(Reverse(ChatIndexes)[i])]
  \o Batch("chat_messages", {}, {"ck_chat_messages_is_hidden_boolean"})

Previous == {"moderation_previous_status", "ck_products_moderation_previous_status"}
Review == {"reviewed_by_id", "reviewed_at", "updated_at",
           "fk_reports_reviewed_by_id_users", "ck_reports_review_consistency"}
AuditChecks == {"ck_audit_logs_action_length", "ck_audit_logs_target_type_length"}

AddModeration ==
  Batch("products", Previous, {}) \o Batch("reports", Review, {})
  \o <<Index("ix_reports_target_status_created"), Index("ix_reports_reporter_created")>>
  \o Batch("audit_logs", AuditChecks, {})
  \o <<Index("ix_audit_logs_created"), Index("ix_audit_logs_actor_created"),
       Index("ix_audit_logs_target_created")>>

RemoveModeration ==
  <<DropIndex("ix_audit_logs_target_created"), DropIndex("ix_audit_logs_actor_created"),
    DropIndex("ix_audit_logs_created")>>
  \o Batch("audit_logs", {}, AuditChecks)
  \o <<DropIndex("ix_reports_reporter_created"),
       DropIndex("ix_reports_target_status_created")>>
  \o Batch("reports", {}, Review) \o Batch("products", {}, Previous)

TransferChecks == {"ck_transfers_amount_range", "ck_transfers_idempotency_key_format"}
TransferIndexes == <<"ix_transfers_sender_created", "ix_transfers_recipient_created">>

AddTransferConstraints ==
  Batch("transfers", TransferChecks, {"ck_transfers_amount_positive"})
  \o [i \in 1 .. 2 |-> Index(TransferIndexes[i])]

\* Mutant: one of the two indexes stays.
RemoveTransferConstraints_OneIndex ==
  <<DropIndex(TransferIndexes[1])>>
  \o Batch("transfers", {"ck_transfers_amount_positive"}, TransferChecks)

RemoveTransferConstraints ==
  [i \in 1 .. 2 |-> DropIndex(Reverse(TransferIndexes)[i])]
  \o Batch("transfers", {"ck_transfers_amount_positive"}, TransferChecks)

Upgrades == <<Foundation, AddAuthVersion, AddProductConstraints, AddChatConstraints,
              AddModeration, AddTransferConstraints>>
Downgrades == <<NoFoundation, RemoveAuthVersion, RemoveProductConstraints,
                RemoveChatConstraints, RemoveModeration, RemoveTransferConstraints>>
Latest == Len(Upgrades)

-----------------------------------------------------------------------------
(* Rows, by kind *)

Referring == {"wallets", "products", "transfers", "reports", "chat_messages",
              "direct_conversations", "audit_logs"}

\* "decided" are reports with another status than pending.
RowsOf(t) == IF t = "reports" THEN {"reports", "decided"} ELSE {t}

\* Foreign keys to users: ON DELETE CASCADE and ON DELETE RESTRICT (SET NULL
\* keeps the audit rows).  No other table is dropped before what refers to it.
Cascading == {"wallets", "direct_conversations", "reports", "decided", "chat_messages"}
Restricting == {"products", "transfers"}

\* DROP TABLE with foreign keys on.
Dropped(rows, t) == rows \ (RowsOf(t) \union (IF t = "users" THEN Cascading ELSE {}))

-----------------------------------------------------------------------------
(* One statement *)

\* A statement fails on a name that is there already or is not there, on rows
\* the new constraint does not admit, on rows that restrict a DROP.  The copied
\* reports have no reviewer, whatever became of the one they had.
Fails(s, d) ==
  \/ s.do \in {"create", "ddl"} /\ s.add \intersect d.schema # {}
  \/ s.do \in {"drop", "ddl"} /\ ~ s.del \subseteq d.schema
  \/ s.do = "tmp" /\ (s.of \in d.second \/ ~ s.del \subseteq d.schema
                      \/ s.of \notin d.schema)
  \/ s.do = "copy" /\ "ck_reports_review_consistency" \in s.add /\ "decided" \in d.rows
  \/ s.do \in {"drop", "replace"} /\ s.of = "users" /\ d.rows \intersect Restricting # {}

\* Mutant: the rows are not copied.
Copied_Nothing(s, d) == {}

Copied(s, d) == d.rows \intersect RowsOf(s.of)

Applied(s, d) ==
  CASE s.do \in {"create", "ddl"} ->
         [d EXCEPT !.schema = (@ \ s.del) \union s.add]
    [] s.do = "drop" ->
         [d EXCEPT !.schema = @ \ s.del, !.rows = Dropped(@, s.of)]
    [] s.do = "tmp" -> [d EXCEPT !.second = @ \union {s.of}]
    [] s.do = "copy" -> [d EXCEPT !.copied = Copied(s, d)]
    [] s.do = "replace" ->
         [d EXCEPT !.schema = (@ \ s.del) \union s.add, !.second = @ \ {s.of},
                   !.rows = Dropped(@, s.of) \union d.copied, !.copied = {}]

\* DML, which opens a transaction.
Opens(s) == s.do = "copy"

-----------------------------------------------------------------------------
(* The commands *)

NoDatabase == [schema |-> {}, stamp |-> 0, rows |-> {}, second |-> {}, copied |-> {}]

NoCommand == [dir |-> "none"]

Init ==
  /\ db = NoDatabase
  /\ cmd = NoCommand
  /\ stops = 0 /\ torn = FALSE

Idle == cmd.dir = "none"

\* rev is the revision that is applied or taken back; open says whether there is
\* a transaction, work is the database as it sees it.  History: hindered, there
\* was something left of an earlier command.
Revision(dir, to, d) ==
  [dir |-> dir, to |-> to, rev |-> IF dir = "up" THEN d.stamp + 1 ELSE d.stamp,
   pc |-> 1, open |-> FALSE, work |-> NoDatabase,
   hindered |-> torn \/ d.second # {}]

\* flask db upgrade
upgrade ==
  /\ Idle /\ db.stamp < Latest
  /\ cmd' = Revision("up", Latest, db)
  /\ UNCHANGED <<db, stops, torn>>

\* flask db downgrade <revision>
downgrade(to) ==
  /\ Idle /\ to < db.stamp
  /\ cmd' = Revision("down", to, db)
  /\ UNCHANGED <<db, stops, torn>>

Program == IF cmd.dir = "up" THEN Upgrades[cmd.rev] ELSE Downgrades[cmd.rev]

\* The database as the next statement finds it.
Seen == IF cmd.open THEN cmd.work ELSE db

\* In a transaction the statement is committed later, outside of one at once.
Statement ==
  /\ ~Idle /\ cmd.pc <= Len(Program)
  /\ LET s == Program[cmd.pc]  next == Applied(s, Seen) IN
     /\ ~Fails(s, Seen)
     /\ IF cmd.open \/ Opens(s)
        THEN /\ cmd' = [cmd EXCEPT !.pc = @ + 1, !.open = TRUE, !.work = next]
             /\ UNCHANGED db
        ELSE /\ cmd' = [cmd EXCEPT !.pc = @ + 1]
             /\ db' = next
  /\ UNCHANGED <<stops, torn>>

\* alembic_version, COMMIT, and the next revision.
CommitRevision ==
  LET stamp == IF cmd.dir = "up" THEN cmd.rev ELSE cmd.rev - 1 IN
  /\ ~Idle /\ cmd.pc > Len(Program)
  /\ db' = [Seen EXCEPT !.stamp = stamp]
  /\ cmd' = IF stamp = cmd.to THEN NoCommand ELSE Revision(cmd.dir, cmd.to, db')
  /\ UNCHANGED <<stops, torn>>

\* History: more than an empty second table was committed before the transaction.
Torn ==
  torn \/ \E i \in 1 .. cmd.pc - 1 :
            /\ Program[i].do # "tmp"
            /\ \A j \in 1 .. i : ~Opens(Program[j])

\* A statement fails: the command ends, its transaction is rolled back, and with
\* it the DROP of the second table that alembic tries.
StatementFails ==
  /\ ~Idle /\ cmd.pc <= Len(Program) /\ Fails(Program[cmd.pc], Seen)
  /\ cmd' = NoCommand
  /\ torn' = Torn
  /\ UNCHANGED <<db, stops>>

\* The machine stops, or the file is locked for longer than busy_timeout.
Interrupted ==
  /\ ~Idle /\ stops < MaxStops
  /\ stops' = stops + 1
  /\ cmd' = NoCommand
  /\ torn' = Torn
  /\ UNCHANGED db

-----------------------------------------------------------------------------
\* The application works wherever it finds the columns its models name; it need
\* not be stopped for a migration, and waits for its transactions only.
Usable == {"users", "wallets", "auth_version", "moderation_previous_status",
           "reviewed_by_id"} \subseteq db.schema

Locked == ~Idle /\ cmd.open

\* An account comes with its wallet; everything else refers to an account, and
\* a decision to a report.
Write(k) ==
  /\ Usable /\ ~Locked /\ k \notin db.rows
  /\ k \in Referring => "users" \in db.rows
  /\ k = "decided" => "reports" \in db.rows
  /\ db' = [db EXCEPT !.rows = @ \union (IF k = "users" THEN {"users", "wallets"} ELSE {k})]
  /\ UNCHANGED <<cmd, stops, torn>>

Next ==
  \/ upgrade \/ \E to \in 0 .. Latest : downgrade(to)
  \/ Statement \/ CommitRevision \/ StatementFails \/ Interrupted
  \/ \E k \in Written : Write(k)

Spec == Init /\ [][Next]_vars

-----------------------------------------------------------------------------
(* Properties. *)

\* What the first n revisions leave of an empty file: what one of them adds and
\* no later one takes away.
Given(n) == UNION {s.add : s \in ToSet(Upgrades[n])}
Taken(n) == UNION {s.del : s \in ToSet(Upgrades[n])}
SchemaAt(n) == UNION {Given(m) \ UNION {Taken(k) : k \in m + 1 .. n} : m \in 1 .. n}

\* The schema is the one alembic_version tells: an upgrade of an existing file
\* is done as a whole or not at all, except for an empty second table, and a
\* downgrade takes back exactly what the upgrade did.  Only commands that commit
\* statement by statement, the first revision and every downgrade that begins
\* with DROP INDEX or DROP TABLE, can be cut off half way.
StampTellsSchema ==
  ~torn /\ (Idle \/ (cmd.dir = "up" /\ cmd.rev > 1)) =>
    db.schema = SchemaAt(db.stamp)

\* A command gives up for one of these reasons only: something is left of an
\* interrupted one, the reports that are decided have lost their reviewers in a
\* downgrade, or products and payments hold on to the table of users.
FailureHasCause ==
  [][StatementFails =>
       \/ cmd.hindered
       \/ cmd.rev = 5 /\ "decided" \in db.rows
       \/ cmd.rev = 2 /\ db.rows \intersect Restricting # {}]_vars

\* No row is lost on the way, but for what the removal of the tables takes, and
\* what refers to users when revision 2 rebuilds that table, in either direction.
RowsSurvive ==
  [][LET lost == db.rows \ db'.rows IN
       lost # {} => \/ cmd.rev = 2 /\ lost \subseteq Cascading
                    \/ cmd.rev = 1 /\ cmd.dir = "down"]_vars
=============================================================================
