------------------------------- MODULE ChatPage -------------------------------
(***************************************************************************)
(* A room as a reader sees it: the history a chat page is rendered from    *)
(* (chat/routes.py, chat/services.py get_message_history), the live        *)
(* messages chat.js adds to it, and the administrators' hide and show      *)
(* (admin/services.py change_message_visibility).                          *)
(*                                                                         *)
(* A page is rendered before its socket joins the room, a message is       *)
(* committed before it is emitted, and the two overlap in every way.       *)
(* Who may join and send is Chat's subject; this room has one audience.    *)
(***************************************************************************)
EXTENDS Integers, Sequences, FiniteSets, SequencesExt

CONSTANTS
  Threads,      \* server threads
  Tabs,         \* browser tabs that show the room
  PerPage,      \* CHAT_HISTORY_PER_PAGE
  MaxNodes,     \* live nodes chat.js keeps
  MaxMessages, MaxDecisions     \* bounds

ASSUME PageAssumption ==
  /\ PerPage \in Nat \ {0} /\ MaxNodes \in Nat /\ PerPage <= MaxNodes
  /\ MaxMessages \in Nat

VARIABLES
  stamped,    \* messages that were given their created_at.  A message is known
              \* by its place in the order of created_at and id
  rows,       \* committed ChatMessage rows
  hidden,     \* those with is_hidden
  clock,      \* created_at of the AuditLog row that was made last
  audit,      \* committed AuditLog rows of the administrators: [msg, from, to, at]
              \* and, as history, how many were committed when the message was
              \* loaded.  They are in the order of their commits; the log that
              \* is read (admin/services.py list_audit_logs) is sorted by `at'
  thread,
  tab

vars == <<stamped, rows, hidden, clock, audit, thread, tab>>

Ids == 1 .. MaxMessages
Visible == rows \ hidden

Resting == [pc |-> "idle", msg |-> 0, hide |-> FALSE, loaded |-> FALSE, since |-> 0, at |-> 0]

\* nodes: the list in the DOM; seen: seenIds.  History: excused, what a first
\* page left out when it was read, trimmed since, or was not sent; wanted and
\* walked: what there was to read when the reader began to page back, and what
\* he has read; steady: nothing came between that shifts the pages; barred: what
\* was hidden, and had been sent, when the page was read.
Closed == [pc |-> "closed", no |-> 1, total |-> 0, nodes |-> << >>, seen |-> {},
           older |-> FALSE, joined |-> FALSE, excused |-> {},
           wanted |-> {}, walked |-> {}, steady |-> TRUE, barred |-> {}]

Init ==
  /\ stamped = 0 /\ rows = {} /\ hidden = {} /\ clock = 0 /\ audit = << >>
  /\ thread = [t \in Threads |-> Resting]
  /\ tab = [p \in Tabs |-> Closed]

At(t, pc) == thread[t].pc = pc
Finish(t) == thread' = [thread EXCEPT ![t] = Resting]

-----------------------------------------------------------------------------
(* The history *)

\* Mutant: the page that does not come out even is not counted.
Pages_Floor(total) == total \div PerPage

Pages(total) == (total + PerPage - 1) \div PerPage

\* How many visible messages are at least as new as m.
Rank(m) == Cardinality({n \in Visible : n >= m})

\* Mutant: ORDER BY created_at without DESC.
Items_Oldest(no) ==
  {m \in Visible :
     Cardinality({n \in Visible : n <= m}) \in (no - 1) * PerPage + 1 .. no * PerPage}

\* Mutant: the visibility filter is left out.
Items_All(no) ==
  {m \in rows :
     Cardinality({n \in rows : n >= m}) \in (no - 1) * PerPage + 1 .. no * PerPage}

\* ORDER BY created_at DESC, id DESC LIMIT PerPage OFFSET (no - 1) * PerPage
Items(no) == {m \in Visible : Rank(m) \in (no - 1) * PerPage + 1 .. no * PerPage}

\* reversed(): as a list, the oldest first.
Chronological(items) ==
  [i \in 1 .. Cardinality(items) |->
     CHOOSE m \in items : Cardinality({n \in items : n <= m}) = i]

\* GET /chat or /chat/direct/<id>.
Open(p) ==
  /\ tab[p].pc \in {"closed", "open"}
  /\ tab' = [tab EXCEPT ![p] = [Closed EXCEPT !.pc = "count"]]
  /\ UNCHANGED <<stamped, rows, hidden, clock, audit, thread>>

\* get_message_history: the COUNT and the page are two reads, and other
\* threads' commits may come between them.
Count(p) ==
  /\ tab[p].pc = "count"
  /\ tab' = [tab EXCEPT ![p].pc = "items", ![p].total = Cardinality(Visible)]
  /\ UNCHANGED <<stamped, rows, hidden, clock, audit, thread>>

\* Messages that are committed and still to be emitted.
InFlight == {thread[t].msg : t \in {r \in Threads : At(r, "emitting")}}

\* The page is read, turned into chronological order and rendered; chat.js
\* starts from the ids it finds in it.
Read(p) ==
  LET items == Items(tab[p].no)  first == tab[p].no = 1 IN
  /\ tab[p].pc = "items"
  /\ tab' = [tab EXCEPT ![p] = [tab[p] EXCEPT
       !.pc = "open", !.nodes = Chronological(items), !.seen = items,
       !.older = tab[p].no < Pages(tab[p].total),
       !.excused = IF first THEN hidden \union {m \in Visible : Rank(m) > PerPage} ELSE @,
       !.wanted = IF first THEN Visible ELSE @,
       !.walked = @ \union items,
       !.barred = hidden \ InFlight]]
  /\ UNCHANGED <<stamped, rows, hidden, clock, audit, thread>>

\* The link to the older page; the socket of the page that is left closes.
Older(p) ==
  /\ tab[p].pc = "open" /\ tab[p].older
  /\ tab' = [tab EXCEPT ![p] = [Closed EXCEPT
       !.pc = "count", !.no = tab[p].no + 1, !.wanted = tab[p].wanted,
       !.walked = tab[p].walked, !.steady = tab[p].steady]]
  /\ UNCHANGED <<stamped, rows, hidden, clock, audit, thread>>

-----------------------------------------------------------------------------
(* chat.js *)

FirstPage(p) == tab[p].pc = "open" /\ tab[p].no = 1

\* Only the first page is live.  The client joins on every connect, the first
\* and each one after a lost connection.
Join(p) ==
  /\ FirstPage(p) /\ ~tab[p].joined
  /\ tab' = [tab EXCEPT ![p].joined = TRUE]
  /\ UNCHANGED <<stamped, rows, hidden, clock, audit, thread>>

Drop(p) ==
  /\ tab[p].joined
  /\ tab' = [tab EXCEPT ![p].joined = FALSE]
  /\ UNCHANGED <<stamped, rows, hidden, clock, audit, thread>>

\* One node over the limit at most, as every message trims.
trimMessages(page) ==
  IF Len(page.nodes) <= MaxNodes THEN page
  ELSE LET oldest == Head(page.nodes) IN
       [page EXCEPT !.nodes = Tail(@), !.seen = @ \ {oldest},
                    !.excused = @ \union {oldest}]

\* Mutant: no look at seenIds.
Known_Never(page, m) == FALSE

Known(page, m) == m \in page.seen

appendMessage(page, m) ==
  IF Known(page, m) THEN page
  ELSE trimMessages([page EXCEPT !.nodes = Append(@, m), !.seen = @ \union {m}])

-----------------------------------------------------------------------------
(* chat:send_* *)

\* save_message takes the time ...
Stamp(t) ==
  /\ At(t, "idle") /\ stamped < MaxMessages
  /\ stamped' = stamped + 1
  /\ thread' = [thread EXCEPT ![t].pc = "saving", ![t].msg = stamped']
  /\ UNCHANGED <<rows, hidden, clock, audit, tab>>

\* History: what becomes visible between the two reads of a page shifts it.
Shifted == [p \in Tabs |->
  IF tab[p].pc = "items" THEN [tab[p] EXCEPT !.steady = FALSE] ELSE tab[p]]

\* ... before the row commits.
SaveCommit(t) ==
  /\ At(t, "saving")
  /\ rows' = rows \union {thread[t].msg}
  /\ thread' = [thread EXCEPT ![t].pc = "emitting"]
  /\ tab' = Shifted
  /\ UNCHANGED <<stamped, hidden, clock, audit>>

\* History: an open first page that is not sent m.
NotSent(p, m) ==
  IF FirstPage(p) THEN [tab[p] EXCEPT !.excused = @ \union {m}] ELSE tab[p]

\* _emit_message: what an administrator has hidden meanwhile goes out too.
Emit(t) ==
  LET m == thread[t].msg IN
  /\ At(t, "emitting")
  /\ tab' = [p \in Tabs |->
       IF tab[p].joined THEN appendMessage(tab[p], m) ELSE NotSent(p, m)]
  /\ Finish(t)
  /\ UNCHANGED <<stamped, rows, hidden, clock, audit>>

-----------------------------------------------------------------------------
(* change_message_visibility *)

\* list_messages offers every message, hidden or not.
Listed == rows

VisibilityLoad(t, m, hide) ==
  /\ At(t, "idle") /\ m \in Listed
  /\ thread' = [thread EXCEPT ![t] =
       [pc |-> "deciding", msg |-> m, hide |-> hide, loaded |-> m \in hidden,
        since |-> Len(audit), at |-> 0]]
  /\ UNCHANGED <<stamped, rows, hidden, clock, audit, tab>>

\* created_at is a default of the column: the flush takes it when it builds the
\* INSERT of the audit row, which then waits for the lock.  (Where the UPDATE of
\* the message goes first it has the lock by then, and nobody comes in between.)
VisibilityStamp(t) ==
  /\ At(t, "deciding") /\ clock < MaxDecisions
  /\ clock' = clock + 1
  /\ thread' = [thread EXCEPT ![t].pc = "stamped", ![t].at = clock']
  /\ UNCHANGED <<stamped, rows, hidden, audit, tab>>

\* The unit of work writes what differs from what was loaded.
Written(t) == thread[t].hide # thread[t].loaded

AuditRow(t) ==
  [msg |-> thread[t].msg, from |-> thread[t].loaded, to |-> thread[t].hide,
   at |-> thread[t].at, since |-> thread[t].since]

\* The audit row, and the row if it is written, in one transaction.  History:
\* hiding a message shifts the pages of those who are paging back.
VisibilityCommit(t) ==
  LET m == thread[t].msg IN
  /\ At(t, "stamped")
  /\ audit' = Append(audit, AuditRow(t))
  /\ hidden' = IF ~Written(t) THEN hidden
               ELSE IF thread[t].hide THEN hidden \union {m} ELSE hidden \ {m}
  /\ tab' = IF hidden' \ hidden # {} THEN [p \in Tabs |-> [tab[p] EXCEPT !.steady = FALSE]]
            ELSE IF hidden \ hidden' # {} THEN Shifted ELSE tab
  /\ Finish(t)
  /\ UNCHANGED <<stamped, rows, clock>>

\* Mutant: the audit row commits by itself, before the row is written.
Fails_LeavesAudit(t) ==
  /\ At(t, "stamped")
  /\ audit' = Append(audit, AuditRow(t))
  /\ Finish(t)
  /\ UNCHANGED <<stamped, rows, hidden, clock, tab>>

\* A query or a commit fails: rollback.  After the commit of a message it is
\* the prune before the emit that fails, and the emit is left out.
Fails(t) ==
  /\ ~At(t, "idle")
  /\ tab' = IF At(t, "emitting") THEN [p \in Tabs |-> NotSent(p, thread[t].msg)] ELSE tab
  /\ Finish(t)
  /\ UNCHANGED <<stamped, rows, hidden, clock, audit>>

Next ==
  \/ \E t \in Threads :
       \/ Stamp(t) \/ SaveCommit(t) \/ Emit(t) \/ Fails(t)
       \/ VisibilityStamp(t) \/ VisibilityCommit(t)
       \/ \E m \in Ids, hide \in BOOLEAN : VisibilityLoad(t, m, hide)
  \/ \E p \in Tabs : Open(p) \/ Count(p) \/ Read(p) \/ Older(p) \/ Join(p) \/ Drop(p)

Spec == Init /\ [][Next]_vars

-----------------------------------------------------------------------------
(* Properties. *)

\* Rows, threads and tabs.
TypeOK ==
  /\ stamped \in 0 .. MaxMessages /\ rows \subseteq 1 .. stamped
  /\ hidden \subseteq rows
  /\ clock \in Nat
  /\ audit \in Seq([msg : Ids, from : BOOLEAN, to : BOOLEAN, at : Nat, since : Nat])
  /\ thread \in [Threads -> [pc : {"idle", "saving", "emitting", "deciding", "stamped"},
                             msg : 0 .. MaxMessages, hide : BOOLEAN, loaded : BOOLEAN,
                             since : Nat, at : Nat]]
  /\ \A p \in Tabs :
       /\ tab[p].pc \in {"closed", "count", "items", "open"}
       /\ tab[p].joined => FirstPage(p)

\* A message that is in the history and is emitted to the page as well is shown
\* once; the list is one of messages, it stays within its limit, and seenIds is
\* the set of what is in it.
ShownOnce ==
  \A p \in Tabs : LET page == tab[p] IN
    /\ page.nodes \in Seq(rows) /\ IsInjective(page.nodes) /\ Len(page.nodes) <= MaxNodes
    /\ page.seen = ToSet(page.nodes)

\* What a first page lacks of the room's messages was left out when it was read,
\* trimmed since, or is still to be sent; or it was sent when the page had not
\* joined the room, or was not sent because its handler failed: these are lost to
\* the page.  With commit before emit and the read before the join there is no
\* other way.
LacksAreExplained ==
  \A p \in Tabs : FirstPage(p) =>
    rows \subseteq tab[p].seen \union tab[p].excused \union InFlight

\* What was hidden before a page was read does not get onto it, by the history
\* or live, unless its emit had been overtaken by the decision and came later.
HiddenStaysOff ==
  \A p \in Tabs : tab[p].pc = "open" => ToSet(tab[p].nodes) \intersect tab[p].barred = {}

\* Who pages back until there is no older page has read every message that was
\* there when he began, however many were sent meanwhile; unless one was hidden,
\* or a commit came between the two reads of one page.
WalkMissesNothing ==
  \A p \in Tabs : LET page == tab[p] IN
    page.pc = "open" /\ ~page.older /\ page.steady => page.wanted \subseteq page.walked

\* Of two decisions, neither had committed when the other one loaded the message.
Overlap(i, j) == audit[i].since < j /\ audit[j].since < i

\* v is what the first n audit rows tell of m: what the last of them says, in the
\* order of the log, or one whose decision overlapped with that one.
Tells(m, n, v) ==
  LET log == {i \in 1 .. n : audit[i].msg = m} IN
  /\ log = {} => ~v
  /\ \A last \in log : (\A i \in log : audit[i].at <= audit[last].at) =>
       \E i \in log : Overlap(i, last) /\ (audit[i].to <=> v)

\* The audit log tells the visibility of each message, and of each decision what
\* it found.  Its order is not that of the commits, and an overlapping decision
\* may repeat a change that was made already: when administrators overlap, the
\* last row of the log need not be the one that is true, but one that overlapped
\* with it is; when none do, the rows are a chain that ends in what is true.
AuditTellsVisibility ==
  /\ \A m \in rows : Tells(m, Len(audit), m \in hidden)
  /\ \A i \in DOMAIN audit : Tells(audit[i].msg, audit[i].since, audit[i].from)
=============================================================================
