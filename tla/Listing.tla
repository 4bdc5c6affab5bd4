------------------------------- MODULE Listing -------------------------------
(***************************************************************************)
(* The pages of a list.  Every list of the site is read the same way: a    *)
(* COUNT for the number of pages, a second query for the page (ORDER BY,   *)
(* LIMIT, OFFSET), each in a snapshot of its own, and a link to the next   *)
(* page as long as there is one.  Between any two reads rows are committed,*)
(* leave what the filters select, or move when the column they are sorted  *)
(* by changes.  Which of these can happen is what distinguishes the lists. *)
(***************************************************************************)
EXTENDS Integers, Sequences, FiniteSets, SequencesExt

CONSTANTS
  PerPage,
  MaxRows,    \* bound: rows there ever are
  MaxEvents   \* bound: departures and moves during a walk

VARIABLES
  list,       \* the list that is open
  listed,     \* the rows its filters select, in its order
  created,    \* rows so far; a row is a number
  reader,
  shown,      \* what the reader was shown, page after page
  standing,   \* history: rows that were in the list during the whole walk
  left,       \* history: departures and moves during the walk
  moved,
  late        \* history: rows that came between the last COUNT and its page

vars == <<list, listed, created, reader, shown, standing, left, moved, late>>

-----------------------------------------------------------------------------
(* The lists.  leaves: a row can stop to match a filter; moves: it can      *)
(* change its place; ordered: rows come in at one end.  Only a transfer     *)
(* takes its created_at under the write lock; the others take it before     *)
(* they wait for the lock, and may come in below rows committed meanwhile.  *)

Sort == {"newest", "oldest", "key"}

ByAge(sort, leaves) ==
  [sort |-> sort, leaves |-> leaves, moves |-> FALSE, ordered |-> FALSE]

\* Administration: status, visibility and decisions are filters.
list_users(sort) == ByAge(sort, TRUE)
list_products(sort) == ByAge(sort, TRUE)
list_reports(sort) == ByAge(sort, TRUE)
list_messages(sort) == ByAge(sort, TRUE)
list_audit_logs(sort) == ByAge(sort, FALSE)

\* Mutant: the created_at of a transfer is taken before the lock.
list_transfers_Early(sort) == ByAge(sort, FALSE)

\* A transfer is inserted after BEGIN IMMEDIATE and never changed.
list_transfers(sort) == [ByAge(sort, FALSE) EXCEPT !.ordered = TRUE]

list_transfer_history(sort) == list_transfers(sort)

list_own_reports == ByAge("newest", FALSE)
list_direct_conversations == ByAge("newest", FALSE)

\* The search is by age or by price and title, which the seller can edit; a
\* product leaves with its status, its price or the suspension of its seller.
search_public_products(sort) == [ByAge(sort, TRUE) EXCEPT !.moves = sort = "key"]

\* By username, which does not change.
search_public_users == ByAge("key", TRUE)

Ages == {"newest", "oldest"}

Lists ==
  UNION {{list_users(s), list_products(s), list_reports(s), list_messages(s),
          list_audit_logs(s), list_transfers(s), list_transfer_history(s)} : s \in Ages}
  \union {list_own_reports, list_direct_conversations, search_public_users}
  \union {search_public_products(s) : s \in Sort}

-----------------------------------------------------------------------------
NoList == [sort |-> "none", leaves |-> FALSE, moves |-> FALSE, ordered |-> FALSE]

\* opened is history: how many rows there were at first.
Closed == [pc |-> "closed", page |-> 0, total |-> 0, opened |-> 0]

Init ==
  /\ list = NoList /\ listed = << >> /\ created = 0
  /\ reader = Closed /\ shown = << >> /\ standing = {}
  /\ left = 0 /\ moved = 0 /\ late = 0

\* The reader turns to the list when it has n rows.
Open(l, n) ==
  /\ reader = Closed
  /\ list' = l
  /\ listed' = IF l.sort = "newest" THEN [i \in 1 .. n |-> n + 1 - i] ELSE [i \in 1 .. n |-> i]
  /\ created' = n
  /\ standing' = 1 .. n
  /\ reader' = [pc |-> "count", page |-> 1, total |-> 0, opened |-> n]
  /\ UNCHANGED <<shown, left, moved, late>>

\* SELECT count(*)
Count ==
  /\ reader.pc = "count"
  /\ reader' = [reader EXCEPT !.pc = "select", !.total = Len(listed)]
  /\ late' = 0
  /\ UNCHANGED <<list, listed, created, shown, standing, left, moved>>

\* The reader goes elsewhere; the next walk starts afresh.
Leave ==
  /\ reader # Closed
  /\ list' = NoList /\ listed' = << >> /\ created' = 0
  /\ reader' = Closed /\ shown' = << >> /\ standing' = {}
  /\ left' = 0 /\ moved' = 0 /\ late' = 0

Offset(page) == (page - 1) * PerPage

\* ceil(total / per_page)
Pages(total) == (total + PerPage - 1) \div PerPage

\* Mutant: one row more is read, as a sign of a next page, and shown.
Items_OneMore(page) ==
  LET last == Offset(page) + PerPage + 1
  IN SubSeq(listed, Offset(page) + 1, IF last < Len(listed) THEN last ELSE Len(listed))

\* LIMIT per_page OFFSET (page - 1) * per_page
Items(page) ==
  LET last == Offset(page) + PerPage
  IN SubSeq(listed, Offset(page) + 1, IF last < Len(listed) THEN last ELSE Len(listed))

\* The page is shown; without a next page the walk is over.
Select ==
  /\ reader.pc = "select"
  /\ shown' = shown \o Items(reader.page)
  /\ reader' = [reader EXCEPT !.pc = IF reader.page < Pages(reader.total)
                                     THEN "read" ELSE "done"]
  /\ UNCHANGED <<list, listed, created, standing, left, moved, late>>

\* The link to next_num.
TurnPage ==
  /\ reader.pc = "read"
  /\ reader' = [reader EXCEPT !.pc = "count", !.page = @ + 1]
  /\ UNCHANGED <<list, listed, created, shown, standing, left, moved, late>>

-----------------------------------------------------------------------------
\* Commits of other requests while the walk goes on.
Walking == reader.pc \in {"count", "select", "read"}

\* Where a new row can come in: before row number i.
Places ==
  IF ~list.ordered THEN 1 .. Len(listed) + 1
  ELSE {IF list.sort = "newest" THEN 1 ELSE Len(listed) + 1}

\* A row is inserted, or one comes back that had left.
RowComes ==
  /\ Walking /\ created < MaxRows
  /\ \E i \in Places : listed' = InsertAt(listed, i, created + 1)
  /\ created' = created + 1
  /\ late' = IF reader.pc = "select" THEN late + 1 ELSE late
  /\ UNCHANGED <<list, reader, shown, standing, left, moved>>

RowLeaves ==
  /\ Walking /\ list.leaves /\ left + moved < MaxEvents
  /\ \E i \in DOMAIN listed :
       /\ listed' = RemoveAt(listed, i)
       /\ standing' = standing \ {listed[i]}
  /\ left' = left + 1
  /\ UNCHANGED <<list, created, reader, shown, moved, late>>

RowMoves ==
  /\ Walking /\ list.moves /\ left + moved < MaxEvents
  /\ \E i, j \in DOMAIN listed :
       i # j /\ listed' = InsertAt(RemoveAt(listed, i), j, listed[i])
  /\ moved' = moved + 1
  /\ UNCHANGED <<list, created, reader, shown, standing, left, late>>

Next ==
  \/ \E l \in Lists, n \in 0 .. MaxRows - 1 : Open(l, n)
  \/ Count \/ Select \/ TurnPage \/ Leave
  \/ RowComes \/ RowLeaves \/ RowMoves

Spec == Init /\ [][Next]_vars

-----------------------------------------------------------------------------
(* Properties. *)

ShownRows == {shown[i] : i \in DOMAIN shown}

\* A walk through the pages passes over a row that was there all the time only
\* for a reason, one row for each: another row left or moved, or was added
\* after the pages had been counted.
MissesAreCaused ==
  reader.pc = "done" =>
    Cardinality(standing \ ShownRows) <= left + moved + late

\* A row is shown twice only because another one was added or moved ahead of it.
RepeatsAreCaused ==
  Len(shown) - Cardinality(ShownRows) <= (created - reader.opened) + moved

\* The oldest transfers first: the pages are an exact copy of the books, each
\* transfer once and in order, up to the number the last page was counted with.
OldestTransfersExact ==
  list = list_transfer_history("oldest") =>
    /\ IsPrefix(shown, listed)
    /\ reader.pc = "done" => Len(shown) >= reader.total

\* Every row that is passed over or repeated has its cause.
WalkIsAccounted == MissesAreCaused /\ RepeatsAreCaused
=============================================================================
