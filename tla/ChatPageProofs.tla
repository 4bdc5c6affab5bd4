---------------------------- MODULE ChatPageProofs ----------------------------
(***************************************************************************)
(* Theorems about ChatPage for any number of threads, tabs and messages    *)
(* and any page size.                                                      *)
(***************************************************************************)
EXTENDS ChatPage, FiniteSetTheorems, TLAPS

Task == [pc : {"idle", "saving", "emitting", "deciding", "stamped"},
         msg : 0 .. MaxMessages, hide : BOOLEAN, loaded : BOOLEAN, since : Nat, at : Nat]

Entry == [msg : Ids, from : BOOLEAN, to : BOOLEAN, at : Nat, since : Nat]

Decides(t) == thread[t].pc \in {"deciding", "stamped"}

Fields == {"pc", "no", "total", "nodes", "seen", "older", "joined", "excused",
           "wanted", "walked", "steady", "barred"}

TabInv(p) ==
  /\ DOMAIN tab[p] = Fields
  /\ tab[p].pc \in {"closed", "count", "items", "open"}
  /\ tab[p].no \in Nat
  /\ tab[p].joined => FirstPage(p)

TypeInv ==
  /\ stamped \in 0 .. MaxMessages /\ rows \subseteq 1 .. stamped /\ hidden \subseteq rows
  /\ clock \in Nat /\ audit \in Seq(Entry)
  /\ thread \in [Threads -> Task]
  /\ \A t \in Threads : thread[t].pc = "saving" => thread[t].msg \in 1 .. stamped
  /\ \A t \in Threads : Decides(t) => thread[t].msg \in rows
  /\ DOMAIN tab = Tabs /\ \A p \in Tabs : TabInv(p)

\* What is on a first page, or need not be.
Covered(p) == tab[p].seen \union tab[p].excused

IInv == TypeInv /\ LacksAreExplained

-----------------------------------------------------------------------------
LEMMA Records ==
  /\ Resting \in Task /\ Resting.pc = "idle"
  /\ DOMAIN Closed = Fields /\ Closed.no = 1 /\ Closed.joined = FALSE /\ Closed.pc = "closed"
BY PageAssumption DEF Resting, Task, Closed, Fields

\* A live message is on the page, or was trimmed.
LEMMA Appending ==
  ASSUME NEW page, NEW m, DOMAIN page = Fields
  PROVE  LET longer == appendMessage(page, m) IN
         /\ DOMAIN longer = Fields /\ longer.pc = page.pc /\ longer.no = page.no
         /\ longer.joined = page.joined
         /\ page.seen \union page.excused \union {m} \subseteq longer.seen \union longer.excused
BY DEF appendMessage, Known, trimMessages, Fields

\* A tab after a step of a thread: its page is as it was, and what it covers
\* has not become less.
Stays(p) ==
  /\ DOMAIN tab'[p] = Fields
  /\ tab'[p].pc = tab[p].pc /\ tab'[p].no = tab[p].no /\ tab'[p].joined = tab[p].joined
  /\ Covered(p) \subseteq tab'[p].seen \union tab'[p].excused

\* The tabs stay, and every row is where it was: covered or to be emitted.
LEMMA ThreadSteps ==
  ASSUME IInv, DOMAIN tab' = Tabs, \A p \in Tabs : Stays(p),
         rows' \subseteq rows \union InFlight',
         \A p \in Tabs : FirstPage(p) =>
           InFlight \subseteq tab'[p].seen \union tab'[p].excused \union InFlight'
  PROVE  LacksAreExplained' /\ \A p \in Tabs : TabInv(p)'
<1>1. \A p \in Tabs : TabInv(p)'
  BY DEF IInv, TypeInv, TabInv, Stays, FirstPage
<1>2. ASSUME NEW p \in Tabs, FirstPage(p)'
      PROVE  rows' \subseteq tab'[p].seen \union tab'[p].excused \union InFlight'
  <2>1. FirstPage(p)
    BY <1>2 DEF Stays, FirstPage
  <2>2. rows \subseteq tab[p].seen \union tab[p].excused \union InFlight
    BY <2>1 DEF IInv, LacksAreExplained
  <2> QED BY <2>1, <2>2 DEF Stays, Covered
<1> QED BY <1>1, <1>2 DEF LacksAreExplained

\* A reader's step changes his tab only.
LEMMA ReaderSteps ==
  ASSUME IInv, UNCHANGED <<stamped, rows, hidden, clock, audit, thread>>,
         NEW p \in Tabs, NEW page, tab' = [tab EXCEPT ![p] = page], TabInv(p)',
         FirstPage(p)' => rows \subseteq page.seen \union page.excused \union InFlight
  PROVE  IInv'
<1>1. TypeInv'
  BY DEF IInv, TypeInv, TabInv, FirstPage, Decides
<1>2. InFlight' = InFlight /\ rows' = rows /\ DOMAIN tab = Tabs
  BY DEF InFlight, At, IInv, TypeInv
<1>3. ASSUME NEW q \in Tabs, FirstPage(q)'
      PROVE  rows \subseteq tab'[q].seen \union tab'[q].excused \union InFlight
  <2>1. CASE q = p
    BY <1>2, <1>3, <2>1
  <2>2. CASE q # p
    <3>1. tab'[q] = tab[q]
      BY <2>2
    <3> QED BY <1>3, <3>1 DEF FirstPage, IInv, LacksAreExplained
  <2> QED BY <2>1, <2>2
<1>4. LacksAreExplained'
  BY <1>2, <1>3 DEF LacksAreExplained
<1> QED BY <1>1, <1>4 DEF IInv

-----------------------------------------------------------------------------
\* Read: what the first page of the visible rows leaves out is excused.
LEMMA FirstRead ==
  ASSUME IInv, NEW m \in rows
  PROVE  \/ m \in hidden
         \/ m \in Visible /\ Rank(m) > PerPage
         \/ m \in Items(1)
<1> SUFFICES ASSUME m \in Visible PROVE Rank(m) > PerPage \/ m \in Items(1)
  BY DEF Visible
<1> DEFINE newer == {n \in Visible : n >= m}
<1>1. stamped \in Nat /\ m \in Int /\ newer \in SUBSET (1 .. stamped) /\ m \in newer
  <2>1. stamped \in Nat /\ rows \subseteq 1 .. stamped
    BY PageAssumption DEF IInv, TypeInv
  <2>2. m \in Int /\ m >= m
    BY <2>1
  <2> QED BY <2>1, <2>2 DEF Visible
<1>2. IsFiniteSet(1 .. stamped)
  <2>1. 1 \in Int /\ stamped \in Int
    BY <1>1
  <2> QED BY <2>1, FS_Interval
<1> HIDE DEF newer
<1>3. Cardinality(newer) \in Nat /\ Cardinality(newer) # 0
  BY <1>1, <1>2, FS_Subset, FS_CardinalityType, FS_EmptySet
<1>4. Rank(m) \in Nat /\ Rank(m) # 0
  BY <1>3 DEF Rank, newer
<1>5. (1 - 1) * PerPage + 1 = 1 /\ 1 * PerPage = PerPage
  BY PageAssumption
<1> QED BY <1>4, <1>5, PageAssumption DEF Items

LEMMA Readings ==
  ASSUME IInv, NEW p \in Tabs, Open(p) \/ Count(p) \/ Read(p) \/ Older(p) \/ Join(p) \/ Drop(p)
  PROVE  IInv'
<1>1. /\ DOMAIN tab = Tabs /\ TabInv(p) /\ UNCHANGED <<stamped, rows, hidden, clock, audit, thread>>
  BY DEF IInv, TypeInv, Open, Count, Read, Older, Join, Drop
<1>2. CASE Open(p)
  <2> DEFINE page == [Closed EXCEPT !.pc = "count"]
  <2>1. tab' = [tab EXCEPT ![p] = page] /\ DOMAIN page = Fields /\ page.pc = "count"
        /\ page.no = 1 /\ page.joined = FALSE
    BY <1>2, Records DEF Open, Fields
  <2> HIDE DEF page
  <2>2. TabInv(p)' /\ ~FirstPage(p)'
    BY <1>1, <2>1 DEF TabInv, FirstPage
  <2> QED BY <1>1, <2>1, <2>2, ReaderSteps
<1>3. CASE Count(p)
  <2> DEFINE page == [tab[p] EXCEPT !.pc = "items", !.total = Cardinality(Visible)]
  <2>1. tab' = [tab EXCEPT ![p] = page] /\ tab[p].pc = "count"
    BY <1>3 DEF Count
  <2>2. DOMAIN page = Fields /\ page.pc = "items" /\ page.no = tab[p].no
        /\ page.joined = tab[p].joined
    BY <1>1 DEF TabInv, Fields
  <2> HIDE DEF page
  <2>3. TabInv(p)' /\ ~FirstPage(p)'
    BY <1>1, <2>1, <2>2 DEF TabInv, FirstPage
  <2> QED BY <1>1, <2>1, <2>3, ReaderSteps
<1>4. CASE Read(p)
  <2> DEFINE items == Items(tab[p].no)
  <2>1. PICK page : /\ tab' = [tab EXCEPT ![p] = page] /\ tab[p].pc = "items"
                    /\ DOMAIN page = Fields /\ page.pc = "open" /\ page.no = tab[p].no
                    /\ page.joined = tab[p].joined /\ page.seen = items
                    /\ tab[p].no = 1 => \A m \in rows :
                         m \in hidden \/ (m \in Visible /\ Rank(m) > PerPage) =>
                           m \in page.excused
    <3>1. tab[p].pc = "items" /\ tab' = [tab EXCEPT ![p] = tab'[p]]
      BY <1>1, <1>4 DEF Read
    <3>2. /\ DOMAIN tab'[p] = Fields /\ tab'[p].pc = "open" /\ tab'[p].no = tab[p].no
          /\ tab'[p].joined = tab[p].joined /\ tab'[p].seen = items
      BY <1>1, <1>4 DEF Read, TabInv, Fields
    <3>3. tab[p].no = 1 => \A m \in rows :
            m \in hidden \/ (m \in Visible /\ Rank(m) > PerPage) => m \in tab'[p].excused
      BY <1>1, <1>4 DEF Read, TabInv, Fields
    <3> HIDE DEF items
    <3> QED BY <3>1, <3>2, <3>3
  <2>2. ~tab[p].joined
    BY <1>1, <2>1 DEF TabInv, FirstPage
  <2>3. TabInv(p)'
    BY <1>1, <2>1, <2>2 DEF TabInv, FirstPage
  <2>4. FirstPage(p)' => rows \subseteq page.seen \union page.excused \union InFlight
    <3> SUFFICES ASSUME page.no = 1, NEW m \in rows PROVE m \in page.seen \union page.excused
      BY <1>1, <2>1 DEF FirstPage
    <3> QED BY <2>1, FirstRead
  <2> HIDE DEF items
  <2> QED BY <1>1, <2>1, <2>3, <2>4, ReaderSteps
<1>5. CASE Older(p)
  <2> DEFINE page == [Closed EXCEPT
               !.pc = "count", !.no = tab[p].no + 1, !.wanted = tab[p].wanted,
               !.walked = tab[p].walked, !.steady = tab[p].steady]
  <2>1. tab' = [tab EXCEPT ![p] = page]
    BY <1>5 DEF Older
  <2>2. DOMAIN page = Fields /\ page.pc = "count" /\ page.no = tab[p].no + 1
        /\ page.joined = FALSE
    BY Records DEF Fields
  <2> HIDE DEF page
  <2>3. TabInv(p)' /\ ~FirstPage(p)'
    BY <1>1, <2>1, <2>2 DEF TabInv, FirstPage
  <2> QED BY <1>1, <2>1, <2>3, ReaderSteps
<1>6. ASSUME NEW joined \in BOOLEAN, FirstPage(p), tab' = [tab EXCEPT ![p].joined = joined]
      PROVE  IInv'
  <2> DEFINE page == [tab[p] EXCEPT !.joined = joined]
  <2>1. tab' = [tab EXCEPT ![p] = page]
    BY <1>6
  <2>2. DOMAIN page = Fields /\ page.pc = tab[p].pc /\ page.no = tab[p].no
        /\ page.joined = joined /\ page.seen = tab[p].seen /\ page.excused = tab[p].excused
    BY <1>1 DEF TabInv, Fields
  <2> HIDE DEF page
  <2>3. TabInv(p)'
    BY <1>1, <1>6, <2>1, <2>2 DEF TabInv, FirstPage
  <2>4. rows \subseteq page.seen \union page.excused \union InFlight
    BY <1>6, <2>2 DEF IInv, LacksAreExplained
  <2> QED BY <1>1, <2>1, <2>3, <2>4, ReaderSteps
<1>7. CASE Join(p)
  BY <1>6, <1>7 DEF Join
<1>8. CASE Drop(p)
  <2>1. FirstPage(p)
    BY <1>1, <1>8 DEF Drop, TabInv
  <2> QED BY <1>6, <1>8, <2>1 DEF Drop
<1> QED BY <1>2, <1>3, <1>4, <1>5, <1>7, <1>8

-----------------------------------------------------------------------------
\* Only an emit or a failure takes a message out of flight.
LEMMA Flight ==
  ASSUME IInv, NEW t \in Threads, NEW h, thread' = [thread EXCEPT ![t] = h],
         thread[t].pc # "emitting"
  PROVE  InFlight \subseteq InFlight'
BY DEF InFlight, At, IInv, TypeInv

LEMMA Landing ==
  ASSUME IInv, NEW t \in Threads, NEW h, thread' = [thread EXCEPT ![t] = h]
  PROVE  InFlight \subseteq InFlight' \union {thread[t].msg}
BY DEF InFlight, At, IInv, TypeInv

\* History variables that mark a tab leave its page alone.
LEMMA Marked ==
  ASSUME IInv, DOMAIN tab' = Tabs,
         \A p \in Tabs : tab'[p] = tab[p] \/ tab'[p] = [tab[p] EXCEPT !.steady = FALSE]
  PROVE  \A p \in Tabs : Stays(p)
BY DEF IInv, TypeInv, TabInv, Fields, Stays, Covered

LEMMA Sending ==
  ASSUME IInv, NEW t \in Threads, Stamp(t) \/ SaveCommit(t)
  PROVE  IInv'
<1>1. thread[t] \in Task /\ stamped \in 0 .. MaxMessages /\ MaxMessages \in Nat
      /\ DOMAIN tab = Tabs /\ thread \in [Threads -> Task]
  BY PageAssumption DEF IInv, TypeInv
<1>2. CASE Stamp(t)
  <2>1. /\ stamped' = stamped + 1 /\ UNCHANGED <<rows, hidden, clock, audit, tab>>
        /\ thread' = [thread EXCEPT ![t].pc = "saving", ![t].msg = stamped']
        /\ thread[t].pc = "idle" /\ stamped' \in 0 .. MaxMessages
    BY <1>1, <1>2 DEF Stamp, At
  <2> DEFINE h == [thread[t] EXCEPT !.pc = "saving", !.msg = stamped']
  <2>2. thread' = [thread EXCEPT ![t] = h] /\ h \in Task /\ h.pc = "saving" /\ h.msg = stamped'
    BY <1>1, <2>1 DEF Task
  <2> HIDE DEF h
  <2>3. InFlight \subseteq InFlight'
    BY <2>1, <2>2, Flight
  <2>4. \A p \in Tabs : Stays(p)
    BY <1>1, <2>1, Marked
  <2>5. LacksAreExplained' /\ \A p \in Tabs : TabInv(p)'
    BY <1>1, <2>1, <2>3, <2>4, ThreadSteps
  <2>6. TypeInv'
    <3>1. rows \subseteq 1 .. stamped' /\ stamped' \in 1 .. stamped'
          /\ 1 .. stamped \subseteq 1 .. stamped'
      BY <1>1, <2>1 DEF IInv, TypeInv
    <3>2. /\ thread' \in [Threads -> Task] /\ thread'[t] = h
          /\ \A r \in Threads \ {t} : thread'[r] = thread[r]
      BY <1>1, <2>2
    <3>3. \A r \in Threads : thread'[r].pc = "saving" => thread'[r].msg \in 1 .. stamped'
      BY <2>2, <3>1, <3>2 DEF IInv, TypeInv
    <3>4. \A r \in Threads : Decides(r)' => thread'[r].msg \in rows
      BY <2>2, <3>2 DEF IInv, TypeInv, Decides
    <3> QED BY <1>1, <2>1, <2>5, <3>1, <3>2, <3>3, <3>4 DEF IInv, TypeInv
  <2> QED BY <2>5, <2>6 DEF IInv
<1>3. CASE SaveCommit(t)
  <2>1. /\ rows' = rows \union {thread[t].msg} /\ UNCHANGED <<stamped, hidden, clock, audit>>
        /\ thread' = [thread EXCEPT ![t].pc = "emitting"] /\ tab' = Shifted
        /\ thread[t].pc = "saving" /\ thread[t].msg \in 1 .. stamped
    BY <1>3 DEF SaveCommit, At, IInv, TypeInv
  <2> DEFINE h == [thread[t] EXCEPT !.pc = "emitting"]
  <2>2. thread' = [thread EXCEPT ![t] = h] /\ h \in Task /\ h.pc = "emitting"
        /\ h.msg = thread[t].msg
    BY <1>1, <2>1 DEF Task
  <2> HIDE DEF h
  <2>3. InFlight \subseteq InFlight' /\ thread[t].msg \in InFlight'
    <3>1. thread'[t] = h
      BY <1>1, <2>2
    <3> QED BY <2>1, <2>2, <3>1, Flight DEF InFlight, At
  <2>4. DOMAIN tab' = Tabs /\ \A p \in Tabs : Stays(p)
    BY <2>1, Marked DEF Shifted
  <2>5. LacksAreExplained' /\ \A p \in Tabs : TabInv(p)'
    BY <2>1, <2>3, <2>4, ThreadSteps
  <2>6. TypeInv'
    BY <1>1, <2>1, <2>2, <2>4, <2>5 DEF IInv, TypeInv, Decides
  <2> QED BY <2>5, <2>6 DEF IInv
<1> QED BY <1>2, <1>3

\* What happens to a tab when a message is emitted, or given up.
LEMMA Landed ==
  ASSUME IInv, NEW p \in Tabs, NEW m,
         \/ tab'[p] = appendMessage(tab[p], m) /\ tab[p].joined
         \/ tab'[p] = NotSent(p, m)
  PROVE  Stays(p) /\ (FirstPage(p) => m \in tab'[p].seen \union tab'[p].excused)
<1>1. DOMAIN tab[p] = Fields /\ (tab[p].joined => FirstPage(p))
  BY DEF IInv, TypeInv, TabInv
<1>2. CASE tab'[p] = appendMessage(tab[p], m)
  BY <1>1, <1>2, Appending DEF Stays, Covered
<1>3. CASE tab'[p] = NotSent(p, m)
  BY <1>1, <1>3 DEF NotSent, Stays, Covered, Fields
<1> QED BY <1>2, <1>3

LEMMA Ending ==
  ASSUME IInv, NEW t \in Threads, Emit(t) \/ Fails(t)
  PROVE  IInv'
<1>1. /\ thread' = [thread EXCEPT ![t] = Resting] /\ UNCHANGED <<stamped, rows, hidden, clock, audit>>
      /\ DOMAIN tab = Tabs /\ thread \in [Threads -> Task]
  BY DEF Emit, Fails, Finish, IInv, TypeInv
<1>2. /\ DOMAIN tab' = Tabs /\ \A p \in Tabs : Stays(p)
      /\ thread[t].pc = "emitting" =>
           \A p \in Tabs : FirstPage(p) => thread[t].msg \in tab'[p].seen \union tab'[p].excused
  <2>1. CASE Emit(t)
    <3>1. DOMAIN tab' = Tabs
      BY <2>1 DEF Emit
    <3>2. ASSUME NEW p \in Tabs
          PROVE  \/ tab'[p] = appendMessage(tab[p], thread[t].msg) /\ tab[p].joined
                 \/ tab'[p] = NotSent(p, thread[t].msg)
      BY <2>1 DEF Emit
    <3> QED BY <3>1, <3>2, Landed
  <2>2. CASE Fails(t) /\ thread[t].pc = "emitting"
    <3>1. DOMAIN tab' = Tabs /\ \A p \in Tabs : tab'[p] = NotSent(p, thread[t].msg)
      BY <2>2 DEF Fails, At
    <3> QED BY <3>1, Landed
  <2>3. CASE Fails(t) /\ thread[t].pc # "emitting"
    <3>1. tab' = tab
      BY <2>3 DEF Fails, At
    <3> QED BY <1>1, <2>3, <3>1, Marked
  <2> QED BY <2>1, <2>2, <2>3
<1>3. ASSUME NEW p \in Tabs, FirstPage(p)
      PROVE  InFlight \subseteq tab'[p].seen \union tab'[p].excused \union InFlight'
  <2>1. CASE thread[t].pc = "emitting"
    BY <1>1, <1>2, <1>3, <2>1, Landing
  <2>2. CASE thread[t].pc # "emitting"
    BY <1>1, <2>2, Flight
  <2> QED BY <2>1, <2>2
<1>4. LacksAreExplained' /\ \A p \in Tabs : TabInv(p)'
  BY <1>1, <1>2, <1>3, ThreadSteps
<1>5. TypeInv'
  BY <1>1, <1>2, <1>4, Records DEF IInv, TypeInv, Decides
<1> QED BY <1>4, <1>5 DEF IInv

LEMMA Deciding ==
  ASSUME IInv, NEW t \in Threads,
         \/ VisibilityStamp(t) \/ VisibilityCommit(t)
         \/ \E m \in Ids, hide \in BOOLEAN : VisibilityLoad(t, m, hide)
  PROVE  IInv'
<1>1. /\ thread \in [Threads -> Task] /\ DOMAIN tab = Tabs /\ hidden \subseteq rows
      /\ rows \subseteq Ids /\ rows' = rows /\ stamped' = stamped
      /\ clock \in Nat /\ audit \in Seq(Entry) /\ Len(audit) \in Nat
  <2>1. rows \subseteq 1 .. stamped /\ stamped \in 0 .. MaxMessages
    BY DEF IInv, TypeInv
  <2>2. rows \subseteq Ids
    BY <2>1, PageAssumption DEF Ids
  <2>3. rows' = rows /\ stamped' = stamped
    BY DEF VisibilityStamp, VisibilityCommit, VisibilityLoad
  <2>4. audit \in Seq(Entry) /\ Len(audit) \in Nat
    BY DEF IInv, TypeInv
  <2> QED BY <2>2, <2>3, <2>4 DEF IInv, TypeInv
\* A step that leaves the message and the tabs as they are.
<1>2. ASSUME NEW h \in Task, h.pc \in {"deciding", "stamped"}, h.msg \in rows,
             thread' = [thread EXCEPT ![t] = h], thread[t].pc # "emitting",
             clock' \in Nat, UNCHANGED <<hidden, audit, tab>>
      PROVE  IInv'
  <2>1. InFlight \subseteq InFlight'
    BY <1>2, Flight
  <2>2. \A p \in Tabs : Stays(p)
    BY <1>1, <1>2, Marked
  <2>3. LacksAreExplained' /\ \A p \in Tabs : TabInv(p)'
    BY <1>1, <1>2, <2>1, <2>2, ThreadSteps
  <2>4. TypeInv'
    BY <1>1, <1>2, <2>3 DEF IInv, TypeInv, Decides
  <2> QED BY <2>3, <2>4 DEF IInv
<1>4. ASSUME NEW m \in Ids, NEW hide \in BOOLEAN, VisibilityLoad(t, m, hide) PROVE IInv'
  <2> DEFINE h == [pc |-> "deciding", msg |-> m, hide |-> hide, loaded |-> m \in hidden,
                   since |-> Len(audit), at |-> 0]
  <2>1. /\ thread' = [thread EXCEPT ![t] = h] /\ UNCHANGED <<hidden, clock, audit, tab>>
        /\ thread[t].pc = "idle" /\ m \in rows
    BY <1>4 DEF VisibilityLoad, At, Listed
  <2>2. h \in Task /\ h.pc = "deciding" /\ h.msg = m
    <3>1. m \in 0 .. MaxMessages /\ Len(audit) \in Nat
      BY <1>1, PageAssumption DEF Ids
    <3> QED BY <3>1 DEF Task
  <2> HIDE DEF h
  <2> QED BY <1>1, <1>2, <2>1, <2>2
<1>5. CASE VisibilityStamp(t)
  <2> DEFINE h == [thread[t] EXCEPT !.pc = "stamped", !.at = clock + 1]
  <2>1. /\ thread' = [thread EXCEPT ![t] = h] /\ UNCHANGED <<hidden, audit, tab>>
        /\ thread[t].pc = "deciding" /\ clock' = clock + 1 /\ thread[t].msg \in rows
    BY <1>1, <1>5 DEF VisibilityStamp, At, IInv, TypeInv, Decides
  <2>2. h \in Task /\ h.pc = "stamped" /\ h.msg = thread[t].msg
    <3>1. thread[t] \in Task /\ clock + 1 \in Nat
      BY <1>1
    <3> QED BY <3>1 DEF Task
  <2> HIDE DEF h
  <2>3. clock' \in Nat /\ h.msg \in rows /\ thread[t].pc # "emitting"
    BY <1>1, <2>1, <2>2
  <2> QED BY <1>2, <2>1, <2>2, <2>3
<1>3. CASE VisibilityCommit(t)
  <2>1. thread[t].pc = "stamped" /\ thread[t].msg \in rows /\ thread[t] \in Task
    BY <1>3 DEF VisibilityCommit, At, IInv, TypeInv, Decides
  <2>2. thread' = [thread EXCEPT ![t] = Resting] /\ hidden' \subseteq rows
    BY <1>1, <1>3, <2>1 DEF VisibilityCommit, Finish
  <2>3. audit' \in Seq(Entry) /\ clock' = clock
    <3>1. AuditRow(t) \in Entry
      BY <1>1, <2>1 DEF Task, Entry, AuditRow
    <3> QED BY <1>1, <1>3, <3>1 DEF VisibilityCommit
  <2>4. DOMAIN tab' = Tabs
        /\ \A p \in Tabs : tab'[p] = tab[p] \/ tab'[p] = [tab[p] EXCEPT !.steady = FALSE]
    BY <1>1, <1>3 DEF VisibilityCommit, Shifted
  <2>5. InFlight \subseteq InFlight'
    BY <2>1, <2>2, Flight
  <2>6. LacksAreExplained' /\ \A p \in Tabs : TabInv(p)'
    BY <1>1, <2>4, <2>5, Marked, ThreadSteps
  <2>7. TypeInv'
    BY <1>1, <2>2, <2>3, <2>4, <2>6, Records DEF IInv, TypeInv, Decides
  <2> QED BY <2>6, <2>7 DEF IInv
<1> QED BY <1>3, <1>4, <1>5

-----------------------------------------------------------------------------
LEMMA Initially == Init => IInv
<1> SUFFICES ASSUME Init PROVE IInv
  OBVIOUS
<1>1. \A p \in Tabs : TabInv(p) /\ ~FirstPage(p)
  BY Records DEF Init, TabInv, FirstPage
<1>2. TypeInv
  BY <1>1, Records, PageAssumption DEF Init, TypeInv, Decides
<1> QED BY <1>1, <1>2 DEF IInv, LacksAreExplained

LEMMA Steps ==
  ASSUME IInv, [Next]_vars
  PROVE  IInv'
<1>1. CASE UNCHANGED vars
  BY <1>1 DEF vars, IInv, TypeInv, TabInv, FirstPage, LacksAreExplained, InFlight, At, Decides
<1>2. CASE Next
  BY <1>2, Readings, Sending, Ending, Deciding DEF Next
<1> QED BY <1>1, <1>2

\* The invariant above holds for any number of threads, tabs and messages.
THEOREM Invariance == Spec => []IInv
BY Initially, Steps, PTL DEF Spec

\* Rows, threads and tabs keep their types; only a first page is live.
THEOREM TypeCorrect == Spec => []TypeOK
<1>1. IInv => TypeOK
  BY DEF IInv, TypeInv, TabInv, Task, Entry, TypeOK
<1> QED BY Invariance, <1>1, PTL

\* However the reading of the history, the join, the commits and the emits
\* interleave, for any number of them and any page size: what a first page lacks
\* was left out when it was read, trimmed, is about to be emitted, or is lost to
\* it because it was emitted while the page had not joined or was not emitted at
\* all (services.py, events.py, chat.js).
THEOREM LacksExplained == Spec => []LacksAreExplained
<1>1. IInv => LacksAreExplained
  BY DEF IInv
<1> QED BY Invariance, <1>1, PTL

-----------------------------------------------------------------------------
(* The page as a list. *)

\* How many of a finite set of numbers are up to m: different for each, and
\* every number from 1 to the size of the set.
LEMMA RankUp ==
  ASSUME NEW S, IsFiniteSet(S), S \subseteq Int
  PROVE  LET r == [m \in S |-> Cardinality({n \in S : n <= m})] IN
         /\ r \in Injection(S, 1 .. Cardinality(S))
         /\ r \in Surjection(S, 1 .. Cardinality(S))
<1> DEFINE upto(m) == {n \in S : n <= m}
           r == [m \in S |-> Cardinality(upto(m))]
           N == Cardinality(S)
<1>1. N \in Nat
  BY FS_CardinalityType
<1>2. ASSUME NEW m \in S PROVE IsFiniteSet(upto(m)) /\ Cardinality(upto(m)) \in 1 .. N
  <2>1. upto(m) \in SUBSET S /\ m \in upto(m)
    OBVIOUS
  <2>2. IsFiniteSet(upto(m)) /\ Cardinality(upto(m)) <= N /\ Cardinality(upto(m)) \in Nat
    BY <2>1, FS_Subset, FS_CardinalityType
  <2>3. Cardinality(upto(m)) # 0
    BY <2>1, <2>2, FS_EmptySet
  <2> QED BY <1>1, <2>2, <2>3
<1>3. ASSUME NEW m \in S, NEW n \in S, m < n PROVE Cardinality(upto(m)) < Cardinality(upto(n))
  <2>1. upto(m) \in SUBSET upto(n) /\ n \in upto(n) /\ n \notin upto(m)
    <3>1. m \in Int /\ n \in Int /\ n <= n /\ ~(n <= m)
      BY <1>3
    <3>2. \A x \in S : x <= m => x <= n
      BY <1>3, <3>1
    <3> QED BY <3>1, <3>2
  <2>2. /\ IsFiniteSet(upto(n)) /\ Cardinality(upto(n)) \in Nat /\ Cardinality(upto(m)) \in Nat
    BY <1>2
  <2>3. Cardinality(upto(m)) <= Cardinality(upto(n)) /\ Cardinality(upto(m)) # Cardinality(upto(n))
    <3> HIDE DEF upto
    <3> QED BY <2>1, <2>2, FS_Subset
  <2> QED BY <2>2, <2>3
<1>4. r \in [S -> 1 .. N]
  BY <1>2
<1>5. ASSUME NEW m \in S, NEW n \in S, r[m] = r[n] PROVE m = n
  <2>1. r[m] \in Int /\ r[m] = Cardinality(upto(m)) /\ r[n] = Cardinality(upto(n))
    BY <1>2
  <2>2. m < n \/ n < m \/ m = n
    OBVIOUS
  <2> HIDE DEF upto
  <2> QED BY <1>3, <1>5, <2>1, <2>2
<1> HIDE DEF r
<1>6. r \in Injection(S, 1 .. N)
  BY <1>4, <1>5 DEF Injection, IsInjective
<1>7. IsFiniteSet(1 .. N) /\ Cardinality(1 .. N) = N
  BY <1>1, FS_Interval
<1>8. r \in Surjection(S, 1 .. N)
  BY <1>6, <1>7, FS_Injection
<1> QED BY <1>6, <1>8 DEF r

\* The page in chronological order has each of its messages once.
LEMMA InOrder ==
  ASSUME NEW S, IsFiniteSet(S), S \subseteq Int
  PROVE  /\ Chronological(S) \in Seq(S) /\ Len(Chronological(S)) = Cardinality(S)
         /\ IsInjective(Chronological(S)) /\ ToSet(Chronological(S)) = S
<1> DEFINE rank(m) == Cardinality({n \in S : n <= m})
           r == [m \in S |-> rank(m)]
           c == Chronological(S)
           N == Cardinality(S)
<1>1. N \in Nat
  BY FS_CardinalityType
<1>2. /\ r \in [S -> 1 .. N]
      /\ \A m, n \in S : r[m] = r[n] => m = n
      /\ \A i \in 1 .. N : \E m \in S : r[m] = i
  <2>1. r \in Injection(S, 1 .. N) /\ r \in Surjection(S, 1 .. N)
    BY RankUp
  <2> HIDE DEF r
  <2> QED BY <2>1 DEF Injection, Surjection, IsInjective
<1>3. \A m \in S : r[m] = rank(m)
  OBVIOUS
<1>4. c = [i \in 1 .. N |-> CHOOSE m \in S : rank(m) = i]
  BY DEF Chronological
<1> HIDE DEF rank, r, c
<1>5. ASSUME NEW i \in 1 .. N PROVE c[i] \in S /\ r[c[i]] = i
  BY <1>2, <1>3, <1>4
<1>6. c \in Seq(S) /\ Len(c) = N /\ DOMAIN c = 1 .. N
  BY <1>1, <1>4, <1>5
<1>7. IsInjective(c)
  BY <1>5, <1>6 DEF IsInjective
<1>8. ASSUME NEW m \in S PROVE m \in ToSet(c)
  <2>1. r[m] \in 1 .. N
    BY <1>2
  <2>2. c[r[m]] = m
    BY <1>2, <1>5, <2>1
  <2> QED BY <1>6, <2>1, <2>2 DEF ToSet
<1>9. ToSet(c) \subseteq S
  BY <1>5, <1>6 DEF ToSet
<1> QED BY <1>6, <1>7, <1>8, <1>9 DEF c

\* The rank of a visible message, counted from the newest.
LEMMA Ranks ==
  ASSUME IInv
  PROVE  /\ IsFiniteSet(Visible) /\ Visible \subseteq Int /\ Cardinality(Visible) \in Nat
         /\ \A m \in Visible : Rank(m) \in 1 .. Cardinality(Visible)
         /\ \A m, n \in Visible : m < n => Rank(n) < Rank(m)
<1> DEFINE from(m) == {n \in Visible : n >= m}
           N == Cardinality(Visible)
<1>1. IsFiniteSet(Visible) /\ Visible \subseteq Int /\ N \in Nat
  <2>1. stamped \in Nat /\ Visible \in SUBSET (1 .. stamped)
    BY PageAssumption DEF IInv, TypeInv, Visible
  <2>2. IsFiniteSet(1 .. stamped)
    BY <2>1, FS_Interval
  <2>3. IsFiniteSet(Visible)
    BY <2>1, <2>2, FS_Subset
  <2> QED BY <2>1, <2>3, FS_CardinalityType
<1>2. ASSUME NEW m \in Visible
      PROVE  IsFiniteSet(from(m)) /\ Cardinality(from(m)) \in 1 .. N
  <2>1. from(m) \in SUBSET Visible /\ m \in from(m)
    BY <1>1
  <2>2. IsFiniteSet(from(m)) /\ Cardinality(from(m)) <= N /\ Cardinality(from(m)) \in Nat
    <3> HIDE DEF from
    <3> QED BY <1>1, <2>1, FS_Subset, FS_CardinalityType
  <2>3. Cardinality(from(m)) # 0
    <3> HIDE DEF from
    <3> QED BY <2>1, <2>2, FS_EmptySet
  <2> QED BY <1>1, <2>2, <2>3
<1>3. ASSUME NEW m \in Visible, NEW n \in Visible, m < n
      PROVE  Cardinality(from(n)) < Cardinality(from(m))
  <2>1. from(n) \in SUBSET from(m) /\ m \in from(m) /\ m \notin from(n)
    <3>1. m \in Int /\ n \in Int /\ m >= m /\ ~(m >= n)
      BY <1>1, <1>3
    <3>2. \A x \in Visible : x >= n => x >= m
      BY <1>1, <1>3, <3>1
    <3> QED BY <3>1, <3>2
  <2>2. IsFiniteSet(from(m)) /\ Cardinality(from(m)) \in Nat /\ Cardinality(from(n)) \in Nat
    BY <1>2
  <2>3. Cardinality(from(n)) <= Cardinality(from(m)) /\ Cardinality(from(n)) # Cardinality(from(m))
    <3> HIDE DEF from
    <3> QED BY <2>1, <2>2, FS_Subset
  <2> QED BY <2>2, <2>3
<1>4. \A m : Rank(m) = Cardinality(from(m))
  BY DEF Rank
<1> HIDE DEF from
<1> QED BY <1>1, <1>2, <1>3, <1>4

\* A page has at most PerPage messages.
LEMMA FewItems ==
  ASSUME IInv, NEW no \in Nat
  PROVE  /\ IsFiniteSet(Items(no)) /\ Items(no) \subseteq Visible /\ Items(no) \subseteq Int
         /\ Cardinality(Items(no)) <= PerPage
<1> DEFINE S == Items(no)
           first == (no - 1) * PerPage + 1
           last == no * PerPage
           r == [m \in S |-> Rank(m)]
<1>1. S \subseteq Visible /\ \A m \in S : Rank(m) \in first .. last
  BY DEF Items
<1>2. first \in Int /\ last \in Int /\ last - first + 1 = PerPage /\ PerPage \in Nat
  BY PageAssumption
<1> HIDE DEF S, first, last
<1>3. r \in [S -> first .. last]
  BY <1>1
<1>4. ASSUME NEW m \in S, NEW n \in S, r[m] = r[n] PROVE m = n
  <2>1. m \in Visible /\ n \in Visible /\ m \in Int /\ n \in Int
    BY <1>1, Ranks
  <2>2. Rank(m) = Rank(n) /\ Rank(m) \in Int
    BY <1>4, <2>1, Ranks
  <2>3. ~(Rank(m) < Rank(n)) /\ ~(Rank(n) < Rank(m))
    BY <2>2
  <2> QED BY <2>1, <2>3, Ranks
<1> HIDE DEF r
<1>5. r \in Injection(S, first .. last)
  BY <1>3, <1>4 DEF Injection, IsInjective
<1>6. IsFiniteSet(first .. last) /\ Cardinality(first .. last) <= PerPage
  <2>1. /\ IsFiniteSet(first .. last)
        /\ Cardinality(first .. last) = IF first > last THEN 0 ELSE last - first + 1
    BY <1>2, FS_Interval
  <2> QED BY <1>2, <2>1
<1>7. IsFiniteSet(S) /\ Cardinality(S) <= Cardinality(first .. last)
  BY <1>5, <1>6, FS_Injection
<1>8. Cardinality(S) \in Nat /\ Cardinality(first .. last) \in Nat
  BY <1>6, <1>7, FS_CardinalityType
<1>9. Cardinality(S) <= PerPage
  BY <1>2, <1>6, <1>7, <1>8
<1> QED BY <1>1, <1>7, <1>9, Ranks DEF S

\* A list of messages as ShownOnce has it.
OnceIn(page, R) ==
  /\ page.nodes \in Seq(R) /\ IsInjective(page.nodes) /\ Len(page.nodes) <= MaxNodes
  /\ page.seen = ToSet(page.nodes)

LEMMA AppendsOnce ==
  ASSUME NEW page, DOMAIN page = Fields, NEW R, OnceIn(page, R), NEW m \in R
  PROVE  LET longer == appendMessage(page, m) IN
         /\ OnceIn(longer, R)
         /\ ToSet(longer.nodes) \subseteq ToSet(page.nodes) \union {m}
<1> DEFINE s == page.nodes
           more == [page EXCEPT !.nodes = Append(s, m), !.seen = @ \union {m}]
<1>1. CASE Known(page, m)
  BY <1>1 DEF appendMessage
<1>2. CASE ~Known(page, m)
  <2>1. s \in Seq(R) /\ IsInjective(s) /\ Len(s) <= MaxNodes /\ page.seen = ToSet(s)
        /\ m \notin ToSet(s) /\ MaxNodes \in Nat /\ Len(s) \in Nat
    BY <1>2, PageAssumption DEF Known, OnceIn
  <2>2. more.nodes = Append(s, m) /\ more.seen = ToSet(s) \union {m} /\ DOMAIN more = Fields
    BY <2>1 DEF Fields
  <2>3. /\ Append(s, m) \in Seq(R) /\ Len(Append(s, m)) = Len(s) + 1
        /\ \A i \in 1 .. Len(s) : Append(s, m)[i] = s[i]
        /\ Append(s, m)[Len(s) + 1] = m
    BY <2>1
  <2>4. ToSet(Append(s, m)) = ToSet(s) \union {m}
    <3>1. DOMAIN s = 1 .. Len(s) /\ DOMAIN Append(s, m) = 1 .. Len(s) + 1
      BY <2>1, <2>3
    <3>2. 1 .. Len(s) + 1 = (1 .. Len(s)) \union {Len(s) + 1}
      BY <2>1
    <3> HIDE DEF s
    <3> QED BY <2>1, <2>3, <3>1, <3>2 DEF ToSet
  <2>5. IsInjective(Append(s, m))
    <3>1. DOMAIN s = 1 .. Len(s) /\ DOMAIN Append(s, m) = 1 .. Len(s) + 1
      BY <2>1, <2>3
    <3>2. \A i \in 1 .. Len(s) : s[i] # m
      BY <2>1, <3>1 DEF ToSet
    <3> HIDE DEF s
    <3> QED BY <2>1, <2>3, <3>1, <3>2 DEF IsInjective
  <2>6. appendMessage(page, m) = trimMessages(more)
    BY <1>2 DEF appendMessage
  <2> DEFINE q == Append(s, m)
  <2> HIDE DEF more
  <2>7. CASE Len(s) + 1 <= MaxNodes
    <3>1. appendMessage(page, m) = more
      BY <2>2, <2>3, <2>6, <2>7 DEF trimMessages
    <3> QED BY <2>2, <2>3, <2>4, <2>5, <2>7, <3>1 DEF OnceIn
  <2>8. CASE ~(Len(s) + 1 <= MaxNodes)
    <3> DEFINE trimmed == appendMessage(page, m)
    <3>1. trimmed.nodes = Tail(q) /\ trimmed.seen = more.seen \ {Head(q)}
      BY <2>2, <2>3, <2>6, <2>8 DEF trimMessages, Fields
    <3>a. q \in Seq(R) /\ Len(q) = Len(s) + 1
      BY <2>3
    <3> HIDE DEF q, trimmed, s
    <3>2. /\ Tail(q) \in Seq(R) /\ Len(Tail(q)) = Len(s) /\ Head(q) = q[1]
          /\ \A i \in 1 .. Len(s) : Tail(q)[i] = q[i + 1]
          /\ DOMAIN Tail(q) = 1 .. Len(s) /\ DOMAIN q = 1 .. Len(s) + 1
      BY <2>1, <3>a
    <3>3. \A i \in 1 .. Len(s) : i + 1 \in 1 .. Len(s) + 1 /\ i + 1 # 1
      BY <2>1
    <3>4. IsInjective(q) /\ ToSet(q) = ToSet(s) \union {m}
      BY <2>4, <2>5 DEF q
    <3>5. IsInjective(Tail(q))
      BY <2>1, <3>2, <3>3, <3>4 DEF IsInjective
    <3>6. ToSet(Tail(q)) = ToSet(q) \ {q[1]}
      <4>1. \A j \in 1 .. Len(s) + 1 : j # 1 => \E i \in 1 .. Len(s) : j = i + 1
        <5>1. \A j \in 1 .. Len(s) + 1 : j # 1 => j - 1 \in 1 .. Len(s) /\ j = (j - 1) + 1
          BY <2>1
        <5> QED BY <5>1
      <4>2. 1 \in 1 .. Len(s) + 1
        BY <2>1
      <4>3. \A j \in 1 .. Len(s) + 1 : j # 1 => q[j] # q[1]
        BY <3>2, <3>4, <4>2 DEF IsInjective
      <4>4. ToSet(Tail(q)) = {Tail(q)[i] : i \in 1 .. Len(s)} /\ ToSet(q) = {q[j] : j \in 1 .. Len(s) + 1}
        BY <3>2 DEF ToSet
      <4>5. ASSUME NEW i \in 1 .. Len(s) PROVE Tail(q)[i] \in ToSet(q) \ {q[1]}
        BY <3>2, <3>3, <4>3, <4>4
      <4>6. ASSUME NEW j \in 1 .. Len(s) + 1, q[j] # q[1] PROVE q[j] \in ToSet(Tail(q))
        <5> PICK i \in 1 .. Len(s) : j = i + 1
          BY <4>1, <4>6
        <5> QED BY <3>2, <4>4
      <4> QED BY <4>4, <4>5, <4>6
    <3> QED BY <2>1, <2>2, <3>1, <3>2, <3>4, <3>5, <3>6 DEF OnceIn, trimmed
  <2> QED BY <2>7, <2>8
<1> QED BY <1>1, <1>2

-----------------------------------------------------------------------------
(* What is on the page, and what stays off it. *)

\* A message has one sender, and is a row when it is emitted.
SenderInv ==
  /\ \A t \in Threads : thread[t].pc = "emitting" => thread[t].msg \in rows
  /\ \A t \in Threads : thread[t].pc = "saving" => thread[t].msg \notin rows
  /\ \A t, r \in Threads :
       thread[t].pc = "saving" /\ thread[r].pc = "saving" /\ thread[t].msg = thread[r].msg => t = r

\* What is barred from a page is not about to be emitted to it either.
BarredOf(p) ==
  /\ tab[p].barred \subseteq rows
  /\ tab[p].pc = "open" => ToSet(tab[p].nodes) \intersect tab[p].barred = {}
  /\ \A t \in Threads : thread[t].pc = "emitting" => thread[t].msg \notin tab[p].barred

PageInv ==
  /\ SenderInv
  /\ \A p \in Tabs : OnceIn(tab[p], rows) /\ BarredOf(p)

ThreadStep(t) ==
  \/ Stamp(t) \/ SaveCommit(t) \/ Emit(t) \/ Fails(t)
  \/ VisibilityStamp(t) \/ VisibilityCommit(t)
  \/ \E m \in Ids, hide \in BOOLEAN : VisibilityLoad(t, m, hide)

ReaderStep(p) == Open(p) \/ Count(p) \/ Read(p) \/ Older(p) \/ Join(p) \/ Drop(p)

LEMMA NextSteps ==
  Next <=> (\E t \in Threads : ThreadStep(t)) \/ (\E p \in Tabs : ReaderStep(p))
BY DEF Next, ThreadStep, ReaderStep

\* What a live message leaves of a page.
LEMMA AppendKeeps ==
  ASSUME NEW page, NEW m, DOMAIN page = Fields
  PROVE  LET longer == appendMessage(page, m) IN
         /\ longer.pc = page.pc /\ longer.no = page.no /\ longer.total = page.total
         /\ longer.older = page.older /\ longer.wanted = page.wanted
         /\ longer.walked = page.walked /\ longer.steady = page.steady
         /\ longer.barred = page.barred
BY DEF appendMessage, Known, trimMessages, Fields

\* The server's threads do not turn pages; one that emits adds a message.
LEMMA TabAfter ==
  ASSUME IInv, NEW t \in Threads, ThreadStep(t), NEW p \in Tabs
  PROVE  /\ tab'[p].pc = tab[p].pc /\ tab'[p].no = tab[p].no /\ tab'[p].total = tab[p].total
         /\ tab'[p].older = tab[p].older /\ tab'[p].wanted = tab[p].wanted
         /\ tab'[p].walked = tab[p].walked /\ tab'[p].barred = tab[p].barred
         /\ tab'[p].steady \in {tab[p].steady, FALSE}
         /\ \/ tab'[p].nodes = tab[p].nodes /\ tab'[p].seen = tab[p].seen
            \/ /\ thread[t].pc = "emitting" /\ tab[p].joined
               /\ tab'[p] = appendMessage(tab[p], thread[t].msg)
<1>1. DOMAIN tab[p] = Fields /\ DOMAIN tab = Tabs
  BY DEF IInv, TypeInv, TabInv
<1>2. CASE tab'[p] = tab[p]
  BY <1>2
<1>3. CASE tab'[p] = [tab[p] EXCEPT !.steady = FALSE]
  BY <1>1, <1>3 DEF Fields
<1>4. CASE tab'[p] = NotSent(p, thread[t].msg)
  BY <1>1, <1>4 DEF NotSent, Fields
<1>5. CASE /\ thread[t].pc = "emitting" /\ tab[p].joined
           /\ tab'[p] = appendMessage(tab[p], thread[t].msg)
  <2> DEFINE longer == appendMessage(tab[p], thread[t].msg)
  <2>1. /\ longer.pc = tab[p].pc /\ longer.no = tab[p].no /\ longer.total = tab[p].total
        /\ longer.older = tab[p].older /\ longer.wanted = tab[p].wanted
        /\ longer.walked = tab[p].walked /\ longer.steady = tab[p].steady
        /\ longer.barred = tab[p].barred
    BY <1>1, AppendKeeps
  <2> HIDE DEF longer
  <2>2. tab'[p] = longer
    BY <1>5 DEF longer
  <2> QED BY <1>5, <2>1, <2>2
<1>6. ASSUME \/ Stamp(t) \/ VisibilityStamp(t)
             \/ \E m \in Ids, hide \in BOOLEAN : VisibilityLoad(t, m, hide)
      PROVE  tab' = tab
  BY <1>6 DEF Stamp, VisibilityStamp, VisibilityLoad
<1>7. ASSUME SaveCommit(t) \/ VisibilityCommit(t)
      PROVE  tab'[p] \in {tab[p], [tab[p] EXCEPT !.steady = FALSE]}
  BY <1>7 DEF SaveCommit, VisibilityCommit, Shifted
<1>8. ASSUME Emit(t)
      PROVE  \/ tab'[p] = NotSent(p, thread[t].msg)
             \/ /\ thread[t].pc = "emitting" /\ tab[p].joined
                /\ tab'[p] = appendMessage(tab[p], thread[t].msg)
  BY <1>8 DEF Emit, At
<1>9. ASSUME Fails(t) PROVE tab'[p] \in {tab[p], NotSent(p, thread[t].msg)}
  BY <1>9 DEF Fails
<1> QED BY <1>2, <1>3, <1>4, <1>5, <1>6, <1>7, <1>8, <1>9 DEF ThreadStep

\* The thread itself, and the rows.
LEMMA ThreadAfter ==
  ASSUME IInv, NEW t \in Threads, ThreadStep(t)
  PROVE  /\ \A r \in Threads : r # t => thread'[r] = thread[r]
         /\ \/ /\ rows' = rows
               /\ thread'[t].pc \notin {"saving", "emitting"}
            \/ /\ Stamp(t) /\ rows' = rows
               /\ thread'[t].pc = "saving" /\ thread'[t].msg = stamped + 1
            \/ /\ SaveCommit(t) /\ rows' = rows \union {thread[t].msg}
               /\ thread[t].pc = "saving"
               /\ thread'[t].pc = "emitting" /\ thread'[t].msg = thread[t].msg
<1>1. thread \in [Threads -> Task] /\ thread[t] \in Task
  BY DEF IInv, TypeInv
<1>2. CASE Stamp(t)
  BY <1>1, <1>2 DEF Stamp, Task
<1>3. CASE SaveCommit(t)
  BY <1>1, <1>3 DEF SaveCommit, At, Task
<1>4. CASE Emit(t) \/ VisibilityCommit(t) \/ Fails(t)
  BY <1>1, <1>4, Records DEF Emit, VisibilityCommit, Fails, Finish
<1>5. ASSUME NEW m \in Ids, NEW hide \in BOOLEAN, VisibilityLoad(t, m, hide)
      PROVE  /\ \A r \in Threads : r # t => thread'[r] = thread[r]
             /\ rows' = rows /\ thread'[t].pc \notin {"saving", "emitting"}
  BY <1>1, <1>5 DEF VisibilityLoad, Resting
<1>6. CASE VisibilityStamp(t)
  BY <1>1, <1>6 DEF VisibilityStamp, Task
<1> QED BY <1>2, <1>3, <1>4, <1>5, <1>6 DEF ThreadStep

LEMMA SendersStay ==
  ASSUME IInv, SenderInv, NEW t \in Threads, ThreadStep(t)
  PROVE  SenderInv' /\ rows \subseteq rows'
<1>1. /\ stamped \in Nat /\ rows \subseteq 1 .. stamped
      /\ \A r \in Threads : thread[r].pc = "saving" => thread[r].msg \in 1 .. stamped
  BY PageAssumption DEF IInv, TypeInv
<1>2. stamped + 1 \notin 1 .. stamped
  BY <1>1
<1> QED BY <1>1, <1>2, ThreadAfter DEF SenderInv

LEMMA SeqWidens ==
  ASSUME NEW R, NEW T, R \subseteq T, NEW s \in Seq(R)
  PROVE  s \in Seq(T)
OBVIOUS

LEMMA PageInvThread ==
  ASSUME IInv, PageInv, NEW t \in Threads, ThreadStep(t)
  PROVE  PageInv'
<1>1. SenderInv' /\ rows \subseteq rows'
  BY SendersStay DEF PageInv
<1>2. ASSUME NEW p \in Tabs PROVE OnceIn(tab'[p], rows')
  <2>1. OnceIn(tab[p], rows) /\ DOMAIN tab[p] = Fields
    BY DEF PageInv, IInv, TypeInv, TabInv
  <2>2. OnceIn(tab'[p], rows)
    <3>1. CASE tab'[p].nodes = tab[p].nodes /\ tab'[p].seen = tab[p].seen
      BY <2>1, <3>1 DEF OnceIn
    <3>2. CASE thread[t].pc = "emitting" /\ tab'[p] = appendMessage(tab[p], thread[t].msg)
      <4>1. thread[t].msg \in rows
        BY <3>2 DEF PageInv, SenderInv
      <4> QED BY <2>1, <3>2, <4>1, AppendsOnce
    <3> QED BY <3>1, <3>2, TabAfter
  <2> QED BY <1>1, <2>2, SeqWidens DEF OnceIn
<1>3. ASSUME NEW p \in Tabs PROVE BarredOf(p)'
  <2>1. BarredOf(p) /\ OnceIn(tab[p], rows) /\ DOMAIN tab[p] = Fields
    BY DEF PageInv, IInv, TypeInv, TabInv
  <2>2. tab'[p].barred = tab[p].barred /\ tab'[p].pc = tab[p].pc
    BY TabAfter
  <2>3. ToSet(tab'[p].nodes) \intersect tab[p].barred \subseteq
          ToSet(tab[p].nodes) \intersect tab[p].barred
    <3>1. CASE thread[t].pc = "emitting" /\ tab'[p] = appendMessage(tab[p], thread[t].msg)
      <4>1. thread[t].msg \in rows /\ thread[t].msg \notin tab[p].barred
        BY <2>1, <3>1 DEF PageInv, SenderInv, BarredOf
      <4>2. ToSet(tab'[p].nodes) \subseteq ToSet(tab[p].nodes) \union {thread[t].msg}
        BY <2>1, <3>1, <4>1, AppendsOnce
      <4> QED BY <4>1, <4>2
    <3>2. CASE tab'[p].nodes = tab[p].nodes
      BY <3>2
    <3> QED BY <3>1, <3>2, TabAfter
  <2>4. ASSUME NEW r \in Threads, thread'[r].pc = "emitting"
        PROVE  thread'[r].msg \notin tab[p].barred
    <3>1. CASE thread'[r] = thread[r]
      BY <2>1, <2>4, <3>1 DEF BarredOf
    <3>2. CASE thread[r].pc = "saving" /\ thread'[r].msg = thread[r].msg
      BY <2>1, <3>2 DEF BarredOf, PageInv, SenderInv
    <3> QED BY <2>4, <3>1, <3>2, ThreadAfter
  <2> QED BY <1>1, <2>1, <2>2, <2>3, <2>4 DEF BarredOf
<1> QED BY <1>1, <1>2, <1>3 DEF PageInv

LEMMA Blank ==
  /\ Closed.nodes = << >> /\ Closed.seen = {} /\ Closed.barred = {} /\ Closed.wanted = {}
  /\ Closed.walked = {} /\ Closed.older = FALSE /\ Closed.steady = TRUE
  /\ \A R : << >> \in Seq(R) /\ IsInjective(<< >>) /\ Len(<< >>) <= MaxNodes
  /\ ToSet(<< >>) = {}
BY PageAssumption DEF Closed, IsInjective, ToSet

\* What the reader's steps do to his tab.
LEMMA ReaderAfter ==
  ASSUME IInv, NEW p \in Tabs, ReaderStep(p)
  PROVE  /\ UNCHANGED <<stamped, rows, hidden, clock, audit, thread>>
         /\ \A q \in Tabs : q # p => tab'[q] = tab[q]
         /\ \/ /\ tab'[p].pc = "count" /\ tab'[p].nodes = << >> /\ tab'[p].seen = {}
               /\ tab'[p].barred = {}
               /\ \/ /\ tab'[p].wanted = {} /\ tab'[p].walked = {} /\ tab'[p].no = 1
                  \/ /\ tab[p].pc = "open" /\ tab[p].older /\ tab'[p].no = tab[p].no + 1
                     /\ tab'[p].wanted = tab[p].wanted /\ tab'[p].walked = tab[p].walked
                     /\ tab'[p].steady = tab[p].steady
            \/ /\ tab[p].pc = "count" /\ tab'[p].pc = "items"
               /\ tab'[p].total = Cardinality(Visible)
               /\ tab'[p].nodes = tab[p].nodes /\ tab'[p].seen = tab[p].seen
               /\ tab'[p].barred = tab[p].barred /\ tab'[p].no = tab[p].no
               /\ tab'[p].wanted = tab[p].wanted /\ tab'[p].walked = tab[p].walked
               /\ tab'[p].steady = tab[p].steady
            \/ /\ tab[p].pc = "items" /\ tab'[p].pc = "open" /\ tab'[p].no = tab[p].no
               /\ tab'[p].nodes = Chronological(Items(tab[p].no))
               /\ tab'[p].seen = Items(tab[p].no)
               /\ tab'[p].barred = hidden \ InFlight
               /\ tab'[p].older = (tab[p].no < Pages(tab[p].total))
               /\ tab'[p].wanted = (IF tab[p].no = 1 THEN Visible ELSE tab[p].wanted)
               /\ tab'[p].walked = tab[p].walked \union Items(tab[p].no)
               /\ tab'[p].steady = tab[p].steady
            \/ /\ tab'[p].pc = tab[p].pc /\ tab'[p].no = tab[p].no
               /\ tab'[p].total = tab[p].total /\ tab'[p].older = tab[p].older
               /\ tab'[p].nodes = tab[p].nodes /\ tab'[p].seen = tab[p].seen
               /\ tab'[p].barred = tab[p].barred
               /\ tab'[p].wanted = tab[p].wanted /\ tab'[p].walked = tab[p].walked
               /\ tab'[p].steady = tab[p].steady
<1>1. DOMAIN tab[p] = Fields /\ DOMAIN tab = Tabs /\ p \in DOMAIN tab
  BY DEF IInv, TypeInv, TabInv
<1>2. UNCHANGED <<stamped, rows, hidden, clock, audit, thread>>
      /\ \A q \in Tabs : q # p => tab'[q] = tab[q]
  BY <1>1 DEF ReaderStep, Open, Count, Read, Older, Join, Drop
<1>3. CASE Open(p)
  <2>1. tab'[p] = [Closed EXCEPT !.pc = "count"]
    BY <1>1, <1>3 DEF Open
  <2>2. /\ tab'[p].pc = "count" /\ tab'[p].nodes = << >> /\ tab'[p].seen = {}
        /\ tab'[p].barred = {} /\ tab'[p].wanted = {} /\ tab'[p].walked = {} /\ tab'[p].no = 1
    BY <2>1 DEF Closed
  <2> QED BY <1>2, <1>3, <2>2
<1>4. CASE Older(p)
  <2>1. tab'[p] = [Closed EXCEPT
          !.pc = "count", !.no = tab[p].no + 1, !.wanted = tab[p].wanted,
          !.walked = tab[p].walked, !.steady = tab[p].steady]
    BY <1>1, <1>4 DEF Older
  <2>2. /\ tab'[p].pc = "count" /\ tab'[p].nodes = << >> /\ tab'[p].seen = {}
        /\ tab'[p].barred = {} /\ tab'[p].no = tab[p].no + 1
        /\ tab'[p].wanted = tab[p].wanted /\ tab'[p].walked = tab[p].walked
        /\ tab'[p].steady = tab[p].steady
    BY <2>1 DEF Closed
  <2>3. tab[p].pc = "open" /\ tab[p].older
    BY <1>4 DEF Older
  <2> QED BY <1>2, <1>4, <2>2, <2>3
<1>5. CASE Count(p)
  <2>1. tab'[p] = [tab[p] EXCEPT !.pc = "items", !.total = Cardinality(Visible)]
        /\ tab[p].pc = "count"
    BY <1>1, <1>5 DEF Count
  <2>2. /\ tab'[p].pc = "items" /\ tab'[p].total = Cardinality(Visible)
        /\ tab'[p].nodes = tab[p].nodes /\ tab'[p].seen = tab[p].seen
        /\ tab'[p].barred = tab[p].barred /\ tab'[p].no = tab[p].no
        /\ tab'[p].wanted = tab[p].wanted /\ tab'[p].walked = tab[p].walked
        /\ tab'[p].steady = tab[p].steady
    BY <1>1, <2>1 DEF Fields
  <2> QED BY <1>2, <2>1, <2>2
<1>6. CASE Read(p)
  <2>1. /\ tab'[p].pc = "open" /\ tab'[p].no = tab[p].no
        /\ tab'[p].nodes = Chronological(Items(tab[p].no)) /\ tab'[p].seen = Items(tab[p].no)
        /\ tab'[p].older = (tab[p].no < Pages(tab[p].total))
    BY <1>1, <1>6 DEF Read, Fields
  <2>2. tab'[p].steady = tab[p].steady /\ tab'[p].barred = hidden \ InFlight
    BY <1>1, <1>6 DEF Read, Fields
  <2>4. tab'[p].walked = tab[p].walked \union Items(tab[p].no)
    BY <1>1, <1>6 DEF Read, Fields
  <2>5. tab'[p].wanted = (IF tab[p].no = 1 THEN Visible ELSE tab[p].wanted)
    BY <1>1, <1>6 DEF Read, Fields
  <2>3. tab[p].pc = "items"
    BY <1>6 DEF Read
  <2> QED BY <1>2, <2>1, <2>2, <2>3, <2>4, <2>5
<1>7. ASSUME NEW joined \in BOOLEAN, tab'[p] = [tab[p] EXCEPT !.joined = joined]
      PROVE  /\ tab'[p].pc = tab[p].pc /\ tab'[p].no = tab[p].no
             /\ tab'[p].total = tab[p].total /\ tab'[p].older = tab[p].older
             /\ tab'[p].nodes = tab[p].nodes /\ tab'[p].seen = tab[p].seen
             /\ tab'[p].barred = tab[p].barred
             /\ tab'[p].wanted = tab[p].wanted /\ tab'[p].walked = tab[p].walked
             /\ tab'[p].steady = tab[p].steady
  BY <1>1, <1>7 DEF Fields
<1>8. Join(p) \/ Drop(p) => \E joined \in BOOLEAN : tab'[p] = [tab[p] EXCEPT !.joined = joined]
  BY <1>1 DEF Join, Drop
<1> QED BY <1>2, <1>3, <1>4, <1>5, <1>6, <1>7, <1>8 DEF ReaderStep

LEMMA PageInvReader ==
  ASSUME IInv, PageInv, NEW p \in Tabs, ReaderStep(p)
  PROVE  PageInv'
<1>1. UNCHANGED <<rows, hidden, thread>> /\ \A q \in Tabs : q # p => tab'[q] = tab[q]
  BY ReaderAfter
<1>2. SenderInv'
  BY <1>1 DEF PageInv, SenderInv
<1>3. OnceIn(tab[p], rows) /\ BarredOf(p)
  BY DEF PageInv
<1>4. OnceIn(tab'[p], rows) /\ BarredOf(p)'
  <2>1. CASE /\ tab'[p].pc = "count" /\ tab'[p].nodes = << >> /\ tab'[p].seen = {}
             /\ tab'[p].barred = {}
    BY <1>1, <2>1, Blank DEF OnceIn, BarredOf
  <2>2. CASE /\ tab'[p].nodes = tab[p].nodes /\ tab'[p].seen = tab[p].seen
             /\ tab'[p].barred = tab[p].barred /\ tab'[p].pc \in {tab[p].pc, "items"}
    BY <1>1, <1>3, <2>2 DEF OnceIn, BarredOf
  <2>3. CASE /\ tab'[p].nodes = Chronological(Items(tab[p].no))
             /\ tab'[p].seen = Items(tab[p].no) /\ tab'[p].barred = hidden \ InFlight
    <3> DEFINE S == Items(tab[p].no)
    <3>1. /\ IsFiniteSet(S) /\ S \subseteq Visible /\ S \subseteq Int /\ Cardinality(S) <= PerPage
          /\ Cardinality(S) \in Nat
      BY FewItems, FS_CardinalityType DEF IInv, TypeInv, TabInv
    <3> HIDE DEF S
    <3>2. /\ Chronological(S) \in Seq(S) /\ Len(Chronological(S)) = Cardinality(S)
          /\ IsInjective(Chronological(S)) /\ ToSet(Chronological(S)) = S
      BY <3>1, InOrder
    <3>3. S \subseteq rows /\ Chronological(S) \in Seq(rows)
      BY <3>1, <3>2, SeqWidens DEF Visible
    <3>4. Cardinality(S) <= MaxNodes
      BY <3>1, PageAssumption
    <3>5. tab'[p].nodes = Chronological(S) /\ tab'[p].seen = S
      BY <2>3 DEF S
    <3>6. OnceIn(tab'[p], rows)
      BY <3>2, <3>3, <3>4, <3>5 DEF OnceIn
    <3>7. ToSet(tab'[p].nodes) \intersect tab'[p].barred = {}
      BY <2>3, <3>1, <3>2, <3>5 DEF Visible
    <3>8. tab'[p].barred \subseteq rows
      BY <2>3 DEF IInv, TypeInv
    <3>9. \A t \in Threads : thread[t].pc = "emitting" => thread[t].msg \notin tab'[p].barred
      BY <2>3 DEF InFlight, At
    <3> QED BY <1>1, <3>6, <3>7, <3>8, <3>9 DEF BarredOf
  <2> QED BY <2>1, <2>2, <2>3, ReaderAfter
<1>5. ASSUME NEW q \in Tabs PROVE OnceIn(tab'[q], rows') /\ BarredOf(q)'
  <2>1. CASE q = p
    BY <1>1, <1>4, <2>1
  <2>2. CASE q # p
    BY <1>1, <2>2 DEF PageInv, OnceIn, BarredOf
  <2> QED BY <2>1, <2>2
<1> QED BY <1>2, <1>5 DEF PageInv

LEMMA PageInvHolds == Spec => []PageInv
<1>1. Init => PageInv
  <2> SUFFICES ASSUME Init PROVE PageInv
    OBVIOUS
  <2>1. SenderInv
    BY Records DEF Init, SenderInv
  <2>2. ASSUME NEW p \in Tabs PROVE OnceIn(tab[p], rows) /\ BarredOf(p)
    BY Blank, Records DEF Init, OnceIn, BarredOf
  <2> QED BY <2>1, <2>2 DEF PageInv
<1>2. ASSUME IInv, PageInv, UNCHANGED vars PROVE PageInv'
  BY <1>2 DEF vars, PageInv, SenderInv, OnceIn, BarredOf
<1>3. IInv /\ PageInv /\ [Next]_vars => PageInv'
  BY <1>2, NextSteps, PageInvThread, PageInvReader
<1> QED BY Invariance, <1>1, <1>3, PTL DEF Spec

\* A message that is in the history and is emitted to the page too is shown
\* once, and the page stays within its limit (chat.js), however the reading and
\* the emits interleave.
THEOREM Once == Spec => []ShownOnce
<1>1. PageInv => ShownOnce
  BY DEF PageInv, OnceIn, ShownOnce
<1> QED BY PageInvHolds, <1>1, PTL

\* What an administrator had hidden, and no handler was about to emit, when a
\* page was read does not get onto it (services.py, get_message_history).
THEOREM StaysOff == Spec => []HiddenStaysOff
<1>1. PageInv => HiddenStaysOff
  BY DEF PageInv, BarredOf, HiddenStaysOff
<1> QED BY PageInvHolds, <1>1, PTL

-----------------------------------------------------------------------------
(* The reader who pages back. *)

\* What he wants to read and has not read yet.
Unread(p) == tab[p].wanted \ tab[p].walked

\* It is on the pages that are still to come.
WalkOf(p) ==
  tab[p].steady =>
    /\ Unread(p) \subseteq Visible
    /\ tab[p].pc \in {"count", "items"} =>
         \A m \in Unread(p) : Rank(m) > (tab[p].no - 1) * PerPage
    /\ tab[p].pc = "items" => tab[p].total = Cardinality(Visible)
    /\ tab[p].pc = "open" =>
         IF tab[p].older THEN \A m \in Unread(p) : Rank(m) > tab[p].no * PerPage
                         ELSE Unread(p) = {}

LEMMA Monotone ==
  ASSUME NEW P \in Nat, NEW m \in Int, NEW n \in Int, m <= n
  PROVE  m * P <= n * P
<1>1. n - m \in Nat
  OBVIOUS
<1>2. (n - m) * P \in Nat
  BY <1>1
<1>3. (n - m) * P = n * P - m * P
  OBVIOUS
<1> QED BY <1>2, <1>3

\* All rows are on the pages that are counted.
LEMMA PagesHoldAll ==
  ASSUME NEW total \in Nat, NEW no \in Nat, ~(no < Pages(total))
  PROVE  total <= no * PerPage
<1> DEFINE q == (total + PerPage - 1) \div PerPage
<1>1. PerPage \in Nat /\ PerPage > 0
  BY PageAssumption
<1>2. q \in Int /\ total + PerPage - 1 < q * PerPage + PerPage
  BY <1>1
<1> HIDE DEF q
<1>3. q <= no
  BY <1>2 DEF Pages, q
<1>4. q * PerPage <= no * PerPage
  BY <1>1, <1>2, <1>3, Monotone
<1>5. q * PerPage \in Int /\ no * PerPage \in Int
  BY <1>1, <1>2
<1> QED BY <1>1, <1>2, <1>4, <1>5

LEMMA RankGrows ==
  ASSUME IInv, IInv', Visible \subseteq Visible', NEW m
  PROVE  Rank(m) \in Nat /\ Rank(m)' \in Nat /\ Rank(m) <= Rank(m)'
<1> DEFINE S == {n \in Visible : n >= m}
           T == {n \in Visible' : n >= m}
<1>1. IsFiniteSet(Visible')
  <2>1. stamped' \in Nat /\ Visible' \in SUBSET (1 .. stamped')
    BY PageAssumption DEF IInv, TypeInv, Visible
  <2>2. IsFiniteSet(1 .. stamped')
    BY <2>1, FS_Interval
  <2> QED BY <2>1, <2>2, FS_Subset
<1>2. S \in SUBSET T /\ T \in SUBSET Visible'
  OBVIOUS
<1>3. Rank(m) = Cardinality(S) /\ Rank(m)' = Cardinality(T)
  BY DEF Rank
<1> HIDE DEF S, T
<1>4. IsFiniteSet(T) /\ IsFiniteSet(S) /\ Cardinality(S) <= Cardinality(T)
  BY <1>1, <1>2, FS_Subset
<1> QED BY <1>3, <1>4, FS_CardinalityType

\* Hiding ends a steady walk, and so does whatever shifts a page that has been
\* counted and not read yet.
LEMMA SteadyStep ==
  ASSUME IInv, NEW t \in Threads, ThreadStep(t), NEW p \in Tabs, tab'[p].steady
  PROVE  /\ Visible \subseteq Visible'
         /\ tab[p].pc = "items" => Visible' = Visible
<1>1. DOMAIN tab[p] = Fields /\ DOMAIN tab = Tabs
  BY DEF IInv, TypeInv, TabInv
<1>2. CASE \/ Stamp(t) \/ Emit(t) \/ Fails(t) \/ VisibilityStamp(t)
           \/ \E m \in Ids, hide \in BOOLEAN : VisibilityLoad(t, m, hide)
  BY <1>2 DEF Stamp, Emit, Fails, VisibilityStamp, VisibilityLoad, Visible
<1>3. CASE SaveCommit(t)
  <2>1. tab[p].pc # "items"
    BY <1>1, <1>3 DEF SaveCommit, Shifted, Fields
  <2> QED BY <1>3, <2>1 DEF SaveCommit, Visible
<1>4. CASE VisibilityCommit(t)
  <2>1. rows' = rows
    BY <1>4 DEF VisibilityCommit
  <2>2. hidden' \ hidden = {}
    BY <1>1, <1>4 DEF VisibilityCommit, Fields
  <2>3. hidden \ hidden' # {} => tab[p].pc # "items"
    BY <1>1, <1>4, <2>2 DEF VisibilityCommit, Shifted, Fields
  <2> QED BY <2>1, <2>2, <2>3 DEF Visible
<1> QED BY <1>2, <1>3, <1>4 DEF ThreadStep

LEMMA WalkThread ==
  ASSUME IInv, NEW t \in Threads, ThreadStep(t), NEW p \in Tabs, WalkOf(p)
  PROVE  WalkOf(p)'
<1> SUFFICES ASSUME tab'[p].steady PROVE WalkOf(p)'
  BY DEF WalkOf
<1>1. /\ tab'[p].pc = tab[p].pc /\ tab'[p].no = tab[p].no /\ tab'[p].total = tab[p].total
      /\ tab'[p].older = tab[p].older /\ tab'[p].steady = tab[p].steady
      /\ tab'[p].wanted = tab[p].wanted /\ tab'[p].walked = tab[p].walked
  BY TabAfter
<1>2. Unread(p)' = Unread(p)
  BY <1>1 DEF Unread
<1>3. Visible \subseteq Visible' /\ (tab[p].pc = "items" => Visible' = Visible)
  BY SteadyStep
<1>4. IInv' /\ tab[p].no \in Nat
  BY Steps, NextSteps DEF IInv, TypeInv, TabInv
<1>5. ASSUME NEW m, NEW n \in Int, Rank(m) > n PROVE Rank(m)' > n
  BY <1>3, <1>4, <1>5, RankGrows
<1>6. (tab[p].no - 1) * PerPage \in Int /\ tab[p].no * PerPage \in Int
  BY <1>4, PageAssumption
<1> QED BY <1>1, <1>2, <1>3, <1>5, <1>6 DEF WalkOf

LEMMA WalkReader ==
  ASSUME IInv, NEW p \in Tabs, ReaderStep(p), WalkOf(p)
  PROVE  WalkOf(p)'
<1> SUFFICES ASSUME tab'[p].steady PROVE WalkOf(p)'
  BY DEF WalkOf
<1> DEFINE
    opened ==
      tab'[p].pc = "count" /\ tab'[p].wanted = {}
    older ==
      /\ tab[p].pc = "open" /\ tab[p].older /\ tab'[p].no = tab[p].no + 1
      /\ tab'[p].wanted = tab[p].wanted /\ tab'[p].walked = tab[p].walked
      /\ tab'[p].steady = tab[p].steady /\ tab'[p].pc = "count"
    counted ==
      /\ tab[p].pc = "count" /\ tab'[p].pc = "items"
      /\ tab'[p].total = Cardinality(Visible) /\ tab'[p].no = tab[p].no
      /\ tab'[p].wanted = tab[p].wanted /\ tab'[p].walked = tab[p].walked
      /\ tab'[p].steady = tab[p].steady
    read ==
      /\ tab[p].pc = "items" /\ tab'[p].pc = "open" /\ tab'[p].no = tab[p].no
      /\ tab'[p].older = (tab[p].no < Pages(tab[p].total))
      /\ tab'[p].wanted = (IF tab[p].no = 1 THEN Visible ELSE tab[p].wanted)
      /\ tab'[p].walked = tab[p].walked \union Items(tab[p].no)
      /\ tab'[p].steady = tab[p].steady
    same ==
      /\ tab'[p].pc = tab[p].pc /\ tab'[p].no = tab[p].no
      /\ tab'[p].total = tab[p].total /\ tab'[p].older = tab[p].older
      /\ tab'[p].wanted = tab[p].wanted /\ tab'[p].walked = tab[p].walked
      /\ tab'[p].steady = tab[p].steady
<1>1. UNCHANGED <<rows, hidden>> /\ tab[p].no \in Nat /\ PerPage \in Nat
  BY ReaderAfter, PageAssumption DEF IInv, TypeInv, TabInv
<1>2. Visible' = Visible /\ \A m : Rank(m)' = Rank(m)
  BY <1>1 DEF Visible, Rank
<1>3. CASE opened
  BY <1>3 DEF WalkOf, Unread
<1>4. CASE older
  <2>1. Unread(p)' = Unread(p) /\ (tab'[p].no - 1) * PerPage = tab[p].no * PerPage
    BY <1>1, <1>4 DEF Unread
  <2> QED BY <1>2, <1>4, <2>1 DEF WalkOf
<1>5. CASE counted
  <2>1. Unread(p)' = Unread(p)
    BY <1>5 DEF Unread
  <2> QED BY <1>2, <1>5, <2>1 DEF WalkOf
<1>6. CASE read
  <2> DEFINE no == tab[p].no
  <2>1. /\ Unread(p) \subseteq Visible /\ tab[p].total = Cardinality(Visible)
        /\ \A m \in Unread(p) : Rank(m) > (no - 1) * PerPage
    BY <1>6 DEF WalkOf
  <2>2. (no - 1) * PerPage \in Int /\ no * PerPage \in Int /\ (no = 1 => (no - 1) * PerPage = 0)
    BY <1>1
  <2>3. ASSUME NEW m \in Unread(p)' PROVE m \in Visible /\ Rank(m) > no * PerPage
    <3>1. m \in Visible /\ m \notin Items(no)
      BY <1>6, <2>1, <2>3 DEF Unread
    <3>2. Rank(m) \in Nat /\ Rank(m) > (no - 1) * PerPage
      <4>1. Rank(m) \in 1 .. Cardinality(Visible) /\ Cardinality(Visible) \in Nat
        BY <3>1, Ranks
      <4>2. CASE no = 1
        BY <2>2, <4>1, <4>2
      <4>3. CASE no # 1
        <5>1. m \in Unread(p)
          BY <1>6, <2>3, <4>3 DEF Unread
        <5> QED BY <2>1, <4>1, <5>1
      <4> QED BY <4>2, <4>3
    <3>3. Rank(m) \notin (no - 1) * PerPage + 1 .. no * PerPage
      BY <3>1 DEF Items
    <3> QED BY <2>2, <3>1, <3>2, <3>3
  <2>4. ASSUME ~tab'[p].older PROVE Unread(p)' = {}
    <3> SUFFICES ASSUME NEW m \in Unread(p)' PROVE FALSE
      OBVIOUS
    <3>1. /\ m \in Visible /\ Rank(m) > no * PerPage
          /\ Rank(m) \in 1 .. Cardinality(Visible) /\ Cardinality(Visible) \in Nat
      BY <2>3, Ranks
    <3>2. Cardinality(Visible) <= no * PerPage
      BY <1>1, <1>6, <2>1, <2>4, <3>1, PagesHoldAll
    <3> QED BY <2>2, <3>1, <3>2
  <2> QED BY <1>2, <1>6, <2>3, <2>4 DEF WalkOf
<1>7. CASE same
  <2>1. Unread(p)' = Unread(p)
    BY <1>7 DEF Unread
  <2> QED BY <1>2, <1>7, <2>1 DEF WalkOf
<1>8. opened \/ older \/ counted \/ read \/ same
  BY ReaderAfter, ZenonT(30)
<1> HIDE DEF opened, older, counted, read, same
<1> QED BY <1>3, <1>4, <1>5, <1>6, <1>7, <1>8

WalkInv == \A p \in Tabs : WalkOf(p)

LEMMA WalkInvStays ==
  ASSUME IInv, WalkInv, [Next]_vars
  PROVE  WalkInv'
<1>1. CASE UNCHANGED vars
  BY <1>1 DEF vars, WalkInv, WalkOf, Unread, Visible, Rank
<1>2. ASSUME NEW t \in Threads, ThreadStep(t) PROVE WalkInv'
  BY <1>2, WalkThread DEF WalkInv
<1>3. ASSUME NEW p \in Tabs, ReaderStep(p), NEW q \in Tabs PROVE WalkOf(q)'
  <2>1. CASE q = p
    BY <1>3, <2>1, WalkReader DEF WalkInv
  <2>2. CASE q # p
    <3>1. tab'[q] = tab[q] /\ UNCHANGED <<rows, hidden>>
      BY <1>3, <2>2, ReaderAfter
    <3> QED BY <3>1 DEF WalkInv, WalkOf, Unread, Visible, Rank
  <2> QED BY <2>1, <2>2
<1> QED BY <1>1, <1>2, <1>3, NextSteps DEF WalkInv

\* Who pages back to the end of a room has read every message that was there
\* when he began, for any page size and however many messages are sent
\* meanwhile, as long as none is hidden and no commit comes between the COUNT
\* and the page (services.py, get_message_history).
THEOREM WalkIsComplete == Spec => []WalkMissesNothing
<1>1. Init => WalkInv
  <2> SUFFICES ASSUME Init, NEW p \in Tabs PROVE WalkOf(p)
    BY DEF WalkInv
  <2>1. tab[p].pc = "closed" /\ tab[p].wanted = {}
    BY Blank, Records DEF Init
  <2> QED BY <2>1 DEF WalkOf, Unread
<1>2. WalkInv => WalkMissesNothing
  BY DEF WalkInv, WalkOf, Unread, WalkMissesNothing
<1>3. IInv /\ WalkInv /\ [Next]_vars => WalkInv'
  BY WalkInvStays
<1> QED BY Invariance, <1>1, <1>2, <1>3, PTL DEF Spec

-----------------------------------------------------------------------------
(* The audit log. *)

\* The decisions on m, among the first n, that wrote the row.
Writes(m, n) ==
  {i \in 1 .. n : i \in DOMAIN audit /\ audit[i].msg = m /\ audit[i].from # audit[i].to}

\* v is the visibility they leave, in the order of their commits.
Leaves(m, n, v) ==
  \/ Writes(m, n) = {} /\ ~v
  \/ \E i \in Writes(m, n) : (audit[i].to <=> v) /\ \A j \in Writes(m, n) : j <= i

\* Who loads a message after a decision has committed is given a later time.
StampInv ==
  /\ \A i \in DOMAIN audit :
       /\ audit[i].since < i /\ audit[i].at <= clock
       /\ \A j \in 1 .. audit[i].since : audit[j].at < audit[i].at
  /\ \A t \in Threads : Decides(t) => thread[t].since <= Len(audit)
  /\ \A t \in Threads : thread[t].pc = "stamped" =>
       /\ thread[t].at <= clock
       /\ \A j \in 1 .. thread[t].since : audit[j].at < thread[t].at

\* What a decision found is what the commits before its load had left.
FoundInv ==
  /\ \A i \in DOMAIN audit :
       audit[i].msg \in rows /\ Leaves(audit[i].msg, audit[i].since, audit[i].from)
  /\ \A m \in rows : Leaves(m, Len(audit), m \in hidden)
  /\ \A t \in Threads : Decides(t) =>
       Leaves(thread[t].msg, thread[t].since, thread[t].loaded)

AuditInv == StampInv /\ FoundInv

LEMMA AuditIs ==
  ASSUME IInv
  PROVE  /\ Len(audit) \in Nat /\ DOMAIN audit = 1 .. Len(audit) /\ clock \in Nat
         /\ \A i \in DOMAIN audit : audit[i] \in Entry
         /\ \A t \in Threads : thread[t] \in Task
BY DEF IInv, TypeInv

\* Later rows do not change what the earlier ones left.
LEMMA LeavesStays ==
  ASSUME NEW m, NEW n, NEW v, 1 .. n \subseteq DOMAIN audit, 1 .. n \subseteq DOMAIN audit',
         \A i \in 1 .. n : audit'[i] = audit[i], Leaves(m, n, v)
  PROVE  Leaves(m, n, v)'
<1>1. Writes(m, n)' = Writes(m, n)
  BY DEF Writes
<1>2. \A i \in Writes(m, n) : audit'[i] = audit[i]
  BY DEF Writes
<1> QED BY <1>1, <1>2 DEF Leaves

\* Steps that have nothing to do with decisions, and failures.
QuietStep ==
  /\ UNCHANGED <<audit, hidden, clock>> /\ rows \subseteq rows'
  /\ \A t \in Threads : Decides(t)' => thread'[t] = thread[t]

LEMMA Quiet ==
  ASSUME IInv, AuditInv, QuietStep
  PROVE  AuditInv'
<1>1. StampInv'
  BY DEF AuditInv, StampInv, QuietStep, Decides
<1>2. ASSUME NEW m, NEW n, NEW v PROVE Leaves(m, n, v)' <=> Leaves(m, n, v)
  BY DEF Leaves, Writes, QuietStep
<1>3. ASSUME NEW m \in rows' PROVE Leaves(m, Len(audit), m \in hidden)
  <2>1. CASE m \in rows
    BY <2>1 DEF AuditInv, FoundInv
  <2>2. CASE m \notin rows
    <3>1. Writes(m, Len(audit)) = {} /\ m \notin hidden
      BY <2>2 DEF Writes, AuditInv, FoundInv, IInv, TypeInv
    <3> QED BY <3>1 DEF Leaves
  <2> QED BY <2>1, <2>2
<1>4. /\ UNCHANGED <<audit, hidden>> /\ rows \subseteq rows'
      /\ \A t \in Threads : Decides(t)' => thread'[t] = thread[t] /\ Decides(t)
  BY DEF QuietStep, Decides
<1>5. \A i \in DOMAIN audit' : audit'[i].msg \in rows' /\ Leaves(audit'[i].msg, audit'[i].since, audit'[i].from)
  BY <1>4 DEF AuditInv, FoundInv
<1>6. \A t \in Threads : Decides(t)' =>
        Leaves(thread'[t].msg, thread'[t].since, thread'[t].loaded)
  BY <1>4 DEF AuditInv, FoundInv
<1>7. FoundInv'
  BY <1>2, <1>3, <1>4, <1>5, <1>6 DEF FoundInv
<1> QED BY <1>1, <1>7 DEF AuditInv

LEMMA StepsOfTheLog ==
  ASSUME IInv, [Next]_vars
  PROVE  \/ QuietStep
         \/ \E t \in Threads :
              \/ VisibilityStamp(t) \/ VisibilityCommit(t)
              \/ \E m \in Ids, hide \in BOOLEAN : VisibilityLoad(t, m, hide)
<1>1. CASE UNCHANGED vars
  BY <1>1 DEF vars, QuietStep
<1>2. ASSUME NEW p \in Tabs, ReaderStep(p) PROVE QuietStep
  BY <1>2 DEF ReaderStep, Open, Count, Read, Older, Join, Drop, QuietStep
<1>3. ASSUME NEW t \in Threads, Stamp(t) \/ SaveCommit(t) \/ Emit(t) \/ Fails(t)
      PROVE  QuietStep
  <2>1. UNCHANGED <<audit, hidden, clock>> /\ rows \subseteq rows'
    BY <1>3 DEF Stamp, SaveCommit, Emit, Fails
  <2>2. thread'[t].pc \in {"saving", "emitting", "idle"}
        /\ \A r \in Threads \ {t} : thread'[r] = thread[r]
    <3>1. thread \in [Threads -> Task] /\ thread[t] \in Task
      BY DEF IInv, TypeInv
    <3>2. CASE Stamp(t)
      BY <3>1, <3>2 DEF Stamp, Task
    <3>3. CASE SaveCommit(t)
      BY <3>1, <3>3 DEF SaveCommit, Task
    <3>4. CASE Emit(t) \/ Fails(t)
      BY <3>1, <3>4, Records DEF Emit, Fails, Finish
    <3> QED BY <1>3, <3>2, <3>3, <3>4
  <2> QED BY <2>1, <2>2 DEF QuietStep, Decides
<1> QED BY <1>1, <1>2, <1>3, NextSteps DEF ThreadStep

LEMMA LoadAudited ==
  ASSUME IInv, AuditInv, NEW t \in Threads, NEW m \in Ids, NEW hide \in BOOLEAN,
         VisibilityLoad(t, m, hide)
  PROVE  AuditInv'
<1>1. /\ UNCHANGED <<rows, hidden, clock, audit>> /\ m \in rows
      /\ \A r \in Threads \ {t} : thread'[r] = thread[r]
  BY DEF VisibilityLoad, Listed
<1>2. /\ thread'[t].pc = "deciding" /\ thread'[t].msg = m /\ thread'[t].since = Len(audit)
      /\ thread'[t].loaded = (m \in hidden)
  BY DEF VisibilityLoad, IInv, TypeInv
<1>3. ASSUME NEW k, NEW n, NEW v PROVE Leaves(k, n, v)' <=> Leaves(k, n, v)
  BY <1>1 DEF Leaves, Writes
<1>4. StampInv'
  BY <1>1, <1>2, AuditIs DEF AuditInv, StampInv, Decides
<1>5. ASSUME NEW r \in Threads, Decides(r)'
      PROVE  Leaves(thread'[r].msg, thread'[r].since, thread'[r].loaded)
  <2>1. CASE r = t
    BY <1>1, <1>2, <2>1 DEF AuditInv, FoundInv
  <2>2. CASE r # t
    BY <1>1, <1>5, <2>2 DEF AuditInv, FoundInv, Decides
  <2> QED BY <2>1, <2>2
<1>6. FoundInv'
  BY <1>1, <1>3, <1>5 DEF AuditInv, FoundInv
<1> QED BY <1>4, <1>6 DEF AuditInv

LEMMA StampAudited ==
  ASSUME IInv, AuditInv, NEW t \in Threads, VisibilityStamp(t)
  PROVE  AuditInv'
<1>1. /\ UNCHANGED <<rows, hidden, audit>> /\ clock' = clock + 1 /\ clock \in Nat
      /\ \A r \in Threads \ {t} : thread'[r] = thread[r]
  BY AuditIs DEF VisibilityStamp, IInv, TypeInv
<1>2. /\ thread'[t].pc = "stamped" /\ thread'[t].at = clock + 1
      /\ thread'[t].msg = thread[t].msg /\ thread'[t].since = thread[t].since
      /\ thread'[t].loaded = thread[t].loaded /\ Decides(t)
  BY DEF VisibilityStamp, IInv, TypeInv, Task, At, Decides
<1>3. ASSUME NEW k, NEW n, NEW v PROVE Leaves(k, n, v)' <=> Leaves(k, n, v)
  BY <1>1 DEF Leaves, Writes
<1>4. /\ \A i \in DOMAIN audit : audit[i].at \in Nat /\ audit[i].at <= clock
      /\ thread[t].since \in Nat /\ thread[t].since <= Len(audit)
      /\ \A r \in Threads : thread[r].at \in Nat /\ thread[r].since \in Nat
  BY <1>2, AuditIs DEF AuditInv, StampInv, Entry, Task
<1>5. \A j \in 1 .. thread[t].since : audit[j].at < clock + 1
  BY <1>1, <1>4, AuditIs
<1>6. StampInv'
  <2>1. \A i \in DOMAIN audit :
          /\ audit[i].since < i /\ audit[i].at <= clock'
          /\ \A j \in 1 .. audit[i].since : audit[j].at < audit[i].at
    BY <1>1, <1>4 DEF AuditInv, StampInv
  <2>2. \A r \in Threads : Decides(r)' => thread'[r].since <= Len(audit)
    BY <1>1, <1>2, <1>4 DEF AuditInv, StampInv, Decides
  <2>3. \A r \in Threads : thread'[r].pc = "stamped" =>
          /\ thread'[r].at <= clock'
          /\ \A j \in 1 .. thread'[r].since : audit[j].at < thread'[r].at
    BY <1>1, <1>2, <1>4, <1>5 DEF AuditInv, StampInv
  <2> QED BY <1>1, <2>1, <2>2, <2>3 DEF StampInv
<1>7. \A r \in Threads : Decides(r)' =>
        Leaves(thread'[r].msg, thread'[r].since, thread'[r].loaded)
  BY <1>1, <1>2 DEF AuditInv, FoundInv, Decides
<1>8. FoundInv'
  BY <1>1, <1>3, <1>7 DEF AuditInv, FoundInv
<1> QED BY <1>6, <1>8 DEF AuditInv

\* A decision becomes the last one that wrote the row, or changes nothing.
LEMMA CommitAudited ==
  ASSUME IInv, AuditInv, NEW t \in Threads, VisibilityCommit(t)
  PROVE  AuditInv'
<1> DEFINE m == thread[t].msg  h == thread[t].hide  found == thread[t].loaded
<1>0. PICK n \in Nat : n = Len(audit) + 1
  BY AuditIs
<1>1. /\ m \in rows /\ h \in BOOLEAN /\ found \in BOOLEAN /\ thread[t].pc = "stamped"
      /\ Decides(t) /\ audit \in Seq(Entry) /\ DOMAIN audit = 1 .. n - 1 /\ clock \in Nat
  BY <1>0, AuditIs DEF IInv, TypeInv, VisibilityCommit, At, Task, Decides
<1>2. /\ audit' = Append(audit, AuditRow(t))
      /\ hidden' = IF h = found THEN hidden ELSE IF h THEN hidden \union {m} ELSE hidden \ {m}
      /\ rows' = rows /\ clock' = clock
      /\ thread' = [thread EXCEPT ![t] = Resting]
  BY DEF VisibilityCommit, Written, Finish
<1>3. /\ DOMAIN audit' = 1 .. n /\ Len(audit') = n /\ Len(audit) = n - 1
      /\ \A i \in 1 .. n - 1 : audit'[i] = audit[i]
      /\ audit'[n].msg = m /\ audit'[n].from = found /\ audit'[n].to = h
      /\ audit'[n].at = thread[t].at /\ audit'[n].since = thread[t].since
  BY <1>0, <1>1, <1>2 DEF AuditRow
<1>4. \A r \in Threads : Decides(r)' => r # t /\ thread'[r] = thread[r] /\ Decides(r)
  BY <1>2, Records DEF Decides, IInv, TypeInv
<1>5. /\ \A i \in 1 .. n - 1 : audit[i].since \in Nat /\ audit[i].since < i
      /\ \A r \in Threads : Decides(r) => thread[r].since \in Nat /\ thread[r].since < n
  <2>1. \A i \in 1 .. n - 1 : audit[i].since \in Nat /\ audit[i].since < i
    BY <1>1, AuditIs DEF AuditInv, StampInv, Entry
  <2>2. ASSUME NEW r \in Threads, Decides(r)
        PROVE  thread[r].since \in Nat /\ thread[r].since < n
    <3>1. thread[r].since \in Nat /\ thread[r].since <= Len(audit)
      BY <2>2, AuditIs DEF AuditInv, StampInv, Task
    <3> QED BY <1>0, <3>1, AuditIs
  <2> QED BY <2>1, <2>2
<1>6. StampInv'
  <2>1. ASSUME NEW i \in 1 .. n
        PROVE  /\ audit'[i].since < i /\ audit'[i].at <= clock
               /\ \A j \in 1 .. audit'[i].since : audit'[j].at < audit'[i].at
    <3>1. CASE i \in 1 .. n - 1
      <4>1. audit'[i] = audit[i] /\ \A j \in 1 .. audit[i].since : audit'[j] = audit[j]
        BY <1>3, <1>5, <3>1
      <4> QED BY <1>1, <3>1, <4>1 DEF AuditInv, StampInv
    <3>2. CASE i = n
      <4>1. /\ thread[t].since < n /\ thread[t].since \in Nat
            /\ \A j \in 1 .. thread[t].since : audit'[j] = audit[j]
        BY <1>1, <1>3, <1>5
      <4> QED BY <1>1, <1>3, <3>2, <4>1 DEF AuditInv, StampInv
    <3> QED BY <3>1, <3>2
  <2>2. \A r \in Threads : Decides(r)' => thread'[r].since <= n
    BY <1>4, <1>5
  <2>3. ASSUME NEW r \in Threads, thread'[r].pc = "stamped"
        PROVE  /\ thread'[r].at <= clock
               /\ \A j \in 1 .. thread'[r].since : audit'[j].at < thread'[r].at
    <3>1. thread'[r] = thread[r] /\ Decides(r)
      BY <1>4, <2>3 DEF Decides
    <3>2. \A j \in 1 .. thread[r].since : audit'[j] = audit[j]
      BY <1>3, <1>5, <3>1
    <3> QED BY <2>3, <3>1, <3>2 DEF AuditInv, StampInv
  <2> QED BY <1>2, <1>3, <2>1, <2>2, <2>3 DEF StampInv
<1>7. ASSUME NEW k, NEW o \in Nat, NEW v, o < n, Leaves(k, o, v)
      PROVE  Leaves(k, o, v)'
  <2>1. 1 .. o \subseteq 1 .. n - 1 /\ 1 .. o \subseteq 1 .. n
    BY <1>7
  <2> QED BY <1>1, <1>3, <1>7, <2>1, LeavesStays
<1>8. ASSUME NEW i \in 1 .. n
      PROVE  /\ audit'[i].msg \in rows
             /\ Leaves(audit[i].msg, audit[i].since, audit[i].from)'
  <2>1. CASE i \in 1 .. n - 1
    <3>1. PICK e : e = audit[i]
      OBVIOUS
    <3>2. e.msg \in rows /\ Leaves(e.msg, e.since, e.from)
      BY <1>1, <2>1, <3>1 DEF AuditInv, FoundInv
    <3>3. e.since \in Nat /\ e.since < n
      <4>1. e.since \in Nat /\ e.since < i /\ i < n
        BY <1>5, <2>1, <3>1
      <4> QED BY <4>1, <2>1
    <3>4. Leaves(e.msg, e.since, e.from)'
      BY <1>7, <3>2, <3>3
    <3> QED BY <1>3, <2>1, <3>1, <3>2, <3>4
  <2>2. CASE i = n
    <3>1. PICK w : w = thread[t]
      OBVIOUS
    <3>2. Leaves(w.msg, w.since, w.loaded) /\ w.since \in Nat /\ w.since < n
      BY <1>1, <1>5, <3>1 DEF AuditInv, FoundInv
    <3>3. Leaves(w.msg, w.since, w.loaded)'
      BY <1>7, <3>2
    <3> QED BY <1>1, <1>3, <2>2, <3>1, <3>3
  <2> QED BY <2>1, <2>2
<1>9. ASSUME NEW k \in rows PROVE Leaves(k, n, k \in hidden)'
  <2>1. Leaves(k, n - 1, k \in hidden)
    BY <1>1, <1>3 DEF AuditInv, FoundInv
  <2>2. Writes(k, n)' = IF k = m /\ h # found THEN Writes(k, n - 1) \union {n}
                        ELSE Writes(k, n - 1)
    <3>1. \A i \in 1 .. n - 1 : i \in Writes(k, n)' <=> i \in Writes(k, n - 1)
      BY <1>1, <1>3 DEF Writes
    <3>2. n \in Writes(k, n)' <=> k = m /\ h # found
      BY <1>3 DEF Writes
    <3>3. /\ Writes(k, n)' \subseteq 1 .. n /\ Writes(k, n - 1) \subseteq 1 .. n - 1
      BY DEF Writes
    <3>4. 1 .. n = (1 .. n - 1) \union {n} /\ n \notin 1 .. n - 1
      BY <1>0, AuditIs
    <3>5. CASE k = m /\ h # found
      BY <3>1, <3>2, <3>3, <3>4, <3>5
    <3>6. CASE ~(k = m /\ h # found)
      <4>1. n \notin Writes(k, n)'
        BY <3>2, <3>6
      <4>2. Writes(k, n)' \subseteq 1 .. n - 1
        BY <3>3, <3>4, <4>1
      <4>3. Writes(k, n)' = Writes(k, n - 1)
        BY <3>1, <3>3, <4>2
      <4> QED BY <3>6, <4>3
    <3> QED BY <3>5, <3>6
  <2>3. /\ Writes(k, n - 1) \subseteq 1 .. n - 1
        /\ \A i \in Writes(k, n - 1) : audit'[i] = audit[i]
    BY <1>3 DEF Writes
  <2>4. CASE k = m /\ h # found
    <3>1. k \in hidden' <=> h
      BY <1>1, <1>2, <2>4
    <3>2. n \in Writes(k, n)' /\ \A j \in Writes(k, n)' : j <= n
      BY <2>2, <2>3, <2>4
    <3> QED BY <1>3, <3>1, <3>2 DEF Leaves
  <2>5. CASE ~(k = m /\ h # found)
    <3>1. k \in hidden' <=> k \in hidden
      BY <1>2, <2>5
    <3> QED BY <2>1, <2>2, <2>3, <2>5, <3>1 DEF Leaves
  <2> QED BY <2>4, <2>5
<1>10. ASSUME NEW r \in Threads, Decides(r)'
       PROVE  Leaves(thread[r].msg, thread[r].since, thread[r].loaded)'
  <2>1. PICK w : w = thread[r]
    OBVIOUS
  <2>2. Leaves(w.msg, w.since, w.loaded) /\ w.since \in Nat /\ w.since < n /\ thread'[r] = w
    BY <1>4, <1>5, <1>10, <2>1 DEF AuditInv, FoundInv
  <2>3. Leaves(w.msg, w.since, w.loaded)'
    BY <1>7, <2>2
  <2> QED BY <2>2, <2>3
<1>11. FoundInv'
  BY <1>2, <1>3, <1>8, <1>9, <1>10 DEF FoundInv
<1> QED BY <1>6, <1>11 DEF AuditInv

\* From the order of the commits to the order of the log: the last row of the log
\* is that of the last write, or overlapped with it, or came later and found what
\* it had left.
LEMMA LogTells ==
  ASSUME IInv, AuditInv, NEW m, NEW n \in Nat, n <= Len(audit), NEW v, Leaves(m, n, v)
  PROVE  Tells(m, n, v)
<1> DEFINE log == {i \in 1 .. n : audit[i].msg = m}
<1>1. /\ DOMAIN audit = 1 .. Len(audit) /\ Len(audit) \in Nat /\ 1 .. n \subseteq DOMAIN audit
      /\ \A i \in DOMAIN audit : /\ audit[i].since \in Nat /\ audit[i].at \in Nat
                                 /\ audit[i].from \in BOOLEAN /\ audit[i].to \in BOOLEAN
      /\ \A i \in DOMAIN audit : audit[i].since < i
  BY AuditIs DEF Entry, AuditInv, StampInv
<1>2. Writes(m, n) \subseteq log
  BY DEF Writes
<1>3. log = {} => ~v
  BY <1>2 DEF Leaves
<1>4. ASSUME NEW last \in log, \A i \in log : audit[i].at <= audit[last].at
      PROVE  \E i \in log : Overlap(i, last) /\ (audit[i].to <=> v)
  <2>1. last \in 1 .. n /\ last \in DOMAIN audit /\ Overlap(last, last)
    BY <1>1, <1>4 DEF Overlap
  <2>2. ASSUME last \notin Writes(m, n), audit[last].from <=> v
        PROVE  audit[last].to <=> v
    BY <1>1, <1>4, <2>1, <2>2 DEF Writes
  <2>3. Leaves(m, audit[last].since, audit[last].from)
    BY <1>4, <2>1 DEF AuditInv, FoundInv
  <2>4. Writes(m, audit[last].since) = {i \in Writes(m, n) : i <= audit[last].since}
    BY <1>1, <2>1 DEF Writes
  <2>5. CASE Writes(m, n) = {}
    <3>1. ~v /\ ~audit[last].from
      BY <2>3, <2>4, <2>5 DEF Leaves
    <3> QED BY <2>1, <2>2, <2>5, <3>1
  <2>6. ASSUME NEW w \in Writes(m, n), audit[w].to <=> v, \A j \in Writes(m, n) : j <= w
        PROVE  \E i \in log : Overlap(i, last) /\ (audit[i].to <=> v)
    <3>1. w \in log /\ w \in 1 .. n /\ w \in DOMAIN audit
      BY <1>1, <1>2, <2>6 DEF Writes
    <3>2. ~(last <= audit[w].since)
      <4>1. last \in 1 .. audit[w].since => audit[last].at < audit[w].at
        BY <3>1 DEF AuditInv, StampInv
      <4> QED BY <1>1, <1>4, <2>1, <3>1, <4>1
    <3>3. CASE w <= audit[last].since
      <4>1. last \notin Writes(m, n)
        BY <1>1, <2>1, <2>6, <3>1, <3>3
      <4>2. w \in Writes(m, audit[last].since)
        BY <2>4, <2>6, <3>3
      <4>3. PICK i \in Writes(m, audit[last].since) :
              (audit[i].to <=> audit[last].from)
              /\ \A j \in Writes(m, audit[last].since) : j <= i
        BY <2>3, <4>2 DEF Leaves
      <4>4. i = w
        <5>1. i \in Writes(m, n) /\ i \in Int /\ w \in Int
          BY <2>4, <3>1, <4>3 DEF Writes
        <5> QED BY <2>6, <4>2, <4>3, <5>1
      <4> QED BY <2>1, <2>2, <2>6, <4>1, <4>3, <4>4
    <3>4. CASE ~(w <= audit[last].since)
      <4>1. Overlap(w, last)
        BY <1>1, <2>1, <3>1, <3>2, <3>4 DEF Overlap
      <4> QED BY <2>6, <3>1, <4>1
    <3> QED BY <3>3, <3>4
  <2> QED BY <2>5, <2>6 DEF Leaves
<1> QED BY <1>3, <1>4 DEF Tells

\* The audit log, in the order in which it is read, tells the visibility of the
\* messages up to the decisions that overlapped, whatever administrators do at a
\* time (admin/services.py, change_message_visibility and list_audit_logs).
THEOREM AuditTells == Spec => []AuditTellsVisibility
<1>1. Init => AuditInv
  BY Records DEF Init, AuditInv, StampInv, FoundInv, Decides
<1>2. IInv /\ AuditInv /\ [Next]_vars => AuditInv'
  BY StepsOfTheLog, Quiet, LoadAudited, StampAudited, CommitAudited
<1>3. ASSUME IInv, AuditInv PROVE AuditTellsVisibility
  <2>1. ASSUME NEW m \in rows PROVE Tells(m, Len(audit), m \in hidden)
    BY <1>3, LogTells, AuditIs DEF AuditInv, FoundInv
  <2>2. ASSUME NEW i \in DOMAIN audit
        PROVE  Tells(audit[i].msg, audit[i].since, audit[i].from)
    <3>1. audit[i].since \in Nat /\ audit[i].since <= Len(audit)
      BY <1>3, AuditIs DEF Entry, AuditInv, StampInv
    <3> QED BY <1>3, <3>1, LogTells DEF AuditInv, FoundInv
  <2> QED BY <2>1, <2>2 DEF AuditTellsVisibility
<1> QED BY Invariance, <1>1, <1>2, <1>3, PTL DEF Spec
=============================================================================
