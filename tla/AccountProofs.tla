---------------------------- MODULE AccountProofs -----------------------------
(***************************************************************************)
(* Theorems about Accounts for any users, administrators, browsers,        *)
(* threads and passwords; about Registration for any requests and any      *)
(* names; and about Migrations for any rows the application writes and any *)
(* number of interruptions.                                                *)
(***************************************************************************)
EXTENDS AccountTables, SequenceTheorems, TLAPS

Statuses == {"active", "dormant"}

Login == [op : {"login"}, pc : {"verified"}, browser : Browsers, seen : Row]

PasswordChange == [op : {"password"}, pc : {"loaded", "disconnect", "disconnected"},
                   browser : Browsers, target : Users, new : Passwords, seen : Row]

StatusChange == [op : {"status"}, pc : {"admitted", "loaded", "disconnect"},
                 browser : Browsers, target : Users, new : Statuses, seen : Row]

Report == [op : {"report"}, pc : {"loaded", "disconnect"}, target : Users, seen : Row]

Logout == [op : {"logout"}, pc : {"disconnect", "disconnected"}, browser : Browsers,
           target : Users, seen : Row]

Connecting == [op : {"connect"}, pc : {"checked"}, browser : Browsers, seen : Row]

Work == {Resting} \union Login \union PasswordChange \union StatusChange
        \union Report \union Logout \union Connecting

Cookies == {NoCookie} \union [version : Versions, password : Passwords]

TypeInv ==
  /\ account \in [Users -> Row]
  /\ cookie \in [Browsers -> Cookies]
  /\ registry \in [Browsers -> 0 .. MaxVersion]
  /\ thread \in [Threads -> Work]
  /\ overlapped \subseteq Browsers

LEMMA RestingFacts == Resting.pc = "idle" /\ Resting.op = "none"
BY DEF Resting

LEMMA OwnerIsUser == \A b \in Browsers : Owner(b) \in Users
BY DEF Browsers, Owner

\* What the op of a thread says of its record.
LEMMA Kinds ==
  ASSUME TypeInv, NEW t \in Threads
  PROVE  /\ thread[t].op = "login" => thread[t] \in Login
         /\ thread[t].op = "password" => thread[t] \in PasswordChange
         /\ thread[t].op = "status" => thread[t] \in StatusChange
         /\ thread[t].op = "report" => thread[t] \in Report
         /\ thread[t].op = "logout" => thread[t] \in Logout
         /\ thread[t].op = "connect" => thread[t] \in Connecting
         /\ thread[t].pc = "disconnect" =>
              thread[t] \in PasswordChange \union StatusChange \union Report \union Logout
         /\ thread[t].pc = "loaded" =>
              thread[t] \in PasswordChange \union StatusChange \union Report
BY RestingFacts DEF TypeInv, Work, Login, PasswordChange, StatusChange, Report, Logout, Connecting

-----------------------------------------------------------------------------
\* The type invariant, action by action.
LEMMA BeginTypes == ASSUME TypeInv, NEW t \in Threads, Begin(t) PROVE TypeInv'
<1> USE OwnerIsUser DEF TypeInv, Work
<1>1. ASSUME NEW b \in Browsers, LoginRead(t, b) PROVE TypeInv'
  <2>1. [op |-> "login", pc |-> "verified", browser |-> b, seen |-> account[Owner(b)]] \in Login
    BY DEF Login
  <2> QED BY <1>1, <2>1 DEF LoginRead
<1>2. ASSUME NEW b \in Browsers, LogoutAdmit(t, b) PROVE TypeInv'
  <2>1. [op |-> "logout", pc |-> "disconnect", browser |-> b, target |-> Owner(b),
         seen |-> account[Owner(b)]] \in Logout
    BY DEF Logout
  <2> QED BY <1>2, <2>1 DEF LogoutAdmit
<1>3. ASSUME NEW b \in Browsers, ConnectCheck(t, b) PROVE TypeInv'
  <2>1. [op |-> "connect", pc |-> "checked", browser |-> b, seen |-> account[Owner(b)]]
          \in Connecting
    BY DEF Connecting
  <2>2. Pruned \in [Browsers -> 0 .. MaxVersion]
    BY AccountAssumption DEF Pruned
  <2> QED BY <1>3, <2>1, <2>2 DEF ConnectCheck
<1>4. ASSUME NEW b \in Browsers, NEW new \in Passwords, PasswordLoad(t, b, new) PROVE TypeInv'
  <2>1. [op |-> "password", pc |-> "loaded", browser |-> b, target |-> Owner(b),
         new |-> new, seen |-> account[Owner(b)]] \in PasswordChange
    BY DEF PasswordChange
  <2> QED BY <1>4, <2>1 DEF PasswordLoad
<1>5. ASSUME NEW b \in Browsers, NEW target \in Users, NEW new \in Statuses,
             StatusAdmit(t, b, target, new)
      PROVE  TypeInv'
  <2>1. [op |-> "status", pc |-> "admitted", browser |-> b, target |-> target,
         new |-> new, seen |-> account[Owner(b)]] \in StatusChange
    BY DEF StatusChange
  <2> QED BY <1>5, <2>1 DEF StatusAdmit
<1>6. ASSUME NEW target \in Users, ReportLoad(t, target) PROVE TypeInv'
  <2>1. [op |-> "report", pc |-> "loaded", target |-> target, seen |-> account[target]]
          \in Report
    BY DEF Report
  <2> QED BY <1>6, <2>1 DEF ReportLoad
<1> QED BY <1>1, <1>2, <1>3, <1>4, <1>5, <1>6 DEF Begin, Statuses

\* The rows and records the writing handlers leave.
LEMMA CommitTypes ==
  ASSUME TypeInv, NEW t \in Threads,
         PasswordCommit(t) \/ StatusCommit(t) \/ ReportCommit(t)
  PROVE  TypeInv'
<1> USE DEF TypeInv
<1>1. CASE PasswordCommit(t)
  <2>1. thread[t] \in PasswordChange
    BY <1>1, Kinds DEF PasswordCommit, At
  <2>2. account' \in [Users -> Row]
    BY <1>1, <2>1, AccountAssumption DEF PasswordCommit, PasswordChange, Row, Versions, Raised
  <2>3. thread' \in [Threads -> Work]
    BY <1>1, <2>1 DEF PasswordCommit, PasswordChange, Goto, Work
  <2> QED BY <1>1, <2>2, <2>3 DEF PasswordCommit
<1>2. CASE StatusCommit(t)
  <2>1. thread[t] \in StatusChange
    BY <1>2, Kinds DEF StatusCommit, At
  <2>2. account' \in [Users -> Row]
    BY <1>2, <2>1, AccountAssumption
    DEF StatusCommit, StatusChange, SetStatus, Row, Versions, Raised, Statuses
  <2>3. thread' \in [Threads -> Work]
    BY <1>2, <2>1 DEF StatusCommit, StatusChange, Goto, Finish, Work
  <2> QED BY <1>2, <2>2, <2>3 DEF StatusCommit
<1>3. CASE ReportCommit(t)
  <2>1. thread[t] \in Report
    BY <1>3, Kinds DEF ReportCommit, At
  <2>2. account' \in [Users -> Row]
    BY <1>3, <2>1, AccountAssumption
    DEF ReportCommit, Report, SetStatus, Row, Versions, Raised, Statuses
  <2>3. thread' \in [Threads -> Work]
    BY <1>3, <2>1 DEF ReportCommit, Report, Goto, Finish, Work
  <2> QED BY <1>3, <2>2, <2>3 DEF ReportCommit
<1> QED BY <1>1, <1>2, <1>3

LEMMA StepTypes == ASSUME TypeInv, NEW t \in Threads, Step(t) PROVE TypeInv'
<1> USE DEF TypeInv
<1>1. CASE LoginEstablish(t)
  <2>1. thread[t] \in Login
    BY <1>1, Kinds DEF LoginEstablish, At
  <2>2. Session(thread[t].seen) \in Cookies
    BY <2>1 DEF Login, Row, Session, Cookies
  <2> QED BY <1>1, <2>2 DEF LoginEstablish, Finish, Work
<1>2. CASE PasswordEstablish(t)
  <2>1. thread[t] \in PasswordChange
    BY <1>2, Kinds DEF PasswordEstablish, At
  <2>2. [version |-> thread[t].seen.version, password |-> thread[t].new] \in Cookies
    BY <2>1 DEF PasswordChange, Row, Cookies
  <2> QED BY <1>2, <2>2 DEF PasswordEstablish, Finish, Work
<1>3. CASE StatusLoad(t)
  <2>1. thread[t] \in StatusChange
    BY <1>3, Kinds DEF StatusLoad, At
  <2>2. thread' \in [Threads -> Work]
    BY <1>3, <2>1 DEF StatusLoad, StatusChange, Finish, Work
  <2> QED BY <1>3, <2>2 DEF StatusLoad
<1>4. CASE LogoutClear(t)
  BY <1>4 DEF LogoutClear, Finish, Work, Cookies
<1>5. CASE DisconnectUserSockets(t)
  <2>1. thread[t] \in PasswordChange \union StatusChange \union Report \union Logout
    BY <1>5, Kinds DEF DisconnectUserSockets
  <2>2. thread[t].target \in Users
    BY <2>1 DEF PasswordChange, StatusChange, Report, Logout
  <2>3. thread' \in [Threads -> Work]
    <3>1. CASE thread[t] \in PasswordChange
      BY <1>5, <2>2, <3>1 DEF DisconnectUserSockets, PasswordChange, Work
    <3>2. CASE thread[t] \in Logout
      BY <1>5, <2>2, <3>2 DEF DisconnectUserSockets, Logout, Work
    <3>3. CASE thread[t] \in StatusChange \union Report
      BY <1>5, <3>3 DEF DisconnectUserSockets, StatusChange, Report, Finish, Work
    <3> QED BY <2>1, <3>1, <3>2, <3>3
  <2>4. registry' \in [Browsers -> 0 .. MaxVersion]
    BY <1>5, AccountAssumption DEF DisconnectUserSockets, Dropped
  <2>5. overlapped' \subseteq Browsers
    BY <1>5, Kinds DEF DisconnectUserSockets, At, Connecting
  <2> QED BY <1>5, <2>3, <2>4, <2>5 DEF DisconnectUserSockets
<1>6. CASE ConnectAdd(t)
  <2>1. thread[t] \in Connecting
    BY <1>6, Kinds DEF ConnectAdd, At
  <2>2. thread[t].seen.version \in 0 .. MaxVersion
    BY <2>1, AccountAssumption DEF Connecting, Row, Versions
  <2> QED BY <1>6, <2>2 DEF ConnectAdd, Finish, Work
<1>7. CASE CommitFails(t)
  BY <1>7 DEF CommitFails, Finish, Work
<1> QED BY <1>1, <1>2, <1>3, <1>4, <1>5, <1>6, <1>7, CommitTypes DEF Step

LEMMA NextTypes == ASSUME TypeInv, [Next]_vars PROVE TypeInv'
<1>1. CASE UNCHANGED vars
  BY <1>1 DEF vars, TypeInv
<1>2. CASE ChatEvent
  BY <1>2, AccountAssumption DEF ChatEvent, Pruned, TypeInv
<1>3. CASE Restart
  BY <1>3, AccountAssumption DEF Restart, TypeInv, Work
<1> QED BY <1>1, <1>2, <1>3, BeginTypes, StepTypes DEF Next

LEMMA InitTypes == ASSUME Init PROVE TypeInv
BY AccountAssumption DEF Init, TypeInv, Row, Versions, Work, Cookies

\* The type invariant, whoever changes accounts at the same time: a version is
\* raised from the row that was loaded and stays within the bound.
THEOREM TypeCorrect == Spec => []TypeOK
<1>1. TypeInv => TypeOK
  <2>1. ASSUME TypeInv, NEW t \in Threads PROVE thread[t] = Resting \/ thread[t].seen \in Row
    BY <2>1 DEF TypeInv, Work, Login, PasswordChange, StatusChange, Report, Logout, Connecting
  <2> QED BY <2>1 DEF TypeInv, TypeOK, Cookies
<1> QED BY <1>1, InitTypes, NextTypes, PTL DEF Spec

-----------------------------------------------------------------------------
(* One thread at a time changes accounts.  Then what it has loaded is what    *)
(* there is, every change raises a version, and what was handed out under an  *)
(* earlier version is never accepted again.                                   *)

Changes(t) == thread[t].op \in {"password", "status", "report"}

\* A row, session or cookie that is not ahead of u's account, and tells the
\* password of its version.
Behind(row, u) ==
  /\ row.version <= account[u].version
  /\ row.version = account[u].version => row.password = account[u].password

SeenOf(t) ==
  thread[t].op \in {"login", "connect"} => Behind(thread[t].seen, Owner(thread[t].browser))

HandedOut ==
  /\ \A b \in Browsers : cookie[b] # NoCookie => Behind(cookie[b], Owner(b))
  /\ \A b \in Browsers : registry[b] <= account[Owner(b)].version

\* Nobody has changed what the writer rests on.
WriterOf(w) ==
  /\ thread[w].pc = "admitted" => thread[w].seen = account[Owner(thread[w].browser)]
  /\ thread[w].pc = "loaded" => thread[w].seen = account[thread[w].target]
  /\ thread[w].op = "password" =>
       /\ thread[w].target = Owner(thread[w].browser)
       /\ thread[w].pc # "loaded" => account[thread[w].target].password = thread[w].new
       /\ thread[w].pc = "disconnected" => thread[w].seen = account[thread[w].target]
  /\ (/\ thread[w].op = "status" /\ thread[w].pc = "loaded" /\ thread[w].new = "dormant"
      /\ thread[w].target \in Admins /\ thread[w].seen.status = "active")
     => OtherActiveAdmins(thread[w].target) # {}

IInv(w) ==
  /\ TypeInv /\ HandedOut
  /\ \A t \in Threads : SeenOf(t) /\ (Changes(t) => t = w)
  /\ w \in Threads => WriterOf(w)

\* What a step may make of the accounts.
Raises == \A u \in Users : account'[u] = account[u] \/ account'[u].version = account[u].version + 1

\* What was handed out stays behind.
LEMMA HandedOutKept ==
  ASSUME TypeInv, TypeInv', HandedOut, Raises, UNCHANGED <<cookie, registry>>
  PROVE  HandedOut'
<1>1. ASSUME NEW b \in Browsers, cookie[b] # NoCookie PROVE Behind(cookie[b], Owner(b))'
  <2>1. cookie[b].version \in Versions
    BY <1>1 DEF TypeInv, Cookies
  <2>2. Behind(cookie[b], Owner(b))
    BY <1>1 DEF HandedOut
  <2> QED BY <2>1, <2>2, OwnerIsUser DEF TypeInv, Raises, Behind, Row, Versions
<1>2. ASSUME NEW b \in Browsers PROVE registry[b] <= account'[Owner(b)].version
  BY OwnerIsUser, AccountAssumption DEF TypeInv, HandedOut, Raises, Row, Versions
<1> QED BY <1>1, <1>2 DEF HandedOut

-----------------------------------------------------------------------------
\* The writer commits.
LEMMA CommitRaises ==
  ASSUME NEW w, IInv(w), NEW t \in Threads,
         PasswordCommit(t) \/ StatusCommit(t) \/ ReportCommit(t)
  PROVE  /\ t = w /\ Raises
         /\ UNCHANGED <<cookie, registry>>
         /\ thread' = [thread EXCEPT ![w] = Resting]
            \/ thread' = [thread EXCEPT ![w].pc = "disconnect"]
<1>1. t = w
  BY DEF IInv, Changes, PasswordCommit, StatusCommit, ReportCommit, At
<1>2. thread[w].seen = account[thread[w].target]
  BY <1>1 DEF IInv, WriterOf, PasswordCommit, StatusCommit, ReportCommit, At
<1>3. thread[w].target \in Users
  BY <1>1, Kinds DEF IInv, PasswordCommit, StatusCommit, ReportCommit, At, PasswordChange,
                     StatusChange, Report
<1>4. Raises
  BY <1>1, <1>2, <1>3 DEF IInv, TypeInv, Raises, PasswordCommit, StatusCommit, ReportCommit,
                          SetStatus, Raised, Row, Versions
<1>5. UNCHANGED <<cookie, registry>>
  BY DEF PasswordCommit, StatusCommit, ReportCommit
<1> QED BY <1>1, <1>4, <1>5 DEF PasswordCommit, StatusCommit, ReportCommit, Goto, Finish

LEMMA CommitSafe ==
  ASSUME NEW w, IInv(w), NEW t \in Threads,
         PasswordCommit(t) \/ StatusCommit(t) \/ ReportCommit(t)
  PROVE  IInv(w)'
<1> USE RestingFacts
<1>1. TypeInv /\ TypeInv'
  BY CommitTypes DEF IInv
<1>2. /\ t = w /\ Raises /\ UNCHANGED <<cookie, registry>>
      /\ thread' = [thread EXCEPT ![w] = Resting]
         \/ thread' = [thread EXCEPT ![w].pc = "disconnect"]
  BY CommitRaises
<1>3. HandedOut'
  BY <1>1, <1>2, HandedOutKept DEF IInv
<1>4. thread[w] \in PasswordChange \union StatusChange \union Report
  BY <1>1, <1>2, Kinds DEF PasswordCommit, StatusCommit, ReportCommit, At
<1>5. ASSUME NEW s \in Threads PROVE (SeenOf(s) /\ (Changes(s) => s = w))'
  <2>1. CASE s = w
    BY <1>1, <1>2, <1>4, <2>1
    DEF TypeInv, SeenOf, Changes, PasswordChange, StatusChange, Report
  <2>2. CASE s # w
    <3>1. thread'[s] = thread[s]
      BY <1>1, <1>2, <2>2 DEF TypeInv
    <3>2. thread[s].op \in {"login", "connect"} =>
            /\ thread[s].seen.version \in Versions
            /\ Owner(thread[s].browser) \in Users
            /\ Behind(thread[s].seen, Owner(thread[s].browser))
      BY <1>1, Kinds, OwnerIsUser DEF IInv, SeenOf, Login, Connecting, Row
    <3> QED BY <1>1, <1>2, <3>1, <3>2 DEF IInv, TypeInv, SeenOf, Changes, Raises, Behind, Row, Versions
  <2> QED BY <2>1, <2>2
<1>6. WriterOf(w)'
  <2>1. CASE thread' = [thread EXCEPT ![w] = Resting]
    BY <1>1, <1>2, <2>1 DEF TypeInv, WriterOf
  <2>2. CASE thread' = [thread EXCEPT ![w].pc = "disconnect"]
    <3>1. /\ thread'[w].pc = "disconnect" /\ thread'[w].op = thread[w].op
          /\ thread[w].op = "password" =>
               /\ thread'[w].target = thread[w].target /\ thread'[w].new = thread[w].new
               /\ thread'[w].browser = thread[w].browser
      BY <1>1, <1>2, <1>4, <2>2 DEF TypeInv, PasswordChange, StatusChange, Report
    <3>2. thread[w].op = "password" =>
            account'[thread[w].target].password = thread[w].new
      <4>1. SUFFICES ASSUME thread[w].op = "password"
                     PROVE  account'[thread[w].target].password = thread[w].new
        OBVIOUS
      <4>2. PasswordCommit(w) /\ thread[w] \in PasswordChange
        BY <1>1, <1>2, <4>1, Kinds DEF StatusCommit, ReportCommit, At
      <4> QED BY <1>1, <4>2 DEF TypeInv, PasswordCommit, PasswordChange, Row
    <3> QED BY <1>2, <3>1, <3>2 DEF IInv, WriterOf
  <2> QED BY <1>2, <2>1, <2>2
<1> QED BY <1>1, <1>3, <1>5, <1>6 DEF IInv

-----------------------------------------------------------------------------
\* A thread moves and the accounts stay.
LEMMA ThreadMoves ==
  ASSUME NEW w, IInv(w), TypeInv', UNCHANGED account, HandedOut', NEW t \in Threads,
         \A s \in Threads \ {t} : thread'[s] = thread[s],
         (SeenOf(t) /\ (Changes(t) => t = w))',
         t = w => WriterOf(w)'
  PROVE  IInv(w)'
<1>1. \A s \in Threads : (SeenOf(s) /\ (Changes(s) => s = w))'
  BY DEF IInv, SeenOf, Changes, Behind
<1>2. w \in Threads => WriterOf(w)'
  BY DEF IInv, WriterOf, OtherActiveAdmins, Active
<1> QED BY <1>1, <1>2 DEF IInv

LEMMA BeginSafe ==
  ASSUME NEW w, Writers = {w}, IInv(w), NEW t \in Threads, Begin(t)
  PROVE  IInv(w)'
<1> USE DEF IInv
<1>1. TypeInv'
  BY BeginTypes
<1>2. /\ UNCHANGED <<account, cookie>>
      /\ \A s \in Threads \ {t} : thread'[s] = thread[s]
  BY DEF TypeInv, Begin, LoginRead, LogoutAdmit, ConnectCheck, PasswordLoad, StatusAdmit, ReportLoad
<1>3. \A b \in Browsers : registry'[b] = registry[b] \/ registry'[b] = 0
  BY DEF TypeInv, Begin, LoginRead, LogoutAdmit, ConnectCheck, PasswordLoad, StatusAdmit,
         ReportLoad, Pruned
<1>4. HandedOut'
  BY <1>2, <1>3, OwnerIsUser DEF HandedOut, Behind, TypeInv, Row, Versions
<1>5. /\ Changes(t)' => t = w
      /\ thread'[t].op \in {"login", "connect"} =>
           thread'[t].seen = account[Owner(thread'[t].browser)]
      /\ WriterOf(t)'
  <2>1. CASE \E b \in Browsers : LoginRead(t, b) \/ ConnectCheck(t, b)
    BY <2>1 DEF TypeInv, LoginRead, ConnectCheck, Changes, WriterOf
  <2>2. CASE \E b \in Browsers : LogoutAdmit(t, b)
    BY <2>2 DEF TypeInv, LogoutAdmit, Changes, WriterOf
  <2>3. CASE \E b \in Browsers, new \in Passwords : PasswordLoad(t, b, new)
    BY <2>3 DEF TypeInv, PasswordLoad, Changes, WriterOf
  <2>4. CASE \E b \in Browsers, target \in Users, new \in {"active", "dormant"} :
               StatusAdmit(t, b, target, new)
    BY <2>4 DEF TypeInv, StatusAdmit, Changes, WriterOf
  <2>5. CASE \E target \in Users : ReportLoad(t, target)
    BY <2>5 DEF TypeInv, ReportLoad, Changes, WriterOf
  <2> QED BY <2>1, <2>2, <2>3, <2>4, <2>5 DEF Begin
<1>6. SeenOf(t)'
  <2>1. thread'[t].op \in {"login", "connect"} => Owner(thread'[t].browser) \in Users
    BY <1>1, Kinds, OwnerIsUser DEF TypeInv, Work, Login, PasswordChange, StatusChange, Report,
                                    Logout, Connecting, Resting
  <2> QED BY <1>2, <1>5, <2>1 DEF SeenOf, Behind, TypeInv, Row, Versions
<1> QED BY <1>1, <1>2, <1>4, <1>5, <1>6, ThreadMoves

\* Cookies and sockets are handed out from rows that are not ahead.
LEMMA EstablishSafe ==
  ASSUME NEW w, IInv(w), NEW t \in Threads,
         LoginEstablish(t) \/ PasswordEstablish(t) \/ ConnectAdd(t) \/ LogoutClear(t)
  PROVE  IInv(w)'
<1> USE RestingFacts DEF IInv
<1>1. TypeInv'
  BY StepTypes DEF Step
<1>2. UNCHANGED account /\ Finish(t)
  BY DEF LoginEstablish, PasswordEstablish, ConnectAdd, LogoutClear
<1>3. thread'[t] = Resting /\ \A s \in Threads \ {t} : thread'[s] = thread[s]
  BY <1>2 DEF TypeInv, Finish
<1>4. HandedOut'
  <2>1. CASE LoginEstablish(t)
    <3>1. thread[t] \in Login /\ Behind(thread[t].seen, Owner(thread[t].browser))
      BY <2>1, Kinds DEF LoginEstablish, At, SeenOf
    <3>2. cookie' = [cookie EXCEPT ![thread[t].browser] = Session(thread[t].seen)]
      BY <2>1 DEF LoginEstablish
    <3> QED BY <1>2, <2>1, <3>1, <3>2 DEF LoginEstablish, HandedOut, TypeInv, Session, Behind, Login
  <2>2. CASE PasswordEstablish(t)
    <3>1. thread[t] \in PasswordChange /\ t = w
      BY <2>2, Kinds DEF PasswordEstablish, At, Changes
    <3>2. /\ thread[t].seen = account[Owner(thread[t].browser)]
          /\ account[Owner(thread[t].browser)].password = thread[t].new
      BY <2>2, <3>1 DEF PasswordEstablish, At, WriterOf
    <3>3. thread[t].seen.version <= thread[t].seen.version
      BY <3>1 DEF PasswordChange, Row, Versions
    <3> QED BY <1>2, <2>2, <3>1, <3>2, <3>3
            DEF PasswordEstablish, HandedOut, TypeInv, Behind, PasswordChange
  <2>3. CASE ConnectAdd(t)
    <3>1. thread[t] \in Connecting /\ Behind(thread[t].seen, Owner(thread[t].browser))
      BY <2>3, Kinds DEF ConnectAdd, At, SeenOf
    <3> QED BY <1>2, <2>3, <3>1 DEF ConnectAdd, HandedOut, TypeInv, Behind, Connecting
  <2>4. CASE LogoutClear(t)
    BY <1>2, <2>4 DEF LogoutClear, HandedOut, TypeInv, Behind
  <2> QED BY <2>1, <2>2, <2>3, <2>4
<1>5. (SeenOf(t) /\ (Changes(t) => t = w) /\ WriterOf(t))'
  BY <1>3 DEF SeenOf, Changes, WriterOf
<1> QED BY <1>1, <1>2, <1>3, <1>4, <1>5, ThreadMoves

\* The target is read and the others are counted; nobody changes them before the
\* commit.
LEMMA StatusLoadSafe ==
  ASSUME NEW w, IInv(w), NEW t \in Threads, StatusLoad(t) PROVE IInv(w)'
<1> USE RestingFacts DEF IInv
<1>1. TypeInv'
  BY StepTypes DEF Step
<1>2. thread[t] \in StatusChange /\ t = w
  BY Kinds DEF StatusLoad, At, Changes
<1>3. thread[w].seen = account[Owner(thread[w].browser)]
  BY <1>2 DEF StatusLoad, At, WriterOf
<1>4. UNCHANGED account /\ \A s \in Threads \ {t} : thread'[s] = thread[s]
  BY DEF StatusLoad, Finish, TypeInv
<1>5. HandedOut'
  BY DEF StatusLoad, HandedOut, Behind
<1>6. (SeenOf(t) /\ (Changes(t) => t = w))'
  BY <1>2 DEF StatusLoad, Finish, TypeInv, SeenOf, Changes, StatusChange
<1>7. WriterOf(w)'
  <2>1. CASE thread'[w] = Resting
    BY <2>1 DEF WriterOf
  <2>2. CASE /\ ~LastAdmin(thread[w].target, thread[w].new)
             /\ thread' = [thread EXCEPT ![w].pc = "loaded", ![w].seen =
                  IF thread[w].target = Owner(thread[w].browser) THEN @
                  ELSE account[thread[w].target]]
    <3>1. /\ thread'[w].op = "status" /\ thread'[w].pc = "loaded"
          /\ thread'[w].target = thread[w].target /\ thread'[w].new = thread[w].new
          /\ thread'[w].seen = account[thread[w].target]
      BY <1>2, <1>3, <2>2 DEF TypeInv, StatusChange
    <3> QED BY <1>4, <2>2, <3>1 DEF WriterOf, LastAdmin, Active, OtherActiveAdmins
  <2> QED BY <1>2, <2>1, <2>2 DEF StatusLoad, Finish, TypeInv
<1> QED BY <1>1, <1>2, <1>4, <1>5, <1>6, <1>7, ThreadMoves

LEMMA DisconnectSafe ==
  ASSUME NEW w, IInv(w), NEW t \in Threads, DisconnectUserSockets(t) PROVE IInv(w)'
<1> USE RestingFacts DEF IInv
<1>1. TypeInv'
  BY StepTypes DEF Step
<1>2. thread[t] \in PasswordChange \union StatusChange \union Report \union Logout
  BY Kinds DEF DisconnectUserSockets
<1>3. /\ UNCHANGED <<account, cookie>>
      /\ \A s \in Threads \ {t} : thread'[s] = thread[s]
      /\ \A b \in Browsers : registry'[b] = registry[b] \/ registry'[b] = 0
  BY DEF DisconnectUserSockets, Dropped, Finish, TypeInv
<1>4. HandedOut'
  BY <1>3, OwnerIsUser DEF HandedOut, Behind, TypeInv, Row, Versions
<1>5. CASE thread'[t] = Resting
  <2>1. (SeenOf(t) /\ (Changes(t) => t = w) /\ WriterOf(t))'
    BY <1>5 DEF SeenOf, Changes, WriterOf
  <2> QED BY <1>1, <1>3, <1>4, <2>1, ThreadMoves
<1>6. CASE thread[t] \in PasswordChange \union Logout
           /\ thread' = [thread EXCEPT ![t].pc = "disconnected",
                                       ![t].seen = account[thread[t].target]]
  <2>1. /\ thread'[t].op = thread[t].op /\ thread'[t].pc = "disconnected"
        /\ thread'[t].target = thread[t].target /\ thread'[t].browser = thread[t].browser
        /\ thread'[t].seen = account[thread[t].target]
        /\ thread[t].op = "password" => thread'[t].new = thread[t].new
    BY <1>6 DEF TypeInv, PasswordChange, Logout
  <2>2. (SeenOf(t) /\ (Changes(t) => t = w))'
    BY <1>6, <2>1 DEF SeenOf, Changes, PasswordChange, Logout
  <2>3. t = w => WriterOf(w)'
    BY <1>3, <2>1 DEF DisconnectUserSockets, WriterOf
  <2> QED BY <1>1, <1>3, <1>4, <2>2, <2>3, ThreadMoves
<1> QED BY <1>2, <1>5, <1>6 DEF DisconnectUserSockets, Finish, TypeInv, PasswordChange,
                                StatusChange, Report, Logout

LEMMA StepSafe == ASSUME NEW w, IInv(w), NEW t \in Threads, Step(t) PROVE IInv(w)'
<1>1. CASE CommitFails(t)
  <2>1. TypeInv' /\ UNCHANGED <<account, cookie, registry>> /\ HandedOut'
    BY <1>1, StepTypes DEF IInv, Step, CommitFails, HandedOut, Behind
  <2>2. thread'[t] = Resting /\ \A s \in Threads \ {t} : thread'[s] = thread[s]
    BY <1>1 DEF IInv, TypeInv, CommitFails, Finish
  <2>3. (SeenOf(t) /\ (Changes(t) => t = w) /\ WriterOf(t))'
    BY <2>2, RestingFacts DEF SeenOf, Changes, WriterOf
  <2> QED BY <2>1, <2>2, <2>3, ThreadMoves
<1> QED BY <1>1, CommitSafe, EstablishSafe, StatusLoadSafe, DisconnectSafe DEF Step

LEMMA NextSafe == ASSUME NEW w, Writers = {w}, IInv(w), [Next]_vars PROVE IInv(w)'
<1>1. TypeInv'
  BY NextTypes DEF IInv
<1>2. CASE UNCHANGED vars
  BY <1>1, <1>2 DEF vars, IInv, HandedOut, SeenOf, Changes, WriterOf, Behind, OtherActiveAdmins, Active
<1>3. CASE ChatEvent
  <2>1. HandedOut'
    BY <1>3, OwnerIsUser DEF IInv, ChatEvent, Pruned, HandedOut, Behind, TypeInv, Row, Versions
  <2> QED BY <1>1, <1>3, <2>1
          DEF ChatEvent, IInv, SeenOf, Changes, WriterOf, Behind, OtherActiveAdmins, Active
<1>4. CASE Restart
  <2>1. HandedOut'
    BY <1>4, OwnerIsUser DEF IInv, Restart, HandedOut, Behind, TypeInv, Row, Versions
  <2>2. \A t \in Threads : thread'[t] = Resting
    BY <1>4 DEF Restart
  <2> QED BY <1>1, <2>1, <2>2, RestingFacts DEF IInv, SeenOf, Changes, WriterOf
<1> QED BY <1>2, <1>3, <1>4, BeginSafe, StepSafe DEF Next

LEMMA InitSafe == ASSUME NEW w, Init PROVE IInv(w)
<1>1. TypeInv
  BY InitTypes
<1>2. HandedOut
  BY OwnerIsUser DEF Init, HandedOut
<1>3. \A t \in Threads : thread[t].pc = "idle" /\ thread[t].op = "none"
  BY RestingFacts DEF Init
<1> QED BY <1>1, <1>2, <1>3 DEF IInv, SeenOf, Changes, WriterOf

\* What the writer has loaded is what there is, and nothing handed out is ahead.
THEOREM Invariance == ASSUME NEW w, Writers = {w} PROVE Spec => []IInv(w)
<1>1. Init => IInv(w)
  BY InitSafe
<1>2. IInv(w) /\ [Next]_vars => IInv(w)'
  BY NextSafe
<1> QED BY <1>1, <1>2, PTL DEF Spec

-----------------------------------------------------------------------------
\* Whoever is let in proved the password the account has now.
THEOREM SessionsKnowThePassword ==
  ASSUME NEW w, Writers = {w} PROVE Spec => []NoSessionOutlivesPassword
<1>1. IInv(w) => NoSessionOutlivesPassword
  BY DEF IInv, HandedOut, Behind, NoSessionOutlivesPassword, Live
<1> QED BY <1>1, Invariance, PTL

\* Accounts are changed by commits.
Commits(t) == PasswordCommit(t) \/ StatusCommit(t) \/ ReportCommit(t)

LEMMA OnlyCommitsChange ==
  ASSUME [Next]_vars PROVE UNCHANGED account \/ \E t \in Threads : Commits(t)
<1>1. ASSUME NEW t \in Threads, Begin(t) PROVE UNCHANGED account
  BY <1>1 DEF Begin, LoginRead, LogoutAdmit, ConnectCheck, PasswordLoad, StatusAdmit, ReportLoad
<1>2. ASSUME NEW t \in Threads, Step(t) PROVE UNCHANGED account \/ Commits(t)
  BY <1>2 DEF Step, Commits, LoginEstablish, PasswordEstablish, StatusLoad, LogoutClear,
              DisconnectUserSockets, ConnectAdd, CommitFails
<1>3. CASE ChatEvent \/ Restart \/ UNCHANGED vars
  BY <1>3 DEF ChatEvent, Restart, vars
<1> QED BY <1>1, <1>2, <1>3 DEF Next

\* Every step raises the version of an account or leaves the account alone.
LEMMA EveryChangeRaises ==
  ASSUME NEW w, Writers = {w}, IInv(w), [Next]_vars PROVE Raises
<1>1. CASE \E t \in Threads : Commits(t)
  BY <1>1, CommitRaises DEF Commits
<1>2. CASE UNCHANGED account
  BY <1>2 DEF Raises
<1> QED BY <1>1, <1>2, OnlyCommitsChange

\* A cookie or a socket that was refused once is refused for ever.
THEOREM RevokedIsRevoked ==
  ASSUME NEW w, Writers = {w} PROVE Spec => PastCredentialsStayDead
<1>1. ASSUME IInv(w), [Next]_vars, NEW b \in Browsers
      PROVE  /\ (cookie[b] # NoCookie /\ cookie'[b] = cookie[b] /\ ~Live(b)) => ~Live(b)'
             /\ (registry[b] # 0 /\ registry'[b] = registry[b] /\ ~SocketLive(b))
                  => ~SocketLive(b)'
  <2>1. Raises
    BY <1>1, EveryChangeRaises
  <2>2. /\ Owner(b) \in Users /\ account[Owner(b)].version \in Nat
        /\ registry[b] \in Nat /\ registry[b] <= account[Owner(b)].version
        /\ account'[Owner(b)] = account[Owner(b)]
           \/ account'[Owner(b)].version = account[Owner(b)].version + 1
    BY <1>1, <2>1, OwnerIsUser, AccountAssumption DEF IInv, TypeInv, HandedOut, Raises, Row, Versions
  <2>3. cookie[b] # NoCookie =>
          cookie[b].version \in Nat /\ cookie[b].version <= account[Owner(b)].version
    BY <1>1 DEF IInv, TypeInv, HandedOut, Behind, Cookies, Versions
  <2> QED BY <2>2, <2>3 DEF Live, SocketLive, Active
<1>2. IInv(w) /\ [Next]_vars =>
        \A b \in Browsers :
          /\ (cookie[b] # NoCookie /\ cookie'[b] = cookie[b] /\ ~Live(b)) => ~Live(b)'
          /\ (registry[b] # 0 /\ registry'[b] = registry[b] /\ ~SocketLive(b))
               => ~SocketLive(b)'
  BY <1>1
<1> QED BY <1>2, Invariance, PTL DEF Spec, PastCredentialsStayDead

\* An administrator remains: who suspends one has counted another, and nobody
\* suspends that one before the commit.
THEOREM AdministratorRemains ==
  ASSUME NEW w, Writers = {w}, Admins # {} PROVE Spec => []SomeAdminActive
<1>1. Init => SomeAdminActive
  BY AccountAssumption DEF Init, SomeAdminActive, Active
<1>2. ASSUME IInv(w), SomeAdminActive, NEW t \in Threads,
             PasswordCommit(t) \/ StatusCommit(t) \/ ReportCommit(t)
      PROVE  SomeAdminActive'
  <2>1. t = w /\ thread[w].pc = "loaded" /\ thread[w].seen = account[thread[w].target]
    <3>1. t = w
      BY <1>2, CommitRaises
    <3>2. thread[w].pc = "loaded"
      BY <1>2, <3>1 DEF PasswordCommit, StatusCommit, ReportCommit, At
    <3> QED BY <1>2, <3>1, <3>2 DEF IInv, WriterOf
  <2>2. CASE PasswordCommit(t)
    BY <1>2, <2>1, <2>2, AccountAssumption
    DEF PasswordCommit, IInv, TypeInv, Row, SomeAdminActive, Active
  <2>3. CASE StatusCommit(t)
    <3>1. CASE UNCHANGED account
      BY <1>2, <3>1 DEF SomeAdminActive, Active
    <3>2. CASE /\ thread[w].seen.status # thread[w].new
               /\ SetStatus(thread[w].target, thread[w].seen, thread[w].new)
      <4>1. thread[w] \in StatusChange
        BY <1>2, <2>1, <2>3, Kinds DEF IInv, StatusCommit, At
      <4>2. CASE thread[w].new = "active"
        BY <1>2, <3>2, <4>1, <4>2, AccountAssumption
        DEF IInv, TypeInv, Row, SetStatus, SomeAdminActive, Active, StatusChange
      <4>3. CASE thread[w].target \notin Admins
        BY <1>2, <3>2, <4>1, <4>3, AccountAssumption
        DEF IInv, TypeInv, Row, SetStatus, SomeAdminActive, Active, StatusChange
      <4>4. CASE thread[w].new = "dormant" /\ thread[w].target \in Admins
        <5>1. thread[w].seen.status = "active"
          BY <3>2, <4>1, <4>4 DEF StatusChange, Row
        <5>2. PICK a \in Admins : Active(a) /\ a # thread[w].target
          BY <1>2, <2>1, <2>3, <4>4, <5>1 DEF IInv, WriterOf, StatusCommit, At, OtherActiveAdmins
        <5> QED BY <1>2, <3>2, <4>1, <5>2, AccountAssumption
                DEF IInv, TypeInv, Row, SetStatus, SomeAdminActive, Active, StatusChange
      <4> QED BY <4>1, <4>2, <4>3, <4>4 DEF StatusChange, Statuses
    <3> QED BY <2>1, <2>3, <3>1, <3>2 DEF StatusCommit
  <2>4. CASE ReportCommit(t)
    <3>1. thread[w] \in Report
      BY <1>2, <2>1, <2>4, Kinds DEF IInv, ReportCommit, At
    <3> QED BY <1>2, <2>1, <2>4, <3>1, AccountAssumption
            DEF ReportCommit, Suspendable, IInv, TypeInv, Row, SetStatus, SomeAdminActive,
                Active, Report
  <2> QED BY <1>2, <2>2, <2>3, <2>4
<1>3. ASSUME IInv(w), SomeAdminActive, [Next]_vars PROVE SomeAdminActive'
  <2>1. CASE UNCHANGED account
    BY <1>3, <2>1 DEF SomeAdminActive, Active
  <2> QED BY <1>2, <1>3, <2>1, OnlyCommitsChange DEF Commits
<1>4. IInv(w) /\ SomeAdminActive /\ [Next]_vars => SomeAdminActive'
  BY <1>3
<1> QED BY <1>1, <1>4, Invariance, PTL DEF Spec

-----------------------------------------------------------------------------
(* What becomes of the sockets, however many threads change accounts at once. *)

Connects(t, b) == At(t, "connect", "checked") /\ thread[t].browser = b

LoggingOut(t, b) == At(t, "logout", "disconnected") /\ thread[t].browser = b

\* Somebody is about to disconnect the sockets of u.
Pending(u) == \E c \in Threads : thread[c].pc = "disconnect" /\ thread[c].target = u

Excused(b) == b \in overlapped \/ Pending(Owner(b))

\* A socket, or one that is about to be registered, is let in, about to be
\* disconnected, or overlapped such a request.
SocketOf(b) ==
  /\ registry[b] # 0 => SocketLive(b) \/ Excused(b)
  /\ \A t \in Threads : Connects(t, b) =>
       \/ Active(Owner(b)) /\ thread[t].seen.version = account[Owner(b)].version
       \/ Excused(b)

\* The logout of b leaves it no socket and none to come that did not overlap it.
Cut(b) == (registry[b] # 0 \/ \E t \in Threads : Connects(t, b)) => b \in overlapped

LogoutOf(b) == cookie[b] = NoCookie \/ (\E t \in Threads : LoggingOut(t, b)) => Cut(b)

OwnSockets(t) == thread[t].op = "logout" => thread[t].target = Owner(thread[t].browser)

SocketInv ==
  /\ \A b \in Browsers : SocketOf(b) /\ LogoutOf(b)
  /\ \A t \in Threads : OwnSockets(t)

\* Thread t does not move, or its move has nothing to do with sockets.
Quiet(t) ==
  \/ thread'[t] = thread[t]
  \/ /\ thread[t].pc # "disconnect"
     /\ thread'[t].op # "connect" /\ ~At(t, "logout", "disconnected")'
     /\ OwnSockets(t)'

LEMMA QuietKeeps ==
  ASSUME SocketInv, \A t \in Threads : Quiet(t), UNCHANGED account,
         \A b \in Browsers : registry'[b] \in {registry[b], 0},
         overlapped \subseteq overlapped',
         \A b \in Browsers : cookie'[b] = NoCookie => cookie[b] = NoCookie
  PROVE  SocketInv'
<1>1. \A u : Pending(u) => Pending(u)'
  BY DEF Pending, Quiet
<1>2. \A b \in Browsers : Excused(b) => Excused(b)'
  BY <1>1 DEF Excused
<1>3. \A t \in Threads, b \in Browsers :
        /\ Connects(t, b)' => Connects(t, b) /\ thread'[t] = thread[t]
        /\ LoggingOut(t, b)' => LoggingOut(t, b)
  BY DEF Quiet, Connects, LoggingOut, At
<1>4. ASSUME NEW b \in Browsers PROVE SocketOf(b)'
  BY <1>2, <1>3 DEF SocketInv, SocketOf, SocketLive, Active
<1>5. ASSUME NEW b \in Browsers PROVE LogoutOf(b)'
  BY <1>3 DEF SocketInv, LogoutOf, Cut
<1>6. ASSUME NEW t \in Threads PROVE OwnSockets(t)'
  BY DEF SocketInv, Quiet, OwnSockets
<1> QED BY <1>4, <1>5, <1>6 DEF SocketInv

\* A commit makes sockets outdated and is about to disconnect them.
LEMMA CommitCuts ==
  ASSUME TypeInv, SocketInv, NEW t \in Threads, Commits(t)
  PROVE  SocketInv'
<1> USE RestingFacts DEF TypeInv
<1>1. /\ thread[t] \in PasswordChange \union StatusChange \union Report
      /\ thread[t].pc = "loaded" /\ UNCHANGED <<cookie, registry, overlapped>>
      /\ \A s \in Threads \ {t} : thread'[s] = thread[s]
  BY Kinds DEF Commits, PasswordCommit, StatusCommit, ReportCommit, At, Goto, Finish
<1>2. CASE UNCHANGED account /\ Finish(t)
  <2>1. \A s \in Threads : Quiet(s)
    BY <1>1, <1>2 DEF Finish, Quiet, OwnSockets, At
  <2> QED BY <1>1, <1>2, <2>1, QuietKeeps
<1>3. CASE Goto(t, "disconnect")
  <2> DEFINE u == thread[t].target
  <2>1. /\ thread'[t].pc = "disconnect" /\ thread'[t].target = u
        /\ thread'[t].op = thread[t].op
        /\ thread[t].op \in {"password", "status", "report"}
    BY <1>1, <1>3 DEF Goto, PasswordChange, StatusChange, Report
  <2>2. \A v \in Users \ {u} : account'[v] = account[v]
    BY DEF Commits, PasswordCommit, StatusCommit, ReportCommit, SetStatus
  <2>3. \A v : Pending(v) \/ v = u => Pending(v)'
    BY <1>1, <2>1 DEF Pending
  <2>4. \A b \in Browsers : /\ Excused(b) => Excused(b)'
                            /\ Owner(b) = u => Excused(b)'
    BY <1>1, <2>3 DEF Excused
  <2>5. \A s \in Threads, b \in Browsers :
          /\ Connects(s, b)' => Connects(s, b) /\ thread'[s] = thread[s]
          /\ LoggingOut(s, b)' => LoggingOut(s, b)
    BY <1>1, <2>1 DEF Connects, LoggingOut, At
  <2>6. ASSUME NEW b \in Browsers PROVE SocketOf(b)'
    <3>1. CASE Owner(b) = u
      BY <2>4, <3>1 DEF SocketOf
    <3>2. CASE Owner(b) # u
      <4>1. account'[Owner(b)] = account[Owner(b)] /\ registry'[b] = registry[b]
        BY <1>1, <2>2, <3>2, OwnerIsUser
      <4> QED BY <2>4, <2>5, <4>1 DEF SocketInv, SocketOf, SocketLive, Active
    <3> QED BY <3>1, <3>2
  <2>7. ASSUME NEW b \in Browsers PROVE LogoutOf(b)'
    BY <1>1, <2>5 DEF SocketInv, LogoutOf, Cut
  <2>8. ASSUME NEW s \in Threads PROVE OwnSockets(s)'
    BY <1>1, <2>1 DEF SocketInv, OwnSockets
  <2> QED BY <2>6, <2>7, <2>8 DEF SocketInv
<1> QED BY <1>2, <1>3 DEF Commits, PasswordCommit, StatusCommit, ReportCommit

\* disconnect_user_sockets drops those that are there and marks those to come.
LEMMA DisconnectCuts ==
  ASSUME TypeInv, SocketInv, NEW t \in Threads, DisconnectUserSockets(t)
  PROVE  SocketInv'
<1> USE RestingFacts DEF TypeInv
<1> DEFINE u == thread[t].target
<1>1. thread[t] \in PasswordChange \union StatusChange \union Report \union Logout
  BY Kinds DEF DisconnectUserSockets
<1>2. /\ UNCHANGED <<account, cookie>> /\ overlapped \subseteq overlapped'
      /\ \A s \in Threads \ {t} : thread'[s] = thread[s]
      /\ \A b \in Browsers : registry'[b] = IF Owner(b) = u THEN 0 ELSE registry[b]
  BY DEF DisconnectUserSockets, Dropped, Finish
<1>3. \A s \in Threads, b \in Browsers : Connects(s, b) /\ Owner(b) = u => b \in overlapped'
  BY DEF DisconnectUserSockets, Connects
<1>4. \/ thread'[t] = Resting
      \/ /\ thread'[t].pc = "disconnected" /\ thread'[t].op = thread[t].op
         /\ thread'[t].target = u /\ thread[t].op \in {"password", "logout"}
         /\ thread'[t].browser = thread[t].browser
  BY <1>1 DEF DisconnectUserSockets, Finish, PasswordChange, StatusChange, Report, Logout
<1>5. \A v : v # u /\ Pending(v) => Pending(v)'
  BY <1>2 DEF Pending
<1>6. \A b \in Browsers : Owner(b) # u /\ Excused(b) => Excused(b)'
  BY <1>2, <1>5 DEF Excused
<1>7. \A s \in Threads, b \in Browsers :
        Connects(s, b)' => Connects(s, b) /\ thread'[s] = thread[s]
  BY <1>2, <1>4 DEF Connects, At
<1>8. ASSUME NEW b \in Browsers PROVE SocketOf(b)'
  BY <1>2, <1>3, <1>6, <1>7 DEF SocketInv, SocketOf, SocketLive, Active, Excused
<1>9. ASSUME NEW b \in Browsers PROVE LogoutOf(b)'
  <2>1. Owner(b) = u => Cut(b)'
    BY <1>2, <1>3, <1>7 DEF Cut
  <2>2. Cut(b) => Cut(b)'
    BY <1>2, <1>7 DEF Cut
  <2>3. \A s \in Threads : LoggingOut(s, b)' => LoggingOut(s, b) \/ Owner(b) = u
    BY <1>2, <1>4 DEF LoggingOut, At, SocketInv, OwnSockets
  <2> QED BY <1>2, <2>1, <2>2, <2>3 DEF SocketInv, LogoutOf
<1>10. ASSUME NEW s \in Threads PROVE OwnSockets(s)'
  BY <1>2, <1>4 DEF SocketInv, OwnSockets
<1> QED BY <1>8, <1>9, <1>10 DEF SocketInv

\* A browser that connects is let in at that moment; it is no longer excused for
\* what it did before.
LEMMA ConnectCuts ==
  ASSUME TypeInv, SocketInv, NEW t \in Threads, NEW b \in Browsers, ConnectCheck(t, b)
  PROVE  SocketInv'
<1> USE RestingFacts DEF TypeInv
<1>1. /\ thread[t].pc = "idle" /\ thread[t].op = "none" /\ Live(b) /\ registry[b] = 0
      /\ UNCHANGED <<account, cookie>>
      /\ \A s \in Threads \ {t} : thread'[s] = thread[s]
      /\ \A d \in Browsers : registry'[d] \in {registry[d], 0}
      /\ \A d \in Browsers \ {b} : d \in overlapped <=> d \in overlapped'
      /\ \A s \in Threads : ~Connects(s, b)
  BY DEF ConnectCheck, Pruned, Idle, Connects
<1>2. /\ thread'[t].op = "connect" /\ thread'[t].pc = "checked"
      /\ thread'[t].browser = b /\ thread'[t].seen = account[Owner(b)]
  BY DEF ConnectCheck
<1>3. \A v : Pending(v) => Pending(v)'
  BY <1>1 DEF Pending
<1>4. ASSUME NEW d \in Browsers, d # b PROVE SocketOf(d)' /\ LogoutOf(d)'
  <2>1. \A s \in Threads : /\ Connects(s, d)' => Connects(s, d) /\ thread'[s] = thread[s]
                           /\ LoggingOut(s, d)' => LoggingOut(s, d)
    BY <1>1, <1>2, <1>4 DEF Connects, LoggingOut, At
  <2>2. Excused(d) => Excused(d)'
    BY <1>1, <1>3, <1>4 DEF Excused
  <2>3. SocketOf(d)'
    BY <1>1, <1>4, <2>1, <2>2 DEF SocketInv, SocketOf, SocketLive, Active
  <2>4. LogoutOf(d)'
    BY <1>1, <1>4, <2>1 DEF SocketInv, LogoutOf, Cut
  <2> QED BY <2>3, <2>4
<1>5. SocketOf(b)'
  <2>1. \A s \in Threads : Connects(s, b)' => s = t
    BY <1>1 DEF Connects, At
  <2>2. registry'[b] = 0
    BY <1>1
  <2> QED BY <1>1, <1>2, <2>1, <2>2 DEF SocketOf, Active, Live
<1>6. LogoutOf(b)'
  <2>1. cookie'[b] # NoCookie
    BY <1>1 DEF Live
  <2>2. ASSUME NEW s \in Threads, LoggingOut(s, b)' PROVE b \in overlapped'
    <3>1. s # t
      BY <1>2, <2>2 DEF LoggingOut, At
    <3>2. LoggingOut(s, b)
      BY <1>1, <2>2, <3>1 DEF LoggingOut, At
    <3>3. Disconnects(s, Owner(b))
      BY <3>2 DEF LoggingOut, At, Disconnects, SocketInv, OwnSockets
    <3> QED BY <3>3 DEF ConnectCheck
  <2> QED BY <2>1, <2>2 DEF LogoutOf, Cut
<1>7. ASSUME NEW s \in Threads PROVE OwnSockets(s)'
  BY <1>1, <1>2 DEF SocketInv, OwnSockets
<1> QED BY <1>4, <1>5, <1>6, <1>7 DEF SocketInv

LEMMA AddCuts ==
  ASSUME TypeInv, SocketInv, NEW t \in Threads, ConnectAdd(t)
  PROVE  SocketInv'
<1> USE RestingFacts DEF TypeInv
<1> DEFINE b == thread[t].browser
<1>1. thread[t] \in Connecting /\ Connects(t, b) /\ b \in Browsers
  BY Kinds DEF ConnectAdd, At, Connects, Connecting
<1>2. /\ UNCHANGED <<account, cookie, overlapped>>
      /\ thread'[t] = Resting /\ \A s \in Threads \ {t} : thread'[s] = thread[s]
      /\ registry'[b] = thread[t].seen.version
      /\ \A d \in Browsers \ {b} : registry'[d] = registry[d]
  BY <1>1 DEF ConnectAdd, Finish
<1>3. \A v : Pending(v) => Pending(v)'
  BY <1>1, <1>2 DEF Pending, Connecting
<1>4. \A s \in Threads, d \in Browsers :
        /\ Connects(s, d)' => Connects(s, d) /\ thread'[s] = thread[s]
        /\ LoggingOut(s, d)' => LoggingOut(s, d)
  BY <1>2 DEF Connects, LoggingOut, At
<1>5. ASSUME NEW d \in Browsers PROVE SocketOf(d)'
  BY <1>1, <1>2, <1>3, <1>4 DEF SocketInv, SocketOf, SocketLive, Active, Excused
<1>6. ASSUME NEW d \in Browsers PROVE LogoutOf(d)'
  BY <1>1, <1>2, <1>4 DEF SocketInv, LogoutOf, Cut
<1>7. ASSUME NEW s \in Threads PROVE OwnSockets(s)'
  BY <1>2 DEF SocketInv, OwnSockets
<1> QED BY <1>5, <1>6, <1>7 DEF SocketInv

\* The session is cleared after its sockets: Cut holds already.
LEMMA ClearCuts ==
  ASSUME TypeInv, SocketInv, NEW t \in Threads, LogoutClear(t)
  PROVE  SocketInv'
<1> USE RestingFacts DEF TypeInv
<1> DEFINE b == thread[t].browser
<1>1. thread[t] \in Logout /\ LoggingOut(t, b) /\ b \in Browsers
  BY Kinds DEF LogoutClear, At, LoggingOut, Logout
<1>2. /\ UNCHANGED <<account, registry, overlapped>>
      /\ thread'[t] = Resting /\ \A s \in Threads \ {t} : thread'[s] = thread[s]
      /\ \A d \in Browsers \ {b} : cookie'[d] = cookie[d]
  BY <1>1 DEF LogoutClear, Finish
<1>3. \A v : Pending(v) => Pending(v)'
  BY <1>1, <1>2 DEF Pending, LoggingOut, At
<1>4. \A s \in Threads, d \in Browsers :
        /\ Connects(s, d)' => Connects(s, d) /\ thread'[s] = thread[s]
        /\ LoggingOut(s, d)' => LoggingOut(s, d)
  BY <1>2 DEF Connects, LoggingOut, At
<1>5. ASSUME NEW d \in Browsers PROVE SocketOf(d)'
  BY <1>2, <1>3, <1>4 DEF SocketInv, SocketOf, SocketLive, Active, Excused
<1>6. ASSUME NEW d \in Browsers PROVE LogoutOf(d)'
  <2>1. Cut(d) => Cut(d)'
    BY <1>2, <1>4 DEF Cut
  <2>2. Cut(b)
    BY <1>1 DEF SocketInv, LogoutOf
  <2> QED BY <1>2, <1>4, <2>1, <2>2 DEF SocketInv, LogoutOf
<1>7. ASSUME NEW s \in Threads PROVE OwnSockets(s)'
  BY <1>2 DEF SocketInv, OwnSockets
<1> QED BY <1>5, <1>6, <1>7 DEF SocketInv

LEMMA SocketStep == ASSUME TypeInv, SocketInv, [Next]_vars PROVE SocketInv'
<1> USE RestingFacts DEF TypeInv
<1>1. ASSUME NEW t \in Threads, Begin(t), \A b \in Browsers : ~ConnectCheck(t, b)
      PROVE  SocketInv'
  <2>1. /\ UNCHANGED <<account, cookie, registry, overlapped>>
        /\ thread[t].pc = "idle" /\ \A s \in Threads \ {t} : thread'[s] = thread[s]
    BY <1>1 DEF Begin, LoginRead, LogoutAdmit, PasswordLoad, StatusAdmit, ReportLoad, Idle
  <2>2. /\ thread'[t].op # "connect" /\ ~At(t, "logout", "disconnected")'
        /\ OwnSockets(t)'
    BY <1>1 DEF Begin, LoginRead, LogoutAdmit, PasswordLoad, StatusAdmit, ReportLoad,
                At, OwnSockets
  <2> QED BY <2>1, <2>2, QuietKeeps DEF Quiet
<1>2. ASSUME NEW t \in Threads, LoginEstablish(t) \/ PasswordEstablish(t)
      PROVE  SocketInv'
  <2>1. /\ UNCHANGED <<account, registry, overlapped>>
        /\ thread[t].pc \in {"verified", "disconnected"}
        /\ thread'[t] = Resting /\ \A s \in Threads \ {t} : thread'[s] = thread[s]
    BY <1>2 DEF LoginEstablish, PasswordEstablish, Finish, At
  <2>2. ASSUME NEW b \in Browsers, cookie'[b] = NoCookie PROVE cookie[b] = NoCookie
    <3>1. thread[t] \in Login \union PasswordChange
      BY <1>2, Kinds DEF LoginEstablish, PasswordEstablish, At
    <3>2. thread[t].seen.version # 0
      BY <3>1, AccountAssumption DEF Login, PasswordChange, Row, Versions
    <3> QED BY <1>2, <2>2, <3>2 DEF LoginEstablish, PasswordEstablish, Session, NoCookie
  <2> QED BY <2>1, <2>2, QuietKeeps DEF Quiet, OwnSockets, At
<1>3. ASSUME NEW t \in Threads, StatusLoad(t) PROVE SocketInv'
  <2>1. thread[t] \in StatusChange /\ thread[t].pc = "admitted"
    BY <1>3, Kinds DEF StatusLoad, At
  <2>2. /\ UNCHANGED <<account, cookie, registry, overlapped>>
        /\ \A s \in Threads \ {t} : thread'[s] = thread[s]
        /\ thread'[t].op \in {"none", "status"}
    BY <1>3, <2>1 DEF StatusLoad, Finish, StatusChange
  <2> QED BY <2>1, <2>2, QuietKeeps DEF Quiet, OwnSockets, At
<1>4. ASSUME NEW t \in Threads, CommitFails(t) PROVE SocketInv'
  BY <1>4, QuietKeeps DEF CommitFails, Finish, Quiet, OwnSockets, At
<1>5. CASE ChatEvent
  BY <1>5, QuietKeeps DEF ChatEvent, Pruned, Quiet
<1>6. CASE Restart
  <2>1. /\ \A t \in Threads : thread'[t] = Resting
        /\ \A b \in Browsers : registry'[b] = 0
    BY <1>6 DEF Restart
  <2> QED BY <2>1 DEF SocketInv, SocketOf, LogoutOf, Cut, OwnSockets, Connects, At
<1>7. CASE UNCHANGED vars
  BY <1>7, QuietKeeps DEF vars, Quiet
<1>8. ASSUME NEW t \in Threads, Step(t) PROVE SocketInv'
  BY <1>2, <1>3, <1>4, <1>8, CommitCuts, DisconnectCuts, AddCuts, ClearCuts DEF Step, Commits
<1> QED BY <1>1, <1>5, <1>6, <1>7, <1>8, ConnectCuts DEF Next

\* No socket is forgotten: after a logout or a change of its account it is
\* disconnected, or it connected while that was under way.
THEOREM SocketsAreDisconnected == Spec => []NoForgottenSocket
<1>1. Init => SocketInv
  BY RestingFacts DEF Init, SocketInv, SocketOf, LogoutOf, Cut, OwnSockets, Connects, At
<1>2. TypeInv /\ SocketInv /\ [Next]_vars => TypeInv' /\ SocketInv'
  BY NextTypes, SocketStep
<1>3. SocketInv => NoForgottenSocket
  <2>1. SocketInv => LogoutClosesSockets
    BY DEF SocketInv, LogoutOf, Cut, LogoutClosesSockets
  <2>2. (\A t \in Threads : Idle(t)) => \A u : ~Pending(u)
    BY RestingFacts DEF Idle, Pending
  <2>3. SocketInv => NoDeadSocketAtRest
    BY <2>2 DEF SocketInv, SocketOf, Excused, NoDeadSocketAtRest
  <2> QED BY <2>1, <2>3 DEF NoForgottenSocket
<1> QED BY <1>1, <1>2, <1>3, InitTypes, PTL DEF Spec

-----------------------------------------------------------------------------
(* How accounts come to be, as the composition has it (Registration).         *)

Roles == {"user", "admin"}

Posted == [pc : {"hashing", "writing", "answer"},
         outcome : {"none", "created", "duplicate", "refused", "error"},
         name : Names, role : Roles, next : 1 .. 5,
         pending : SUBSET {"users", "wallets", "audit_logs"}, failed : BOOLEAN]

RequestType ==
  /\ request \in [Requests -> {Joining!Resting} \union Posted]
  /\ users \subseteq [name : Names, role : Roles, by : Requests]

\* What is inserted so far, by the number of the next statement.
Inserted(next) ==
  {t \in {"users", "wallets", "audit_logs"} :
     \/ t = "users" /\ next > 1
     \/ t = "wallets" /\ next > 2
     \/ t = "audit_logs" /\ next > 3}

\* Between its first INSERT and its commit a request is the writer, so the name
\* it found free at the first INSERT still is.
Progress(r) ==
  /\ Joining!At(r, "hashing") => request[r].next = 1 /\ request[r].pending = {}
  /\ Joining!At(r, "writing") =>
       /\ request[r].next <= Len(Joining!Statements(request[r].role))
       /\ request[r].pending = Inserted(request[r].next)
       /\ request[r].next > 1 => writer = r /\ Joining!Free(request[r].name)
  /\ writer = r => Joining!At(r, "writing") /\ request[r].next > 1

ProgressInv == \A r \in Requests : Progress(r)

Mine(r) == \E u \in users : u.name = request[r].name /\ u.by = r

\* Nothing is committed for a request that still works.
NotYetMine == \A r \in Requests : request[r].pc \in {"hashing", "writing"} => ~Mine(r)

JoiningInv == RequestType /\ ProgressInv /\ NotYetMine /\ Joining!NameOnce /\ Joining!AccountIsWhole /\ Joining!AnswerIsTrue

-----------------------------------------------------------------------------
\* The tables of statements, spelled out.
LEMMA StatementTable ==
  /\ Len(Joining!Statements("user")) = 3 /\ Len(Joining!Statements("admin")) = 4
  /\ \A n \in 1 .. 3 : Joining!Statements("user")[n] = "commit" <=> n = 3
  /\ \A n \in 1 .. 4 : Joining!Statements("admin")[n] = "commit" <=> n = 4
  /\ \A role \in Roles :
       /\ Joining!Statements(role)[1] = "users" /\ Joining!Statements(role)[2] = "wallets"
       /\ role = "user" => Joining!Statements(role)[3] = "commit"
       /\ role = "admin" => Joining!Statements(role)[3] = "audit_logs" /\ Joining!Statements(role)[4] = "commit"
BY DEF Joining!Statements, Roles

-----------------------------------------------------------------------------
\* As long as another request commits nothing, one that does not move keeps its
\* place in the program.
LEMMA OthersProgress ==
  ASSUME NEW p \in Requests, Progress(p), UNCHANGED users, request'[p] = request[p],
         (writer' = p) <=> (writer = p)
  PROVE  Progress(p)'
BY DEF Progress, Joining!Free, Joining!At

\* Statements that write nothing visible: the tables stay, and thread r moves.
LEMMA StartKeeps ==
  ASSUME JoiningInv,
         NEW r \in Requests, NEW name \in Names, NEW role \in Roles,
         Joining!Start(r, name, role)
  PROVE  JoiningInv'
<1> USE DEF Joining!Start, Joining!At
<1>1. RequestType'
  BY DEF JoiningInv, RequestType, Posted, Joining!Resting
<1>2. \A q \in Requests \ {r} : request'[q] = request[q]
  BY DEF JoiningInv, RequestType
<1>3. /\ request'[r].pc = IF Joining!Free(name) THEN "hashing" ELSE "answer"
      /\ request'[r].outcome = IF Joining!Free(name) THEN "none" ELSE "duplicate"
      /\ request'[r].name = name /\ request'[r].next = 1 /\ request'[r].pending = {}
  BY DEF JoiningInv, RequestType
<1>4. ProgressInv'
  BY <1>2, <1>3 DEF JoiningInv, ProgressInv, Progress, Joining!Free
<1>5. NotYetMine'
  BY <1>2, <1>3 DEF JoiningInv, NotYetMine, Mine, Joining!Free
<1>6. Joining!NameOnce' /\ Joining!AccountIsWhole'
  BY DEF JoiningInv, Joining!NameOnce, Joining!AccountIsWhole
<1>7. Joining!AnswerIsTrue'
  BY <1>2, <1>3 DEF JoiningInv, Joining!AnswerIsTrue, Joining!Free
<1> QED BY <1>1, <1>4, <1>5, <1>6, <1>7 DEF JoiningInv

LEMMA HashedKeeps ==
  ASSUME JoiningInv, NEW r \in Requests, Joining!Hashed(r)
  PROVE  JoiningInv'
<1>1. request[r] \in Posted /\ request[r].pc = "hashing"
  BY DEF JoiningInv, RequestType, Joining!Resting, Joining!Hashed, Joining!At
<1>2. RequestType'
  BY <1>1 DEF JoiningInv, RequestType, Posted, Joining!Hashed
<1>3. /\ UNCHANGED <<users, wallets, audits, writer>>
      /\ \A p \in Requests \ {r} : request'[p] = request[p]
  BY DEF JoiningInv, RequestType, Joining!Hashed
<1>4. /\ request'[r].pc = "writing" /\ request'[r].name = request[r].name
      /\ request'[r].next = request[r].next /\ request'[r].role = request[r].role
      /\ request'[r].pending = request[r].pending
  BY <1>1 DEF JoiningInv, RequestType, Posted, Joining!Hashed
<1>5. ProgressInv'
  <2>1. request[r].next = 1 /\ request[r].pending = {} /\ writer # r
    BY <1>1 DEF JoiningInv, ProgressInv, Progress, Joining!At
  <2>2. 1 <= Len(Joining!Statements(request[r].role))
    BY <1>1, StatementTable DEF Posted, Roles
  <2>3. Inserted(1) = {}
    BY DEF Inserted
  <2>4. Progress(r)'
    BY <1>3, <1>4, <2>1, <2>2, <2>3 DEF Progress, Joining!At
  <2> QED BY <1>3, <2>4, OthersProgress DEF JoiningInv, ProgressInv
<1>6. NotYetMine'
  BY <1>1, <1>3, <1>4 DEF JoiningInv, NotYetMine, Mine
<1>7. Joining!NameOnce' /\ Joining!AccountIsWhole'
  BY <1>3 DEF JoiningInv, Joining!NameOnce, Joining!AccountIsWhole
<1>8. Joining!AnswerIsTrue'
  BY <1>3, <1>4 DEF JoiningInv, Joining!AnswerIsTrue, Joining!Free, Joining!At
<1> QED BY <1>2, <1>5, <1>6, <1>7, <1>8 DEF JoiningInv

\* The first INSERT finds the name free, the others leave it so.
LEMMA InsertKeeps ==
  ASSUME JoiningInv, NEW r \in Requests, Joining!Insert(r)
  PROVE  JoiningInv'
<1> DEFINE me == request[r]
<1>1. me \in Posted /\ me.pc = "writing"
  BY DEF JoiningInv, RequestType, Joining!Resting, Joining!Insert, Joining!At
<1>2. /\ me.next <= Len(Joining!Statements(me.role)) /\ me.pending = Inserted(me.next)
      /\ me.next > 1 => writer = r /\ Joining!Free(me.name)
  BY <1>1 DEF JoiningInv, ProgressInv, Progress, Joining!At
<1>3. /\ me.next + 1 \in 1 .. 4 /\ me.next + 1 <= Len(Joining!Statements(me.role))
      /\ Joining!Current(r) \in {"users", "wallets", "audit_logs"}
      /\ Joining!Current(r) = "users" <=> me.next = 1
      /\ Inserted(me.next + 1) = me.pending \union {Joining!Current(r)}
  <2>1. CASE me.role = "user"
    BY <1>1, <1>2, <2>1, StatementTable DEF Posted, Roles, Joining!Current, Inserted,
                                            Joining!Insert
  <2>2. CASE me.role = "admin"
    BY <1>1, <1>2, <2>2, StatementTable DEF Posted, Roles, Joining!Current, Inserted,
                                            Joining!Insert
  <2> QED BY <1>1, <2>1, <2>2 DEF Posted, Roles
<1>4. /\ UNCHANGED <<users, wallets, audits>> /\ writer' = r
      /\ \A p \in Requests \ {r} : request'[p] = request[p] /\ writer # p
  BY WriterAssumption DEF JoiningInv, RequestType, Joining!Insert
<1>5. request'[r].pc = "writing" /\ request'[r].name = me.name /\ request'[r].role = me.role
  BY <1>1 DEF JoiningInv, RequestType, Posted, Joining!Insert
<1>6. /\ request'[r].next = me.next + 1
      /\ request'[r].pending = me.pending \union {Joining!Current(r)}
  BY <1>1 DEF JoiningInv, RequestType, Posted, Joining!Insert
<1>7. RequestType'
  <2>1. PICK table \in {"users", "wallets", "audit_logs"} : table = Joining!Current(r)
    BY <1>3
  <2>2. request' = [request EXCEPT ![r].next = @ + 1, ![r].pending = @ \union {table}]
    BY <2>1 DEF Joining!Insert
  <2>3. me.next + 1 \in 1 .. 5
        /\ me.pending \union {table} \subseteq {"users", "wallets", "audit_logs"}
    BY <1>1, <1>3, <2>1 DEF Posted
  <2>4. request' \in [Requests -> {Joining!Resting} \union Posted]
    BY <1>1, <2>2, <2>3 DEF JoiningInv, RequestType, Posted
  <2> QED BY <1>4, <2>4 DEF JoiningInv, RequestType
<1>8. ProgressInv'
  <2>1. Joining!Free(me.name)
    BY <1>1, <1>2, <1>3 DEF Joining!Unique, Posted, Joining!Insert
  <2>2. Progress(r)'
    BY <1>1, <1>3, <1>4, <1>5, <1>6, <2>1 DEF Progress, Joining!Free, Posted, Joining!At
  <2> QED BY <1>4, <2>2, OthersProgress DEF JoiningInv, ProgressInv
<1>9. NotYetMine'
  BY <1>1, <1>4, <1>5 DEF JoiningInv, NotYetMine, Mine
<1>10. Joining!NameOnce' /\ Joining!AccountIsWhole'
  BY <1>4 DEF JoiningInv, Joining!NameOnce, Joining!AccountIsWhole
<1>11. Joining!AnswerIsTrue'
  BY <1>4, <1>5 DEF JoiningInv, Joining!AnswerIsTrue, Joining!Free, Joining!At
<1> QED BY <1>7, <1>8, <1>9, <1>10, <1>11 DEF JoiningInv

\* A request that ends without a commit leaves no trace.
LEMMA RollBackKeeps ==
  ASSUME JoiningInv, NEW r \in Requests,
         NEW outcome \in {"duplicate", "refused", "error"}, NEW failed \in BOOLEAN,
         request[r].pc \in {"writing", "hashing"},
         outcome = "duplicate" => ~Joining!Free(request[r].name),
         (outcome = "error" /\ request[r].role = "user") => failed,
         Joining!RollBack(r, outcome, failed)
  PROVE  JoiningInv'
<1> DEFINE me == request[r]
<1>1. me \in Posted
  BY DEF JoiningInv, RequestType, Joining!Resting
<1>2. RequestType'
  BY <1>1 DEF JoiningInv, RequestType, Posted, Joining!RollBack
<1>3. /\ UNCHANGED <<users, wallets, audits>>
      /\ writer' = writer \/ (writer = r /\ writer' = Nobody)
      /\ writer' # r
      /\ \A p \in Requests \ {r} : request'[p] = request[p]
  BY WriterAssumption DEF JoiningInv, RequestType, Joining!RollBack
<1>4. /\ request'[r].pc = "answer" /\ request'[r].name = me.name
      /\ request'[r].outcome = outcome /\ request'[r].role = me.role
  BY <1>1 DEF JoiningInv, RequestType, Posted, Joining!RollBack
<1>5. ProgressInv'
  <2>1. Progress(r)'
    BY <1>3, <1>4 DEF Progress, Joining!At
  <2> QED BY <1>3, <2>1, OthersProgress, WriterAssumption DEF JoiningInv, ProgressInv
<1>6. NotYetMine'
  BY <1>3, <1>4 DEF JoiningInv, NotYetMine, Mine
<1>7. Joining!NameOnce' /\ Joining!AccountIsWhole'
  BY <1>3 DEF JoiningInv, Joining!NameOnce, Joining!AccountIsWhole
<1>8. Joining!AnswerIsTrue'
  <2>1. ~Mine(r)
    BY DEF JoiningInv, NotYetMine
  <2>2. (outcome = "error" /\ me.role = "user") => request'[r].failed
    BY <1>1 DEF JoiningInv, RequestType, Posted, Joining!RollBack
  <2> QED BY <1>3, <1>4, <2>1, <2>2 DEF JoiningInv, Joining!AnswerIsTrue, Joining!Free,
                                        Mine, Joining!At
<1> QED BY <1>2, <1>5, <1>6, <1>7, <1>8 DEF JoiningInv

LEMMA PromptRefusedKeeps ==
  ASSUME JoiningInv, NEW r \in Requests, Joining!PromptRefused(r)
  PROVE  JoiningInv'
<1> DEFINE me == request[r]
<1>1. me \in Posted /\ me.pc = "hashing"
  BY DEF JoiningInv, RequestType, Joining!Resting, Joining!PromptRefused, Joining!At
<1>2. RequestType'
  BY <1>1 DEF JoiningInv, RequestType, Posted, Joining!PromptRefused
<1>3. /\ UNCHANGED <<users, wallets, audits, writer>>
      /\ \A p \in Requests \ {r} : request'[p] = request[p]
  BY DEF JoiningInv, RequestType, Joining!PromptRefused
<1>4. /\ request'[r].pc = "answer" /\ request'[r].name = me.name
      /\ request'[r].outcome = "refused"
  BY <1>1 DEF JoiningInv, RequestType, Posted, Joining!PromptRefused
<1>5. ProgressInv'
  <2>1. writer # r
    BY <1>1 DEF JoiningInv, ProgressInv, Progress, Joining!At
  <2>2. Progress(r)'
    BY <1>3, <1>4, <2>1 DEF Progress, Joining!At
  <2> QED BY <1>3, <2>2, OthersProgress DEF JoiningInv, ProgressInv
<1>6. NotYetMine'
  BY <1>3, <1>4 DEF JoiningInv, NotYetMine, Mine
<1>7. Joining!NameOnce' /\ Joining!AccountIsWhole'
  BY <1>3 DEF JoiningInv, Joining!NameOnce, Joining!AccountIsWhole
<1>8. Joining!AnswerIsTrue'
  <2>1. ~Mine(r)
    BY <1>1 DEF JoiningInv, NotYetMine
  <2> QED BY <1>3, <1>4, <2>1 DEF JoiningInv, Joining!AnswerIsTrue, Joining!Free, Mine,
                                  Joining!At
<1> QED BY <1>2, <1>5, <1>6, <1>7, <1>8 DEF JoiningInv

\* When the commit is reached everything is inserted, and the commit is the last
\* statement.
LEMMA CommitIsWhole ==
  ASSUME JoiningInv, NEW r \in Requests, Joining!Commit(r)
  PROVE  /\ request[r].next < 5
         /\ users' = users \union {Joining!Row(request[r].name, request[r].role, r)}
         /\ wallets' = wallets \union {request[r].name}
         /\ audits' = audits \union IF request[r].role = "admin" THEN {request[r].name} ELSE {}
         /\ writer = r /\ writer' = Nobody /\ Joining!Free(request[r].name)
         /\ request' = [request EXCEPT ![r].next = @ + 1, ![r].pending = {},
                                       ![r].pc = "answer", ![r].outcome = "created"]
<1> DEFINE me == request[r]
<1>1. me \in Posted /\ me.pc = "writing"
  BY DEF JoiningInv, RequestType, Joining!Resting, Joining!Commit, Joining!At
<1>2. /\ me.next <= Len(Joining!Statements(me.role)) /\ me.pending = Inserted(me.next)
      /\ me.next > 1 => writer = r /\ Joining!Free(me.name)
  BY <1>1 DEF JoiningInv, ProgressInv, Progress, Joining!At
<1>3. /\ me.next = Len(Joining!Statements(me.role)) /\ me.next > 1 /\ me.next < 5
      /\ "users" \in me.pending /\ "wallets" \in me.pending
      /\ "audit_logs" \in me.pending <=> me.role = "admin"
  <2>1. Joining!Statements(me.role)[me.next] = "commit"
    BY DEF Joining!Commit, Joining!Current
  <2>2. me.next \in 1 .. 5 /\ me.role \in Roles
    BY <1>1 DEF Posted
  <2>3. me.next = Len(Joining!Statements(me.role)) /\ me.next = IF me.role = "user" THEN 3 ELSE 4
    <3>1. CASE me.role = "user"
      <4>1. Len(Joining!Statements(me.role)) = 3
        BY <3>1, StatementTable
      <4>2. me.next \in 1 .. 3
        BY <1>2, <2>2, <4>1
      <4> QED BY <2>1, <3>1, <4>1, <4>2, StatementTable
    <3>2. CASE me.role = "admin"
      <4>1. Len(Joining!Statements(me.role)) = 4
        BY <3>2, StatementTable
      <4>2. me.next \in 1 .. 4
        BY <1>2, <2>2, <4>1
      <4> QED BY <2>1, <3>2, <4>1, <4>2, StatementTable
    <3> QED BY <2>2, <3>1, <3>2 DEF Roles
  <2>4. Inserted(3) = {"users", "wallets"} /\ Inserted(4) = {"users", "wallets", "audit_logs"}
    BY DEF Inserted
  <2> QED BY <1>2, <2>2, <2>3, <2>4 DEF Roles
<1>4. /\ users' = users \union {Joining!Row(me.name, me.role, r)}
      /\ wallets' = wallets \union {me.name}
      /\ audits' = audits \union IF me.role = "admin" THEN {me.name} ELSE {}
      /\ writer' = Nobody
  BY <1>3 DEF Joining!Commit
<1>5. request' = [request EXCEPT ![r].next = @ + 1, ![r].pending = {},
                                 ![r].pc = "answer", ![r].outcome = "created"]
  BY <1>3 DEF Joining!Commit
<1> QED BY <1>2, <1>3, <1>4, <1>5

LEMMA AccountCommitKeeps ==
  ASSUME JoiningInv, NEW r \in Requests, Joining!Commit(r)
  PROVE  JoiningInv'
<1> DEFINE me == request[r]
           new == Joining!Row(me.name, me.role, r)
<1>1. me \in Posted /\ me.pc = "writing" /\ me.next < 5
  <2>1. me \in Posted /\ me.pc = "writing"
    BY DEF JoiningInv, RequestType, Joining!Resting, Joining!Commit, Joining!At
  <2>2. me.next < 5
    BY CommitIsWhole
  <2> QED BY <2>1, <2>2
<1>2. /\ users' = users \union {new} /\ new.name = me.name /\ new.by = r /\ new.role = me.role
      /\ wallets' = wallets \union {me.name}
      /\ audits' = audits \union IF me.role = "admin" THEN {me.name} ELSE {}
      /\ writer = r /\ writer' = Nobody /\ Joining!Free(me.name)
  BY CommitIsWhole DEF Joining!Row
<1>3. request' = [request EXCEPT ![r].next = @ + 1, ![r].pending = {},
                                 ![r].pc = "answer", ![r].outcome = "created"]
  BY CommitIsWhole
<1>4. \A p \in Requests \ {r} : request'[p] = request[p]
  BY <1>3 DEF JoiningInv, RequestType
<1>5. request'[r].pc = "answer" /\ request'[r].name = me.name /\ request'[r].outcome = "created"
  BY <1>1, <1>3 DEF JoiningInv, RequestType, Posted
<1>6. RequestType'
  <2>1. request' \in [Requests -> {Joining!Resting} \union Posted]
    BY <1>1, <1>3 DEF JoiningInv, RequestType, Posted
  <2>2. new \in [name : Names, role : Roles, by : Requests]
    BY <1>1 DEF Joining!Row, Posted
  <2> QED BY <1>2, <2>1, <2>2 DEF JoiningInv, RequestType
<1>7. ProgressInv'
  <2>1. Progress(r)'
    BY <1>2, <1>5, WriterAssumption DEF Progress, Joining!At
  <2>2. ASSUME NEW p \in Requests \ {r} PROVE Progress(p)'
    <3>1. Progress(p) /\ writer # p /\ writer' # p
      BY <1>2, WriterAssumption DEF JoiningInv, ProgressInv
    <3> QED BY <1>4, <3>1 DEF Progress, Joining!At
  <2> QED BY <2>1, <2>2 DEF ProgressInv
<1>8. NotYetMine'
  BY <1>2, <1>4, <1>5 DEF JoiningInv, NotYetMine, Mine
<1>9. Joining!NameOnce'
  BY <1>2 DEF JoiningInv, Joining!NameOnce, Joining!Free
<1>10. Joining!AccountIsWhole'
  BY <1>2 DEF JoiningInv, Joining!AccountIsWhole
<1>11. Joining!AnswerIsTrue'
  BY <1>2, <1>4, <1>5 DEF JoiningInv, Joining!AnswerIsTrue, Joining!Free, Joining!At
<1> QED BY <1>6, <1>7, <1>8, <1>9, <1>10, <1>11 DEF JoiningInv

LEMMA EndKeeps ==
  ASSUME JoiningInv, NEW r \in Requests, Joining!End(r)
  PROVE  JoiningInv'
<1>1. /\ UNCHANGED <<users, wallets, audits>>
      /\ writer' = writer \/ (writer = r /\ writer' = Nobody)
      /\ writer' # r
      /\ \A p \in Requests \ {r} : request'[p] = request[p]
      /\ request'[r] = Joining!Resting
  BY WriterAssumption DEF JoiningInv, RequestType, Joining!End
<1>2. request'[r].pc = "idle"
  BY <1>1 DEF Joining!Resting
<1>3. RequestType'
  BY <1>1 DEF JoiningInv, RequestType, Joining!End
<1>4. ProgressInv'
  <2>1. Progress(r)'
    BY <1>1, <1>2 DEF Progress, Joining!At
  <2> QED BY <1>1, <2>1, OthersProgress, WriterAssumption DEF JoiningInv, ProgressInv
<1>5. NotYetMine'
  BY <1>1, <1>2 DEF JoiningInv, NotYetMine, Mine
<1>6. Joining!NameOnce' /\ Joining!AccountIsWhole'
  BY <1>1 DEF JoiningInv, Joining!NameOnce, Joining!AccountIsWhole
<1>7. Joining!AnswerIsTrue'
  BY <1>1, <1>2 DEF JoiningInv, Joining!AnswerIsTrue, Joining!Free, Joining!At
<1> QED BY <1>3, <1>4, <1>5, <1>6, <1>7 DEF JoiningInv

-----------------------------------------------------------------------------
LEMMA NobodyJoins == ASSUME Joining!Init PROVE JoiningInv
<1>1. \A r \in Requests : request[r] = Joining!Resting /\ request[r].pc = "idle"
  BY DEF Joining!Init, Joining!Resting
<1>2. RequestType
  BY DEF Joining!Init, RequestType
<1>3. ProgressInv /\ NotYetMine /\ Joining!AnswerIsTrue
  BY <1>1, WriterAssumption DEF Joining!Init, ProgressInv, Progress, NotYetMine,
                                Joining!AnswerIsTrue, Joining!At
<1>4. Joining!NameOnce /\ Joining!AccountIsWhole
  BY DEF Joining!Init, Joining!NameOnce, Joining!AccountIsWhole
<1> QED BY <1>2, <1>3, <1>4 DEF JoiningInv

LEMMA JoiningKeeps == ASSUME JoiningInv, [Joining!Next]_joiningVars PROVE JoiningInv'
<1>1. CASE UNCHANGED joiningVars
  BY <1>1 DEF joiningVars, JoiningInv, RequestType, ProgressInv, Progress, NotYetMine,
              Mine, Joining!NameOnce,
              Joining!AccountIsWhole, Joining!AnswerIsTrue, Joining!Free, Joining!At
<1>2. ASSUME NEW r \in Requests, NEW name \in Names,
             Joining!register_user(r, name) \/ Joining!create_admin(r, name)
      PROVE  JoiningInv'
  BY <1>2, StartKeeps DEF Joining!register_user, Joining!create_admin, Roles
<1>3. ASSUME NEW r \in Requests, Joining!PromptRefused(r) PROVE JoiningInv'
  BY <1>3, PromptRefusedKeeps
<1>4. ASSUME NEW r \in Requests, Joining!NameTaken(r) PROVE JoiningInv'
  BY <1>4, RollBackKeeps DEF Joining!NameTaken, Joining!At, Joining!Caught, Joining!Unique
<1>5. ASSUME NEW r \in Requests, Joining!StatementFails(r) PROVE JoiningInv'
  BY <1>5, RollBackKeeps DEF Joining!StatementFails, Joining!At, Joining!Caught
<1>6. ASSUME NEW r \in Requests,
             Joining!Hashed(r) \/ Joining!Insert(r) \/ Joining!Commit(r) \/ Joining!End(r)
      PROVE  JoiningInv'
  BY <1>6, HashedKeeps, InsertKeeps, AccountCommitKeeps, EndKeeps
<1> QED BY <1>1, <1>2, <1>3, <1>4, <1>5, <1>6 DEF Joining!Next

\* What a request has inserted, who may commit it, and that names stay free: kept by
\* every statement, failure and end of any request.
THEOREM JoiningInvariance == AllSpec => []JoiningInv
<1>1. AllInit => JoiningInv
  BY NobodyJoins DEF AllInit
<1>2. ASSUME JoiningInv, [AllNext]_<<vars, joiningVars, schemaVars>> PROVE JoiningInv'
  <2>1. [Joining!Next]_joiningVars
    BY <1>2 DEF AllNext
  <2> QED BY <1>2, <2>1, JoiningKeeps
<1> QED BY <1>1, <1>2, PTL DEF AllSpec

\* However many requests found a name free, and whatever failed or was killed, a
\* name has one account, and the account its wallet and, if it is an
\* administrator's, its audit row (auth/services.py, register_user; cli.py).
THEOREM AccountsAreWhole == AllSpec => []OneWholeAccount
<1>1. JoiningInv => OneWholeAccount
  BY DEF JoiningInv, OneWholeAccount, Joining!OneWholeAccount
<1> QED BY <1>1, JoiningInvariance, PTL

\* What the form and the command answer is so.
THEOREM AnswersAreTrue == AllSpec => []AnswerIsTrue
<1>1. JoiningInv => AnswerIsTrue
  BY DEF JoiningInv, AnswerIsTrue
<1> QED BY <1>1, JoiningInvariance, PTL
-----------------------------------------------------------------------------
(* The migrations. *)

Elements(P) == {P[i] : i \in 1 .. Len(P)}

\* A second table and the rows copied to it change nothing until they replace.
Effective(s) == s.do \notin {"tmp", "copy"}

AddedBy(P, k) == UNION {P[i].add : i \in {j \in 1 .. k : Effective(P[j])}}
TakenBy(P, k) == UNION {P[i].del : i \in {j \in 1 .. k : Effective(P[j])}}

\* The three statements of a batch follow one another.
Follows(P, i, T) ==
  /\ P[i].do \in {"tmp", "copy", "replace"} => P[i].of \in T
  /\ P[i].do = "copy" => i > 1 /\ P[i - 1].do = "tmp" /\ P[i - 1].of = P[i].of
  /\ P[i].do = "replace" => i > 1 /\ P[i - 1].do = "copy" /\ P[i - 1].of = P[i].of
  /\ P[i].do \notin {"copy", "replace"} => i = 1 \/ P[i - 1].do \notin {"tmp", "copy"}

\* No name is added twice, or taken away twice.
Apart(s, t) == s.add \intersect t.add = {} /\ s.del \intersect t.del = {}

\* A revision of statements of the kinds K, which adds exactly A, takes away
\* exactly D and rebuilds T at most, each table from the copy it has just made.
Builds(P, K, A, D, T) ==
  /\ P \in Seq(Elements(P)) /\ Len(P) > 0
  /\ \A i \in 1 .. Len(P) :
       P[i].do \in K /\ P[i].add \subseteq A /\ P[i].del \subseteq D /\ Follows(P, i, T)
  /\ P[Len(P)].do \notin {"tmp", "copy"}
  /\ \A i, j \in 1 .. Len(P) : i < j /\ Effective(P[i]) => Apart(P[i], P[j])
  /\ A \subseteq AddedBy(P, Len(P)) /\ D \subseteq TakenBy(P, Len(P))

Altering == {"create", "ddl", "tmp", "copy", "replace"}

LEMMA ByWhich ==
  ASSUME NEW P, NEW k, NEW x
  PROVE  /\ x \in AddedBy(P, k) <=> \E i \in 1 .. k : Effective(P[i]) /\ x \in P[i].add
         /\ x \in TakenBy(P, k) <=> \E i \in 1 .. k : Effective(P[i]) /\ x \in P[i].del
BY DEF AddedBy, TakenBy

LEMMA BatchBuilds ==
  ASSUME NEW t, NEW add, NEW del
  PROVE  Builds(Schema!Batch(t, add, del), Altering, add, del, {t})
<1> DEFINE Part(do) == [do |-> do, of |-> t, add |-> add, del |-> del]
           P == <<Part("tmp"), Part("copy"), Part("replace")>>
<1>1. Schema!Batch(t, add, del) = P
  BY DEF Schema!Batch
<1>2. Len(P) = 3 /\ DOMAIN P = 1 .. 3 /\ P = [i \in 1 .. 3 |-> P[i]]
  OBVIOUS
<1>3. /\ P[1].do = "tmp" /\ P[2].do = "copy" /\ P[3].do = "replace"
      /\ \A i \in 1 .. 3 : P[i].of = t /\ P[i].add = add /\ P[i].del = del
  OBVIOUS
<1> HIDE DEF P
<1>4. P \in Seq(Elements(P))
  BY <1>2 DEF Elements
<1>5. \A i \in 1 .. Len(P) : i = 1 \/ i = 2 \/ i = 3
  BY <1>2
<1>6. \A i \in 1 .. Len(P) : Follows(P, i, {t}) /\ P[i].do \in Altering
  BY <1>2, <1>3, <1>5 DEF Follows, Altering
<1>7. \A i, j \in 1 .. Len(P) : i < j => ~Effective(P[i])
  BY <1>2, <1>3, <1>5 DEF Effective
<1>8. add \subseteq AddedBy(P, Len(P)) /\ del \subseteq TakenBy(P, Len(P))
  <2>1. 3 \in 1 .. Len(P) /\ Effective(P[3])
    BY <1>2, <1>3 DEF Effective
  <2> QED BY <1>2, <1>3, <2>1, ByWhich
<1>9. P[Len(P)].do \notin {"tmp", "copy"}
  BY <1>2, <1>3
<1> QED BY <1>1, <1>2, <1>3, <1>4, <1>6, <1>7, <1>8, <1>9 DEF Builds

\* Statements each of which is a table or an index.
LEMMA PlainBuilds ==
  ASSUME NEW n \in Nat \ {0}, NEW P, P = [i \in 1 .. n |-> P[i]], NEW K, NEW A, NEW D,
         \A i \in 1 .. n : P[i].do \in K /\ P[i].add \subseteq A /\ P[i].del \subseteq D,
         K \subseteq {"create", "ddl", "drop"},
         \A i, j \in 1 .. n : i < j => Apart(P[i], P[j]),
         \A x \in A : \E i \in 1 .. n : x \in P[i].add,
         \A x \in D : \E i \in 1 .. n : x \in P[i].del
  PROVE  Builds(P, K, A, D, {})
<1>1. P \in Seq({P[i] : i \in 1 .. n}) /\ Len(P) = n /\ n \in 1 .. n
  OBVIOUS
<1>2. \A i \in 1 .. n : P[i].do \notin {"tmp", "copy", "replace"}
  OBVIOUS
<1>3. \A i \in 1 .. n : Effective(P[i]) /\ Follows(P, i, {})
  <2> TAKE i \in 1 .. n
  <2>1. i = 1 \/ i - 1 \in 1 .. n
    OBVIOUS
  <2> QED BY <1>2, <2>1 DEF Effective, Follows
<1>4. A \subseteq AddedBy(P, n) /\ D \subseteq TakenBy(P, n)
  BY <1>3, ByWhich
<1> QED BY <1>1, <1>2, <1>3, <1>4 DEF Builds, Elements

LEMMA BothBuild ==
  ASSUME NEW P, NEW Q, NEW K, NEW A, NEW B, NEW D, NEW E, NEW T, NEW U,
         Builds(P, K, A, D, T), Builds(Q, K, B, E, U),
         A \intersect B = {}, D \intersect E = {}
  PROVE  Builds(P \o Q, K, A \union B, D \union E, T \union U)
<1> DEFINE R == P \o Q  S == Elements(P) \union Elements(Q)
<1>1. P \in Seq(S) /\ Q \in Seq(S) /\ Len(P) \in Nat \ {0} /\ Len(Q) \in Nat \ {0}
  BY DEF Builds
<1>2. /\ R \in Seq(S) /\ Len(R) = Len(P) + Len(Q)
      /\ \A i \in 1 .. Len(P) + Len(Q) : R[i] = IF i <= Len(P) THEN P[i] ELSE Q[i - Len(P)]
  BY <1>1, ConcatProperties
<1> HIDE DEF R, S
<1>3. R \in Seq(Elements(R))
  BY <1>2 DEF Elements
<1>4. \A i \in 1 .. Len(P) : i \in 1 .. Len(R) /\ R[i] = P[i]
  BY <1>1, <1>2
<1>5. \A k \in 1 .. Len(Q) : Len(P) + k \in 1 .. Len(R) /\ R[Len(P) + k] = Q[k]
  <2> TAKE k \in 1 .. Len(Q)
  <2>1. /\ Len(P) + k \in 1 .. Len(P) + Len(Q) /\ ~ (Len(P) + k <= Len(P))
        /\ (Len(P) + k) - Len(P) = k
    BY <1>1
  <2> QED BY <1>2, <2>1
<1>6. \A i \in 1 .. Len(R) : \/ i \in 1 .. Len(P)
                             \/ \E k \in 1 .. Len(Q) : i = Len(P) + k
  <2> TAKE i \in 1 .. Len(R)
  <2>1. CASE i <= Len(P)
    BY <1>1, <1>2, <2>1
  <2>2. CASE i > Len(P)
    <3>1. i - Len(P) \in 1 .. Len(Q) /\ i = Len(P) + (i - Len(P))
      BY <1>1, <1>2, <2>2
    <3> QED BY <3>1
  <2> QED BY <1>1, <1>2, <2>1, <2>2
<1>7. ASSUME NEW i \in 1 .. Len(P)
      PROVE  /\ R[i].do \in K /\ R[i].add \subseteq A \union B /\ R[i].del \subseteq D \union E
             /\ Follows(R, i, T \union U)
  <2>1. P[i].do \in K /\ P[i].add \subseteq A /\ P[i].del \subseteq D /\ Follows(P, i, T)
    BY DEF Builds
  <2>2. i = 1 \/ R[i - 1] = P[i - 1]
    BY <1>1, <1>4
  <2> QED BY <1>4, <2>1, <2>2 DEF Follows
<1>8. ASSUME NEW k \in 1 .. Len(Q)
      PROVE  LET i == Len(P) + k IN
             /\ R[i].do \in K /\ R[i].add \subseteq A \union B /\ R[i].del \subseteq D \union E
             /\ Follows(R, i, T \union U)
  <2> DEFINE i == Len(P) + k
  <2>1. Q[k].do \in K /\ Q[k].add \subseteq B /\ Q[k].del \subseteq E /\ Follows(Q, k, U)
    BY DEF Builds
  <2>2. CASE k = 1
    <3>1. i - 1 = Len(P) /\ i - 1 \in 1 .. Len(P) /\ R[i - 1].do \notin {"tmp", "copy"}
      BY <1>1, <1>4, <2>2 DEF Builds
    <3>2. R[i] = Q[1] /\ Q[1].do \notin {"copy", "replace"}
      BY <1>5, <2>1, <2>2 DEF Follows
    <3> QED BY <1>5, <2>1, <2>2, <3>1, <3>2 DEF Follows
  <2>3. CASE k # 1
    <3>1. k - 1 \in 1 .. Len(Q) /\ i - 1 = Len(P) + (k - 1) /\ i > 1
      BY <1>1, <2>3
    <3>2. R[i] = Q[k] /\ R[i - 1] = Q[k - 1]
      BY <1>5, <3>1
    <3> HIDE DEF i
    <3> QED BY <2>1, <2>3, <3>1, <3>2 DEF Follows, i
  <2> QED BY <2>2, <2>3
<1>9. \A i \in 1 .. Len(R) :
        /\ R[i].do \in K /\ R[i].add \subseteq A \union B /\ R[i].del \subseteq D \union E
        /\ Follows(R, i, T \union U)
  BY <1>6, <1>7, <1>8
<1>10. R[Len(R)].do \notin {"tmp", "copy"}
  <2>1. Len(Q) \in 1 .. Len(Q)
    BY <1>1
  <2> QED BY <1>2, <1>5, <2>1 DEF Builds
<1>11. ASSUME NEW i \in 1 .. Len(R), NEW j \in 1 .. Len(R), i < j, Effective(R[i])
       PROVE  Apart(R[i], R[j])
  <2>1. CASE j \in 1 .. Len(P)
    <3>1. i \in 1 .. Len(P)
      BY <1>1, <1>11, <2>1
    <3> QED BY <1>4, <1>11, <2>1, <3>1 DEF Builds
  <2>2. ASSUME i \in 1 .. Len(P), NEW k \in 1 .. Len(Q), j = Len(P) + k PROVE Apart(R[i], R[j])
    <3>1. P[i].add \subseteq A /\ P[i].del \subseteq D /\ Q[k].add \subseteq B /\ Q[k].del \subseteq E
      BY <2>2 DEF Builds
    <3> QED BY <1>4, <1>5, <2>2, <3>1 DEF Apart
  <2>3. ASSUME NEW h \in 1 .. Len(Q), i = Len(P) + h, NEW k \in 1 .. Len(Q), j = Len(P) + k
        PROVE  Apart(R[i], R[j])
    <3>1. h < k
      BY <1>1, <1>11, <2>3
    <3> QED BY <1>5, <1>11, <2>3, <3>1 DEF Builds
  <2> QED BY <1>6, <2>1, <2>2, <2>3
<1>12. \A x \in A \union B : x \in AddedBy(R, Len(R))
  <2> TAKE x \in A \union B
  <2>1. CASE x \in A
    <3>1. PICK i \in 1 .. Len(P) : Effective(P[i]) /\ x \in P[i].add
      BY <2>1, ByWhich DEF Builds
    <3> QED BY <1>4, <3>1, ByWhich
  <2>2. CASE x \in B
    <3>1. PICK k \in 1 .. Len(Q) : Effective(Q[k]) /\ x \in Q[k].add
      BY <2>2, ByWhich DEF Builds
    <3> QED BY <1>5, <3>1, ByWhich
  <2> QED BY <2>1, <2>2
<1>13. \A x \in D \union E : x \in TakenBy(R, Len(R))
  <2> TAKE x \in D \union E
  <2>1. CASE x \in D
    <3>1. PICK i \in 1 .. Len(P) : Effective(P[i]) /\ x \in P[i].del
      BY <2>1, ByWhich DEF Builds
    <3> QED BY <1>4, <3>1, ByWhich
  <2>2. CASE x \in E
    <3>1. PICK k \in 1 .. Len(Q) : Effective(Q[k]) /\ x \in Q[k].del
      BY <2>2, ByWhich DEF Builds
    <3> QED BY <1>5, <3>1, ByWhich
  <2> QED BY <2>1, <2>2
<1>14. A \union B \subseteq AddedBy(R, Len(R)) /\ D \union E \subseteq TakenBy(R, Len(R))
  BY <1>12, <1>13
<1>15. Len(R) > 0
  BY <1>1, <1>2
<1>16. Builds(R, K, A \union B, D \union E, T \union U)
  BY <1>3, <1>9, <1>10, <1>11, <1>14, <1>15 DEF Builds
<1> QED BY <1>16 DEF R

LEMMA IndexesBuild ==
  ASSUME NEW n \in Nat \ {0}, NEW f,
         \A i, j \in 1 .. n : f[i] = f[j] => i = j
  PROVE  /\ Builds([i \in 1 .. n |-> Schema!Index(f[i])], Altering, {f[i] : i \in 1 .. n}, {}, {})
         /\ Builds([i \in 1 .. n |-> Schema!DropIndex(f[i])], Altering, {},
                   {f[i] : i \in 1 .. n}, {})
<1> DEFINE P == [i \in 1 .. n |-> Schema!Index(f[i])]
           Q == [i \in 1 .. n |-> Schema!DropIndex(f[i])]
           A == {f[i] : i \in 1 .. n}
<1>1. \A i \in 1 .. n : /\ P[i].do = "ddl" /\ P[i].add = {f[i]} /\ P[i].del = {}
                        /\ Q[i].do = "ddl" /\ Q[i].del = {f[i]} /\ Q[i].add = {}
  BY DEF Schema!Index, Schema!DropIndex
<1>2. P = [i \in 1 .. n |-> P[i]] /\ Q = [i \in 1 .. n |-> Q[i]]
  OBVIOUS
<1>3. \A i, j \in 1 .. n : i < j => Apart(P[i], P[j]) /\ Apart(Q[i], Q[j])
  <2> HIDE DEF P, Q
  <2> QED BY <1>1 DEF Apart
<1>4. \A i \in 1 .. n : f[i] \in A
  OBVIOUS
<1>5. \A x \in A : \E i \in 1 .. n : x = f[i]
  OBVIOUS
<1> DEFINE Plain == {"ddl"}
<1> HIDE DEF P, Q, A
<1>6. \A B, D : /\ Builds(P, Plain, B, D, {}) => Builds(P, Altering, B, D, {})
                /\ Builds(Q, Plain, B, D, {}) => Builds(Q, Altering, B, D, {})
  BY DEF Builds, Altering
<1>7. Plain \subseteq {"create", "ddl", "drop"}
  OBVIOUS
<1>8. Builds(P, Plain, A, {}, {})
  <2>1. \A i \in 1 .. n : P[i].do \in Plain /\ P[i].add \subseteq A /\ P[i].del \subseteq {}
    BY <1>1, <1>4
  <2>2. \A x \in A : \E i \in 1 .. n : x \in P[i].add
    BY <1>1, <1>5
  <2>3. \A x \in {} : \E i \in 1 .. n : x \in P[i].del
    OBVIOUS
  <2> HIDE DEF Plain
  <2> QED BY <1>2, <1>3, <1>7, <2>1, <2>2, <2>3, PlainBuilds
<1>9. Builds(Q, Plain, {}, A, {})
  <2>1. \A i \in 1 .. n : Q[i].do \in Plain /\ Q[i].add \subseteq {} /\ Q[i].del \subseteq A
    BY <1>1, <1>4
  <2>2. \A x \in A : \E i \in 1 .. n : x \in Q[i].del
    BY <1>1, <1>5
  <2>3. \A x \in {} : \E i \in 1 .. n : x \in Q[i].add
    OBVIOUS
  <2> HIDE DEF Plain
  <2> QED BY <1>2, <1>3, <1>7, <2>1, <2>2, <2>3, PlainBuilds
<1> QED BY <1>6, <1>8, <1>9 DEF P, Q, A

\* The same for indexes that are written one by one.
LEMMA TwoIndexes ==
  ASSUME NEW a, NEW b, a # b
  PROVE  /\ Builds(<<Schema!Index(a), Schema!Index(b)>>, Altering, {a, b}, {}, {})
         /\ Builds(<<Schema!DropIndex(a), Schema!DropIndex(b)>>, Altering, {}, {a, b}, {})
<1> DEFINE f == <<a, b>>
<1>1. \A i, j \in 1 .. 2 : f[i] = f[j] => i = j
  OBVIOUS
<1>2. {f[i] : i \in 1 .. 2} = {a, b}
  <2>1. f[1] = a /\ f[2] = b
    OBVIOUS
  <2>2. \A i : i \in 1 .. 2 <=> i = 1 \/ i = 2
    OBVIOUS
  <2> HIDE DEF f
  <2> QED BY <2>1, <2>2
<1>3. /\ <<Schema!Index(a), Schema!Index(b)>> = [i \in 1 .. 2 |-> Schema!Index(f[i])]
      /\ <<Schema!DropIndex(a), Schema!DropIndex(b)>> = [i \in 1 .. 2 |-> Schema!DropIndex(f[i])]
  OBVIOUS
<1> HIDE DEF f
<1>4. 2 \in Nat \ {0}
  OBVIOUS
<1>5. Builds([i \in 1 .. 2 |-> Schema!Index(f[i])], Altering, {f[i] : i \in 1 .. 2}, {}, {})
  BY <1>1, <1>4, IndexesBuild, ZenonT(30)
<1>6. Builds([i \in 1 .. 2 |-> Schema!DropIndex(f[i])], Altering, {}, {f[i] : i \in 1 .. 2}, {})
  BY <1>1, <1>4, IndexesBuild, ZenonT(30)
<1> QED BY <1>2, <1>3, <1>5, <1>6

LEMMA ThreeIndexes ==
  ASSUME NEW a, NEW b, NEW c, a # b, a # c, b # c
  PROVE  /\ Builds(<<Schema!Index(a), Schema!Index(b), Schema!Index(c)>>,
                   Altering, {a, b, c}, {}, {})
         /\ Builds(<<Schema!DropIndex(a), Schema!DropIndex(b), Schema!DropIndex(c)>>,
                   Altering, {}, {a, b, c}, {})
<1> DEFINE f == <<a, b, c>>
<1>1. \A i, j \in 1 .. 3 : f[i] = f[j] => i = j
  OBVIOUS
<1>2. {f[i] : i \in 1 .. 3} = {a, b, c}
  <2>1. f[1] = a /\ f[2] = b /\ f[3] = c
    OBVIOUS
  <2>2. \A i : i \in 1 .. 3 <=> i = 1 \/ i = 2 \/ i = 3
    OBVIOUS
  <2> HIDE DEF f
  <2> QED BY <2>1, <2>2
<1>3. /\ <<Schema!Index(a), Schema!Index(b), Schema!Index(c)>>
           = [i \in 1 .. 3 |-> Schema!Index(f[i])]
      /\ <<Schema!DropIndex(a), Schema!DropIndex(b), Schema!DropIndex(c)>>
           = [i \in 1 .. 3 |-> Schema!DropIndex(f[i])]
  OBVIOUS
<1> HIDE DEF f
<1>4. 3 \in Nat \ {0}
  OBVIOUS
<1>5. Builds([i \in 1 .. 3 |-> Schema!Index(f[i])], Altering, {f[i] : i \in 1 .. 3}, {}, {})
  BY <1>1, <1>4, IndexesBuild, ZenonT(30)
<1>6. Builds([i \in 1 .. 3 |-> Schema!DropIndex(f[i])], Altering, {}, {f[i] : i \in 1 .. 3}, {})
  BY <1>1, <1>4, IndexesBuild, ZenonT(30)
<1> QED BY <1>2, <1>3, <1>5, <1>6

\* Which tables a revision rebuilds; the first builds them all, or drops them.
Rebuilt == <<{}, {"users"}, {"products"}, {"chat_messages"},
             {"products", "reports", "audit_logs"}, {"transfers"}>>

\* Which names a revision adds, and which it takes away.
TableNames == {"users", "audit_logs", "direct_conversations", "products", "reports",
               "transfers", "wallets", "chat_messages"}
FirstChecks == {"ck_products_price_positive", "ck_transfers_amount_positive"}

ChatNames == {"ix_chat_messages_conversation_visible_created",
              "ix_chat_messages_sender_created",
              "ix_direct_conversations_user1_created",
              "ix_direct_conversations_user2_created"}
ProductNames == {"ix_products_public_status_created", "ix_products_seller_status_updated",
                 "ix_products_price"}
ReportNames == {"ix_reports_target_status_created", "ix_reports_reporter_created"}
AuditNames == {"ix_audit_logs_created", "ix_audit_logs_actor_created",
               "ix_audit_logs_target_created"}
TransferNames == {"ix_transfers_sender_created", "ix_transfers_recipient_created"}

Adds == <<TableNames \union FirstChecks, Schema!AuthVersion,
          Schema!ProductChecks \union ProductNames,
          {"ck_chat_messages_is_hidden_boolean"} \union ChatNames,
          ((Schema!Previous \union Schema!Review) \union ReportNames)
            \union (Schema!AuditChecks \union AuditNames),
          Schema!TransferChecks \union TransferNames>>

Takes == <<{}, {}, {"ck_products_price_positive"}, {}, {}, {"ck_transfers_amount_positive"}>>

LEMMA FirstUpBuilds ==
  /\ Builds(Schema!Foundation, Altering, TableNames \union FirstChecks, {}, {})
  /\ Builds(Schema!NoFoundation, {"drop"}, {}, TableNames \union FirstChecks, {})
<1>1. /\ Len(Schema!Tables) = 8
      /\ Schema!Tables[1] = "users" /\ Schema!Tables[2] = "audit_logs"
      /\ Schema!Tables[3] = "direct_conversations" /\ Schema!Tables[4] = "products"
      /\ Schema!Tables[5] = "reports" /\ Schema!Tables[6] = "transfers"
      /\ Schema!Tables[7] = "wallets" /\ Schema!Tables[8] = "chat_messages"
  BY DEF Schema!Tables
<1> DEFINE First(t) == {t} \union Schema!FirstParts(t)
           Last == <<"chat_messages", "wallets", "transfers", "reports", "products",
                     "direct_conversations", "audit_logs", "users">>
<1>2. \A t, u \in TableNames : t # u => First(t) \intersect First(u) = {}
  <2>1. \A t : Schema!FirstParts(t) =
                 IF t = "products" THEN {"ck_products_price_positive"}
                 ELSE IF t = "transfers" THEN {"ck_transfers_amount_positive"} ELSE {}
    BY DEF Schema!FirstParts
  <2> QED BY <2>1 DEF TableNames
<1>3. \A t \in TableNames : First(t) \subseteq TableNames \union FirstChecks
  BY DEF Schema!FirstParts, FirstChecks
<1>4. \A x \in TableNames \union FirstChecks : \E t \in TableNames : x \in First(t)
  <2>1. "products" \in TableNames /\ "transfers" \in TableNames
    BY DEF TableNames
  <2>2. /\ Schema!FirstParts("products") = {"ck_products_price_positive"}
        /\ Schema!FirstParts("transfers") = {"ck_transfers_amount_positive"}
    BY DEF Schema!FirstParts
  <2> QED BY <2>1, <2>2 DEF FirstChecks
<1> HIDE DEF First
<1>5. \A i \in 1 .. 8 : i = 1 \/ i = 2 \/ i = 3 \/ i = 4 \/ i = 5 \/ i = 6 \/ i = 7 \/ i = 8
  OBVIOUS
<1>6. Builds(Schema!Foundation, Altering, TableNames \union FirstChecks, {}, {})
  <2> DEFINE P == Schema!Foundation
  <2>1. P = [i \in 1 .. 8 |-> P[i]]
    BY <1>1 DEF Schema!Foundation
  <2>2. \A i \in 1 .. 8 : P[i].do = "create" /\ P[i].add = First(Schema!Tables[i]) /\ P[i].del = {}
    BY <1>1 DEF Schema!Foundation, Schema!Create, First
  <2>3. \A i, j \in 1 .. 8 : i # j => Schema!Tables[i] # Schema!Tables[j]
    BY <1>1, <1>5
  <2>4. \A i \in 1 .. 8 : Schema!Tables[i] \in TableNames
    BY <1>1, <1>5 DEF TableNames
  <2>5. \A t \in TableNames : \E i \in 1 .. 8 : Schema!Tables[i] = t
    <3>1. \A i : i \in {1, 2, 3, 4, 5, 6, 7, 8} => i \in 1 .. 8
      OBVIOUS
    <3> QED BY <1>1, <3>1 DEF TableNames
  <2> HIDE DEF P
  <2>6. \A i, j \in 1 .. 8 : i < j => Apart(P[i], P[j])
    BY <1>2, <2>2, <2>3, <2>4 DEF Apart
  <2>7. \A x \in TableNames \union FirstChecks : \E i \in 1 .. 8 : x \in P[i].add
    BY <1>4, <2>2, <2>5
  <2>8. \A i \in 1 .. 8 : /\ P[i].do \in {"create"}
                          /\ P[i].add \subseteq TableNames \union FirstChecks
                          /\ P[i].del \subseteq {}
    BY <1>3, <2>2, <2>4
  <2>9. Builds(P, {"create"}, TableNames \union FirstChecks, {}, {})
    <3>1. 8 \in Nat \ {0} /\ {"create"} \subseteq {"create", "ddl", "drop"}
      OBVIOUS
    <3>2. \A x \in {} : \E i \in 1 .. 8 : x \in P[i].del
      OBVIOUS
    <3> QED BY <2>1, <2>6, <2>7, <2>8, <3>1, <3>2, PlainBuilds, Zenon
  <2> QED BY <2>9 DEF Builds, Altering, P
<1>7. Builds(Schema!NoFoundation, {"drop"}, {}, TableNames \union FirstChecks, {})
  <2> DEFINE P == Schema!NoFoundation
  <2>1. /\ Len(Last) = 8
        /\ Last[1] = "chat_messages" /\ Last[2] = "wallets" /\ Last[3] = "transfers"
        /\ Last[4] = "reports" /\ Last[5] = "products" /\ Last[6] = "direct_conversations"
        /\ Last[7] = "audit_logs" /\ Last[8] = "users"
    OBVIOUS
  <2>2. P = [i \in 1 .. 8 |-> Schema!DropTable(Last[i], Schema!FirstParts(Last[i]))]
    BY <2>1 DEF Schema!NoFoundation
  <2> HIDE DEF P, Last
  <2>3. \A i \in 1 .. 8 : P[i].do = "drop" /\ P[i].del = First(Last[i]) /\ P[i].add = {}
    BY <2>2 DEF Schema!DropTable, First
  <2>4. \A i, j \in 1 .. 8 : i # j => Last[i] # Last[j]
    BY <1>5, <2>1
  <2>5. \A i \in 1 .. 8 : Last[i] \in TableNames
    BY <1>5, <2>1 DEF TableNames
  <2>6. \A t \in TableNames : \E i \in 1 .. 8 : Last[i] = t
    <3>1. \A i : i \in {1, 2, 3, 4, 5, 6, 7, 8} => i \in 1 .. 8
      OBVIOUS
    <3> QED BY <2>1, <3>1 DEF TableNames
  <2>7. \A i, j \in 1 .. 8 : i < j => Apart(P[i], P[j])
    BY <1>2, <2>3, <2>4, <2>5 DEF Apart
  <2>8. \A x \in TableNames \union FirstChecks : \E i \in 1 .. 8 : x \in P[i].del
    BY <1>4, <2>3, <2>6
  <2>9. \A i \in 1 .. 8 : /\ P[i].do \in {"drop"} /\ P[i].add \subseteq {}
                          /\ P[i].del \subseteq TableNames \union FirstChecks
    BY <1>3, <2>3, <2>5
  <2>10. P = [i \in 1 .. 8 |-> P[i]]
    BY <2>2
  <2>11. 8 \in Nat \ {0} /\ {"drop"} \subseteq {"create", "ddl", "drop"}
    OBVIOUS
  <2>12. \A x \in {} : \E i \in 1 .. 8 : x \in P[i].add
    OBVIOUS
  <2>13. Builds(P, {"drop"}, {}, TableNames \union FirstChecks, {})
    BY <2>7, <2>8, <2>9, <2>10, <2>11, <2>12, PlainBuilds, Zenon
  <2> QED BY <2>13 DEF P
<1> QED BY <1>6, <1>7

LEMMA Parts ==
  /\ Adds[1] = TableNames \union FirstChecks /\ Adds[2] = Schema!AuthVersion
  /\ Adds[3] = Schema!ProductChecks \union ProductNames
  /\ Adds[4] = {"ck_chat_messages_is_hidden_boolean"} \union ChatNames
  /\ Adds[5] = ((Schema!Previous \union Schema!Review) \union ReportNames)
                 \union (Schema!AuditChecks \union AuditNames)
  /\ Adds[6] = Schema!TransferChecks \union TransferNames
  /\ Takes[1] = {} /\ Takes[2] = {} /\ Takes[3] = {"ck_products_price_positive"}
  /\ Takes[4] = {} /\ Takes[5] = {} /\ Takes[6] = {"ck_transfers_amount_positive"}
  /\ Rebuilt[1] = {} /\ Rebuilt[2] = {"users"} /\ Rebuilt[3] = {"products"}
  /\ Rebuilt[4] = {"chat_messages"} /\ Rebuilt[5] = {"products", "reports", "audit_logs"}
  /\ Rebuilt[6] = {"transfers"}
BY DEF Adds, Takes, Rebuilt

\* The indexes of two revisions, forwards and backwards.
LEMMA ChatIndexesBuild ==
  /\ Builds([i \in 1 .. 4 |-> Schema!Index(Schema!ChatIndexes[i])], Altering, ChatNames, {}, {})
  /\ Builds([i \in 1 .. 4 |-> Schema!DropIndex(Schema!Reverse(Schema!ChatIndexes)[i])],
            Altering, {}, ChatNames, {})
<1> DEFINE f == Schema!ChatIndexes  g == Schema!Reverse(Schema!ChatIndexes)
<1>1. /\ Len(f) = 4
      /\ f[1] = "ix_chat_messages_conversation_visible_created"
      /\ f[2] = "ix_chat_messages_sender_created"
      /\ f[3] = "ix_direct_conversations_user1_created"
      /\ f[4] = "ix_direct_conversations_user2_created"
  BY DEF Schema!ChatIndexes
<1>2. \A i \in 1 .. 4 : i = 1 \/ i = 2 \/ i = 3 \/ i = 4
  OBVIOUS
<1>3. \A i, j \in 1 .. 4 : f[i] = f[j] => i = j
  BY <1>1, <1>2
<1>4. \A i \in 1 .. 4 : g[i] = f[5 - i] /\ 5 - i \in 1 .. 4 /\ 5 - (5 - i) = i
  BY <1>1 DEF Schema!Reverse
<1> HIDE DEF f, g
<1>5. \A i, j \in 1 .. 4 : g[i] = g[j] => i = j
  BY <1>3, <1>4
<1>6. {f[i] : i \in 1 .. 4} = ChatNames
  <2>1. 1 \in 1 .. 4 /\ 2 \in 1 .. 4 /\ 3 \in 1 .. 4 /\ 4 \in 1 .. 4
    OBVIOUS
  <2> QED BY <1>1, <1>2, <2>1 DEF ChatNames
<1>7. {g[i] : i \in 1 .. 4} = {f[i] : i \in 1 .. 4}
  BY <1>4
<1>8. 4 \in Nat \ {0}
  OBVIOUS
<1>9. \A h : (\A i, j \in 1 .. 4 : h[i] = h[j] => i = j) =>
        /\ Builds([i \in 1 .. 4 |-> Schema!Index(h[i])], Altering, {h[i] : i \in 1 .. 4}, {}, {})
        /\ Builds([i \in 1 .. 4 |-> Schema!DropIndex(h[i])], Altering, {}, {h[i] : i \in 1 .. 4}, {})
  BY <1>8, IndexesBuild, Zenon
<1>10. {g[i] : i \in 1 .. 4} = ChatNames
  BY <1>6, <1>7
<1>11. Builds([i \in 1 .. 4 |-> Schema!Index(f[i])], Altering, ChatNames, {}, {})
  BY <1>3, <1>6, <1>9
<1>12. Builds([i \in 1 .. 4 |-> Schema!DropIndex(g[i])], Altering, {}, ChatNames, {})
  BY <1>5, <1>9, <1>10
<1> QED BY <1>11, <1>12 DEF f, g

LEMMA TransferIndexesBuild ==
  /\ Builds([i \in 1 .. 2 |-> Schema!Index(Schema!TransferIndexes[i])], Altering, TransferNames, {}, {})
  /\ Builds([i \in 1 .. 2 |-> Schema!DropIndex(Schema!Reverse(Schema!TransferIndexes)[i])],
            Altering, {}, TransferNames, {})
<1> DEFINE f == Schema!TransferIndexes  g == Schema!Reverse(Schema!TransferIndexes)
<1>1. /\ Len(f) = 2 /\ f[1] = "ix_transfers_sender_created"
      /\ f[2] = "ix_transfers_recipient_created"
  BY DEF Schema!TransferIndexes
<1>2. \A i : i \in 1 .. 2 <=> i = 1 \/ i = 2
  OBVIOUS
<1>3. \A i \in 1 .. 2 : g[i] = f[3 - i] /\ 3 - i \in 1 .. 2 /\ 3 - (3 - i) = i
  BY <1>1 DEF Schema!Reverse
<1> HIDE DEF f, g
<1>4. \A i, j \in 1 .. 2 : (f[i] = f[j] => i = j) /\ (g[i] = g[j] => i = j)
  BY <1>1, <1>2, <1>3
<1>5. {f[i] : i \in 1 .. 2} = TransferNames
  BY <1>1, <1>2 DEF TransferNames
<1>6. {g[i] : i \in 1 .. 2} = {f[i] : i \in 1 .. 2}
  BY <1>3
<1>7. 2 \in Nat \ {0}
  OBVIOUS
<1>8. \A h : (\A i, j \in 1 .. 2 : h[i] = h[j] => i = j) =>
        /\ Builds([i \in 1 .. 2 |-> Schema!Index(h[i])], Altering, {h[i] : i \in 1 .. 2}, {}, {})
        /\ Builds([i \in 1 .. 2 |-> Schema!DropIndex(h[i])], Altering, {}, {h[i] : i \in 1 .. 2}, {})
  BY <1>7, IndexesBuild, Zenon
<1>9. {g[i] : i \in 1 .. 2} = TransferNames
  BY <1>5, <1>6
<1>10. Builds([i \in 1 .. 2 |-> Schema!Index(f[i])], Altering, TransferNames, {}, {})
  BY <1>4, <1>5, <1>8
<1>11. Builds([i \in 1 .. 2 |-> Schema!DropIndex(g[i])], Altering, {}, TransferNames, {})
  BY <1>4, <1>8, <1>9
<1> QED BY <1>10, <1>11 DEF f, g

LEMMA ModerationNames ==
  LET A == Schema!Previous  B == Schema!Review  C == ReportNames
      D == Schema!AuditChecks  E == AuditNames IN
  /\ A \intersect B = {} /\ A \intersect C = {} /\ A \intersect D = {} /\ A \intersect E = {}
  /\ B \intersect C = {} /\ B \intersect D = {} /\ B \intersect E = {}
  /\ C \intersect D = {} /\ C \intersect E = {} /\ D \intersect E = {}
BY DEF Schema!Previous, Schema!Review, ReportNames, Schema!AuditChecks, AuditNames

LEMMA UpBuilds ==
  \A n \in 1 .. 6 : Builds(Schema!Upgrades[n], Altering, Adds[n], Takes[n], Rebuilt[n])
<1>1. Builds(Schema!AddAuthVersion, Altering, Schema!AuthVersion, {}, {"users"})
  BY BatchBuilds DEF Schema!AddAuthVersion
<1>2. Builds(Schema!AddProductConstraints, Altering, Schema!ProductChecks \union ProductNames,
             {"ck_products_price_positive"}, {"products"})
  <2> DEFINE A == Schema!Batch("products", Schema!ProductChecks, {"ck_products_price_positive"})
             B == <<Schema!Index("ix_products_public_status_created"),
                    Schema!Index("ix_products_seller_status_updated"),
                    Schema!Index("ix_products_price")>>
  <2>1. Builds(A, Altering, Schema!ProductChecks, {"ck_products_price_positive"}, {"products"})
    BY BatchBuilds
  <2>2. Builds(B, Altering, ProductNames, {}, {})
    BY ThreeIndexes DEF ProductNames
  <2>3. Schema!ProductChecks \intersect ProductNames = {}
    BY DEF Schema!ProductChecks, ProductNames
  <2>4. Schema!AddProductConstraints = A \o B
    BY DEF Schema!AddProductConstraints
  <2> HIDE DEF A, B
  <2>5. Builds(A \o B, Altering, Schema!ProductChecks \union ProductNames,
               {"ck_products_price_positive"} \union {}, {"products"} \union {})
    BY <2>1, <2>2, <2>3, BothBuild
  <2> QED BY <2>4, <2>5
<1>3. Builds(Schema!AddChatConstraints, Altering,
             {"ck_chat_messages_is_hidden_boolean"} \union ChatNames, {}, {"chat_messages"})
  <2> DEFINE A == Schema!Batch("chat_messages", {"ck_chat_messages_is_hidden_boolean"}, {})
             B == [i \in 1 .. 4 |-> Schema!Index(Schema!ChatIndexes[i])]
  <2>1. Builds(A, Altering, {"ck_chat_messages_is_hidden_boolean"}, {}, {"chat_messages"})
    BY BatchBuilds
  <2>2. Builds(B, Altering, ChatNames, {}, {})
    BY ChatIndexesBuild
  <2>3. {"ck_chat_messages_is_hidden_boolean"} \intersect ChatNames = {}
    BY DEF ChatNames
  <2>4. Schema!AddChatConstraints = A \o B
    BY DEF Schema!AddChatConstraints, Schema!ChatIndexes
  <2> HIDE DEF A, B
  <2>5. Builds(A \o B, Altering, {"ck_chat_messages_is_hidden_boolean"} \union ChatNames,
               {} \union {}, {"chat_messages"} \union {})
    BY <2>1, <2>2, <2>3, BothBuild
  <2> QED BY <2>4, <2>5
<1>4. Builds(Schema!AddModeration, Altering, Adds[5], {}, {"products", "reports", "audit_logs"})
  <2> DEFINE A == Schema!Batch("products", Schema!Previous, {})
             B == Schema!Batch("reports", Schema!Review, {})
             C == <<Schema!Index("ix_reports_target_status_created"),
                    Schema!Index("ix_reports_reporter_created")>>
             D == Schema!Batch("audit_logs", Schema!AuditChecks, {})
             E == <<Schema!Index("ix_audit_logs_created"),
                    Schema!Index("ix_audit_logs_actor_created"),
                    Schema!Index("ix_audit_logs_target_created")>>
  <2>1. Schema!AddModeration = (((A \o B) \o C) \o D) \o E
    BY DEF Schema!AddModeration
  <2>2. /\ Builds(A, Altering, Schema!Previous, {}, {"products"})
        /\ Builds(B, Altering, Schema!Review, {}, {"reports"})
        /\ Builds(D, Altering, Schema!AuditChecks, {}, {"audit_logs"})
    BY BatchBuilds
  <2>3. Builds(C, Altering, ReportNames, {}, {}) /\ Builds(E, Altering, AuditNames, {}, {})
    BY TwoIndexes, ThreeIndexes DEF ReportNames, AuditNames
  <2> HIDE DEF A, B, C, D, E
  <2>4. Builds(A \o B, Altering, Schema!Previous \union Schema!Review, {} \union {},
               {"products"} \union {"reports"})
    BY <2>2, ModerationNames, BothBuild
  <2>5. Builds((A \o B) \o C, Altering, (Schema!Previous \union Schema!Review) \union ReportNames,
               ({} \union {}) \union {}, ({"products"} \union {"reports"}) \union {})
    BY <2>3, <2>4, ModerationNames, BothBuild
  <2>6. Builds(((A \o B) \o C) \o D, Altering,
               ((Schema!Previous \union Schema!Review) \union ReportNames) \union Schema!AuditChecks,
               (({} \union {}) \union {}) \union {},
               (({"products"} \union {"reports"}) \union {}) \union {"audit_logs"})
    BY <2>2, <2>5, ModerationNames, BothBuild
  <2>7. Builds((((A \o B) \o C) \o D) \o E, Altering,
               (((Schema!Previous \union Schema!Review) \union ReportNames)
                  \union Schema!AuditChecks) \union AuditNames,
               ((({} \union {}) \union {}) \union {}) \union {},
               ((({"products"} \union {"reports"}) \union {}) \union {"audit_logs"}) \union {})
    BY <2>3, <2>6, ModerationNames, BothBuild
  <2>8. /\ ((({"products"} \union {"reports"}) \union {}) \union {"audit_logs"}) \union {}
             = {"products", "reports", "audit_logs"}
        /\ ((({} \union {}) \union {}) \union {}) \union {} = {}
        /\ (((Schema!Previous \union Schema!Review) \union ReportNames)
              \union Schema!AuditChecks) \union AuditNames = Adds[5]
    BY DEF Adds
  <2> QED BY <2>1, <2>7, <2>8
<1>5. Builds(Schema!AddTransferConstraints, Altering, Schema!TransferChecks \union TransferNames,
             {"ck_transfers_amount_positive"}, {"transfers"})
  <2> DEFINE A == Schema!Batch("transfers", Schema!TransferChecks, {"ck_transfers_amount_positive"})
             B == [i \in 1 .. 2 |-> Schema!Index(Schema!TransferIndexes[i])]
  <2>1. Builds(A, Altering, Schema!TransferChecks, {"ck_transfers_amount_positive"}, {"transfers"})
    BY BatchBuilds
  <2>2. Builds(B, Altering, TransferNames, {}, {})
    BY TransferIndexesBuild
  <2>3. Schema!TransferChecks \intersect TransferNames = {}
    BY DEF Schema!TransferChecks, TransferNames
  <2>4. Schema!AddTransferConstraints = A \o B
    BY DEF Schema!AddTransferConstraints
  <2> HIDE DEF A, B
  <2>5. Builds(A \o B, Altering, Schema!TransferChecks \union TransferNames,
               {"ck_transfers_amount_positive"} \union {}, {"transfers"} \union {})
    BY <2>1, <2>2, <2>3, BothBuild
  <2> QED BY <2>4, <2>5
<1>6. /\ Schema!Upgrades[1] = Schema!Foundation /\ Schema!Upgrades[2] = Schema!AddAuthVersion
      /\ Schema!Upgrades[3] = Schema!AddProductConstraints
      /\ Schema!Upgrades[4] = Schema!AddChatConstraints
      /\ Schema!Upgrades[5] = Schema!AddModeration
      /\ Schema!Upgrades[6] = Schema!AddTransferConstraints
  BY DEF Schema!Upgrades
<1> SUFFICES ASSUME NEW n \in 1 .. 6
             PROVE  Builds(Schema!Upgrades[n], Altering, Adds[n], Takes[n], Rebuilt[n])
  OBVIOUS
<1>7. CASE n = 1
  BY <1>6, <1>7, FirstUpBuilds, Parts
<1>8. CASE n = 2
  BY <1>1, <1>6, <1>8, Parts
<1>9. CASE n = 3
  BY <1>2, <1>6, <1>9, Parts
<1>10. CASE n = 4
  BY <1>3, <1>6, <1>10, Parts
<1>11. CASE n = 5
  BY <1>4, <1>6, <1>11, Parts
<1>12. CASE n = 6
  BY <1>5, <1>6, <1>12, Parts
<1> QED BY <1>7, <1>8, <1>9, <1>10, <1>11, <1>12

LEMMA DownBuilds ==
  \A n \in 2 .. 6 : Builds(Schema!Downgrades[n], Altering, Takes[n], Adds[n], Rebuilt[n])
<1>1. Builds(Schema!RemoveAuthVersion, Altering, {}, Schema!AuthVersion, {"users"})
  BY BatchBuilds DEF Schema!RemoveAuthVersion
<1>2. Builds(Schema!RemoveProductConstraints, Altering, {"ck_products_price_positive"},
             Schema!ProductChecks \union ProductNames, {"products"})
  <2> DEFINE A == <<Schema!DropIndex("ix_products_price"),
                    Schema!DropIndex("ix_products_seller_status_updated"),
                    Schema!DropIndex("ix_products_public_status_created")>>
             B == Schema!Batch("products", {"ck_products_price_positive"}, Schema!ProductChecks)
  <2>1. Builds(B, Altering, {"ck_products_price_positive"}, Schema!ProductChecks, {"products"})
    BY BatchBuilds
  <2>2. Builds(A, Altering, {}, ProductNames, {})
    <3>1. ProductNames = {"ix_products_price", "ix_products_seller_status_updated",
                          "ix_products_public_status_created"}
      BY DEF ProductNames
    <3> QED BY <3>1, ThreeIndexes
  <2>3. ProductNames \intersect Schema!ProductChecks = {}
    BY DEF Schema!ProductChecks, ProductNames
  <2>4. Schema!RemoveProductConstraints = A \o B
    BY DEF Schema!RemoveProductConstraints
  <2> HIDE DEF A, B
  <2>5. Builds(A \o B, Altering, {} \union {"ck_products_price_positive"},
               ProductNames \union Schema!ProductChecks, {} \union {"products"})
    BY <2>1, <2>2, <2>3, BothBuild
  <2>6. ProductNames \union Schema!ProductChecks = Schema!ProductChecks \union ProductNames
    OBVIOUS
  <2> QED BY <2>4, <2>5, <2>6
<1>3. Builds(Schema!RemoveChatConstraints, Altering, {},
             {"ck_chat_messages_is_hidden_boolean"} \union ChatNames, {"chat_messages"})
  <2> DEFINE A == [i \in 1 .. 4 |-> Schema!DropIndex(Schema!Reverse(Schema!ChatIndexes)[i])]
             B == Schema!Batch("chat_messages", {}, {"ck_chat_messages_is_hidden_boolean"})
  <2>1. Builds(B, Altering, {}, {"ck_chat_messages_is_hidden_boolean"}, {"chat_messages"})
    BY BatchBuilds
  <2>2. Builds(A, Altering, {}, ChatNames, {})
    BY ChatIndexesBuild
  <2>3. ChatNames \intersect {"ck_chat_messages_is_hidden_boolean"} = {}
    BY DEF ChatNames
  <2>4. Schema!RemoveChatConstraints = A \o B
    <3>1. Len(Schema!ChatIndexes) = 4
      BY DEF Schema!ChatIndexes
    <3> QED BY <3>1 DEF Schema!RemoveChatConstraints
  <2> HIDE DEF A, B
  <2>5. Builds(A \o B, Altering, {} \union {},
               ChatNames \union {"ck_chat_messages_is_hidden_boolean"},
               {} \union {"chat_messages"})
    BY <2>1, <2>2, <2>3, BothBuild
  <2>6. ChatNames \union {"ck_chat_messages_is_hidden_boolean"}
          = {"ck_chat_messages_is_hidden_boolean"} \union ChatNames
    OBVIOUS
  <2> QED BY <2>4, <2>5, <2>6
<1>4. Builds(Schema!RemoveModeration, Altering, {}, Adds[5], {"products", "reports", "audit_logs"})
  <2> DEFINE A == <<Schema!DropIndex("ix_audit_logs_target_created"),
                    Schema!DropIndex("ix_audit_logs_actor_created"),
                    Schema!DropIndex("ix_audit_logs_created")>>
             B == Schema!Batch("audit_logs", {}, Schema!AuditChecks)
             C == <<Schema!DropIndex("ix_reports_reporter_created"),
                    Schema!DropIndex("ix_reports_target_status_created")>>
             D == Schema!Batch("reports", {}, Schema!Review)
             E == Schema!Batch("products", {}, Schema!Previous)
  <2>1. Schema!RemoveModeration = (((A \o B) \o C) \o D) \o E
    BY DEF Schema!RemoveModeration
  <2>2. /\ Builds(B, Altering, {}, Schema!AuditChecks, {"audit_logs"})
        /\ Builds(D, Altering, {}, Schema!Review, {"reports"})
        /\ Builds(E, Altering, {}, Schema!Previous, {"products"})
    BY BatchBuilds
  <2>3. Builds(A, Altering, {}, AuditNames, {}) /\ Builds(C, Altering, {}, ReportNames, {})
    <3>1. /\ AuditNames = {"ix_audit_logs_target_created", "ix_audit_logs_actor_created",
                           "ix_audit_logs_created"}
          /\ ReportNames = {"ix_reports_reporter_created", "ix_reports_target_status_created"}
      BY DEF AuditNames, ReportNames
    <3> QED BY <3>1, TwoIndexes, ThreeIndexes
  <2> HIDE DEF A, B, C, D, E
  <2>4. Builds(A \o B, Altering, {} \union {}, AuditNames \union Schema!AuditChecks,
               {} \union {"audit_logs"})
    BY <2>2, <2>3, ModerationNames, BothBuild
  <2>5. Builds((A \o B) \o C, Altering, ({} \union {}) \union {},
               (AuditNames \union Schema!AuditChecks) \union ReportNames,
               ({} \union {"audit_logs"}) \union {})
    BY <2>3, <2>4, ModerationNames, BothBuild
  <2>6. Builds(((A \o B) \o C) \o D, Altering, (({} \union {}) \union {}) \union {},
               ((AuditNames \union Schema!AuditChecks) \union ReportNames) \union Schema!Review,
               (({} \union {"audit_logs"}) \union {}) \union {"reports"})
    BY <2>2, <2>5, ModerationNames, BothBuild
  <2>7. Builds((((A \o B) \o C) \o D) \o E, Altering, ((({} \union {}) \union {}) \union {}) \union {},
               (((AuditNames \union Schema!AuditChecks) \union ReportNames)
                  \union Schema!Review) \union Schema!Previous,
               ((({} \union {"audit_logs"}) \union {}) \union {"reports"}) \union {"products"})
    BY <2>2, <2>6, ModerationNames, BothBuild
  <2>8. /\ ((({} \union {"audit_logs"}) \union {}) \union {"reports"}) \union {"products"}
             = {"products", "reports", "audit_logs"}
        /\ ((({} \union {}) \union {}) \union {}) \union {} = {}
        /\ (((AuditNames \union Schema!AuditChecks) \union ReportNames)
              \union Schema!Review) \union Schema!Previous = Adds[5]
    BY DEF Adds
  <2> QED BY <2>1, <2>7, <2>8
<1>5. Builds(Schema!RemoveTransferConstraints, Altering, {"ck_transfers_amount_positive"},
             Schema!TransferChecks \union TransferNames, {"transfers"})
  <2> DEFINE A == [i \in 1 .. 2 |-> Schema!DropIndex(Schema!Reverse(Schema!TransferIndexes)[i])]
             B == Schema!Batch("transfers", {"ck_transfers_amount_positive"}, Schema!TransferChecks)
  <2>1. Builds(B, Altering, {"ck_transfers_amount_positive"}, Schema!TransferChecks, {"transfers"})
    BY BatchBuilds
  <2>2. Builds(A, Altering, {}, TransferNames, {})
    BY TransferIndexesBuild
  <2>3. TransferNames \intersect Schema!TransferChecks = {}
    BY DEF Schema!TransferChecks, TransferNames
  <2>4. Schema!RemoveTransferConstraints = A \o B
    BY DEF Schema!RemoveTransferConstraints
  <2> HIDE DEF A, B
  <2>5. Builds(A \o B, Altering, {} \union {"ck_transfers_amount_positive"},
               TransferNames \union Schema!TransferChecks, {} \union {"transfers"})
    BY <2>1, <2>2, <2>3, BothBuild
  <2>6. TransferNames \union Schema!TransferChecks = Schema!TransferChecks \union TransferNames
    OBVIOUS
  <2> QED BY <2>4, <2>5, <2>6
<1>6. /\ Schema!Downgrades[2] = Schema!RemoveAuthVersion
      /\ Schema!Downgrades[3] = Schema!RemoveProductConstraints
      /\ Schema!Downgrades[4] = Schema!RemoveChatConstraints
      /\ Schema!Downgrades[5] = Schema!RemoveModeration
      /\ Schema!Downgrades[6] = Schema!RemoveTransferConstraints
  BY DEF Schema!Downgrades
<1> SUFFICES ASSUME NEW n \in 2 .. 6
             PROVE  Builds(Schema!Downgrades[n], Altering, Takes[n], Adds[n], Rebuilt[n])
  OBVIOUS
<1>7. CASE n = 2
  BY <1>1, <1>6, <1>7, Parts
<1>8. CASE n = 3
  BY <1>2, <1>6, <1>8, Parts
<1>9. CASE n = 4
  BY <1>3, <1>6, <1>9, Parts
<1>10. CASE n = 5
  BY <1>4, <1>6, <1>10, Parts
<1>11. CASE n = 6
  BY <1>5, <1>6, <1>11, Parts
<1> QED BY <1>7, <1>8, <1>9, <1>10, <1>11

\* What the schema is after so many revisions.
LEMMA GivenAndTaken ==
  \A n \in 1 .. 6 : Schema!Given(n) = Adds[n] /\ Schema!Taken(n) = Takes[n]
<1> SUFFICES ASSUME NEW n \in 1 .. 6
             PROVE  Schema!Given(n) = Adds[n] /\ Schema!Taken(n) = Takes[n]
  OBVIOUS
<1> DEFINE P == Schema!Upgrades[n]
<1>1. Builds(P, Altering, Adds[n], Takes[n], Rebuilt[n])
  BY UpBuilds
<1>2. /\ Schema!Given(n) = UNION {s.add : s \in Schema!ToSet(P)}
      /\ Schema!Taken(n) = UNION {s.del : s \in Schema!ToSet(P)}
  BY DEF Schema!Given, Schema!Taken
<1> HIDE DEF P
<1>3. \A s : s \in Schema!ToSet(P) <=> \E i \in 1 .. Len(P) : s = P[i]
  BY <1>1 DEF Builds, Schema!ToSet
<1>4. \A i \in 1 .. Len(P) : P[i].add \subseteq Adds[n] /\ P[i].del \subseteq Takes[n]
  BY <1>1 DEF Builds
<1>5. /\ \A x \in Adds[n] : \E i \in 1 .. Len(P) : x \in P[i].add
      /\ \A x \in Takes[n] : \E i \in 1 .. Len(P) : x \in P[i].del
  BY <1>1, ByWhich DEF Builds
<1>6. \A x : x \in Schema!Given(n) <=> x \in Adds[n]
  BY <1>2, <1>3, <1>4, <1>5
<1>7. \A x : x \in Schema!Taken(n) <=> x \in Takes[n]
  BY <1>2, <1>3, <1>4, <1>5
<1> QED BY <1>6, <1>7

LEMMA NamesAreApart ==
  \A m, n \in 1 .. 6 : m # n => Adds[m] \intersect Adds[n] = {}
<1>1. /\ Adds[1] \intersect Adds[2] = {} /\ Adds[1] \intersect Adds[3] = {}
      /\ Adds[1] \intersect Adds[4] = {}
  BY Parts DEF TableNames, FirstChecks, Schema!AuthVersion, Schema!ProductChecks, ProductNames,
     ChatNames
<1>2. Adds[1] \intersect Adds[5] = {} /\ Adds[1] \intersect Adds[6] = {}
  BY Parts DEF TableNames, FirstChecks, Schema!Previous, Schema!Review, ReportNames,
     Schema!AuditChecks, AuditNames, Schema!TransferChecks, TransferNames
<1>3. /\ Adds[2] \intersect Adds[3] = {} /\ Adds[2] \intersect Adds[4] = {}
      /\ Adds[2] \intersect Adds[5] = {} /\ Adds[2] \intersect Adds[6] = {}
  BY Parts DEF Schema!AuthVersion, Schema!ProductChecks, ProductNames, ChatNames,
     Schema!Previous, Schema!Review, ReportNames, Schema!AuditChecks, AuditNames,
     Schema!TransferChecks, TransferNames
<1>4. /\ Adds[3] \intersect Adds[4] = {} /\ Adds[3] \intersect Adds[5] = {}
      /\ Adds[3] \intersect Adds[6] = {}
  BY Parts DEF Schema!ProductChecks, ProductNames, ChatNames,
     Schema!Previous, Schema!Review, ReportNames, Schema!AuditChecks, AuditNames,
     Schema!TransferChecks, TransferNames
<1>5. /\ Adds[4] \intersect Adds[5] = {} /\ Adds[4] \intersect Adds[6] = {}
      /\ Adds[5] \intersect Adds[6] = {}
  BY Parts DEF ChatNames, Schema!Previous, Schema!Review, ReportNames, Schema!AuditChecks,
     AuditNames, Schema!TransferChecks, TransferNames
<1> HIDE DEF Adds
<1>6. \A m \in 1 .. 6 : m = 1 \/ m = 2 \/ m = 3 \/ m = 4 \/ m = 5 \/ m = 6
  OBVIOUS
<1> SUFFICES ASSUME NEW m \in 1 .. 6, NEW n \in 1 .. 6, m < n
             PROVE  Adds[m] \intersect Adds[n] = {}
  OBVIOUS
<1> QED BY <1>1, <1>2, <1>3, <1>4, <1>5, <1>6

LEMMA InSchema ==
  ASSUME NEW n \in 0 .. 6, NEW x
  PROVE  x \in Schema!SchemaAt(n) <=>
           \E m \in 1 .. n : x \in Adds[m] /\ \A k \in m + 1 .. n : x \notin Takes[k]
<1>1. \A m \in 1 .. n : m \in 1 .. 6 /\ \A k \in m + 1 .. n : k \in 1 .. 6
  OBVIOUS
<1>2. \A m \in 1 .. n : /\ Schema!Given(m) = Adds[m]
                        /\ \A k \in m + 1 .. n : Schema!Taken(k) = Takes[k]
  BY <1>1, GivenAndTaken
<1>3. x \in Schema!SchemaAt(n) <=>
        \E m \in 1 .. n : x \in Schema!Given(m) \ UNION {Schema!Taken(k) : k \in m + 1 .. n}
  BY DEF Schema!SchemaAt
<1>4. \A m \in 1 .. n : x \in Schema!Given(m) \ UNION {Schema!Taken(k) : k \in m + 1 .. n} <=>
        x \in Schema!Given(m) /\ \A k \in m + 1 .. n : x \notin Schema!Taken(k)
  OBVIOUS
<1> QED BY <1>2, <1>3, <1>4

\* The upgrade to n finds nothing of what it adds and all of what it takes away,
\* the downgrade from n the other way round, and both the tables they rebuild.
LEMMA SchemaSteps ==
  ASSUME NEW n \in 1 .. 6
  PROVE  LET old == Schema!SchemaAt(n - 1)  new == Schema!SchemaAt(n) IN
         /\ Adds[n] \intersect old = {} /\ Takes[n] \subseteq old
         /\ Takes[n] \intersect new = {} /\ Adds[n] \subseteq new
         /\ Adds[n] \intersect Takes[n] = {}
         /\ new = (old \ Takes[n]) \union Adds[n] /\ old = (new \ Adds[n]) \union Takes[n]
         /\ \A t \in Rebuilt[n] : t \in old /\ t \in new /\ t \notin Adds[n] /\ t \notin Takes[n]
<1> DEFINE old == Schema!SchemaAt(n - 1)  new == Schema!SchemaAt(n)
<1>1. n - 1 \in 0 .. 6 /\ n \in 0 .. 6
  OBVIOUS
<1>2. \A k \in 1 .. 6 : Takes[k] \subseteq FirstChecks /\ Takes[k] \intersect TableNames = {}
  <2>1. \A k \in 1 .. 6 : k = 1 \/ k = 2 \/ k = 3 \/ k = 4 \/ k = 5 \/ k = 6
    OBVIOUS
  <2> QED BY <2>1, Parts DEF FirstChecks, TableNames
<1>3. \A k \in 1 .. 6, h \in 1 .. 6 : h # k => Takes[h] \intersect Takes[k] = {}
  <2>1. \A k \in 1 .. 6 : k = 1 \/ k = 2 \/ k = 3 \/ k = 4 \/ k = 5 \/ k = 6
    OBVIOUS
  <2> QED BY <2>1, Parts
<1>4. Takes[1] = {} /\ FirstChecks \subseteq Adds[1] /\ TableNames \subseteq Adds[1]
  BY Parts
<1>5. \A k \in 1 .. 6 : k # 1 => Adds[k] \intersect FirstChecks = {}
                                 /\ Adds[k] \intersect TableNames = {}
  BY <1>4, NamesAreApart
<1>6. Adds[n] \intersect Takes[n] = {}
  BY <1>2, <1>4, <1>5
<1>7. Adds[n] \intersect old = {}
  <2> SUFFICES ASSUME NEW x \in old, x \in Adds[n] PROVE FALSE
    OBVIOUS
  <2>1. PICK m \in 1 .. n - 1 : x \in Adds[m]
    BY <1>1, InSchema
  <2> QED BY <2>1, NamesAreApart
<1>8. Adds[n] \subseteq new
  <2> SUFFICES ASSUME NEW x \in Adds[n] PROVE x \in new
    OBVIOUS
  <2>1. n \in 1 .. n /\ \A k \in n + 1 .. n : FALSE
    OBVIOUS
  <2> QED BY <1>1, <2>1, InSchema
<1>9. Takes[n] \subseteq old
  <2> SUFFICES ASSUME NEW x \in Takes[n] PROVE x \in old
    OBVIOUS
  <2>1. n # 1 /\ x \in Adds[1]
    BY <1>2, <1>4
  <2>2. 1 \in 1 .. n - 1 /\ \A k \in 1 + 1 .. n - 1 : k \in 1 .. 6 /\ k # n
    BY <2>1
  <2>3. \A k \in 1 + 1 .. n - 1 : x \notin Takes[k]
    BY <1>3, <2>2
  <2> QED BY <1>1, <2>1, <2>2, <2>3, InSchema
<1>10. \A x : x \in new <=> (x \in old /\ x \notin Takes[n]) \/ x \in Adds[n]
  <2> TAKE x
  <2>1. ASSUME x \in new, x \notin Adds[n] PROVE x \in old /\ x \notin Takes[n]
    <3>1. PICK m \in 1 .. n : x \in Adds[m] /\ \A k \in m + 1 .. n : x \notin Takes[k]
      BY <1>1, <2>1, InSchema
    <3>2. m # n
      BY <2>1, <3>1
    <3>3. m \in 1 .. n - 1 /\ n \in m + 1 .. n /\ \A k \in m + 1 .. n - 1 : k \in m + 1 .. n
      BY <3>2
    <3> QED BY <1>1, <3>1, <3>3, InSchema
  <2>2. ASSUME x \in old, x \notin Takes[n] PROVE x \in new
    <3>1. PICK m \in 1 .. n - 1 : x \in Adds[m] /\ \A k \in m + 1 .. n - 1 : x \notin Takes[k]
      BY <1>1, <2>2, InSchema
    <3>2. m \in 1 .. n /\ \A k \in m + 1 .. n : k \in m + 1 .. n - 1 \/ k = n
      OBVIOUS
    <3> QED BY <1>1, <2>2, <3>1, <3>2, InSchema
  <2> QED BY <1>8, <2>1, <2>2
<1>11. ASSUME NEW t \in Rebuilt[n]
       PROVE  t \in old /\ t \in new /\ t \notin Adds[n] /\ t \notin Takes[n]
  <2>1. n # 1 /\ t \in TableNames
    <3>1. n = 1 \/ n = 2 \/ n = 3 \/ n = 4 \/ n = 5 \/ n = 6
      OBVIOUS
    <3> QED BY <3>1, Parts DEF TableNames
  <2>2. t \in Adds[1] /\ \A k \in 1 .. 6 : t \notin Takes[k]
    BY <1>2, <1>4, <2>1
  <2>3. 1 \in 1 .. n - 1 /\ \A k \in 1 + 1 .. n - 1 : k \in 1 .. 6
    BY <2>1
  <2>4. t \in old
    BY <1>1, <2>2, <2>3, InSchema
  <2> QED BY <1>5, <1>10, <2>1, <2>2, <2>4
<1> HIDE DEF old, new
<1>12. new = (old \ Takes[n]) \union Adds[n]
  BY <1>10
<1>13. old = (new \ Adds[n]) \union Takes[n]
  BY <1>7, <1>9, <1>10
<1>14. Takes[n] \intersect new = {}
  BY <1>6, <1>10
<1> QED BY <1>6, <1>7, <1>8, <1>9, <1>11, <1>12, <1>13, <1>14 DEF old, new

LEMMA FirstSchema ==
  /\ Schema!SchemaAt(0) = {}
  /\ "auth_version" \notin Schema!SchemaAt(1)
<1>1. 0 \in 0 .. 6 /\ 1 \in 0 .. 6 /\ \A m \in 1 .. 0 : FALSE
  OBVIOUS
<1>2. \A x : x \notin Schema!SchemaAt(0)
  BY <1>1, InSchema
<1>3. "auth_version" \notin Adds[1]
  BY Parts DEF TableNames, FirstChecks
<1>4. \A m \in 1 .. 1 : m = 1
  OBVIOUS
<1> QED BY <1>1, <1>2, <1>3, <1>4, InSchema

\* Every upgrade of an existing file begins with a batch.
Begins(P) == P \in Seq(Elements(P)) /\ Len(P) > 1 /\ P[1].do = "tmp" /\ P[2].do = "copy"

LEMMA BatchBegins ==
  ASSUME NEW t, NEW add, NEW del
  PROVE  Begins(Schema!Batch(t, add, del))
<1> DEFINE Part(do) == [do |-> do, of |-> t, add |-> add, del |-> del]
           P == <<Part("tmp"), Part("copy"), Part("replace")>>
<1>1. Schema!Batch(t, add, del) = P
  BY DEF Schema!Batch
<1>2. Len(P) = 3 /\ P[1].do = "tmp" /\ P[2].do = "copy"
  OBVIOUS
<1> HIDE DEF P
<1>3. P \in Seq(Elements(P))
  BY <1>1, BatchBuilds DEF Builds
<1> QED BY <1>1, <1>2, <1>3 DEF Begins

LEMMA BeginsStill ==
  ASSUME NEW P, Begins(P), NEW Q, NEW K, NEW A, NEW D, NEW T, Builds(Q, K, A, D, T)
  PROVE  Begins(P \o Q)
<1> DEFINE S == Elements(P) \union Elements(Q)  R == P \o Q
<1>1. P \in Seq(S) /\ Q \in Seq(S) /\ Len(P) \in Nat /\ Len(P) > 1 /\ Len(Q) \in Nat
  BY DEF Builds, Begins
<1>2. /\ R \in Seq(S) /\ Len(R) = Len(P) + Len(Q)
      /\ \A i \in 1 .. Len(P) + Len(Q) :
           R[i] = IF i <= Len(P) THEN P[i] ELSE Q[i - Len(P)]
  BY <1>1, ConcatProperties
<1> HIDE DEF R, S
<1>3. 1 \in 1 .. Len(P) + Len(Q) /\ 2 \in 1 .. Len(P) + Len(Q) /\ 1 <= Len(P) /\ 2 <= Len(P)
  BY <1>1
<1>4. R[1] = P[1] /\ R[2] = P[2]
  BY <1>2, <1>3
<1>5. R \in Seq(Elements(R))
  BY <1>2 DEF Elements
<1>6. Len(R) > 1
  BY <1>1, <1>2
<1>7. Begins(R)
  BY <1>4, <1>5, <1>6 DEF Begins
<1> QED BY <1>7 DEF R

LEMMA UpBeginsWithBatch ==
  \A n \in 2 .. 6 : Begins(Schema!Upgrades[n])
<1>1. /\ Schema!Upgrades[2] = Schema!AddAuthVersion
      /\ Schema!Upgrades[3] = Schema!AddProductConstraints
      /\ Schema!Upgrades[4] = Schema!AddChatConstraints
      /\ Schema!Upgrades[5] = Schema!AddModeration
      /\ Schema!Upgrades[6] = Schema!AddTransferConstraints
  BY DEF Schema!Upgrades
<1>2. Begins(Schema!AddAuthVersion)
  BY BatchBegins DEF Schema!AddAuthVersion
<1>3. Begins(Schema!AddProductConstraints)
  <2> DEFINE B == <<Schema!Index("ix_products_public_status_created"),
                    Schema!Index("ix_products_seller_status_updated"),
                    Schema!Index("ix_products_price")>>
  <2>1. Builds(B, Altering, ProductNames, {}, {})
    BY ThreeIndexes DEF ProductNames
  <2> HIDE DEF B
  <2>2. Begins(Schema!Batch("products", Schema!ProductChecks, {"ck_products_price_positive"}) \o B)
    BY <2>1, BatchBegins, BeginsStill
  <2> QED BY <2>2 DEF Schema!AddProductConstraints, B
<1>4. Begins(Schema!AddChatConstraints)
  <2> DEFINE B == [i \in 1 .. 4 |-> Schema!Index(Schema!ChatIndexes[i])]
  <2>1. Builds(B, Altering, ChatNames, {}, {}) /\ Len(Schema!ChatIndexes) = 4
    BY ChatIndexesBuild DEF Schema!ChatIndexes
  <2> HIDE DEF B
  <2>2. Begins(Schema!Batch("chat_messages", {"ck_chat_messages_is_hidden_boolean"}, {}) \o B)
    BY <2>1, BatchBegins, BeginsStill
  <2> QED BY <2>1, <2>2 DEF Schema!AddChatConstraints, B
<1>5. Begins(Schema!AddModeration)
  <2> DEFINE A == Schema!Batch("products", Schema!Previous, {})
             B == Schema!Batch("reports", Schema!Review, {})
             C == <<Schema!Index("ix_reports_target_status_created"),
                    Schema!Index("ix_reports_reporter_created")>>
             D == Schema!Batch("audit_logs", Schema!AuditChecks, {})
             E == <<Schema!Index("ix_audit_logs_created"),
                    Schema!Index("ix_audit_logs_actor_created"),
                    Schema!Index("ix_audit_logs_target_created")>>
  <2>1. Schema!AddModeration = (((A \o B) \o C) \o D) \o E
    BY DEF Schema!AddModeration
  <2>2. Begins(A) /\ Builds(B, Altering, Schema!Review, {}, {"reports"})
        /\ Builds(D, Altering, Schema!AuditChecks, {}, {"audit_logs"})
    BY BatchBegins, BatchBuilds
  <2>3. Builds(C, Altering, ReportNames, {}, {}) /\ Builds(E, Altering, AuditNames, {}, {})
    BY TwoIndexes, ThreeIndexes DEF ReportNames, AuditNames
  <2> HIDE DEF A, B, C, D, E
  <2>4. Begins(A \o B)
    BY <2>2, BeginsStill
  <2>5. Begins((A \o B) \o C)
    BY <2>3, <2>4, BeginsStill
  <2>6. Begins(((A \o B) \o C) \o D)
    BY <2>2, <2>5, BeginsStill
  <2>7. Begins((((A \o B) \o C) \o D) \o E)
    BY <2>3, <2>6, BeginsStill
  <2> QED BY <2>1, <2>7
<1>6. Begins(Schema!AddTransferConstraints)
  <2> DEFINE B == [i \in 1 .. 2 |-> Schema!Index(Schema!TransferIndexes[i])]
  <2>1. Builds(B, Altering, TransferNames, {}, {})
    BY TransferIndexesBuild
  <2> HIDE DEF B
  <2>2. Begins(Schema!Batch("transfers", Schema!TransferChecks, {"ck_transfers_amount_positive"})
               \o B)
    BY <2>1, BatchBegins, BeginsStill
  <2> QED BY <2>2 DEF Schema!AddTransferConstraints, B
<1> SUFFICES ASSUME NEW n \in 2 .. 6 PROVE Begins(Schema!Upgrades[n])
  OBVIOUS
<1>7. n = 2 \/ n = 3 \/ n = 4 \/ n = 5 \/ n = 6
  OBVIOUS
<1> QED BY <1>1, <1>2, <1>3, <1>4, <1>5, <1>6, <1>7

\* Records, whatever is in them.
IsDatabase(d) ==
  d = [schema |-> d.schema, stamp |-> d.stamp, rows |-> d.rows,
       second |-> d.second, copied |-> d.copied]

IsCommand(c) ==
  /\ c = [dir |-> c.dir, to |-> c.to, rev |-> c.rev, pc |-> c.pc, open |-> c.open,
          work |-> c.work, hindered |-> c.hindered]
  /\ \/ c.dir = "up" /\ c.to = Schema!Latest
     \/ c.dir = "down" /\ c.to \in Nat /\ c.to < c.rev
  /\ c.rev \in 1 .. Schema!Latest /\ c.pc \in Nat \ {0} /\ c.open \in BOOLEAN
  /\ IsDatabase(c.work)

\* What the command may lose.
MayGo(lost) ==
  lost # {} => \/ cmd.rev = 2 /\ lost \subseteq Schema!Cascading
               \/ cmd.rev = 1 /\ cmd.dir = "down"

\* The transaction has lost no more, and the copy just made is a copy.
Keeping ==
  /\ cmd.open => MayGo(db.rows \ cmd.work.rows)
  /\ cmd.pc > 1 /\ cmd.pc - 1 <= Len(Schema!Program)
       /\ Schema!Program[cmd.pc - 1].do = "copy" =>
     /\ cmd.open
     /\ cmd.work.copied = cmd.work.rows \intersect Schema!RowsOf(Schema!Program[cmd.pc - 1].of)

SchemaInv ==
  /\ IsDatabase(db) /\ db.stamp \in 0 .. Schema!Latest
  /\ \/ cmd = Schema!NoCommand
     \/ IsCommand(cmd) /\ Keeping

\* What the running command adds and takes away.
Plus == IF cmd.dir = "up" THEN Adds[cmd.rev] ELSE Takes[cmd.rev]
Minus == IF cmd.dir = "up" THEN Takes[cmd.rev] ELSE Adds[cmd.rev]
Means == IF cmd.dir = "down" /\ cmd.rev = 1 THEN {"drop"} ELSE Altering

LEMMA Programs ==
  ASSUME IsCommand(cmd)
  PROVE  /\ Schema!Latest = 6 /\ cmd.rev \in 1 .. 6 /\ cmd.dir \in {"up", "down"}
         /\ Builds(Schema!Program, Means, Plus, Minus, Rebuilt[cmd.rev])
<1>1. Schema!Latest = 6 /\ Schema!Downgrades[1] = Schema!NoFoundation
  BY DEF Schema!Latest, Schema!Upgrades, Schema!Downgrades
<1>2. cmd.rev \in 1 .. 6 /\ cmd.dir \in {"up", "down"}
  BY <1>1 DEF IsCommand
<1>3. CASE cmd.dir = "up"
  BY <1>1, <1>2, <1>3, UpBuilds DEF Schema!Program, Plus, Minus, Means
<1>4. CASE cmd.dir = "down" /\ cmd.rev = 1
  BY <1>1, <1>2, <1>4, FirstUpBuilds, Parts DEF Schema!Program, Plus, Minus, Means
<1>5. CASE cmd.dir = "down" /\ cmd.rev # 1
  <2>1. cmd.rev \in 2 .. 6
    BY <1>2, <1>5
  <2> QED BY <1>1, <1>2, <1>5, <2>1, DownBuilds DEF Schema!Program, Plus, Minus, Means
<1> QED BY <1>1, <1>2, <1>3, <1>4, <1>5

\* A step of the application or of a new command: nothing is being done.
LEMMA BeginsKeep ==
  ASSUME SchemaInv, NEW d, IsDatabase(d), d.stamp \in 0 .. Schema!Latest, db' = d,
         NEW dir \in {"up", "down"}, NEW to,
         cmd' = Schema!Revision(dir, to, d),
         \/ dir = "up" /\ to = Schema!Latest /\ d.stamp < Schema!Latest
         \/ dir = "down" /\ to \in Nat /\ to < d.stamp
  PROVE  SchemaInv'
<1>1. Schema!Latest = 6
  BY DEF Schema!Latest, Schema!Upgrades
<1>2. IsDatabase(Schema!NoDatabase)
  BY DEF IsDatabase, Schema!NoDatabase
<1>3. /\ cmd'.dir = dir /\ cmd'.to = to /\ cmd'.pc = 1 /\ cmd'.open = FALSE
      /\ cmd'.work = Schema!NoDatabase
      /\ cmd'.rev = IF dir = "up" THEN d.stamp + 1 ELSE d.stamp
  BY DEF Schema!Revision
<1>4. IsCommand(cmd)'
  <2> DEFINE c == Schema!Revision(dir, to, d)
  <2>1. c = [dir |-> c.dir, to |-> c.to, rev |-> c.rev, pc |-> c.pc, open |-> c.open,
             work |-> c.work, hindered |-> c.hindered]
    BY DEF Schema!Revision
  <2>2. /\ c.dir = dir /\ c.to = to /\ c.pc = 1 /\ c.open = FALSE /\ c.work = Schema!NoDatabase
        /\ c.rev = IF dir = "up" THEN d.stamp + 1 ELSE d.stamp
    BY DEF Schema!Revision
  <2> HIDE DEF c
  <2>3. c.rev \in 1 .. Schema!Latest
    BY <1>1, <2>2
  <2>4. IsCommand(c)
    <3>1. c.open \in BOOLEAN /\ IsDatabase(c.work)
      BY <1>2, <2>2, Zenon
    <3>2. \/ c.dir = "up" /\ c.to = Schema!Latest
          \/ c.dir = "down" /\ c.to \in Nat /\ c.to < c.rev
      BY <2>2
    <3>3. c.pc \in Nat \ {0}
      BY <2>2
    <3> QED BY <2>1, <2>3, <3>1, <3>2, <3>3, Zenon DEF IsCommand
  <2>5. cmd' = c
    BY DEF c
  <2> QED BY <2>4, <2>5
<1>5. Keeping'
  BY <1>3 DEF Keeping
<1> QED BY <1>4, <1>5 DEF SchemaInv

\* What a statement does to the rows, and to the rows copied.
LEMMA AppliedIs ==
  ASSUME NEW s, NEW d, IsDatabase(d),
         s.do \in {"create", "drop", "ddl", "tmp", "copy", "replace"}
  PROVE  LET next == Schema!Applied(s, d) IN
         /\ IsDatabase(next) /\ next.stamp = d.stamp
         /\ s.do \in {"create", "ddl", "tmp", "copy"} => next.rows = d.rows
         /\ s.do = "copy" => next.copied = d.rows \intersect Schema!RowsOf(s.of)
         /\ s.do = "replace" => next.rows = Schema!Dropped(d.rows, s.of) \union d.copied
<1>1. CASE s.do \in {"create", "ddl"}
  BY <1>1 DEF Schema!Applied, IsDatabase
<1>2. CASE s.do = "drop"
  BY <1>2 DEF Schema!Applied, IsDatabase
<1>3. CASE s.do = "tmp"
  BY <1>3 DEF Schema!Applied, IsDatabase
<1>4. CASE s.do = "copy"
  BY <1>4 DEF Schema!Applied, Schema!Copied, IsDatabase
<1>5. CASE s.do = "replace"
  BY <1>5 DEF Schema!Applied, IsDatabase
<1> QED BY <1>1, <1>2, <1>3, <1>4, <1>5

LEMMA MayGoTogether ==
  ASSUME NEW A, NEW B, NEW C, MayGo(A), MayGo(B), C \subseteq A \union B
  PROVE  MayGo(C)
BY DEF MayGo

\* What one statement of the running command may lose.
LEMMA StatementLoses ==
  ASSUME SchemaInv, Schema!Statement
  PROVE  /\ IsCommand(cmd) /\ Keeping /\ IsDatabase(Schema!Seen)
         /\ Schema!Program[cmd.pc].do \in {"create", "drop", "ddl", "tmp", "copy", "replace"}
         /\ MayGo(Schema!Seen.rows \ Schema!Applied(Schema!Program[cmd.pc], Schema!Seen).rows)
<1> DEFINE s == Schema!Program[cmd.pc]  d == Schema!Seen  next == Schema!Applied(s, d)
<1>1. IsCommand(cmd) /\ Keeping /\ cmd.pc \in 1 .. Len(Schema!Program)
  <2>1. IsCommand(cmd) /\ Keeping
    BY DEF SchemaInv, Schema!Statement, Schema!Idle, Schema!NoCommand
  <2>2. Len(Schema!Program) \in Nat
    BY <2>1, Programs DEF Builds
  <2> QED BY <2>1, <2>2 DEF IsCommand, Schema!Statement
<1>2. IsDatabase(d)
  BY <1>1 DEF Schema!Seen, SchemaInv, IsCommand
<1> HIDE DEF s, d, next
<1>3. /\ Builds(Schema!Program, Means, Plus, Minus, Rebuilt[cmd.rev]) /\ s.do \in Means
      /\ Follows(Schema!Program, cmd.pc, Rebuilt[cmd.rev])
  BY <1>1, Programs DEF Builds, s
<1>4. CASE s.do = "drop"
  BY <1>1, <1>2, <1>3, <1>4 DEF MayGo, Means, Altering, s, d
<1>5. CASE s.do # "drop"
  <2>1. s.do \in {"create", "ddl", "tmp", "copy", "replace"}
    BY <1>3, <1>5 DEF Means, Altering
  <2>2. CASE s.do # "replace"
    <3>1. next.rows = d.rows
      BY <1>2, <2>1, <2>2, AppliedIs DEF next
    <3> QED BY <1>1, <1>2, <2>1, <3>1 DEF MayGo, s, d, next
  <2>3. CASE s.do = "replace"
    <3>1. /\ cmd.pc > 1 /\ Schema!Program[cmd.pc - 1].do = "copy"
          /\ Schema!Program[cmd.pc - 1].of = s.of /\ s.of \in Rebuilt[cmd.rev]
      BY <1>3, <2>3 DEF Follows, s
    <3>2. d.copied = d.rows \intersect Schema!RowsOf(s.of)
      <4>1. cmd.pc - 1 <= Len(Schema!Program)
        BY <1>1
      <4> QED BY <1>1, <3>1, <4>1 DEF Keeping, Schema!Seen, d
    <3>3. next.rows = Schema!Dropped(d.rows, s.of) \union d.copied
      BY <1>2, <2>3, AppliedIs DEF next
    <3>4. CASE s.of # "users"
      <4>1. d.rows \ next.rows = {}
        BY <3>2, <3>3, <3>4 DEF Schema!Dropped
      <4> QED BY <1>1, <1>2, <2>1, <4>1 DEF MayGo, s, d, next
    <3>5. CASE s.of = "users"
      <4>1. d.rows \ next.rows \subseteq Schema!Cascading
        BY <3>2, <3>3, <3>5 DEF Schema!Dropped
      <4>2. cmd.rev = 2
        <5>1. cmd.rev \in 1 .. 6
          BY <1>1, Programs DEF IsCommand
        <5> QED BY <3>1, <3>5, <5>1 DEF Rebuilt
      <4> QED BY <1>1, <1>2, <2>1, <4>1, <4>2 DEF MayGo, s, d, next
    <3> QED BY <3>4, <3>5
  <2> QED BY <2>2, <2>3
<1> QED BY <1>1, <1>4, <1>5 DEF s

Advanced(c, d, e) ==
  /\ IsCommand(e) /\ e.pc = c.pc + 1 /\ e.open = TRUE /\ e.work = d
  /\ e.rev = c.rev /\ e.dir = c.dir

LEMMA Advances ==
  ASSUME NEW c, IsCommand(c), NEW d, IsDatabase(d),
         NEW e, e = [c EXCEPT !.pc = @ + 1, !.open = TRUE, !.work = d]
  PROVE  Advanced(c, d, e)
<1>1. e = [dir |-> c.dir, to |-> c.to, rev |-> c.rev, pc |-> c.pc + 1, open |-> TRUE,
           work |-> d, hindered |-> c.hindered]
  BY DEF IsCommand
<1>2. /\ e.dir = c.dir /\ e.to = c.to /\ e.rev = c.rev /\ e.pc = c.pc + 1 /\ e.open = TRUE
      /\ e.work = d /\ e.hindered = c.hindered
  BY <1>1
<1>3. e = [dir |-> e.dir, to |-> e.to, rev |-> e.rev, pc |-> e.pc, open |-> e.open,
           work |-> e.work, hindered |-> e.hindered]
  BY <1>1, <1>2
<1>4. e.open \in BOOLEAN /\ IsDatabase(e.work)
  BY <1>2, Zenon
<1>5. e.pc \in Nat \ {0}
  BY <1>2 DEF IsCommand
<1>6. \/ e.dir = "up" /\ e.to = Schema!Latest
      \/ e.dir = "down" /\ e.to \in Nat /\ e.to < e.rev
  BY <1>2 DEF IsCommand
<1>7. e.rev \in 1 .. Schema!Latest
  BY <1>2 DEF IsCommand
<1>8. IsCommand(e)
  BY <1>3, <1>4, <1>5, <1>6, <1>7, Zenon DEF IsCommand
<1> QED BY <1>2, <1>8 DEF Advanced

LEMMA StatementKeeps ==
  ASSUME SchemaInv, Schema!Statement
  PROVE  SchemaInv' /\ MayGo(db.rows \ db'.rows)
<1> DEFINE s == Schema!Program[cmd.pc]  d == Schema!Seen  next == Schema!Applied(s, d)
<1>1. /\ IsCommand(cmd) /\ Keeping /\ IsDatabase(d) /\ IsDatabase(db)
      /\ s.do \in {"create", "drop", "ddl", "tmp", "copy", "replace"}
      /\ MayGo(d.rows \ next.rows) /\ cmd.pc \in Nat \ {0}
  BY StatementLoses DEF SchemaInv, IsCommand
<1>2. /\ IsDatabase(next) /\ next.stamp = d.stamp
      /\ s.do = "copy" => next.rows = d.rows
                          /\ next.copied = d.rows \intersect Schema!RowsOf(s.of)
  BY <1>1, AppliedIs
<1>3. /\ cmd.open \/ s.do = "copy" =>
           db' = db /\ cmd' = [cmd EXCEPT !.pc = @ + 1, !.open = TRUE, !.work = next]
      /\ ~ (cmd.open \/ s.do = "copy") => db' = next /\ cmd' = [cmd EXCEPT !.pc = @ + 1]
  BY DEF Schema!Statement, Schema!Opens
<1> HIDE DEF s, d, next
<1>4. CASE cmd.open \/ s.do = "copy"
  <2>1. /\ db' = db /\ cmd'.pc = cmd.pc + 1 /\ cmd'.open /\ cmd'.work = next
        /\ cmd'.rev = cmd.rev /\ cmd'.dir = cmd.dir /\ IsCommand(cmd')
    <3>1. cmd' = [cmd EXCEPT !.pc = @ + 1, !.open = TRUE, !.work = next]
      BY <1>3, <1>4
    <3>2. db' = db
      BY <1>3, <1>4
    <3>3. /\ cmd'.pc = cmd.pc + 1 /\ cmd'.open /\ cmd'.work = next
          /\ cmd'.rev = cmd.rev /\ cmd'.dir = cmd.dir /\ IsCommand(cmd')
      <4>1. Advanced(cmd, next, cmd')
        BY <1>1, <1>2, <3>1, Advances
      <4> QED BY <4>1 DEF Advanced
    <3> QED BY <3>2, <3>3
  <2>2. MayGo(db.rows \ next.rows)
    <3>1. CASE cmd.open
      <4>1. MayGo(db.rows \ d.rows)
        BY <1>1, <3>1 DEF Keeping, Schema!Seen, d
      <4>2. db.rows \ next.rows \subseteq (db.rows \ d.rows) \union (d.rows \ next.rows)
        OBVIOUS
      <4> QED BY <1>1, <4>1, <4>2, MayGoTogether
    <3>2. CASE ~cmd.open
      BY <1>1, <3>2 DEF Schema!Seen, d
    <3> QED BY <3>1, <3>2
  <2>3. Schema!Program' = Schema!Program
    BY <2>1 DEF Schema!Program
  <2>4. Keeping'
    <3>1. MayGo(db.rows \ cmd.work.rows)'
      BY <2>1, <2>2 DEF MayGo
    <3>2. cmd'.pc - 1 = cmd.pc
      BY <1>1, <2>1
    <3>3. s.do = "copy" => cmd'.work.copied = cmd'.work.rows \intersect Schema!RowsOf(s.of)
      BY <1>2, <2>1
    <3> QED BY <2>1, <2>3, <3>1, <3>2, <3>3 DEF Keeping, s
  <2>5. MayGo(db.rows \ db'.rows)
    BY <2>1 DEF MayGo
  <2> QED BY <2>1, <2>4, <2>5 DEF SchemaInv
<1>5. CASE ~ (cmd.open \/ s.do = "copy")
  <2>1. db' = next /\ d = db
    BY <1>3, <1>5 DEF Schema!Seen, d
  <2>2. /\ cmd'.pc = cmd.pc + 1 /\ cmd'.open = cmd.open /\ cmd'.rev = cmd.rev
        /\ cmd'.dir = cmd.dir /\ IsCommand(cmd')
    <3>1. cmd' = [cmd EXCEPT !.pc = @ + 1]
      BY <1>3, <1>5
    <3> QED BY <1>1, <3>1 DEF IsCommand
  <2>3. Schema!Program' = Schema!Program
    BY <2>2 DEF Schema!Program
  <2>4. cmd'.pc - 1 = cmd.pc
    BY <1>1, <2>2
  <2>5. Keeping'
    BY <1>5, <2>2, <2>3, <2>4 DEF Keeping, s
  <2> QED BY <1>1, <1>2, <2>1, <2>2, <2>5 DEF SchemaInv
<1> QED BY <1>4, <1>5

LEMMA CommitRevisionKeeps ==
  ASSUME SchemaInv, Schema!CommitRevision
  PROVE  SchemaInv' /\ MayGo(db.rows \ db'.rows)
<1> DEFINE stamp == IF cmd.dir = "up" THEN cmd.rev ELSE cmd.rev - 1
           d == [Schema!Seen EXCEPT !.stamp = stamp]
<1>1. IsCommand(cmd) /\ Keeping /\ IsDatabase(db)
  BY DEF SchemaInv, Schema!CommitRevision, Schema!Idle, Schema!NoCommand
<1>2. IsDatabase(Schema!Seen)
  BY <1>1 DEF Schema!Seen, IsCommand
<1>3. IsDatabase(d) /\ d.stamp = stamp /\ d.rows = Schema!Seen.rows
  BY <1>2 DEF IsDatabase
<1>4. /\ db' = d
      /\ cmd' = IF stamp = cmd.to THEN Schema!NoCommand
                 ELSE Schema!Revision(cmd.dir, cmd.to, d)
  BY DEF Schema!CommitRevision
<1>5. /\ Schema!Latest = 6 /\ cmd.rev \in 1 .. 6
      /\ \/ cmd.dir = "up" /\ cmd.to = 6 /\ stamp = cmd.rev
         \/ cmd.dir = "down" /\ cmd.to \in Nat /\ cmd.to < cmd.rev /\ stamp = cmd.rev - 1
  BY <1>1, Programs DEF IsCommand
<1> HIDE DEF stamp, d
<1>6. MayGo(db.rows \ db'.rows)
  <2>1. CASE cmd.open
    BY <1>1, <1>3, <1>4, <2>1 DEF Keeping, Schema!Seen
  <2>2. CASE ~cmd.open
    BY <1>3, <1>4, <2>2 DEF MayGo, Schema!Seen
  <2> QED BY <2>1, <2>2
<1>7. d.stamp \in 0 .. Schema!Latest
  BY <1>3, <1>5
<1>8. CASE stamp = cmd.to
  BY <1>3, <1>4, <1>6, <1>7, <1>8 DEF SchemaInv
<1>9. CASE stamp # cmd.to
  <2>1. \/ cmd.dir = "up" /\ cmd.to = Schema!Latest /\ d.stamp < Schema!Latest
        \/ cmd.dir = "down" /\ cmd.to \in Nat /\ cmd.to < d.stamp
    BY <1>3, <1>5, <1>9
  <2>2. cmd' = Schema!Revision(cmd.dir, cmd.to, d) /\ cmd.dir \in {"up", "down"}
    BY <1>4, <1>5, <1>9
  <2> QED BY <1>3, <1>4, <1>7, <2>1, <2>2, <1>6, BeginsKeep
<1> QED BY <1>6, <1>8, <1>9

LEMMA WriteKeeps ==
  ASSUME SchemaInv, NEW k, Schema!Write(k)
  PROVE  SchemaInv' /\ db.rows \ db'.rows = {}
<1> DEFINE new == IF k = "users" THEN {"users", "wallets"} ELSE {k}
<1>1. db' = [db EXCEPT !.rows = @ \union new] /\ cmd' = cmd /\ IsDatabase(db)
  BY DEF Schema!Write, SchemaInv
<1> HIDE DEF new
<1>2. IsDatabase(db') /\ db'.stamp = db.stamp /\ db'.rows = db.rows \union new
  BY <1>1 DEF IsDatabase
<1>3. CASE cmd = Schema!NoCommand
  BY <1>1, <1>2, <1>3 DEF SchemaInv
<1>4. CASE IsCommand(cmd) /\ Keeping
  <2>1. ~cmd.open
    BY <1>4 DEF Schema!Write, Schema!Locked, Schema!Idle, IsCommand
  <2>2. Keeping'
    BY <1>1, <1>4, <2>1 DEF Keeping, Schema!Program
  <2> QED BY <1>1, <1>2, <1>4, <2>2 DEF SchemaInv
<1> QED BY <1>2, <1>3, <1>4 DEF SchemaInv

LEMMA SchemaStep ==
  ASSUME SchemaInv, Schema!Next
  PROVE  SchemaInv' /\ MayGo(db.rows \ db'.rows)
<1>1. CASE Schema!upgrade \/ \E to \in 0 .. Schema!Latest : Schema!downgrade(to)
  <2>1. db' = db /\ IsDatabase(db) /\ db.stamp \in 0 .. Schema!Latest
    BY <1>1 DEF Schema!upgrade, Schema!downgrade, SchemaInv
  <2>2. CASE Schema!upgrade
    BY <2>1, <2>2, BeginsKeep DEF Schema!upgrade, MayGo
  <2>3. ASSUME NEW to \in 0 .. Schema!Latest, Schema!downgrade(to) PROVE SchemaInv'
    <3>1. to \in Nat /\ to < db.stamp /\ cmd' = Schema!Revision("down", to, db)
      BY <2>3, Programs DEF Schema!downgrade, Schema!Latest, Schema!Upgrades
    <3> QED BY <2>1, <3>1, BeginsKeep
  <2> QED BY <1>1, <2>1, <2>2, <2>3 DEF MayGo
<1>2. CASE Schema!StatementFails \/ Schema!Interrupted
  BY <1>2 DEF Schema!StatementFails, Schema!Interrupted, SchemaInv, MayGo
<1>3. ASSUME NEW k \in Written, Schema!Write(k) PROVE SchemaInv' /\ MayGo(db.rows \ db'.rows)
  BY <1>3, WriteKeeps DEF MayGo
<1> QED BY <1>1, <1>2, <1>3, StatementKeeps, CommitRevisionKeeps DEF Schema!Next

\* What a migration has copied and what its transaction has lost so far: kept by
\* every statement, commit, failure and interruption, and by the application.
THEOREM SchemaInvariance == AllSpec => []SchemaInv
<1>1. AllInit => SchemaInv
  BY DEF AllInit, Schema!Init, Schema!NoDatabase, SchemaInv, IsDatabase, Schema!Latest,
     Schema!Upgrades
<1>2. ASSUME SchemaInv, [AllNext]_<<vars, joiningVars, schemaVars>> PROVE SchemaInv'
  <2>1. CASE Schema!Next
    BY <1>2, <2>1, SchemaStep
  <2>2. CASE UNCHANGED schemaVars
    BY <1>2, <2>2 DEF SchemaInv, schemaVars, Keeping, MayGo, Schema!Program
  <2> QED BY <1>2, <2>1, <2>2 DEF AllNext
<1> QED BY <1>1, <1>2, PTL DEF AllSpec

\* Through any number of interruptions, repeated and reversed migrations, and
\* with the application at work: batch_alter_table loses no row (migrations/
\* versions), but for what refers to users when revision 2 rebuilds that table
\* with foreign keys on, and what goes with the tables of the first revision.
THEOREM RowsAreKept == AllSpec => RowsSurvive
<1>1. SchemaInv /\ [AllNext]_<<vars, joiningVars, schemaVars>> =>
        [LET lost == db.rows \ db'.rows IN
           lost # {} => \/ cmd.rev = 2 /\ lost \subseteq Schema!Cascading
                        \/ cmd.rev = 1 /\ cmd.dir = "down"]_Schema!vars
  <2> SUFFICES ASSUME SchemaInv, [AllNext]_<<vars, joiningVars, schemaVars>>
               PROVE  MayGo(db.rows \ db'.rows)
    BY DEF MayGo
  <2>1. CASE Schema!Next
    BY <2>1, SchemaStep
  <2>2. CASE UNCHANGED schemaVars
    BY <2>2 DEF MayGo, schemaVars
  <2> QED BY <2>1, <2>2 DEF AllNext
<1> QED
  BY <1>1, SchemaInvariance, PTL DEF AllSpec, RowsSurvive, Schema!RowsSurvive

-----------------------------------------------------------------------------
(* The schema a migration has come to, statement by statement. *)

Changed(base, P, k) == (base \ TakenBy(P, k)) \union AddedBy(P, k)

\* The table a batch is rebuilding after k statements.
Under(P, k) ==
  IF k \in 1 .. Len(P) /\ P[k].do \in {"tmp", "copy"} THEN {P[k].of} ELSE {}

\* A schema on which such a revision can be run.
Grounds(base, A, D, T) ==
  /\ A \intersect base = {} /\ D \subseteq base /\ A \intersect D = {}
  /\ \A t \in T : t \in base /\ t \notin A /\ t \notin D

LEMMA NothingYet ==
  ASSUME NEW P, NEW base
  PROVE  Changed(base, P, 0) = base /\ Under(P, 0) = {}
<1>1. \A i \in 1 .. 0 : FALSE
  OBVIOUS
<1>2. AddedBy(P, 0) = {} /\ TakenBy(P, 0) = {}
  BY <1>1, ByWhich
<1> QED BY <1>1, <1>2 DEF Changed, Under

LEMMA AllDone ==
  ASSUME NEW P, NEW K, NEW A, NEW D, NEW T, NEW base, Builds(P, K, A, D, T)
  PROVE  Changed(base, P, Len(P)) = (base \ D) \union A /\ Under(P, Len(P)) = {}
<1>1. AddedBy(P, Len(P)) \subseteq A /\ TakenBy(P, Len(P)) \subseteq D
  BY ByWhich DEF Builds
<1>2. AddedBy(P, Len(P)) = A /\ TakenBy(P, Len(P)) = D
  BY <1>1 DEF Builds
<1>3. P[Len(P)].do \notin {"tmp", "copy"}
  BY DEF Builds
<1> QED BY <1>2, <1>3 DEF Changed, Under

\* What one statement does to the names.
NamesAfter(s, d, next) ==
  /\ next.schema = IF Effective(s) THEN (d.schema \ s.del) \union s.add ELSE d.schema
  /\ next.second = IF s.do = "tmp" THEN d.second \union {s.of}
                   ELSE IF s.do = "replace" THEN d.second \ {s.of} ELSE d.second
  /\ next.rows \subseteq d.rows \union (IF s.do = "replace" THEN d.copied ELSE {})
  /\ s.do = "drop" => next.rows \intersect Schema!RowsOf(s.of) = {}

LEMMA NamesApplied ==
  ASSUME NEW s, NEW d, IsDatabase(d),
         s.do \in {"create", "drop", "ddl", "tmp", "copy", "replace"},
         s.do = "drop" => s.add = {}
  PROVE  NamesAfter(s, d, Schema!Applied(s, d))
<1>1. CASE s.do \in {"create", "ddl"}
  BY <1>1 DEF NamesAfter, Schema!Applied, IsDatabase, Effective
<1>2. CASE s.do = "drop"
  BY <1>2 DEF NamesAfter, Schema!Applied, IsDatabase, Effective, Schema!Dropped
<1>3. CASE s.do = "tmp"
  BY <1>3 DEF NamesAfter, Schema!Applied, IsDatabase, Effective
<1>4. CASE s.do = "copy"
  BY <1>4 DEF NamesAfter, Schema!Applied, IsDatabase, Effective
<1>5. CASE s.do = "replace"
  BY <1>5 DEF NamesAfter, Schema!Applied, IsDatabase, Effective, Schema!Dropped
<1> QED BY <1>1, <1>2, <1>3, <1>4, <1>5

LEMMA OneMore ==
  ASSUME NEW P, NEW K, NEW A, NEW D, NEW T, NEW base, Builds(P, K, A, D, T),
         Grounds(base, A, D, T), NEW i \in 1 .. Len(P)
  PROVE  /\ Changed(base, P, i) =
              IF Effective(P[i])
              THEN (Changed(base, P, i - 1) \ P[i].del) \union P[i].add
              ELSE Changed(base, P, i - 1)
         /\ Effective(P[i]) => P[i].add \intersect Changed(base, P, i - 1) = {}
         /\ P[i].del \subseteq Changed(base, P, i - 1)
         /\ \A t \in T : t \in Changed(base, P, i - 1)
<1>1. Len(P) \in Nat /\ i - 1 \in Nat /\ \A j \in 1 .. i - 1 : j \in 1 .. Len(P) /\ j < i
  BY DEF Builds
<1>2. \A j : j \in 1 .. i <=> j \in 1 .. i - 1 \/ j = i
  OBVIOUS
<1>3. \A j \in 1 .. Len(P) : P[j].add \subseteq A /\ P[j].del \subseteq D
  BY DEF Builds
<1>4. AddedBy(P, i - 1) \subseteq A /\ TakenBy(P, i - 1) \subseteq D
  BY <1>1, <1>3, ByWhich
<1>5. /\ \A x : x \in AddedBy(P, i) <=> x \in AddedBy(P, i - 1)
                                        \/ (Effective(P[i]) /\ x \in P[i].add)
      /\ \A x : x \in TakenBy(P, i) <=> x \in TakenBy(P, i - 1)
                                        \/ (Effective(P[i]) /\ x \in P[i].del)
  BY <1>2, ByWhich
<1>6. \A j \in 1 .. i - 1 : Effective(P[j]) => Apart(P[j], P[i])
  BY <1>1 DEF Builds
<1>7. /\ P[i].add \intersect AddedBy(P, i - 1) = {}
      /\ P[i].del \intersect TakenBy(P, i - 1) = {}
  BY <1>6, ByWhich DEF Apart
<1>8. /\ P[i].add \subseteq A /\ P[i].del \subseteq D
      /\ A \intersect base = {} /\ D \subseteq base /\ A \intersect D = {}
      /\ \A t \in T : t \in base /\ t \notin A /\ t \notin D
  BY <1>3 DEF Grounds
<1>9. P[i].add \intersect Changed(base, P, i - 1) = {}
  BY <1>7, <1>8 DEF Changed
<1>10. P[i].del \subseteq Changed(base, P, i - 1)
  BY <1>7, <1>8 DEF Changed
<1>11. \A t \in T : t \in Changed(base, P, i - 1)
  BY <1>4, <1>8 DEF Changed
<1>12. \A x : x \in Changed(base, P, i) <=>
                IF Effective(P[i])
                THEN (x \in Changed(base, P, i - 1) /\ x \notin P[i].del) \/ x \in P[i].add
                ELSE x \in Changed(base, P, i - 1)
  BY <1>4, <1>5, <1>8 DEF Changed
<1>13. Changed(base, P, i) =
         IF Effective(P[i]) THEN (Changed(base, P, i - 1) \ P[i].del) \union P[i].add
         ELSE Changed(base, P, i - 1)
  BY <1>12
<1> QED BY <1>9, <1>10, <1>11, <1>13

LEMMA UnderOneMore ==
  ASSUME NEW P, NEW K, NEW A, NEW D, NEW T, Builds(P, K, A, D, T), NEW i \in 1 .. Len(P)
  PROVE  /\ Under(P, i) = IF P[i].do = "tmp" THEN Under(P, i - 1) \union {P[i].of}
                          ELSE IF P[i].do = "replace" THEN Under(P, i - 1) \ {P[i].of}
                          ELSE Under(P, i - 1)
         /\ P[i].do = "tmp" => Under(P, i - 1) = {}
<1>1. Follows(P, i, T)
  BY DEF Builds
<1>2. i = 1 \/ i - 1 \in 1 .. Len(P)
  OBVIOUS
<1>3. i = 1 => i - 1 \notin 1 .. Len(P)
  OBVIOUS
<1>4. P[i].do \notin {"copy", "replace"} => Under(P, i - 1) = {}
  BY <1>1, <1>2, <1>3 DEF Follows, Under
<1>5. P[i].do \in {"copy", "replace"} => Under(P, i - 1) = {P[i].of}
  BY <1>1, <1>2, <1>3 DEF Follows, Under
<1>6. Under(P, i) = IF P[i].do \in {"tmp", "copy"} THEN {P[i].of} ELSE {}
  BY DEF Under
<1> QED BY <1>4, <1>5, <1>6

\* Why a statement may fail, if the schema is as it should be.
LEMMA FailsFor ==
  ASSUME NEW P, NEW K, NEW A, NEW D, NEW T, NEW base, Builds(P, K, A, D, T),
         Grounds(base, A, D, T), NEW i \in 1 .. Len(P),
         NEW d, d.schema = Changed(base, P, i - 1), d.second = Under(P, i - 1),
         Schema!Fails(P[i], d)
  PROVE  \/ "ck_reports_review_consistency" \in A /\ "decided" \in d.rows
         \/ /\ P[i].do \in {"drop", "replace"} /\ P[i].of = "users"
            /\ d.rows \intersect Schema!Restricting # {}
<1>1. P[i].add \subseteq A /\ Follows(P, i, T)
  BY DEF Builds
<1>2. /\ Effective(P[i]) => P[i].add \intersect d.schema = {}
      /\ P[i].del \subseteq d.schema /\ \A t \in T : t \in d.schema
      /\ P[i].do = "tmp" => P[i].of \notin d.second
  BY OneMore, UnderOneMore
<1>3. P[i].do = "tmp" => P[i].of \in d.schema
  BY <1>1, <1>2 DEF Follows
<1> QED BY <1>1, <1>2, <1>3 DEF Schema!Fails, Effective

\* What a running command has done so far: the names its statements have added
\* and taken away, seen by it, and committed only if nothing else could be.
OnTheWay ==
  LET k == cmd.pc - 1  P == Schema!Program  base == Schema!SchemaAt(db.stamp) IN
  /\ cmd.rev = IF cmd.dir = "up" THEN db.stamp + 1 ELSE db.stamp
  /\ k <= Len(P)
  /\ cmd.open <=> \E j \in 1 .. k : Schema!Opens(P[j])
  /\ ~cmd.hindered => ~torn /\ Schema!Seen.second = Under(P, k)
  /\ ~torn => Schema!Seen.schema = Changed(base, P, k)
  /\ ~Schema!Torn => db.schema = base
  /\ cmd.open => cmd.work.rows \subseteq db.rows
  /\ ~torn /\ cmd.dir = "down" /\ cmd.rev = 1 =>
       \A i \in 1 .. k : db.rows \intersect Schema!RowsOf(P[i].of) = {}

TellInv ==
  /\ torn \in BOOLEAN
  /\ Schema!Idle /\ ~torn => db.schema = Schema!SchemaAt(db.stamp)
  /\ ~Schema!Idle => OnTheWay

LEMMA CommandGrounds ==
  ASSUME IsCommand(cmd), OnTheWay, db.stamp \in 0 .. 6
  PROVE  /\ Grounds(Schema!SchemaAt(db.stamp), Plus, Minus, Rebuilt[cmd.rev])
         /\ (Schema!SchemaAt(db.stamp) \ Minus) \union Plus
              = Schema!SchemaAt(IF cmd.dir = "up" THEN cmd.rev ELSE cmd.rev - 1)
<1>1. cmd.rev \in 1 .. 6 /\ cmd.dir \in {"up", "down"}
  BY Programs
<1>2. CASE cmd.dir = "up"
  <2>1. db.stamp + 1 = cmd.rev
    BY <1>2 DEF OnTheWay
  <2>2. db.stamp = cmd.rev - 1
    BY <2>1
  <2> QED BY <1>1, <1>2, <2>2, SchemaSteps DEF Grounds, Plus, Minus
<1>3. CASE cmd.dir = "down"
  <2>1. db.stamp = cmd.rev
    BY <1>3 DEF OnTheWay
  <2> QED BY <1>1, <1>3, <2>1, SchemaSteps DEF Grounds, Plus, Minus
<1> QED BY <1>1, <1>2, <1>3

\* A statement, as the running command finds it.
LEMMA NextStatement ==
  ASSUME SchemaInv, TellInv, ~Schema!Idle, cmd.pc <= Len(Schema!Program)
  PROVE  LET s == Schema!Program[cmd.pc] IN
         /\ IsCommand(cmd) /\ Keeping /\ OnTheWay /\ IsDatabase(Schema!Seen)
         /\ cmd.pc \in 1 .. Len(Schema!Program) /\ db.stamp \in 0 .. 6
         /\ Builds(Schema!Program, Means, Plus, Minus, Rebuilt[cmd.rev])
         /\ Grounds(Schema!SchemaAt(db.stamp), Plus, Minus, Rebuilt[cmd.rev])
         /\ s.do \in Means /\ s.do \in {"create", "drop", "ddl", "tmp", "copy", "replace"}
         /\ s.do = "drop" => s.add = {} /\ cmd.rev = 1 /\ cmd.dir = "down"
<1>1. IsCommand(cmd) /\ Keeping /\ OnTheWay
  BY DEF SchemaInv, TellInv, Schema!Idle, Schema!NoCommand
<1>2. IsDatabase(Schema!Seen)
  BY <1>1 DEF Schema!Seen, SchemaInv, IsCommand
<1>3. Builds(Schema!Program, Means, Plus, Minus, Rebuilt[cmd.rev])
  BY <1>1, Programs
<1>4. db.stamp \in 0 .. 6
  BY <1>1, Programs DEF SchemaInv
<1>5. cmd.pc \in 1 .. Len(Schema!Program)
  BY <1>1, <1>3 DEF IsCommand, Builds
<1>6. Grounds(Schema!SchemaAt(db.stamp), Plus, Minus, Rebuilt[cmd.rev])
  BY <1>1, <1>4, CommandGrounds
<1> DEFINE s == Schema!Program[cmd.pc]
<1>7. s.do \in Means /\ s.add \subseteq Plus
  BY <1>3, <1>5 DEF Builds
<1> HIDE DEF s
<1>8. s.do = "drop" => cmd.rev = 1 /\ cmd.dir = "down"
  BY <1>7 DEF Means, Altering
<1>9. cmd.rev = 1 /\ cmd.dir = "down" => Plus = {}
  BY Parts DEF Plus
<1>10. s.do \in {"create", "drop", "ddl", "tmp", "copy", "replace"}
  BY <1>7 DEF Means, Altering
<1> QED BY <1>1, <1>2, <1>3, <1>4, <1>5, <1>6, <1>7, <1>8, <1>9, <1>10 DEF s

LEMMA StatementTells ==
  ASSUME SchemaInv, TellInv, Schema!Statement
  PROVE  TellInv'
<1> DEFINE P == Schema!Program  i == cmd.pc  s == P[i]  d == Schema!Seen
           next == Schema!Applied(s, d)  base == Schema!SchemaAt(db.stamp)
<1>1. /\ IsCommand(cmd) /\ Keeping /\ OnTheWay /\ IsDatabase(d)
      /\ i \in 1 .. Len(P) /\ Len(P) \in Nat /\ db.stamp \in 0 .. 6
      /\ Builds(P, Means, Plus, Minus, Rebuilt[cmd.rev])
      /\ Grounds(base, Plus, Minus, Rebuilt[cmd.rev])
      /\ s.do \in Means /\ s.do \in {"create", "drop", "ddl", "tmp", "copy", "replace"}
      /\ s.do = "drop" => s.add = {} /\ cmd.rev = 1 /\ cmd.dir = "down"
  BY NextStatement DEF Schema!Statement, Builds
<1>2. /\ IsDatabase(next) /\ next.stamp = d.stamp
      /\ s.do \in {"create", "ddl", "tmp", "copy"} => next.rows = d.rows
      /\ next.schema = IF Effective(s) THEN (d.schema \ s.del) \union s.add ELSE d.schema
      /\ next.second = IF s.do = "tmp" THEN d.second \union {s.of}
                       ELSE IF s.do = "replace" THEN d.second \ {s.of} ELSE d.second
      /\ next.rows \subseteq d.rows \union (IF s.do = "replace" THEN d.copied ELSE {})
      /\ s.do = "drop" => next.rows \intersect Schema!RowsOf(s.of) = {}
  <2> HIDE DEF s, d
  <2>1. /\ IsDatabase(next) /\ next.stamp = d.stamp
        /\ s.do \in {"create", "ddl", "tmp", "copy"} => next.rows = d.rows
    BY <1>1, AppliedIs
  <2>2. NamesAfter(s, d, next)
    BY <1>1, NamesApplied
  <2> HIDE DEF next
  <2> QED BY <2>1, <2>2 DEF NamesAfter
<1>3. /\ cmd.open \/ s.do = "copy" =>
           db' = db /\ cmd' = [cmd EXCEPT !.pc = @ + 1, !.open = TRUE, !.work = next]
      /\ ~ (cmd.open \/ s.do = "copy") => db' = next /\ cmd' = [cmd EXCEPT !.pc = @ + 1]
      /\ torn' = torn
  BY DEF Schema!Statement, Schema!Opens
<1>4. /\ Changed(base, P, i) = IF Effective(s)
                               THEN (Changed(base, P, i - 1) \ s.del) \union s.add
                               ELSE Changed(base, P, i - 1)
      /\ Under(P, i) = IF s.do = "tmp" THEN Under(P, i - 1) \union {s.of}
                       ELSE IF s.do = "replace" THEN Under(P, i - 1) \ {s.of}
                       ELSE Under(P, i - 1)
      /\ Follows(P, i, Rebuilt[cmd.rev])
  <2> HIDE DEF P, i, base
  <2>1. Changed(base, P, i) = IF Effective(s)
                              THEN (Changed(base, P, i - 1) \ s.del) \union s.add
                              ELSE Changed(base, P, i - 1)
    BY <1>1, OneMore
  <2>2. Under(P, i) = IF s.do = "tmp" THEN Under(P, i - 1) \union {s.of}
                      ELSE IF s.do = "replace" THEN Under(P, i - 1) \ {s.of}
                      ELSE Under(P, i - 1)
    BY <1>1, UnderOneMore
  <2>3. Follows(P, i, Rebuilt[cmd.rev])
    BY <1>1 DEF Builds
  <2> QED BY <2>1, <2>2, <2>3
<1>5. /\ ~cmd.hindered => ~torn /\ d.second = Under(P, i - 1)
      /\ ~torn => d.schema = Changed(base, P, i - 1)
      /\ cmd.open <=> \E j \in 1 .. i - 1 : Schema!Opens(P[j])
      /\ ~Schema!Torn => db.schema = base
      /\ cmd.open => cmd.work.rows \subseteq db.rows
      /\ cmd.rev = IF cmd.dir = "up" THEN db.stamp + 1 ELSE db.stamp
      /\ ~torn /\ cmd.dir = "down" /\ cmd.rev = 1 =>
           \A j \in 1 .. i - 1 : db.rows \intersect Schema!RowsOf(P[j].of) = {}
  BY <1>1 DEF OnTheWay
<1>6. /\ cmd'.rev = cmd.rev /\ cmd'.dir = cmd.dir /\ cmd'.pc = i + 1
      /\ cmd'.hindered = cmd.hindered
      /\ cmd.open \/ s.do = "copy" => cmd'.open /\ cmd'.work = next
      /\ ~ (cmd.open \/ s.do = "copy") => cmd'.open = cmd.open
  BY <1>1, <1>3 DEF IsCommand
<1>7. Schema!Program' = P /\ ~Schema!Idle' /\ Schema!Seen' = next
  <2>1. Schema!Program' = P
    BY <1>6 DEF Schema!Program
  <2>2. ~Schema!Idle'
    BY <1>1, <1>6 DEF Schema!Idle, IsCommand
  <2>3. CASE cmd.open \/ s.do = "copy"
    BY <1>6, <2>1, <2>2, <2>3 DEF Schema!Seen
  <2>4. CASE ~ (cmd.open \/ s.do = "copy")
    BY <1>1, <1>3, <1>6, <2>1, <2>2, <2>4 DEF Schema!Seen, IsCommand
  <2> QED BY <2>3, <2>4
<1>8. db'.stamp = db.stamp
  BY <1>2, <1>3 DEF Schema!Seen
<1>9. cmd.open \in BOOLEAN /\ torn' = torn
  BY <1>1, <1>3 DEF IsCommand
<1>10. ~cmd.open => d = db
  BY DEF Schema!Seen
<1>11. cmd.open => d = cmd.work
  BY DEF Schema!Seen
<1>12. /\ Schema!Torn <=> torn \/ \E j \in 1 .. i - 1 :
                            P[j].do # "tmp" /\ \A h \in 1 .. j : ~Schema!Opens(P[h])
       /\ Schema!Torn' <=> torn \/ \E j \in 1 .. i :
                            P[j].do # "tmp" /\ \A h \in 1 .. j : ~Schema!Opens(P[h])
  <2>1. cmd'.pc - 1 = i
    BY <1>1, <1>6
  <2> QED BY <1>3, <1>7, <2>1 DEF Schema!Torn
<1>13. s.do = "replace" => cmd.open /\ d.copied \subseteq d.rows
  <2> SUFFICES ASSUME s.do = "replace" PROVE cmd.open /\ d.copied \subseteq d.rows
    OBVIOUS
  <2>1. cmd.pc > 1 /\ cmd.pc - 1 <= Len(P) /\ P[cmd.pc - 1].do = "copy"
    BY <1>1, <1>4 DEF Follows
  <2> QED BY <1>1, <1>11, <2>1 DEF Keeping
<1> DEFINE o == Schema!Opens(s)
<1>14. (o <=> s.do = "copy") /\ \A j : j \in 1 .. i <=> j \in 1 .. i - 1 \/ j = i
  BY <1>1 DEF Schema!Opens
<1>15. i \in Nat /\ (i + 1) - 1 = i /\ i <= Len(P)
  BY <1>1
<1> HIDE DEF P, i, s, d, next, base, o
<1>16. cmd'.open <=> \E j \in 1 .. i : Schema!Opens(P[j])
  <2>1. cmd'.open <=> cmd.open \/ o
    BY <1>6, <1>9, <1>14
  <2> QED BY <1>5, <1>14, <2>1 DEF o, s
<1>17. ~Schema!Torn' => db'.schema = base
  <2>1. CASE cmd.open \/ o
    <3>1. Schema!Torn => Schema!Torn'
      BY <1>12, <1>14
    <3> QED BY <1>3, <1>5, <1>14, <2>1, <3>1
  <2>2. CASE ~ (cmd.open \/ o)
    <3>1. \A h \in 1 .. i : ~Schema!Opens(P[h])
      BY <1>5, <1>14, <2>2 DEF o, s
    <3>2. s.do # "tmp" => Schema!Torn'
      BY <1>12, <1>14, <3>1 DEF s
    <3>3. Schema!Torn => Schema!Torn'
      BY <1>12, <1>14
    <3>4. s.do = "tmp" => next.schema = db.schema
      BY <1>2, <1>10, <2>2 DEF Effective
    <3> QED BY <1>3, <1>5, <1>14, <2>2, <3>2, <3>3, <3>4
  <2> QED BY <2>1, <2>2
<1>18. next.rows \subseteq d.rows /\ d.rows \subseteq db.rows
  BY <1>2, <1>5, <1>9, <1>10, <1>11, <1>13
<1>19. cmd'.open => cmd'.work.rows \subseteq db'.rows
  <2>1. CASE cmd.open \/ o
    BY <1>3, <1>6, <1>14, <1>18, <2>1
  <2>2. CASE ~ (cmd.open \/ o)
    BY <1>6, <1>14, <2>2
  <2> QED BY <2>1, <2>2
<1>20. ASSUME ~torn, cmd.dir = "down", cmd.rev = 1
       PROVE  \A j \in 1 .. i : db'.rows \intersect Schema!RowsOf(P[j].of) = {}
  <2>1. Means = {"drop"}
    BY <1>20 DEF Means
  <2>2. s.do = "drop" /\ \A j \in 1 .. i : P[j].do = "drop"
    <3>1. \A j \in 1 .. Len(P) : P[j].do = "drop"
      BY <1>1, <2>1 DEF Builds
    <3> QED BY <1>1, <1>15, <3>1 DEF s
  <2>3. ~cmd.open /\ ~o
    BY <1>5, <1>14, <2>2 DEF Schema!Opens
  <2>4. db' = next /\ d = db
    BY <1>3, <1>10, <1>14, <2>3
  <2> QED BY <1>2, <1>5, <1>14, <1>18, <1>20, <2>2, <2>4 DEF s
<1>21. ~cmd.hindered => ~torn /\ next.second = Under(P, i)
  BY <1>2, <1>4, <1>5
<1>22. ~torn => next.schema = Changed(base, P, i)
  BY <1>2, <1>4, <1>5
<1>23. OnTheWay'
  <2>1. base' = base
    BY <1>8 DEF base, Schema!SchemaAt, Schema!Given, Schema!Taken
  <2>2. (cmd.pc - 1)' = i /\ Schema!Program' = P
    BY <1>6, <1>7, <1>15
  <2>3. (Schema!SchemaAt(db.stamp))' = base
    BY <2>1 DEF base
  <2> QED BY <1>5, <1>6, <1>7, <1>8, <1>9, <1>15, <1>16, <1>17, <1>19, <1>20, <1>21, <1>22,
             <2>2, <2>3 DEF OnTheWay
<1> QED BY <1>7, <1>9, <1>23 DEF TellInv

\* A command that begins, on a schema that is whole unless torn.
LEMMA BeginsTell ==
  ASSUME IsDatabase(db'), db'.stamp \in 0 .. 6, torn' = torn, torn \in BOOLEAN,
         ~torn => db'.schema = Schema!SchemaAt(db'.stamp),
         NEW dir \in {"up", "down"}, NEW to, cmd' = Schema!Revision(dir, to, db'),
         IsCommand(cmd')
  PROVE  TellInv'
<1>1. /\ cmd'.dir = dir /\ cmd'.pc = 1 /\ cmd'.open = FALSE
      /\ cmd'.rev = (IF dir = "up" THEN db'.stamp + 1 ELSE db'.stamp)
      /\ cmd'.hindered = (torn \/ db'.second # {})
  BY DEF Schema!Revision
<1>2. ~Schema!Idle' /\ Schema!Seen' = db'
  BY <1>1 DEF Schema!Idle, Schema!Seen
<1>3. cmd'.pc - 1 = 0 /\ \A i \in 1 .. cmd'.pc - 1 : FALSE
  BY <1>1
<1>4. Len(Schema!Program') \in Nat
  <2>1. IsCommand(cmd)'
    OBVIOUS
  <2>2. Builds(Schema!Program, Means, Plus, Minus, Rebuilt[cmd.rev])'
    BY <2>1, Programs, PTL
  <2> QED BY <2>2 DEF Builds
<1>5. Schema!Torn' <=> torn
  BY <1>3 DEF Schema!Torn
<1>6. /\ Changed(Schema!SchemaAt(db'.stamp), Schema!Program', 0) = Schema!SchemaAt(db'.stamp)
      /\ Under(Schema!Program', 0) = {}
  BY NothingYet
<1>7. OnTheWay'
  <2>1. ~cmd'.hindered => ~torn /\ db'.second = {}
    BY <1>1
  <2>2. ~cmd'.open /\ ~ (\E j \in 1 .. cmd'.pc - 1 : Schema!Opens(Schema!Program'[j]))
    BY <1>1, <1>3
  <2>3. cmd'.pc - 1 = 0 /\ 0 <= Len(Schema!Program')
    BY <1>3, <1>4
  <2>4. /\ ~cmd'.hindered => ~torn' /\ Schema!Seen'.second = Under(Schema!Program', cmd'.pc - 1)
        /\ ~torn' => Schema!Seen'.schema
                       = Changed(Schema!SchemaAt(db'.stamp), Schema!Program', cmd'.pc - 1)
        /\ ~Schema!Torn' => db'.schema = Schema!SchemaAt(db'.stamp)
    BY <1>2, <1>5, <1>6, <2>1, <2>3
  <2>5. cmd'.rev = IF cmd'.dir = "up" THEN db'.stamp + 1 ELSE db'.stamp
    BY <1>1
  <2>6. \A i \in 1 .. cmd'.pc - 1 : db'.rows \intersect Schema!RowsOf(Schema!Program'[i].of) = {}
    BY <1>3
  <2> QED BY <2>2, <2>3, <2>4, <2>5, <2>6, Zenon DEF OnTheWay
<1> QED BY <1>2, <1>7 DEF TellInv

LEMMA CommitRevisionTells ==
  ASSUME SchemaInv, TellInv, Schema!CommitRevision
  PROVE  TellInv'
<1> DEFINE stamp == IF cmd.dir = "up" THEN cmd.rev ELSE cmd.rev - 1
           d == [Schema!Seen EXCEPT !.stamp = stamp]
<1>1. /\ IsCommand(cmd) /\ OnTheWay /\ db.stamp \in 0 .. 6 /\ SchemaInv'
      /\ Builds(Schema!Program, Means, Plus, Minus, Rebuilt[cmd.rev])
  BY CommitRevisionKeeps, Programs
     DEF SchemaInv, TellInv, Schema!CommitRevision, Schema!Idle, Schema!NoCommand
<1>2. IsDatabase(Schema!Seen)
  BY <1>1 DEF Schema!Seen, SchemaInv, IsCommand
<1>3. d.stamp = stamp /\ d.schema = Schema!Seen.schema
  BY <1>2 DEF IsDatabase
<1>4. /\ db' = d /\ torn' = torn
      /\ cmd' = IF stamp = cmd.to THEN Schema!NoCommand
                 ELSE Schema!Revision(cmd.dir, cmd.to, db')
  BY DEF Schema!CommitRevision
<1>5. cmd.pc - 1 = Len(Schema!Program)
  BY <1>1 DEF Schema!CommitRevision, OnTheWay, IsCommand, Builds
<1>6. ~torn => Schema!Seen.schema = Schema!SchemaAt(stamp)
  <2>1. ~torn => Schema!Seen.schema = Changed(Schema!SchemaAt(db.stamp), Schema!Program,
                                              Len(Schema!Program))
    BY <1>1, <1>5 DEF OnTheWay
  <2>2. Changed(Schema!SchemaAt(db.stamp), Schema!Program, Len(Schema!Program))
          = (Schema!SchemaAt(db.stamp) \ Minus) \union Plus
    BY <1>1, AllDone
  <2>3. (Schema!SchemaAt(db.stamp) \ Minus) \union Plus = Schema!SchemaAt(stamp)
    BY <1>1, CommandGrounds
  <2> QED BY <2>1, <2>2, <2>3
<1> HIDE DEF d, stamp
<1>7. ~torn => db'.schema = Schema!SchemaAt(db'.stamp)
  BY <1>3, <1>4, <1>6
<1>8. torn \in BOOLEAN
  BY DEF TellInv
<1>9. CASE cmd' = Schema!NoCommand
  BY <1>4, <1>7, <1>8, <1>9 DEF TellInv, Schema!Idle, Schema!NoCommand, Schema!SchemaAt,
     Schema!Given, Schema!Taken
<1>10. CASE cmd' # Schema!NoCommand
  <2>1. IsCommand(cmd') /\ IsDatabase(db') /\ db'.stamp \in 0 .. 6
    <3>1. Schema!Latest = 6
      BY <1>1, Programs
    <3> QED BY <1>1, <1>10, <3>1 DEF SchemaInv
  <2>2. cmd.dir \in {"up", "down"} /\ cmd' = Schema!Revision(cmd.dir, cmd.to, db')
    BY <1>1, <1>4, <1>10, Programs
  <2> QED BY <1>4, <1>7, <1>8, <2>1, <2>2, BeginsTell
<1> QED BY <1>9, <1>10

\* A command that ends before its time.
LEMMA EndsTell ==
  ASSUME TellInv, ~Schema!Idle, cmd' = Schema!NoCommand, torn' = Schema!Torn, db' = db
  PROVE  TellInv'
<1>1. OnTheWay /\ torn \in BOOLEAN
  BY DEF TellInv
<1>2. torn' \in BOOLEAN
  BY <1>1 DEF Schema!Torn
<1>3. ~torn' => db'.schema = Schema!SchemaAt(db'.stamp)
  BY <1>1 DEF OnTheWay
<1> QED BY <1>2, <1>3 DEF TellInv, Schema!Idle, Schema!NoCommand, Schema!SchemaAt, Schema!Given,
     Schema!Taken

\* The application can write only where its columns are, and so not while the
\* first revision is taken back.
LEMMA WriteTells ==
  ASSUME SchemaInv, TellInv, NEW k, Schema!Write(k)
  PROVE  TellInv'
<1>1. PICK new : db' = [db EXCEPT !.rows = @ \union new]
  BY DEF Schema!Write
<1>2. cmd' = cmd /\ torn' = torn /\ IsDatabase(db) /\ Schema!Usable /\ ~Schema!Locked
  BY DEF Schema!Write, SchemaInv
<1>3. /\ db'.schema = db.schema /\ db'.stamp = db.stamp /\ db'.second = db.second
      /\ db.rows \subseteq db'.rows
  BY <1>1, <1>2 DEF IsDatabase
<1>4. /\ Schema!Program' = Schema!Program /\ Schema!Idle' = Schema!Idle
      /\ Schema!Torn' = Schema!Torn
      /\ Schema!SchemaAt(db'.stamp) = Schema!SchemaAt(db.stamp)
  BY <1>2, <1>3 DEF Schema!Program, Schema!Idle, Schema!Torn
<1>5. CASE Schema!Idle
  BY <1>2, <1>3, <1>4, <1>5 DEF TellInv
<1>6. CASE ~Schema!Idle
  <2>1. IsCommand(cmd) /\ OnTheWay /\ ~cmd.open /\ db.stamp \in 0 .. 6
        /\ Builds(Schema!Program, Means, Plus, Minus, Rebuilt[cmd.rev])
    BY <1>2, <1>6, Programs
       DEF SchemaInv, TellInv, Schema!Locked, Schema!Idle, Schema!NoCommand
  <2>2. Schema!Seen = db /\ Schema!Seen' = db'
    BY <1>2, <2>1 DEF Schema!Seen
  <2>3. ~ (~torn /\ cmd.dir = "down" /\ cmd.rev = 1)
    <3> SUFFICES ASSUME ~torn, cmd.dir = "down", cmd.rev = 1 PROVE FALSE
      OBVIOUS
    <3>1. db.schema = Changed(Schema!SchemaAt(1), Schema!Program, cmd.pc - 1)
      BY <2>1, <2>2 DEF OnTheWay
    <3>2. AddedBy(Schema!Program, cmd.pc - 1) \subseteq Plus
      <4>1. cmd.pc - 1 \in Nat /\ Len(Schema!Program) \in Nat /\ cmd.pc - 1 <= Len(Schema!Program)
        BY <2>1 DEF IsCommand, OnTheWay, Builds
      <4>2. \A j \in 1 .. cmd.pc - 1 : j \in 1 .. Len(Schema!Program)
        BY <4>1
      <4> QED BY <2>1, <4>2, ByWhich DEF Builds
    <3>3. Plus = {}
      BY Parts DEF Plus
    <3>4. "auth_version" \in db.schema
      BY <1>2 DEF Schema!Usable
    <3> QED BY <3>1, <3>2, <3>3, <3>4, FirstSchema DEF Changed
  <2>4. OnTheWay'
    BY <1>2, <1>3, <1>4, <2>1, <2>2, <2>3 DEF OnTheWay
  <2> QED BY <1>2, <1>4, <1>6, <2>4 DEF TellInv
<1> QED BY <1>5, <1>6

LEMMA TellStep ==
  ASSUME SchemaInv, TellInv, Schema!Next
  PROVE  TellInv'
<1>1. Schema!Latest = 6
  BY DEF Schema!Latest, Schema!Upgrades
<1>2. SchemaInv'
  BY SchemaStep
<1>3. ASSUME Schema!Idle, db' = db, torn' = torn, NEW dir \in {"up", "down"}, NEW to,
             cmd' = Schema!Revision(dir, to, db)
      PROVE  TellInv'
  <2>1. IsCommand(cmd')
    BY <1>2, <1>3 DEF SchemaInv, Schema!Revision, Schema!NoCommand
  <2>2. IsDatabase(db') /\ db'.stamp \in 0 .. 6
    BY <1>1, <1>2 DEF SchemaInv
  <2>3. torn \in BOOLEAN /\ (~torn => db'.schema = Schema!SchemaAt(db'.stamp))
    BY <1>3 DEF TellInv
  <2> QED BY <1>3, <2>1, <2>2, <2>3, BeginsTell
<1>4. CASE Schema!upgrade
  BY <1>3, <1>4 DEF Schema!upgrade
<1>5. ASSUME NEW to \in 0 .. Schema!Latest, Schema!downgrade(to) PROVE TellInv'
  BY <1>3, <1>5 DEF Schema!downgrade
<1>6. CASE Schema!StatementFails \/ Schema!Interrupted
  BY <1>6, EndsTell DEF Schema!StatementFails, Schema!Interrupted
<1> QED BY <1>4, <1>5, <1>6, StatementTells, CommitRevisionTells, WriteTells DEF Schema!Next

\* What a command has come to, kept by its statements, by the end of it before
\* its time, and by the application at work.
THEOREM TellInvariance == AllSpec => [](SchemaInv /\ TellInv)
<1>1. AllInit => TellInv
  <2> SUFFICES ASSUME AllInit PROVE TellInv
    OBVIOUS
  <2>1. cmd = Schema!NoCommand /\ torn = FALSE /\ db.schema = {} /\ db.stamp = 0
    BY DEF AllInit, Schema!Init, Schema!NoDatabase
  <2> QED BY <2>1, FirstSchema DEF TellInv, Schema!Idle, Schema!NoCommand
<1>2. ASSUME SchemaInv, TellInv, [AllNext]_<<vars, joiningVars, schemaVars>> PROVE TellInv'
  <2>1. CASE Schema!Next
    BY <1>2, <2>1, TellStep
  <2>2. CASE UNCHANGED schemaVars
    <3>1. db' = db /\ cmd' = cmd /\ torn' = torn
      BY <2>2 DEF schemaVars
    <3> QED BY <1>2, <3>1 DEF TellInv, OnTheWay, Schema!Idle, Schema!Program, Schema!Seen,
               Schema!Torn
  <2> QED BY <1>2, <2>1, <2>2 DEF AllNext
<1> QED BY <1>1, <1>2, SchemaInvariance, PTL DEF AllSpec

\* alembic_version tells the schema (migrations/versions, env.py): an upgrade of
\* an existing file is done as a whole or not at all, wherever it fails or is
\* cut off, and a downgrade takes back exactly what the upgrade did, as long as
\* no command that commits statement by statement was cut off half way.
THEOREM StampTells == AllSpec => []StampTellsSchema
<1>1. SchemaInv /\ TellInv => StampTellsSchema
  <2> SUFFICES ASSUME SchemaInv, TellInv, ~torn,
                      Schema!Idle \/ (cmd.dir = "up" /\ cmd.rev > 1)
               PROVE  db.schema = Schema!SchemaAt(db.stamp)
    BY DEF StampTellsSchema, Schema!StampTellsSchema
  <2>1. CASE Schema!Idle
    BY <2>1 DEF TellInv
  <2>2. CASE ~Schema!Idle
    <3>1. IsCommand(cmd) /\ OnTheWay /\ cmd.dir = "up" /\ cmd.rev > 1
      BY <2>2 DEF SchemaInv, TellInv, Schema!Idle, Schema!NoCommand
    <3>2. cmd.rev \in 2 .. 6 /\ cmd.pc \in Nat \ {0}
      BY <3>1, Programs DEF IsCommand
    <3>3. /\ Schema!Program[1].do = "tmp" /\ Schema!Program[2].do = "copy"
      BY <3>1, <3>2, UpBeginsWithBatch DEF Schema!Program, Begins
    <3>4. ~Schema!Torn
      <4> SUFFICES ASSUME NEW i \in 1 .. cmd.pc - 1, Schema!Program[i].do # "tmp",
                          \A j \in 1 .. i : ~Schema!Opens(Schema!Program[j])
                   PROVE  FALSE
        BY DEF Schema!Torn
      <4>1. i # 1 /\ i \in Nat
        BY <3>2, <3>3
      <4>2. 2 \in 1 .. i
        BY <4>1
      <4> QED BY <3>3, <4>2 DEF Schema!Opens
    <3> QED BY <3>1, <3>4 DEF OnTheWay
  <2> QED BY <2>1, <2>2
<1> QED BY <1>1, TellInvariance, PTL

\* The tables that hold on to users are dropped before it.
LEMMA UsersLast ==
  \A i \in 1 .. Len(Schema!NoFoundation) :
    Schema!NoFoundation[i].of = "users" =>
      /\ 3 \in 1 .. i - 1 /\ Schema!NoFoundation[3].of = "transfers"
      /\ 5 \in 1 .. i - 1 /\ Schema!NoFoundation[5].of = "products"
<1> DEFINE Last == <<"chat_messages", "wallets", "transfers", "reports", "products",
                     "direct_conversations", "audit_logs", "users">>
<1>1. /\ Len(Last) = 8
      /\ Last[1] = "chat_messages" /\ Last[2] = "wallets" /\ Last[3] = "transfers"
      /\ Last[4] = "reports" /\ Last[5] = "products" /\ Last[6] = "direct_conversations"
      /\ Last[7] = "audit_logs" /\ Last[8] = "users"
  OBVIOUS
<1>2. Schema!NoFoundation = [i \in 1 .. 8 |-> Schema!DropTable(Last[i], Schema!FirstParts(Last[i]))]
  BY <1>1 DEF Schema!NoFoundation
<1> HIDE DEF Last
<1>3. Len(Schema!NoFoundation) = 8 /\ \A i \in 1 .. 8 : Schema!NoFoundation[i].of = Last[i]
  BY <1>2 DEF Schema!DropTable
<1>4. \A i \in 1 .. 8 : i = 1 \/ i = 2 \/ i = 3 \/ i = 4 \/ i = 5 \/ i = 6 \/ i = 7 \/ i = 8
  OBVIOUS
<1>5. \A i \in 1 .. 8 : Last[i] = "users" => i = 8
  BY <1>1, <1>4
<1>6. 3 \in 1 .. 8 /\ 5 \in 1 .. 8 /\ 3 \in 1 .. 8 - 1 /\ 5 \in 1 .. 8 - 1
  OBVIOUS
<1> QED BY <1>1, <1>3, <1>5, <1>6

LEMMA CauseOfFailure ==
  ASSUME SchemaInv, TellInv, Schema!StatementFails, ~cmd.hindered
  PROVE  \/ cmd.rev = 5 /\ "decided" \in db.rows
         \/ cmd.rev = 2 /\ db.rows \intersect Schema!Restricting # {}
<1> DEFINE P == Schema!Program  i == cmd.pc  s == P[i]  d == Schema!Seen
           base == Schema!SchemaAt(db.stamp)
<1>1. ~Schema!Idle /\ cmd.pc <= Len(P) /\ Schema!Fails(s, d)
  BY DEF Schema!StatementFails
<1>2. /\ IsCommand(cmd) /\ OnTheWay /\ i \in 1 .. Len(P)
      /\ Builds(P, Means, Plus, Minus, Rebuilt[cmd.rev])
      /\ Grounds(base, Plus, Minus, Rebuilt[cmd.rev])
      /\ s.do = "drop" => cmd.rev = 1 /\ cmd.dir = "down"
  BY <1>1, NextStatement
<1>3. cmd.rev \in 1 .. 6 /\ cmd.dir \in {"up", "down"}
  BY <1>2, Programs
<1>4. /\ ~torn /\ d.second = Under(P, i - 1) /\ d.schema = Changed(base, P, i - 1)
      /\ d.rows \subseteq db.rows
  <2>1. ~torn /\ d.second = Under(P, i - 1) /\ d.schema = Changed(base, P, i - 1)
    BY <1>2 DEF OnTheWay
  <2>2. d.rows \subseteq db.rows
    BY <1>2 DEF OnTheWay, Schema!Seen
  <2> QED BY <2>1, <2>2
<1>5. Follows(P, i, Rebuilt[cmd.rev])
  BY <1>2 DEF Builds
<1>6. \/ "ck_reports_review_consistency" \in Plus /\ "decided" \in d.rows
      \/ /\ s.do \in {"drop", "replace"} /\ s.of = "users"
         /\ d.rows \intersect Schema!Restricting # {}
  <2> HIDE DEF P, i, d, base
  <2> QED BY <1>1, <1>2, <1>4, FailsFor
<1>7. CASE "ck_reports_review_consistency" \in Plus /\ "decided" \in d.rows
  <2>1. "ck_reports_review_consistency" \in Adds[5]
    BY Parts DEF Schema!Review
  <2>2. cmd.dir = "up"
    <3>1. \A n \in 1 .. 6 : n = 1 \/ n = 2 \/ n = 3 \/ n = 4 \/ n = 5 \/ n = 6
      OBVIOUS
    <3>2. "ck_reports_review_consistency" \notin Takes[cmd.rev]
      BY <1>3, <3>1, Parts
    <3> QED BY <1>7, <3>2 DEF Plus
  <2>3. cmd.rev = 5
    BY <1>3, <1>7, <2>1, <2>2, NamesAreApart DEF Plus
  <2> QED BY <1>4, <1>7, <2>3
<1>8. CASE s.do = "replace" /\ s.of = "users" /\ d.rows \intersect Schema!Restricting # {}
  <2>1. "users" \in Rebuilt[cmd.rev]
    BY <1>5, <1>8 DEF Follows
  <2>2. cmd.rev = 2
    <3>1. \A n \in 1 .. 6 : n = 1 \/ n = 2 \/ n = 3 \/ n = 4 \/ n = 5 \/ n = 6
      OBVIOUS
    <3> QED BY <1>3, <2>1, <3>1, Parts
  <2> QED BY <1>4, <1>8, <2>2
<1>9. CASE s.do = "drop" /\ s.of = "users" /\ d.rows \intersect Schema!Restricting # {}
  <2>1. cmd.rev = 1 /\ cmd.dir = "down" /\ P = Schema!NoFoundation
    BY <1>2, <1>9 DEF Schema!Program, Schema!Downgrades
  <2>2. /\ 3 \in 1 .. i - 1 /\ P[3].of = "transfers"
        /\ 5 \in 1 .. i - 1 /\ P[5].of = "products"
    BY <1>2, <1>9, <2>1, UsersLast
  <2>3. \A j \in 1 .. i - 1 : db.rows \intersect Schema!RowsOf(P[j].of) = {}
    BY <1>2, <1>4, <2>1 DEF OnTheWay
  <2>4. "transfers" \notin db.rows /\ "products" \notin db.rows
    BY <2>2, <2>3 DEF Schema!RowsOf
  <2> QED BY <1>4, <1>9, <2>4 DEF Schema!Restricting
<1> QED BY <1>6, <1>7, <1>8, <1>9

\* A migration gives up for a known reason only (migrations/versions): something
\* left of an interrupted one; decided reports, which lost their reviewers in a
\* downgrade, under the check revision 5 adds; products and payments that hold on
\* to the table of users which revision 2 rebuilds.
THEOREM FailuresHaveCauses == AllSpec => FailureHasCause
<1>1. SchemaInv /\ TellInv /\ [AllNext]_<<vars, joiningVars, schemaVars>> =>
        [Schema!StatementFails =>
           \/ cmd.hindered
           \/ cmd.rev = 5 /\ "decided" \in db.rows
           \/ cmd.rev = 2 /\ db.rows \intersect Schema!Restricting # {}]_Schema!vars
  BY CauseOfFailure
<1> QED
  BY <1>1, TellInvariance, PTL DEF AllSpec, FailureHasCause, Schema!FailureHasCause
=============================================================================
