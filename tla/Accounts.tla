------------------------------ MODULE Accounts ------------------------------
(***************************************************************************)
(* Who is let in: account rows, login sessions and chat sockets.           *)
(*                                                                         *)
(* Every session cookie and every registered socket carries the            *)
(* auth_version of its account at the time it was made; raising the        *)
(* version is how the code revokes them.  The handlers read the account    *)
(* row, spend time (scrypt, the wait for SQLite's write lock), and then    *)
(* write what they computed from the row they read: between the two steps  *)
(* the threads of other requests run.  The write itself, a flush and a     *)
(* commit under the write lock, is one step.                               *)
(***************************************************************************)
EXTENDS Integers, FiniteSets

CONSTANTS
  Users, Admins,   \* accounts; Admins have role "admin", fixed at creation
  Tabs,            \* browsers of each user, with one chat page each
  Threads,         \* request threads
  Writers,         \* threads that may run handlers that change accounts
  Passwords,
  MaxVersion       \* bound on auth_version

ASSUME AccountAssumption ==
  /\ Admins \subseteq Users /\ Writers \subseteq Threads
  /\ MaxVersion \in Nat \ {0}

VARIABLES
  account,    \* rows: [status, version, password]
  cookie,     \* session cookie of each browser
  registry,   \* auth_version under which a browser's socket is registered, or 0
  thread,     \* what each request thread is doing
  overlapped  \* history: browsers whose last connect overlapped a request that
              \* was disconnecting the sockets of their user

vars == <<account, cookie, registry, thread, overlapped>>

Browsers == Users \X Tabs
Owner(b) == b[1]
Versions == 1 .. MaxVersion

\* `password' in a cookie is history: the password its owner last proved.
NoCookie == [version |-> 0, password |-> "none"]

Resting == [op |-> "none", pc |-> "idle"]

Active(u) == account[u].status = "active"

\* load_user: the cookie of browser b is accepted.
Live(b) ==
  /\ cookie[b] # NoCookie
  /\ Active(Owner(b))
  /\ cookie[b].version = account[Owner(b)].version

\* The registered socket of browser b passes the checks of connections.py.
SocketLive(b) ==
  /\ registry[b] # 0
  /\ Active(Owner(b))
  /\ registry[b] = account[Owner(b)].version

\* prune_stale_connections
Pruned == [b \in Browsers |-> IF SocketLive(b) THEN registry[b] ELSE 0]

Init ==
  /\ \E p \in Passwords :
       account = [u \in Users |->
                    [status |-> "active", version |-> 1, password |-> p]]
  /\ cookie = [b \in Browsers |-> NoCookie]
  /\ registry = [b \in Browsers |-> 0]
  /\ thread = [t \in Threads |-> Resting]
  /\ overlapped = {}

Idle(t) == thread[t] = Resting
At(t, op, pc) == thread[t].op = op /\ thread[t].pc = pc
Goto(t, pc) == thread' = [thread EXCEPT ![t].pc = pc]
Finish(t) == thread' = [thread EXCEPT ![t] = Resting]

-----------------------------------------------------------------------------
(* POST /auth/login *)

\* authenticate_user: read the row, verify the typed password against it.
LoginRead(t, b) ==
  /\ Idle(t) /\ ~Live(b) /\ Active(Owner(b))
  /\ thread' = [thread EXCEPT ![t] =
       [op |-> "login", pc |-> "verified", browser |-> b,
        seen |-> account[Owner(b)]]]
  /\ UNCHANGED <<account, cookie, registry, overlapped>>

Session(row) == [version |-> row.version, password |-> row.password]

\* Mutant: the session takes its version from the row as it is by now.
LoginEstablish_Reread(t) ==
  LET b == thread[t].browser IN
  /\ At(t, "login", "verified")
  /\ cookie' = [cookie EXCEPT ![b] =
       [Session(thread[t].seen) EXCEPT !.version = account[Owner(b)].version]]
  /\ Finish(t)
  /\ UNCHANGED <<account, registry, overlapped>>

\* establish_authenticated_session, with the row that was verified.
LoginEstablish(t) ==
  /\ At(t, "login", "verified")
  /\ cookie' = [cookie EXCEPT ![thread[t].browser] = Session(thread[t].seen)]
  /\ Finish(t)
  /\ UNCHANGED <<account, registry, overlapped>>

-----------------------------------------------------------------------------
(* POST /me/password *)

\* load_user read the row; change_password verifies the current password and
\* refuses an unchanged one, both against that row.
PasswordLoad(t, b, new) ==
  /\ Idle(t) /\ t \in Writers /\ Live(b)
  /\ new # account[Owner(b)].password
  /\ thread' = [thread EXCEPT ![t] =
       [op |-> "password", pc |-> "loaded", browser |-> b, target |-> Owner(b),
        new |-> new, seen |-> account[Owner(b)]]]
  /\ UNCHANGED <<account, cookie, registry, overlapped>>

\* auth_version += 1 on the loaded row.
Raised(row) == row.version + 1

PasswordCommit(t) ==
  LET u == thread[t].target  row == thread[t].seen IN
  /\ At(t, "password", "loaded")
  /\ row.version < MaxVersion
  /\ account' = [account EXCEPT ![u].password = thread[t].new,
                                ![u].version = Raised(row)]
  /\ Goto(t, "disconnect")
  /\ UNCHANGED <<cookie, registry, overlapped>>

\* The new cookie holds the version the row has once the commit expired it.
PasswordEstablish(t) ==
  /\ At(t, "password", "disconnected")
  /\ cookie' = [cookie EXCEPT ![thread[t].browser] =
       [version |-> thread[t].seen.version, password |-> thread[t].new]]
  /\ Finish(t)
  /\ UNCHANGED <<account, registry, overlapped>>

-----------------------------------------------------------------------------
(* POST /admin/users/<username>/status *)

\* admin_required and the password check of _reauthenticate.
StatusAdmit(t, b, target, new) ==
  /\ Idle(t) /\ t \in Writers /\ Live(b) /\ Owner(b) \in Admins
  /\ thread' = [thread EXCEPT ![t] =
       [op |-> "status", pc |-> "admitted", browser |-> b, target |-> target,
        new |-> new, seen |-> account[Owner(b)]]]
  /\ UNCHANGED <<account, cookie, registry, overlapped>>

OtherActiveAdmins(u) == {a \in Admins : Active(a)} \ {u}

SelfProtected(actor, u, new) == new = "dormant" /\ u = actor

LastAdmin(u, new) ==
  /\ new = "dormant" /\ u \in Admins /\ Active(u)
  /\ OtherActiveAdmins(u) = {}

\* change_user_status reads its target, counts the others, may refuse.  The
\* session keeps the actor's row as load_user read it; any other target is new.
StatusLoad(t) ==
  LET u == thread[t].target  new == thread[t].new IN
  /\ At(t, "status", "admitted")
  /\ IF SelfProtected(Owner(thread[t].browser), u, new) \/ LastAdmin(u, new)
     THEN Finish(t)
     ELSE thread' = [thread EXCEPT ![t].pc = "loaded",
            ![t].seen = IF u = Owner(thread[t].browser) THEN @ ELSE account[u]]
  /\ UNCHANGED <<account, cookie, registry, overlapped>>

\* Mutant: suspending and restoring leaves auth_version alone.
SetStatus_SameVersion(u, row, new) ==
  account' = [account EXCEPT ![u].status = new]

SetStatus(u, row, new) ==
  account' = [account EXCEPT ![u].status = new, ![u].version = Raised(row)]

StatusCommit(t) ==
  LET u == thread[t].target  row == thread[t].seen  new == thread[t].new IN
  /\ At(t, "status", "loaded")
  /\ \/ row.status = new /\ Finish(t) /\ UNCHANGED account
     \/ /\ row.status # new /\ row.version < MaxVersion
        /\ SetStatus(u, row, new)
        /\ Goto(t, "disconnect")
  /\ UNCHANGED <<cookie, registry, overlapped>>

-----------------------------------------------------------------------------
(* POST /reports/users/<username>/new, as far as it touches the account; *)
(* the reporters are users outside Users.                                *)

ReportLoad(t, target) ==
  /\ Idle(t) /\ t \in Writers /\ Active(target)
  /\ thread' = [thread EXCEPT ![t] =
       [op |-> "report", pc |-> "loaded", target |-> target,
        seen |-> account[target]]]
  /\ UNCHANGED <<account, cookie, registry, overlapped>>

\* Mutant: administrators are suspended by reports like everybody else.
Suspendable_Anybody(u) == TRUE

Suspendable(u) == u \notin Admins

\* The report may be the one that reaches the threshold (module Moderation
\* counts); the loaded row is active, or ReportLoad had refused.
ReportCommit(t) ==
  LET u == thread[t].target  row == thread[t].seen IN
  /\ At(t, "report", "loaded")
  /\ \/ Finish(t) /\ UNCHANGED account
     \/ /\ Suspendable(u) /\ row.version < MaxVersion
        /\ SetStatus(u, row, "dormant")
        /\ Goto(t, "disconnect")
  /\ UNCHANGED <<cookie, registry, overlapped>>

-----------------------------------------------------------------------------
(* POST /auth/logout *)

\* Mutant: the session is cleared, the sockets are forgotten.
LogoutAdmit_KeepSockets(t, b) ==
  /\ Idle(t) /\ Live(b)
  /\ thread' = [thread EXCEPT ![t] =
       [op |-> "logout", pc |-> "disconnected", browser |-> b,
        target |-> Owner(b), seen |-> account[Owner(b)]]]
  /\ UNCHANGED <<account, cookie, registry, overlapped>>

LogoutAdmit(t, b) ==
  /\ Idle(t) /\ Live(b)
  /\ thread' = [thread EXCEPT ![t] =
       [op |-> "logout", pc |-> "disconnect", browser |-> b,
        target |-> Owner(b), seen |-> account[Owner(b)]]]
  /\ UNCHANGED <<account, cookie, registry, overlapped>>

LogoutClear(t) ==
  /\ At(t, "logout", "disconnected")
  /\ cookie' = [cookie EXCEPT ![thread[t].browser] = NoCookie]
  /\ Finish(t)
  /\ UNCHANGED <<account, registry, overlapped>>

-----------------------------------------------------------------------------
(* Sockets: chat/connections.py and the connect handler. *)

Dropped(u) == [b \in Browsers |-> IF Owner(b) = u THEN 0 ELSE registry[b]]

\* disconnect_user_sockets, after the commit or before the session is cleared.
\* Password change and logout go on, the others are done.  The row of a changed
\* password is read anew here (current_user.get_id() after the commit).
DisconnectUserSockets(t) ==
  /\ thread[t].pc = "disconnect"
  /\ registry' = Dropped(thread[t].target)
  /\ IF thread[t].op \in {"password", "logout"}
     THEN thread' = [thread EXCEPT ![t].pc = "disconnected",
                                   ![t].seen = account[thread[t].target]]
     ELSE Finish(t)
  /\ overlapped' = overlapped \union
       {thread[s].browser : s \in {c \in Threads :
          At(c, "connect", "checked") /\ Owner(thread[c].browser) = thread[t].target}}
  /\ UNCHANGED <<account, cookie>>

\* Thread c is about to disconnect u's sockets, or has and is not yet done.
Disconnects(c, u) ==
  /\ thread[c].pc \in {"loaded", "disconnect", "disconnected"}
  /\ thread[c].target = u

\* connect_chat up to _connected_user.
ConnectCheck(t, b) ==
  /\ Idle(t) /\ Live(b) /\ registry[b] = 0
  /\ \A c \in Threads : At(c, "connect", "checked") => thread[c].browser # b
  /\ registry' = Pruned
  /\ thread' = [thread EXCEPT ![t] =
       [op |-> "connect", pc |-> "checked", browser |-> b,
        seen |-> account[Owner(b)]]]
  /\ overlapped' = IF \E c \in Threads : Disconnects(c, Owner(b))
                   THEN overlapped \union {b} ELSE overlapped \ {b}
  /\ UNCHANGED <<account, cookie>>

\* registry.add
ConnectAdd(t) ==
  /\ At(t, "connect", "checked")
  /\ registry' = [registry EXCEPT ![thread[t].browser] = thread[t].seen.version]
  /\ Finish(t)
  /\ UNCHANGED <<account, cookie, overlapped>>

\* Any socket event prunes the registry first; so does every broadcast.
ChatEvent ==
  /\ \E b \in Browsers : registry[b] # 0
  /\ registry' = Pruned
  /\ UNCHANGED <<account, cookie, thread, overlapped>>

-----------------------------------------------------------------------------
\* A commit fails: rollback, an error page, nothing else.
CommitFails(t) ==
  /\ thread[t].pc = "loaded"
  /\ Finish(t)
  /\ UNCHANGED <<account, cookie, registry, overlapped>>

\* The process restarts: threads and registry are memory, cookies and rows not.
Restart ==
  /\ thread' = [t \in Threads |-> Resting]
  /\ registry' = [b \in Browsers |-> 0]
  /\ overlapped' = {}
  /\ UNCHANGED <<account, cookie>>

Step(t) ==
  \/ LoginEstablish(t) \/ PasswordCommit(t) \/ PasswordEstablish(t)
  \/ StatusLoad(t) \/ StatusCommit(t) \/ ReportCommit(t)
  \/ LogoutClear(t) \/ DisconnectUserSockets(t) \/ ConnectAdd(t)
  \/ CommitFails(t)

Begin(t) ==
  \/ \E b \in Browsers :
       \/ LoginRead(t, b) \/ LogoutAdmit(t, b) \/ ConnectCheck(t, b)
       \/ \E new \in Passwords : PasswordLoad(t, b, new)
       \/ \E target \in Users, new \in {"active", "dormant"} :
            StatusAdmit(t, b, target, new)
  \/ \E target \in Users : ReportLoad(t, target)

Next == (\E t \in Threads : Begin(t) \/ Step(t)) \/ ChatEvent \/ Restart

Spec == Init /\ [][Next]_vars

-----------------------------------------------------------------------------
(* Properties. *)

Row == [status : {"active", "dormant"}, version : Versions, password : Passwords]

TypeOK ==
  /\ account \in [Users -> Row]
  /\ cookie \in [Browsers ->
       {NoCookie} \union [version : Versions, password : Passwords]]
  /\ registry \in [Browsers -> 0 .. MaxVersion] /\ overlapped \subseteq Browsers
  /\ \A t \in Threads : thread[t] = Resting \/ thread[t].seen \in Row

\* Somebody can always administer the market.
SomeAdminActive == \E a \in Admins : Active(a)

\* A session that is let in was made by somebody who proved the password the
\* account has now: changing it throws everybody else out.
NoSessionOutlivesPassword ==
  \A b \in Browsers : Live(b) => cookie[b].password = account[Owner(b)].password

\* Once refused, a cookie or socket is refused for ever, also after the account
\* was suspended and restored.
PastCredentialsStayDead ==
  [][\A b \in Browsers :
       /\ (cookie[b] # NoCookie /\ cookie'[b] = cookie[b] /\ ~Live(b)) => ~Live(b)'
       /\ (registry[b] # 0 /\ registry'[b] = registry[b] /\ ~SocketLive(b))
            => ~SocketLive(b)']_vars

\* A browser that has logged out has no chat socket left.
LoggedOutIsOffline == \A b \in Browsers : cookie[b] = NoCookie => registry[b] = 0

\* It has none unless it connected while the logout was under way.
LogoutClosesSockets ==
  \A b \in Browsers : cookie[b] = NoCookie /\ registry[b] # 0 => b \in overlapped

\* When no request is under way every registered socket is one the account
\* would be let in with, or connected while the account was being changed.
NoDeadSocketAtRest ==
  (\A t \in Threads : Idle(t)) =>
    \A b \in Browsers : registry[b] # 0 => SocketLive(b) \/ b \in overlapped

\* No socket is forgotten, by a logout or by a change of its account.
NoForgottenSocket == LogoutClosesSockets /\ NoDeadSocketAtRest
=============================================================================
