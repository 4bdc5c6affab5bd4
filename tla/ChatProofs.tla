------------------------------ MODULE ChatProofs ------------------------------
(***************************************************************************)
(* Theorems about Chat for any users, threads and bounds, and any finite   *)
(* set of sockets.                                                         *)
(***************************************************************************)
EXTENDS Chat, FiniteSetTheorems, TLAPS

Account == [status : {"active", "dormant"}, version : 1 .. MaxRevocations + 1]

Entry == [user : Users \union {Nobody}, version : 0 .. MaxRevocations + 1, old : BOOLEAN]

Page == [user : Users \union {Nobody}, room : Rooms, since : -1 .. MaxMessages,
         shown : SUBSET Ids]

PCs == {"idle", "prune", "pruning", "closing", "revoked", "connecting", "authenticated",
        "checked", "saving", "starting"}

Ops == {"none", "connect", "join", "send", "terminate", "revoke", "start"}

Task == [pc : PCs, op : Ops, socket : Sockets \union {NoSocket},
         user : Users \union {Nobody}, peer : Users \union {Nobody}, room : Rooms,
         version : 0 .. MaxRevocations + 1, stale : SUBSET Sockets,
         closing : Sockets \union {NoSocket}, msg : 0 .. MaxMessages, dead : SUBSET Sockets]

TypeInv ==
  /\ account \in [Users -> Account]
  /\ conversations \in Seq(SUBSET Users) /\ Len(conversations) <= MaxConversations
  /\ messages \in Seq(Rooms) /\ Len(messages) <= MaxMessages
  /\ withheld \subseteq DOMAIN messages
  /\ registry \in [Sockets -> Entry]
  /\ socket \in [Sockets -> Page]
  /\ thread \in [Threads -> Task]

Exists(room) == room = GLOBAL_ROOM \/ room \in DOMAIN conversations

\* Who may read what is said in a room.
Admitted(u, room) == room = GLOBAL_ROOM \/ Participant(u, room)

\* A handler's socket is the handler's user's, and its message is in its room.
TaskOf(t) ==
  LET h == thread[t] IN
  /\ h.pc = "closing" => h.closing \in h.stale
  /\ h.pc # "closing" => h.closing = NoSocket
  /\ h.pc \in {"connecting", "authenticated", "checked", "saving"} \/ h.op = "connect" =>
       h.socket \in Sockets /\ h.user \in Users
  /\ h.op \in {"join", "send"} => h.socket \in Sockets
  /\ h.pc \in {"authenticated", "checked", "saving"} => h.op \in {"join", "send"}
  /\ h.pc \in {"checked", "saving"} => h.op = "send"
  /\ h.pc = "connecting" => h.op = "connect"
  /\ h.pc = "revoked" => h.op = "revoke"
  /\ h.pc = "starting" => h.op = "start" /\ h.user \in Users /\ h.peer \in Users
  /\ h.op = "connect" \/ h.pc = "authenticated" =>
       (Open(h.socket) => socket[h.socket].user = h.user)
  /\ h.msg # 0 =>
       /\ h.op = "send" /\ h.pc \in {"prune", "pruning", "closing"}
       /\ h.msg \in DOMAIN messages /\ messages[h.msg] = h.room
  /\ Exists(h.room)

\* A socket is registered for the user who opened it, and has joined and been
\* shown what is his.
PageOf(s) ==
  /\ Open(s) => socket[s].user \in Users
  /\ Open(s) /\ Registered(s) => registry[s].user = socket[s].user
  /\ socket[s].since # -1 => Admitted(socket[s].user, socket[s].room)
  /\ \A i \in socket[s].shown :
       i \in DOMAIN messages /\ Admitted(socket[s].user, messages[i])

RowInv ==
  /\ \A i \in DOMAIN messages : Exists(messages[i])
  /\ OneConversationPerPair

IInv ==
  /\ TypeInv /\ RowInv
  /\ \A t \in Threads : TaskOf(t)
  /\ \A s \in Sockets : PageOf(s)

-----------------------------------------------------------------------------
LEMMA Records ==
  /\ Resting \in Task /\ Closed \in Page /\ Unregistered \in Entry
  /\ Resting.pc = "idle" /\ Resting.op = "none" /\ Resting.msg = 0
  /\ Resting.room = GLOBAL_ROOM /\ Resting.closing = NoSocket
  /\ Closed.since = -1 /\ Closed.shown = {}
BY ChatAssumption DEF Resting, Closed, Unregistered, Task, Page, Entry, PCs, Ops, Rooms,
                      GLOBAL_ROOM, Ids

\* The rows stay.  A socket that a handler works on may close, and is not
\* opened by anybody else.
LEMMA Moves ==
  ASSUME IInv,
         account' \in [Users -> Account], UNCHANGED <<conversations, messages>>,
         withheld' \subseteq DOMAIN messages,
         registry' \in [Sockets -> Entry], socket' \in [Sockets -> Page],
         thread' \in [Threads -> Task],
         \A r \in Threads : thread'[r] = thread[r] \/ TaskOf(r)',
         \A s \in Sockets : Open(s)' =>
           \/ Open(s) /\ socket'[s].user = socket[s].user
           \/ \A r \in Threads : thread[r].socket # s,
         \A s \in Sockets :
           \/ socket'[s] = socket[s] /\ registry'[s] = registry[s]
           \/ PageOf(s)'
  PROVE  IInv'
<1>1. TypeInv' /\ RowInv'
  BY DEF IInv, TypeInv, RowInv, Exists, OneConversationPerPair
<1>2. ASSUME NEW s \in Sockets PROVE PageOf(s)'
  <2>1. CASE socket'[s] = socket[s] /\ registry'[s] = registry[s]
    BY <2>1 DEF IInv, PageOf, Open, Registered, Admitted, Participant
  <2> QED BY <2>1
<1>3. ASSUME NEW r \in Threads PROVE TaskOf(r)'
  <2>1. CASE thread'[r] = thread[r]
    <3>1. thread[r].op = "connect" \/ thread[r].pc = "authenticated" =>
            thread[r].socket \in Sockets
      BY DEF IInv, TaskOf
    <3> QED BY <2>1, <3>1 DEF IInv, TypeInv, TaskOf, Open, Exists
  <2> QED BY <2>1
<1> QED BY <1>1, <1>2, <1>3 DEF IInv

\* One thread moves, and what it rests on stays.
LEMMA ThreadMoves ==
  ASSUME IInv, NEW t \in Threads, NEW h \in Task, thread' = [thread EXCEPT ![t] = h],
         account' \in [Users -> Account],
         UNCHANGED <<conversations, messages, registry, socket, withheld>>, TaskOf(t)'
  PROVE  IInv'
<1>1. thread' \in [Threads -> Task] /\ \A r \in Threads : thread'[r] = thread[r] \/ TaskOf(r)'
  BY DEF IInv, TypeInv
<1> QED BY <1>1, Moves DEF IInv, TypeInv, Open

\* A page that has closed, or stays while its socket leaves the registry or is
\* registered for its user.
LEMMA ClosedPage ==
  ASSUME IInv, NEW s \in Sockets, UNCHANGED <<conversations, messages>>,
         socket'[s] = socket[s] \/ socket'[s] = Closed,
         Open(s)' /\ Registered(s)' =>
           \/ registry'[s].user = socket'[s].user
           \/ Registered(s) /\ registry'[s].user = registry[s].user
  PROVE  PageOf(s)'
<1>1. CASE socket'[s] = Closed
  BY <1>1, Records DEF PageOf, Open
<1>2. CASE socket'[s] = socket[s] /\ socket[s] # Closed
  BY <1>2 DEF IInv, PageOf, Open, Registered, Admitted, Participant
<1> QED BY <1>1, <1>2

\* Sockets close and are taken out of the registry, or aged, or registered for
\* their users; threads move.
LEMMA SocketsClose ==
  ASSUME IInv,
         UNCHANGED <<account, conversations, messages>>, withheld' \subseteq DOMAIN messages,
         registry' \in [Sockets -> Entry], socket' \in [Sockets -> Page],
         thread' \in [Threads -> Task],
         \A r \in Threads : thread'[r] = thread[r] \/ TaskOf(r)',
         \A s \in Sockets :
           /\ socket'[s] = socket[s] \/ socket'[s] = Closed
           /\ Open(s)' /\ Registered(s)' =>
                \/ registry'[s].user = socket'[s].user
                \/ Registered(s) /\ registry'[s].user = registry[s].user
  PROVE  IInv'
<1>1. \A s \in Sockets : PageOf(s)'
  BY ClosedPage
<1>2. \A s \in Sockets : Open(s)' => Open(s) /\ socket'[s].user = socket[s].user
  BY DEF Open
<1> QED BY <1>1, <1>2, Moves DEF IInv, TypeInv

-----------------------------------------------------------------------------
\* A handler that rests is as good as gone.
LEMMA Rests ==
  ASSUME IInv, NEW t \in Threads, thread'[t] = Resting
  PROVE  TaskOf(t)'
BY Records DEF TaskOf, Exists

LEMMA Finishes ==
  ASSUME IInv, NEW t \in Threads, Finish(t)
  PROVE  /\ thread' \in [Threads -> Task]
         /\ \A r \in Threads : thread'[r] = thread[r] \/ TaskOf(r)'
BY Records, Rests DEF Finish, IInv, TypeInv

\* The steps that change nothing but their thread.
LEMMA Thinking ==
  ASSUME IInv, NEW t \in Threads,
         \/ PruneRead(t) \/ UserSockets(t) \/ EventCheck(t) \/ SendCheck(t) \/ SaveRead(t)
         \/ Closes(t)
  PROVE  IInv'
<1> thread[t] \in Task /\ TaskOf(t)
  BY DEF IInv, TypeInv
<1>1. CASE PruneRead(t)
  <2> DEFINE h == [thread[t] EXCEPT !.pc = "pruning",
                     !.stale = {s \in Sockets : Registered(s) /\ ~Live(s)}]
  <2>1. h \in Task /\ thread' = [thread EXCEPT ![t] = h]
    BY <1>1 DEF PruneRead, Task, PCs, IInv, TypeInv
  <2>2. TaskOf(t)'
    <3>1. /\ h.pc = "pruning" /\ h.closing = thread[t].closing /\ h.msg = thread[t].msg
          /\ h.op = thread[t].op /\ h.socket = thread[t].socket /\ h.user = thread[t].user
          /\ h.room = thread[t].room /\ thread'[t] = h
      BY <2>1 DEF IInv, TypeInv, Task
    <3>2. UNCHANGED <<conversations, messages, socket>> /\ thread[t].pc = "prune"
      BY <1>1 DEF PruneRead, At
    <3> HIDE DEF h
    <3> QED BY <3>1, <3>2 DEF TaskOf, Open, Exists
  <2>3. account' \in [Users -> Account] /\ UNCHANGED <<conversations, messages, registry, socket, withheld>>
    BY <1>1 DEF PruneRead, IInv, TypeInv
  <2> HIDE DEF h
  <2> QED BY <2>1, <2>2, <2>3, ThreadMoves
<1>2. CASE UserSockets(t)
  <2> DEFINE h == [thread[t] EXCEPT !.pc = "pruning", !.stale = Sids(thread[t].user)]
  <2>1. h \in Task /\ thread' = [thread EXCEPT ![t] = h]
    BY <1>2 DEF UserSockets, Sids, Task, PCs, IInv, TypeInv
  <2>2. TaskOf(t)'
    BY <1>2, <2>1 DEF UserSockets, At, TaskOf, Open, Exists, IInv, TypeInv
  <2>3. account' \in [Users -> Account] /\ UNCHANGED <<conversations, messages, registry, socket, withheld>>
    BY <1>2 DEF UserSockets, IInv, TypeInv
  <2> HIDE DEF h
  <2> QED BY <2>1, <2>2, <2>3, ThreadMoves
<1>3. CASE EventCheck(t)
  <2> DEFINE s == thread[t].socket
             h == IF Registered(s) /\ Welcome(s)
                  THEN [thread[t] EXCEPT !.pc = "authenticated", !.user = registry[s].user]
                  ELSE [thread[t] EXCEPT !.op = "terminate", !.stale = {s}]
  <2>1. s \in Sockets
    BY <1>3 DEF EventCheck, Pruned, TaskOf
  <2>2. h \in Task /\ thread' = [thread EXCEPT ![t] = h]
    <3>1. CASE Registered(s) /\ Welcome(s)
      BY <1>3, <2>1, <3>1 DEF EventCheck, Task, Entry, PCs, IInv, TypeInv
    <3>2. CASE ~(Registered(s) /\ Welcome(s))
      BY <1>3, <2>1, <3>2 DEF EventCheck, Task, Ops, IInv, TypeInv
    <3> QED BY <3>1, <3>2
  <2>3. Registered(s) /\ Welcome(s) => registry[s].user \in Users
    BY DEF Welcome, Active
  <2>4. Registered(s) /\ Open(s) => socket[s].user = registry[s].user
    BY <2>1 DEF IInv, PageOf
  <2>5. TaskOf(t)'
    BY <1>3, <2>1, <2>2, <2>3, <2>4 DEF EventCheck, Pruned, At, TaskOf, Open, Exists, IInv, TypeInv
  <2>6. account' \in [Users -> Account] /\ UNCHANGED <<conversations, messages, registry, socket, withheld>>
    BY <1>3 DEF EventCheck, IInv, TypeInv
  <2> HIDE DEF h
  <2> QED BY <2>2, <2>5, <2>6, ThreadMoves
<1>4. CASE SendCheck(t)
  <2> DEFINE room == socket[thread[t].socket].room
             h == [thread[t] EXCEPT !.pc = "checked", !.room = room]
  <2>1. account' \in [Users -> Account] /\ UNCHANGED <<conversations, messages, registry, socket, withheld>>
    BY <1>4 DEF SendCheck, IInv, TypeInv
  <2>2. CASE Finish(t)
    BY <2>1, <2>2, Records, Rests, ThreadMoves DEF Finish, IInv, TypeInv
  <2>3. CASE /\ room = GLOBAL_ROOM \/ Participant(thread[t].user, room)
             /\ thread' = [thread EXCEPT ![t].pc = "checked", ![t].room = room]
    <3>1. thread[t].socket \in Sockets /\ thread[t].user \in Users
      BY <1>4 DEF SendCheck, At, TaskOf
    <3>2. h \in Task /\ thread' = [thread EXCEPT ![t] = h]
      BY <2>3, <3>1 DEF Task, Page, PCs, IInv, TypeInv
    <3>3. Exists(room)
      BY <2>3 DEF Participant, Exists
    <3>4. /\ thread[t].pc = "authenticated" /\ thread[t].op = "send"
          /\ thread[t].closing = NoSocket /\ thread[t].msg = 0
      BY <1>4 DEF SendCheck, At, TaskOf, IInv, TypeInv, Task
    <3>5. /\ h.pc = "checked" /\ h.op = "send" /\ h.closing = NoSocket /\ h.msg = 0
          /\ h.socket = thread[t].socket /\ h.user = thread[t].user /\ h.room = room
          /\ thread'[t] = h
      BY <3>2, <3>4 DEF Task, IInv, TypeInv
    <3> HIDE DEF h, room
    <3>6. TaskOf(t)'
      BY <1>4, <3>1, <3>3, <3>5 DEF SendCheck, TaskOf, Open, Exists
    <3> HIDE DEF h
    <3> QED BY <2>1, <3>2, <3>6, ThreadMoves
  <2> QED BY <1>4, <2>2, <2>3 DEF SendCheck
<1>5. CASE SaveRead(t)
  <2> DEFINE h == [thread[t] EXCEPT !.pc = "saving"]
  <2>1. account' \in [Users -> Account] /\ UNCHANGED <<conversations, messages, registry, socket, withheld>>
    BY <1>5 DEF SaveRead, IInv, TypeInv
  <2>2. CASE Finish(t)
    BY <2>1, <2>2, Records, Rests, ThreadMoves DEF Finish, IInv, TypeInv
  <2>3. CASE Goto(t, "saving")
    <3>1. h \in Task /\ thread' = [thread EXCEPT ![t] = h]
      BY <2>3 DEF Goto, Task, PCs, IInv, TypeInv
    <3>2. TaskOf(t)'
      BY <1>5, <3>1 DEF SaveRead, At, TaskOf, Open, Exists, IInv, TypeInv
    <3> HIDE DEF h
    <3> QED BY <2>1, <3>1, <3>2, ThreadMoves
  <2> QED BY <1>5, <2>2, <2>3 DEF SaveRead
<1>6. CASE Closes(t)
  BY <1>6, Records, Rests, ThreadMoves DEF Closes, Finish, IInv, TypeInv
<1> QED BY <1>1, <1>2, <1>3, <1>4, <1>5, <1>6

LEMMA Starting ==
  ASSUME NEW h \in Task, NEW u \in Users, NEW v \in Users
  PROVE  [h EXCEPT !.pc = "starting", !.op = "start", !.user = u, !.peer = v] \in Task
BY DEF Task, PCs, Ops

LEMMA Handling ==
  ASSUME NEW h \in Task, NEW s \in Sockets, NEW op \in {"join", "send"}
  PROVE  [h EXCEPT !.pc = "prune", !.op = op, !.socket = s] \in Task
BY DEF Task, PCs, Ops

LEMMA Connecting ==
  ASSUME NEW h \in Task, NEW s \in Sockets, NEW u \in Users
  PROVE  [h EXCEPT !.pc = "prune", !.op = "connect", !.socket = s, !.user = u] \in Task
BY DEF Task, PCs, Ops

\* The steps that begin something.
LEMMA Begins ==
  ASSUME IInv, NEW t \in Threads, NEW u \in Users,
         \/ \E status \in {"active", "dormant"} : Revoke(t, u, status)
         \/ \E v \in Users : StartRead(t, u, v)
         \/ \E s \in Sockets, op \in {"join", "send"} : Event(t, s, op)
  PROVE  IInv'
<1> thread[t] \in Task /\ TaskOf(t)
  BY DEF IInv, TypeInv
<1>1. ASSUME NEW status \in {"active", "dormant"}, Revoke(t, u, status) PROVE IInv'
  <2> DEFINE h == [Resting EXCEPT !.pc = "revoked", !.op = "revoke", !.user = u]
  <2>1. h \in Task /\ thread' = [thread EXCEPT ![t] = h]
    BY <1>1, ChatAssumption DEF Resting, GLOBAL_ROOM, Rooms, Revoke, Idle, Task, PCs, Ops, IInv, TypeInv
  <2>2. TaskOf(t)'
    BY <1>1, <2>1, Records DEF TaskOf, Open, Exists, IInv, TypeInv, Resting
  <2>3. account' \in [Users -> Account]
    BY <1>1, ChatAssumption DEF Revoke, Raised, Account, IInv, TypeInv
  <2>4. UNCHANGED <<conversations, messages, registry, socket, withheld>>
    BY <1>1 DEF Revoke
  <2> HIDE DEF h
  <2> QED BY <2>1, <2>2, <2>3, <2>4, ThreadMoves
<1>2. ASSUME NEW v \in Users, StartRead(t, u, v) PROVE IInv'
  <2> DEFINE h == [Resting EXCEPT !.pc = "starting", !.op = "start", !.user = u, !.peer = v]
  <2>1. h \in Task /\ thread' = [thread EXCEPT ![t] = h]
    <3>1. h \in Task
      BY <1>2, Records, Starting
    <3> QED BY <1>2, <3>1 DEF StartRead
  <2>2. TaskOf(t)'
    BY <2>1, Records DEF TaskOf, Open, Exists, IInv, TypeInv, Resting
  <2>3. account' \in [Users -> Account] /\ UNCHANGED <<conversations, messages, registry, socket, withheld>>
    BY <1>2 DEF StartRead, IInv, TypeInv
  <2> HIDE DEF h
  <2> QED BY <2>1, <2>2, <2>3, ThreadMoves
<1>3. ASSUME NEW s \in Sockets, NEW op \in {"join", "send"}, Event(t, s, op) PROVE IInv'
  <2> DEFINE h == [Resting EXCEPT !.pc = "prune", !.op = op, !.socket = s]
  <2>1. h \in Task /\ thread' = [thread EXCEPT ![t] = h]
    <3>1. h \in Task
      BY <1>3, Records, Handling
    <3> QED BY <1>3, <3>1 DEF Event
  <2>2. TaskOf(t)'
    BY <2>1, Records DEF TaskOf, Open, Exists, IInv, TypeInv, Resting
  <2>3. account' \in [Users -> Account] /\ UNCHANGED <<conversations, messages, registry, socket, withheld>>
    BY <1>3 DEF Event, IInv, TypeInv
  <2> HIDE DEF h
  <2> QED BY <2>1, <2>2, <2>3, ThreadMoves
<1> QED BY <1>1, <1>2, <1>3

\* The steps in which sockets leave the registry, or close, or are registered.
LEMMA Pruning ==
  ASSUME IInv, NEW t \in Threads, Remove(t) \/ Disconnect(t)
  PROVE  IInv'
<1> thread[t] \in Task /\ TaskOf(t)
  BY DEF IInv, TypeInv
<1>1. UNCHANGED <<account, conversations, messages>> /\ withheld' \subseteq DOMAIN messages
  BY DEF Remove, Disconnect, IInv, TypeInv
<1>2. CASE Remove(t)
  <2> PICK s \in thread[t].stale :
        /\ registry' = [registry EXCEPT ![s] = Unregistered]
        /\ thread' = [thread EXCEPT ![t].pc = "closing", ![t].closing = s]
    BY <1>2 DEF Remove
  <2>1. s \in Sockets
    BY DEF Task
  <2>2. thread' \in [Threads -> Task]
    BY <2>1 DEF IInv, TypeInv, Task, PCs
  <2>3. /\ thread'[t].pc = "closing" /\ thread'[t].closing = s /\ thread'[t].stale = thread[t].stale
        /\ thread'[t].msg = thread[t].msg /\ thread'[t].room = thread[t].room
        /\ thread'[t].op = thread[t].op /\ thread'[t].socket = thread[t].socket
        /\ thread'[t].user = thread[t].user
    BY DEF IInv, TypeInv, Task
  <2>4. UNCHANGED socket /\ At(t, "pruning")
    BY <1>2 DEF Remove
  <2>5. TaskOf(t)'
    BY <1>1, <2>3, <2>4 DEF TaskOf, At, Open, Exists
  <2>6. \A r \in Threads : thread'[r] = thread[r] \/ TaskOf(r)'
    BY <2>5 DEF IInv, TypeInv
  <2>7. registry' \in [Sockets -> Entry]
    BY <2>1, Records DEF IInv, TypeInv
  <2>8. \A x \in Sockets : registry'[x] = Unregistered \/ registry'[x] = registry[x]
    BY <2>1 DEF IInv, TypeInv
  <2> QED BY <1>1, <2>2, <2>4, <2>6, <2>7, <2>8, SocketsClose DEF IInv, TypeInv, Registered
<1>3. CASE Disconnect(t)
  <2> DEFINE s == thread[t].closing
             h == [thread[t] EXCEPT !.pc = "pruning", !.closing = NoSocket, !.stale = @ \ {s}]
  <2>1. s \in Sockets
    BY <1>3 DEF Disconnect, At, TaskOf, Task
  <2>2. h \in Task /\ thread' = [thread EXCEPT ![t] = h]
    BY <1>3 DEF Disconnect, IInv, TypeInv, Task, PCs
  <2>3. socket' = [socket EXCEPT ![s] = Closed] /\ UNCHANGED registry /\ At(t, "closing")
    BY <1>3 DEF Disconnect
  <2>4. /\ thread'[t].pc = "pruning" /\ thread'[t].closing = NoSocket
        /\ thread'[t].msg = thread[t].msg /\ thread'[t].room = thread[t].room
        /\ thread'[t].op = thread[t].op /\ thread'[t].socket = thread[t].socket
        /\ thread'[t].user = thread[t].user
    BY <2>2 DEF IInv, TypeInv, Task
  <2> HIDE DEF h
  <2>5. socket' \in [Sockets -> Page] /\ \A x \in Sockets : socket'[x] = socket[x] \/ socket'[x] = Closed
    BY <2>1, <2>3, Records DEF IInv, TypeInv
  <2>6. TaskOf(t)'
    <3>1. thread[t].op = "connect" => thread[t].socket \in Sockets
      BY DEF TaskOf
    <3> QED BY <1>1, <2>3, <2>4, <2>5, <3>1 DEF TaskOf, At, Open, Exists
  <2>7. thread' \in [Threads -> Task] /\ \A r \in Threads : thread'[r] = thread[r] \/ TaskOf(r)'
    BY <2>2, <2>6 DEF IInv, TypeInv
  <2> QED BY <1>1, <2>3, <2>5, <2>7, SocketsClose DEF IInv, TypeInv, Registered
<1> QED BY <1>2, <1>3

LEMMA ConnectEnds ==
  ASSUME IInv, NEW t \in Threads, ConnectCheck(t) \/ ConnectAdd(t)
  PROVE  IInv'
<1> DEFINE s == thread[t].socket
           u == thread[t].user
<1>a. thread[t] \in Task /\ TaskOf(t)
  BY DEF IInv, TypeInv
<1>b. UNCHANGED <<account, conversations, messages>> /\ withheld' \subseteq DOMAIN messages
  BY DEF ConnectCheck, ConnectAdd, IInv, TypeInv
<1>c. s \in Sockets /\ u \in Users /\ thread[t].op = "connect" /\ thread[t].msg = 0
  BY <1>a DEF ConnectCheck, ConnectAdd, Pruned, At, TaskOf
<1>1. ASSUME UNCHANGED <<registry, socket>>,
             thread' = [thread EXCEPT ![t].pc = "connecting", ![t].version = account[u].version],
             ConnectCheck(t)
      PROVE  IInv'
  <2>1. thread' \in [Threads -> Task]
    <3>1. account[u].version \in 0 .. MaxRevocations + 1
      BY <1>c, ChatAssumption DEF IInv, TypeInv, Account
    <3> QED BY <1>1, <1>a, <3>1 DEF IInv, TypeInv, Task, PCs
  <2>2. /\ thread'[t].pc = "connecting" /\ thread'[t].closing = thread[t].closing
        /\ thread'[t].msg = thread[t].msg /\ thread'[t].room = thread[t].room
        /\ thread'[t].op = thread[t].op /\ thread'[t].socket = thread[t].socket
        /\ thread'[t].user = thread[t].user
    BY <1>1, <1>a DEF IInv, TypeInv, Task
  <2>3. TaskOf(t)'
    BY <1>1, <1>a, <1>b, <1>c, <2>2 DEF ConnectCheck, Pruned, At, TaskOf, Open, Exists
  <2> QED BY <1>1, <1>b, <2>1, <2>3, SocketsClose DEF IInv, TypeInv, Registered
<1>2. ASSUME Finish(t), UNCHANGED registry, socket' = [socket EXCEPT ![s] = Closed]
      PROVE  IInv'
  <2>1. socket' \in [Sockets -> Page] /\ \A x \in Sockets : socket'[x] = socket[x] \/ socket'[x] = Closed
    BY <1>2, <1>c, Records DEF IInv, TypeInv
  <2> QED BY <1>2, <1>b, <2>1, Finishes, SocketsClose DEF IInv, TypeInv, Registered
<1>3. ASSUME Finish(t), UNCHANGED socket,
             registry' = [registry EXCEPT ![s] = [user |-> u, version |-> thread[t].version,
                                                  old |-> FALSE]]
      PROVE  IInv'
  <2>1. registry' \in [Sockets -> Entry]
    BY <1>3, <1>a, <1>c DEF IInv, TypeInv, Entry, Task
  <2>2. Open(s) => socket[s].user = u
    BY <1>a, <1>c DEF TaskOf
  <2>3. \A x \in Sockets :
          Open(x)' => registry'[x] = registry[x] \/ registry'[x].user = socket'[x].user
    BY <1>3, <1>c, <2>2 DEF IInv, TypeInv, Open
  <2> QED BY <1>3, <1>b, <2>1, <2>3, Finishes, SocketsClose DEF IInv, TypeInv, Registered
<1> QED BY <1>1, <1>2, <1>3 DEF ConnectCheck, ConnectAdd

LEMMA Going ==
  ASSUME IInv, Restart \/ \E s \in Sockets : Leave(s) \/ Age(s)
  PROVE  IInv'
<1>1. ASSUME NEW s \in Sockets, Leave(s) PROVE IInv'
  <2>1. /\ socket' \in [Sockets -> Page] /\ registry' \in [Sockets -> Entry]
        /\ \A x \in Sockets : \/ socket'[x] = socket[x] /\ registry'[x] = registry[x]
                              \/ socket'[x] = Closed
    BY <1>1, Records DEF Leave, IInv, TypeInv
  <2>2. UNCHANGED <<account, conversations, messages, thread, withheld>>
    BY <1>1 DEF Leave
  <2> QED BY <2>1, <2>2, SocketsClose DEF IInv, TypeInv, Open, Registered
<1>2. ASSUME NEW s \in Sockets, Age(s) PROVE IInv'
  <2>1. registry' \in [Sockets -> Entry] /\ registry'[s].user = registry[s].user
    <3>1. registry' = [registry EXCEPT ![s].old = TRUE] /\ registry[s] \in Entry
      BY <1>2 DEF Age, IInv, TypeInv
    <3>2. [registry[s] EXCEPT !.old = TRUE] \in Entry
      BY <3>1 DEF Entry
    <3>3. [registry[s] EXCEPT !.old = TRUE].user = registry[s].user
      BY <3>1 DEF Entry
    <3> QED BY <3>1, <3>2, <3>3, <1>2 DEF IInv, TypeInv
  <2>2. UNCHANGED <<account, conversations, messages, socket, thread, withheld>> /\ Registered(s)
    BY <1>2 DEF Age
  <2>3. \A x \in Sockets \ {s} : registry'[x] = registry[x]
    BY <1>2 DEF Age, IInv, TypeInv
  <2> QED BY <2>1, <2>2, <2>3, SocketsClose DEF IInv, TypeInv, Registered
<1>3. CASE Restart
  <2>1. /\ socket' \in [Sockets -> Page] /\ registry' \in [Sockets -> Entry]
        /\ thread' \in [Threads -> Task] /\ \A x \in Sockets : socket'[x] = Closed
    BY <1>3, Records DEF Restart
  <2>2. \A r \in Threads : TaskOf(r)'
    BY <1>3, Rests DEF Restart
  <2>3. UNCHANGED <<account, conversations, messages, withheld>>
    BY <1>3 DEF Restart
  <2> QED BY <2>1, <2>2, <2>3, SocketsClose DEF IInv, TypeInv, Open
<1> QED BY <1>1, <1>2, <1>3

LEMMA Failing ==
  ASSUME IInv, NEW t \in Threads, Fails(t)
  PROVE  IInv'
<1>1. thread[t] \in Task /\ TaskOf(t)
  BY DEF IInv, TypeInv
<1>2. withheld' \subseteq DOMAIN messages
  BY <1>1 DEF Fails, TaskOf, IInv, TypeInv
<1>3. socket' \in [Sockets -> Page] /\ \A x \in Sockets : socket'[x] = socket[x] \/ socket'[x] = Closed
  BY <1>1, Records DEF Fails, TaskOf, IInv, TypeInv
<1>4. UNCHANGED <<account, conversations, messages, registry>> /\ Finish(t)
  BY DEF Fails
<1> QED BY <1>2, <1>3, <1>4, Finishes, SocketsClose DEF IInv, TypeInv, Registered

-----------------------------------------------------------------------------
\* The steps in which a page opens, joins and is shown something.
LEMMA Opening ==
  ASSUME NEW page \in Page, NEW u \in Users, NEW room \in Rooms
  PROVE  [page EXCEPT !.user = u, !.room = room] \in Page
BY DEF Page

LEMMA Connects ==
  ASSUME IInv, NEW t \in Threads, NEW s \in Sockets, NEW u \in Users,
         NEW room \in {GLOBAL_ROOM} \union DOMAIN conversations, Connect(t, s, u, room)
  PROVE  IInv'
<1> DEFINE h == [Resting EXCEPT !.pc = "prune", !.op = "connect", !.socket = s, !.user = u]
           page == [Closed EXCEPT !.user = u, !.room = room]
<1>1. h \in Task
  BY Records, Connecting
<1>2. room \in Rooms
  BY ChatAssumption DEF IInv, TypeInv, Rooms, GLOBAL_ROOM
<1>3. page \in Page /\ page.user = u /\ page.since = -1 /\ page.shown = {}
  BY <1>2, Records, Opening DEF Closed
<1>4. socket' = [socket EXCEPT ![s] = page] /\ thread' = [thread EXCEPT ![t] = h]
  BY DEF Connect
<1>5. /\ UNCHANGED <<account, conversations, messages, registry, withheld>>
      /\ ~Registered(s) /\ \A r \in Threads : thread[r].socket # s
  BY DEF Connect
<1>6. /\ h.pc = "prune" /\ h.op = "connect" /\ h.socket = s /\ h.user = u /\ h.msg = 0
      /\ h.room = GLOBAL_ROOM /\ h.closing = NoSocket
  BY DEF Resting
<1> HIDE DEF h, page
<1>7. socket' \in [Sockets -> Page] /\ thread' \in [Threads -> Task]
      /\ socket'[s] = page /\ thread'[t] = h
  BY <1>1, <1>3, <1>4 DEF IInv, TypeInv
<1>8. TaskOf(t)'
  BY <1>3, <1>6, <1>7 DEF TaskOf, Exists
<1>9. PageOf(s)'
  BY <1>3, <1>5, <1>7 DEF PageOf, Registered
<1>10. \A r \in Threads : thread'[r] = thread[r] \/ TaskOf(r)'
  BY <1>4, <1>8 DEF IInv, TypeInv
<1>11. \A x \in Sockets : x = s \/ socket'[x] = socket[x]
  BY <1>4 DEF IInv, TypeInv
<1> QED BY <1>5, <1>7, <1>9, <1>10, <1>11, Moves DEF IInv, TypeInv, Open

LEMMA Joins ==
  ASSUME IInv, NEW t \in Threads, JoinRoom(t)
  PROVE  IInv'
<1>1. /\ thread[t] \in Task /\ TaskOf(t) /\ Finish(t)
      /\ UNCHANGED <<account, conversations, messages, registry, withheld>>
  BY DEF JoinRoom, IInv, TypeInv
<1>2. thread[t].socket \in Sockets /\ thread[t].pc = "authenticated"
  BY <1>1 DEF JoinRoom, At, TaskOf
<1> PICK s \in Sockets : s = thread[t].socket
  BY <1>2
<1>3. CASE UNCHANGED socket
  BY <1>1, <1>3, Finishes, Moves DEF IInv, TypeInv, Open
<1>4. CASE /\ Open(s) /\ (socket[s].room = GLOBAL_ROOM \/ Participant(thread[t].user, socket[s].room))
           /\ socket' = [socket EXCEPT ![s].since = Len(messages)]
  <2>1. Len(messages) \in -1 .. MaxMessages
    BY ChatAssumption DEF IInv, TypeInv
  <2>2. socket' \in [Sockets -> Page]
    <3> DEFINE page == [socket[s] EXCEPT !.since = Len(messages)]
    <3>1. socket \in [Sockets -> Page]
      BY DEF IInv, TypeInv
    <3>2. page \in Page
      BY <2>1, <3>1 DEF Page
    <3>3. socket' = [socket EXCEPT ![s] = page]
      BY <1>4, <3>1
    <3> HIDE DEF page
    <3> QED BY <3>1, <3>2, <3>3
  <2>3. /\ socket'[s].user = socket[s].user /\ socket'[s].room = socket[s].room
        /\ socket'[s].shown = socket[s].shown
        /\ \A x \in Sockets : x # s => socket'[x] = socket[x]
    BY <1>2, <1>4 DEF IInv, TypeInv, Page
  <2>4. socket[s].user = thread[t].user
    BY <1>1, <1>2, <1>4 DEF TaskOf
  <2>5. PageOf(s)'
    <3>1. PageOf(s) /\ Admitted(socket[s].user, socket[s].room)
      BY <1>2, <1>4, <2>4 DEF IInv, Admitted
    <3>2. Open(s) /\ UNCHANGED <<conversations, messages, registry>>
      BY <1>1, <1>4
    <3>3. socket'[s].user \in Users /\ (Registered(s) => registry[s].user = socket'[s].user)
      BY <2>3, <3>1, <3>2 DEF PageOf
    <3>4. Admitted(socket[s].user, socket[s].room)'
      BY <2>3, <3>1, <3>2 DEF Admitted, Participant
    <3>5. \A i \in socket'[s].shown : i \in DOMAIN messages' /\ Admitted(socket[s].user, messages[i])'
      BY <2>3, <3>1, <3>2 DEF PageOf, Admitted, Participant
    <3> QED BY <3>2, <3>3, <3>4, <3>5 DEF PageOf, Registered
  <2>6. \A x \in Sockets : Open(x)' => Open(x) /\ socket'[x].user = socket[x].user
    BY <1>2, <1>4, <2>3 DEF Open
  <2>7. \A x \in Sockets : (socket'[x] = socket[x] /\ registry'[x] = registry[x]) \/ PageOf(x)'
    <3> SUFFICES ASSUME NEW x \in Sockets, x # s
                 PROVE  socket'[x] = socket[x] /\ registry'[x] = registry[x]
      BY <2>5
    <3> QED BY <1>1, <2>3
  <2>8. account' \in [Users -> Account] /\ withheld' \subseteq DOMAIN messages
        /\ registry' \in [Sockets -> Entry]
    BY <1>1 DEF IInv, TypeInv
  <2> QED BY <1>1, <2>2, <2>6, <2>7, <2>8, Finishes, Moves
<1> QED BY <1>3, <1>4 DEF JoinRoom

LEMMA Emits ==
  ASSUME IInv, NEW t \in Threads, Emit(t)
  PROVE  IInv'
<1>1. /\ thread[t] \in Task /\ TaskOf(t) /\ Finish(t) /\ thread[t].msg # 0
      /\ account' = account /\ conversations' = conversations /\ messages' = messages
      /\ registry' = registry /\ withheld' = withheld
  BY DEF Emit, IInv, TypeInv
<1> PICK m \in Ids, room \in Rooms : m = thread[t].msg /\ room = thread[t].room
  BY <1>1, ChatAssumption DEF Task, Ids
<1>2. m \in DOMAIN messages /\ messages[m] = room
  BY <1>1 DEF TaskOf
<1>3. ASSUME NEW s \in Sockets
      PROVE  \/ socket'[s] = socket[s]
             \/ /\ socket[s].since # -1 /\ socket[s].room = room
                /\ socket'[s] = [socket[s] EXCEPT !.shown = @ \union {m}]
  BY DEF Emit, Recipients
<1>4. ASSUME NEW s \in Sockets, socket[s].since # -1, socket[s].room = room,
             socket'[s] = [socket[s] EXCEPT !.shown = @ \union {m}]
      PROVE  /\ socket'[s] \in Page /\ Open(s)
             /\ socket'[s].user = socket[s].user /\ socket'[s].room = socket[s].room
             /\ socket'[s].since = socket[s].since
             /\ socket'[s].shown = socket[s].shown \union {m}
  <2>1. socket[s] \in Page /\ Open(s)
    BY <1>4, Records DEF IInv, TypeInv, Open
  <2> QED BY <1>4, <2>1 DEF Page
<1>5. ASSUME NEW s \in Sockets PROVE socket'[s] \in Page
  BY <1>3, <1>4 DEF IInv, TypeInv
<1>6. ASSUME NEW s \in Sockets, Open(s)' PROVE Open(s) /\ socket'[s].user = socket[s].user
  <2>1. CASE socket'[s] = socket[s]
    BY <1>6, <2>1 DEF Open
  <2> QED BY <1>3, <1>4, <2>1
<1>7. ASSUME NEW s \in Sockets PROVE PageOf(s)' \/ socket'[s] = socket[s]
  <2> SUFFICES ASSUME socket[s].since # -1, socket[s].room = room,
                      socket'[s] = [socket[s] EXCEPT !.shown = @ \union {m}]
               PROVE  PageOf(s)'
    BY <1>3
  <2>1. PageOf(s) /\ Open(s) /\ Admitted(socket[s].user, room)
    BY <1>4 DEF IInv, PageOf
  <2>2. /\ socket'[s].user = socket[s].user /\ socket'[s].room = socket[s].room
        /\ socket'[s].since = socket[s].since
        /\ socket'[s].shown = socket[s].shown \union {m}
    BY <1>4
  <2> QED BY <1>1, <1>2, <2>1, <2>2 DEF PageOf, Registered, Admitted, Participant
<1>8. socket' \in [Sockets -> Page]
  BY <1>5 DEF Emit
<1>9. \A s \in Sockets : (socket'[s] = socket[s] /\ registry'[s] = registry[s]) \/ PageOf(s)'
  BY <1>1, <1>7
<1>10. account' \in [Users -> Account] /\ withheld' \subseteq DOMAIN messages
       /\ registry' \in [Sockets -> Entry]
  BY <1>1 DEF IInv, TypeInv
<1> QED BY <1>1, <1>6, <1>8, <1>9, <1>10, Finishes, Moves

-----------------------------------------------------------------------------
\* The commits: a row is appended to the messages or to the conversations.
LEMMA Saves ==
  ASSUME IInv, NEW t \in Threads, SaveCommit(t)
  PROVE  IInv'
<1>1. /\ thread[t] \in Task /\ TaskOf(t) /\ At(t, "saving") /\ Len(messages) < MaxMessages
      /\ account' = account /\ conversations' = conversations /\ registry' = registry
      /\ socket' = socket /\ withheld' = withheld
  BY DEF SaveCommit, IInv, TypeInv
<1> PICK room \in Rooms : room = thread[t].room
  BY <1>1 DEF Task
<1>2. messages' = Append(messages, room) /\ messages \in Seq(Rooms) /\ Exists(room)
  BY <1>1 DEF SaveCommit, TaskOf, IInv, TypeInv
<1>3. /\ messages' \in Seq(Rooms) /\ Len(messages') = Len(messages) + 1
      /\ Len(messages') <= MaxMessages /\ DOMAIN messages \subseteq DOMAIN messages'
      /\ messages'[Len(messages) + 1] = room
      /\ \A i \in DOMAIN messages : messages'[i] = messages[i]
      /\ \A i \in DOMAIN messages' : i \in DOMAIN messages \/ i = Len(messages) + 1
      /\ Len(messages) + 1 \in DOMAIN messages'
  BY <1>1, <1>2, ChatAssumption
<1>4. thread' = [thread EXCEPT ![t] =
        [thread[t] EXCEPT !.pc = "prune", !.msg = Len(messages) + 1, !.dead = Dead]]
  BY DEF SaveCommit
<1>5. [thread[t] EXCEPT !.pc = "prune", !.msg = Len(messages) + 1, !.dead = Dead] \in Task
  <2>1. Len(messages) + 1 \in 0 .. MaxMessages /\ Dead \in SUBSET Sockets
    BY <1>1, <1>2, ChatAssumption DEF Dead
  <2> QED BY <1>1, <2>1 DEF Task, PCs
<1>6. TypeInv'
  BY <1>1, <1>3, <1>4, <1>5 DEF IInv, TypeInv
<1>7. RowInv'
  BY <1>1, <1>2, <1>3 DEF IInv, RowInv, Exists, OneConversationPerPair
<1>8. ASSUME NEW s \in Sockets PROVE PageOf(s)'
  BY <1>1, <1>3 DEF IInv, PageOf, Open, Registered, Admitted, Participant
<1>9. ASSUME NEW r \in Threads PROVE TaskOf(r)'
  <2>1. CASE r = t
    <3>1. /\ thread'[t].pc = "prune" /\ thread'[t].closing = NoSocket
          /\ thread'[t].msg = Len(messages) + 1 /\ thread'[t].room = room
          /\ thread'[t].op = "send" /\ thread'[t].op = thread[t].op /\ thread'[t].socket = thread[t].socket
          /\ thread'[t].user = thread[t].user
      BY <1>1, <1>4 DEF IInv, TypeInv, Task, TaskOf, At
    <3> QED BY <1>1, <1>2, <1>3, <2>1, <3>1 DEF TaskOf, At, Open, Exists
  <2>2. CASE r # t
    <3>1. thread'[r] = thread[r] /\ TaskOf(r)
      BY <1>4, <2>2 DEF IInv, TypeInv
    <3> QED BY <1>1, <1>3, <3>1 DEF TaskOf, Open, Exists
  <2> QED BY <2>1, <2>2
<1> QED BY <1>6, <1>7, <1>8, <1>9 DEF IInv

LEMMA Starts ==
  ASSUME IInv, NEW t \in Threads, StartCommit(t)
  PROVE  IInv'
<1>1. /\ thread[t] \in Task /\ TaskOf(t) /\ Finish(t)
      /\ account' = account /\ messages' = messages /\ registry' = registry
      /\ socket' = socket /\ withheld' = withheld
  BY DEF StartCommit, IInv, TypeInv
<1>2. CASE UNCHANGED conversations
  BY <1>1, <1>2, Finishes, Moves DEF IInv, TypeInv, Open
<1>3. CASE /\ Existing(thread[t].user, thread[t].peer) = {}
           /\ Len(conversations) < MaxConversations
           /\ conversations' = Append(conversations, {thread[t].user, thread[t].peer})
  <2> PICK pair \in SUBSET Users : pair = {thread[t].user, thread[t].peer}
    BY <1>1 DEF StartCommit, At, TaskOf
  <2>1. /\ conversations \in Seq(SUBSET Users)
        /\ \A i \in DOMAIN conversations : conversations[i] # pair
    BY <1>3 DEF Existing, IInv, TypeInv
  <2>2. /\ conversations' \in Seq(SUBSET Users) /\ Len(conversations') <= MaxConversations
        /\ DOMAIN conversations \subseteq DOMAIN conversations'
        /\ conversations'[Len(conversations) + 1] = pair
        /\ \A i \in DOMAIN conversations : conversations'[i] = conversations[i]
        /\ \A i \in DOMAIN conversations' :
             i \in DOMAIN conversations \/ i = Len(conversations) + 1
    BY <1>3, <2>1, ChatAssumption
  <2>3. /\ thread' \in [Threads -> Task]
        /\ \A r \in Threads : thread'[r] = thread[r] \/ thread'[r] = Resting
    BY Finishes, <1>1, Records DEF Finish, IInv, TypeInv
  <2>4. TypeInv'
    BY <1>1, <2>2, <2>3 DEF IInv, TypeInv
  <2>5. OneConversationPerPair'
    BY <2>1, <2>2 DEF IInv, RowInv, OneConversationPerPair
  <2>6. RowInv'
    BY <1>1, <2>2, <2>5 DEF IInv, RowInv, Exists
  <2>7. ASSUME NEW s \in Sockets PROVE PageOf(s)'
    BY <1>1, <2>2 DEF IInv, PageOf, Open, Registered, Admitted, Participant
  <2>8. ASSUME NEW r \in Threads PROVE TaskOf(r)'
    <3>1. CASE thread'[r] = Resting
      BY <3>1, Records DEF TaskOf, Exists
    <3>2. CASE thread'[r] = thread[r]
      BY <1>1, <2>2, <3>2 DEF IInv, TaskOf, Open, Exists
    <3> QED BY <2>3, <3>1, <3>2
  <2> QED BY <2>4, <2>6, <2>7, <2>8 DEF IInv
<1> QED BY <1>2, <1>3 DEF StartCommit

-----------------------------------------------------------------------------
LEMMA Initially == Init => IInv
<1> SUFFICES ASSUME Init PROVE IInv
  OBVIOUS
<1>1. TypeInv
  <2>1. account \in [Users -> Account]
    BY ChatAssumption DEF Init, Account
  <2>2. conversations = << >> /\ messages = << >> /\ withheld = {}
    BY DEF Init
  <2>3. registry \in [Sockets -> Entry] /\ socket \in [Sockets -> Page] /\ thread \in [Threads -> Task]
    BY Records DEF Init
  <2> QED BY <2>1, <2>2, <2>3, ChatAssumption DEF TypeInv
<1>2. RowInv
  BY DEF Init, RowInv, OneConversationPerPair
<1>3. \A t \in Threads : TaskOf(t)
  BY Records DEF Init, TaskOf, Exists
<1>4. \A s \in Sockets : PageOf(s)
  BY Records DEF Init, PageOf, Open
<1> QED BY <1>1, <1>2, <1>3, <1>4 DEF IInv

LEMMA Steps ==
  ASSUME IInv, [Next]_vars
  PROVE  IInv'
<1>1. CASE UNCHANGED vars
  BY <1>1, Moves DEF vars, IInv, TypeInv, Open
<1>2. ASSUME NEW t \in Threads,
             \/ PruneRead(t) \/ UserSockets(t) \/ EventCheck(t) \/ SendCheck(t)
             \/ SaveRead(t) \/ Closes(t)
      PROVE  IInv'
  BY <1>2, Thinking
<1>3. ASSUME NEW t \in Threads, Remove(t) \/ Disconnect(t) PROVE IInv'
  BY <1>3, Pruning
<1>4. ASSUME NEW t \in Threads, ConnectCheck(t) \/ ConnectAdd(t) PROVE IInv'
  BY <1>4, ConnectEnds
<1>5. ASSUME NEW t \in Threads,
             JoinRoom(t) \/ Emit(t) \/ SaveCommit(t) \/ StartCommit(t) \/ Fails(t)
      PROVE  IInv'
  BY <1>5, Joins, Emits, Saves, Starts, Failing
<1>6. ASSUME NEW t \in Threads, NEW u \in Users,
             \/ \E status \in {"active", "dormant"} : Revoke(t, u, status)
             \/ \E v \in Users : StartRead(t, u, v)
      PROVE  IInv'
  BY <1>6, Begins
<1>7. ASSUME NEW t \in Threads, NEW s \in Sockets, NEW u \in Users,
             NEW room \in {GLOBAL_ROOM} \union DOMAIN conversations, Connect(t, s, u, room)
      PROVE  IInv'
  BY <1>7, Connects
<1>8. ASSUME NEW t \in Threads, NEW s \in Sockets, NEW op \in {"join", "send"}, Event(t, s, op)
      PROVE  IInv'
  <2>1. Users # {}
    BY <1>8 DEF Event, IInv, PageOf
  <2> QED BY <1>8, <2>1, Begins
<1>9. CASE Restart \/ \E s \in Sockets : Leave(s) \/ Age(s)
  BY <1>9, Going
<1> QED BY <1>1, <1>2, <1>3, <1>4, <1>5, <1>6, <1>7, <1>8, <1>9 DEF Next

\* The invariant above holds however many users, threads and messages there are.
THEOREM Invariance == Spec => []IInv
BY Initially, Steps, PTL DEF Spec

\* The rows, the registry and the rooms keep their types, and a thread closes
\* only a socket that it took out of the registry (connections.py).
THEOREM TypeCorrect == Spec => []TypeOK
<1>1. IInv => TypeOK
  BY DEF IInv, TypeInv, TaskOf, TypeOK, Account, Entry, Page
<1> QED BY Invariance, <1>1, PTL

\* For any number of requests and sockets: two users have one conversation, and
\* what is said in it is shown to these two alone (services.py, events.py).
THEOREM Conversations == Spec => []ConversationsAreTheirs
<1>1. IInv => ConversationsAreTheirs
  BY DEF IInv, RowInv, PageOf, Admitted, Participant, ConversationsAreTheirs, DirectStaysPrivate
<1> QED BY Invariance, <1>1, PTL

-----------------------------------------------------------------------------
\* Who is registered stays what he is or leaves; only ConnectAdd registers.
LEMMA Registering ==
  ASSUME IInv, [Next]_vars, NEW s \in Sockets
  PROVE  \/ registry'[s].user \in {registry[s].user, Nobody}
         \/ \E t \in Threads :
              /\ ConnectAdd(t) /\ s = thread[t].socket /\ ~Full(thread[t].user)
              /\ thread[t].user \in Users /\ registry'[s].user = thread[t].user
              /\ \A r \in Sockets : r # s => registry'[r] = registry[r]
<1> SUFFICES ASSUME registry'[s] # registry[s]
             PROVE  \/ registry'[s].user \in {registry[s].user, Nobody}
                    \/ \E t \in Threads :
                         /\ ConnectAdd(t) /\ s = thread[t].socket /\ ~Full(thread[t].user)
                         /\ thread[t].user \in Users /\ registry'[s].user = thread[t].user
                         /\ \A r \in Sockets : r # s => registry'[r] = registry[r]
  OBVIOUS
<1> registry \in [Sockets -> Entry]
  BY DEF IInv, TypeInv
<1>1. ASSUME NEW t \in Threads, Remove(t) PROVE registry'[s].user = Nobody
  BY <1>1 DEF Remove, Unregistered
<1>2. ASSUME NEW r \in Sockets, Leave(r) PROVE registry'[s].user = Nobody
  BY <1>2 DEF Leave, Unregistered
<1>3. ASSUME NEW r \in Sockets, Age(r) PROVE registry'[s].user = registry[s].user
  <2>1. s = r /\ registry'[s] = [registry[s] EXCEPT !.old = TRUE]
    BY <1>3 DEF Age
  <2> QED BY <2>1 DEF Entry
<1>4. CASE Restart
  BY <1>4 DEF Restart, Unregistered
<1>5. ASSUME NEW t \in Threads, ConnectAdd(t)
      PROVE  /\ s = thread[t].socket /\ ~Full(thread[t].user)
             /\ thread[t].user \in Users /\ registry'[s].user = thread[t].user
             /\ \A r \in Sockets : r # s => registry'[r] = registry[r]
  <2>1. /\ ~Full(thread[t].user)
        /\ registry' = [registry EXCEPT ![thread[t].socket] =
             [user |-> thread[t].user, version |-> thread[t].version, old |-> FALSE]]
    BY <1>5 DEF ConnectAdd
  <2>2. thread[t].user \in Users
    BY <1>5 DEF ConnectAdd, At, IInv, TaskOf
  <2> QED BY <2>1, <2>2
<1>6. \/ \E t \in Threads : Remove(t) \/ ConnectAdd(t)
      \/ \E r \in Sockets : Leave(r) \/ Age(r)
      \/ Restart
  <2>1. registry' # registry
    OBVIOUS
  <2>2. ~(UNCHANGED vars)
    BY <2>1 DEF vars
  <2>3. ASSUME NEW t \in Threads
        PROVE  ~(\/ PruneRead(t) \/ Disconnect(t) \/ Closes(t) \/ UserSockets(t)
                 \/ ConnectCheck(t) \/ EventCheck(t) \/ JoinRoom(t) \/ SendCheck(t)
                 \/ SaveRead(t) \/ SaveCommit(t) \/ Emit(t) \/ StartCommit(t) \/ Fails(t))
    BY <2>1 DEF PruneRead, Disconnect, Closes, UserSockets, ConnectCheck, EventCheck, JoinRoom,
                SendCheck, SaveRead, SaveCommit, Emit, StartCommit, Fails
  <2>4. ASSUME NEW t \in Threads, NEW u \in Users
        PROVE  ~(\/ \E status \in {"active", "dormant"} : Revoke(t, u, status)
                 \/ \E v \in Users : StartRead(t, u, v)
                 \/ \E r \in Sockets, room \in {GLOBAL_ROOM} \union DOMAIN conversations :
                      Connect(t, r, u, room))
    BY <2>1 DEF Revoke, StartRead, Connect
  <2>5. ~\E t \in Threads, r \in Sockets, op \in {"join", "send"} : Event(t, r, op)
    BY <2>1 DEF Event
  <2> QED BY <2>2, <2>3, <2>4, <2>5 DEF Next
<1> QED BY <1>1, <1>2, <1>3, <1>4, <1>5, <1>6

LEMMA Capped ==
  ASSUME IInv, [Next]_vars, CapRespected, IsFiniteSet(Sockets)
  PROVE  CapRespected'
<1> SUFFICES ASSUME NEW u \in Users PROVE Cardinality(Sids(u)') <= MaxConnections
  BY DEF CapRespected
<1>1. /\ IsFiniteSet(Sids(u)) /\ Cardinality(Sids(u)) \in Nat
      /\ Cardinality(Sids(u)) <= MaxConnections /\ MaxConnections \in Nat
  BY FS_Subset, FS_CardinalityType, ChatAssumption DEF Sids, CapRespected
<1>2. CASE Sids(u)' \subseteq Sids(u)
  <2>1. Cardinality(Sids(u)') <= Cardinality(Sids(u)) /\ Cardinality(Sids(u)') \in Nat
    BY <1>1, <1>2, FS_Subset, FS_CardinalityType
  <2> QED BY <1>1, <2>1
<1>3. ASSUME NEW s \in Sids(u)', s \notin Sids(u) PROVE Cardinality(Sids(u)') <= MaxConnections
  <2>1. s \in Sockets /\ registry'[s].user = u /\ registry[s].user # u /\ u # Nobody
    BY <1>3, ChatAssumption DEF Sids
  <2> PICK t \in Threads :
        /\ ~Full(thread[t].user) /\ registry'[s].user = thread[t].user
        /\ \A r \in Sockets : r # s => registry'[r] = registry[r]
    BY <2>1, Registering
  <2>2. Cardinality(Sids(u)) < MaxConnections
    BY <1>1, <2>1 DEF Full
  <2>3. Sids(u)' = Sids(u) \union {s}
    BY <2>1 DEF Sids
  <2>4. Cardinality(Sids(u) \union {s}) = Cardinality(Sids(u)) + 1
    BY <1>1, <1>3, FS_AddElement
  <2> QED BY <1>1, <2>2, <2>3, <2>4
<1> QED BY <1>2, <1>3

\* No user ever holds more than CHAT_MAX_CONNECTIONS_PER_USER sockets, however
\* many threads connect him at once (connections.py, add).
THEOREM Cap == ASSUME IsFiniteSet(Sockets) PROVE Spec => []CapRespected
<1>1. Init => CapRespected
  <2> SUFFICES ASSUME Init, NEW u \in Users PROVE Cardinality(Sids(u)) <= MaxConnections
    BY DEF CapRespected
  <2>1. Sids(u) = {}
    BY ChatAssumption DEF Init, Sids, Unregistered
  <2> QED BY <2>1, FS_EmptySet, ChatAssumption
<1>2. IInv /\ CapRespected /\ [Next]_vars => CapRespected'
  BY Capped
<1> QED BY Invariance, <1>1, <1>2, PTL DEF Spec

-----------------------------------------------------------------------------
\* Nothing is committed or shown, a message that is no longer about to be
\* emitted is withheld, and whoever has joined stayed where he was or joins now.
LEMMA KeepsSeeing ==
  ASSUME IInv, JoinedSeesAll, messages' = messages, withheld \subseteq withheld',
         \A r \in Threads :
           thread[r].msg \in {0, thread'[r].msg} \union withheld',
         \A s \in Sockets : Open(s)' /\ socket'[s].since # -1 =>
           \/ socket'[s].since = Len(messages)
           \/ /\ Open(s) /\ socket'[s].since = socket[s].since
              /\ socket'[s].room = socket[s].room /\ socket'[s].shown = socket[s].shown
  PROVE  JoinedSeesAll'
<1> SUFFICES ASSUME NEW s \in Sockets, Open(s)', socket'[s].since # -1,
                    NEW i \in (socket'[s].since + 1) .. Len(messages),
                    messages[i] = socket'[s].room
             PROVE  i \in socket'[s].shown \union withheld' \union {thread'[r].msg : r \in Threads}
  BY DEF JoinedSeesAll
<1>1. Len(messages) \in Nat
  BY DEF IInv, TypeInv
<1>2. /\ Open(s) /\ socket'[s].since = socket[s].since
      /\ socket'[s].room = socket[s].room /\ socket'[s].shown = socket[s].shown
  BY <1>1
<1>3. i \in socket[s].shown \union withheld \union {thread[r].msg : r \in Threads}
  BY <1>2 DEF JoinedSeesAll
<1>4. i # 0
  <2>1. socket[s].since \in -1 .. MaxMessages
    BY DEF IInv, TypeInv, Page
  <2> QED BY <1>1, <1>2, <2>1, ChatAssumption
<1> QED BY <1>2, <1>3, <1>4

LEMMA NothingToLet ==
  ASSUME IInv, NEW t \in Threads,
         Idle(t) \/ thread[t].pc \in {"connecting", "authenticated", "checked", "starting"}
           \/ thread[t].op \in {"connect", "revoke", "terminate", "join"}
  PROVE  thread[t].msg = 0
BY DEF IInv, TaskOf, Idle, Resting

\* Only a handler that emits or fails lets go of its message.
LEMMA Carries ==
  ASSUME IInv, NEW t \in Threads,
         \/ PruneRead(t) \/ Remove(t) \/ Disconnect(t) \/ Closes(t) \/ UserSockets(t)
         \/ ConnectCheck(t) \/ ConnectAdd(t) \/ EventCheck(t) \/ JoinRoom(t)
         \/ SendCheck(t) \/ SaveRead(t) \/ StartCommit(t) \/ Fails(t)
         \/ \E u \in Users :
              \/ \E status \in {"active", "dormant"} : Revoke(t, u, status)
              \/ \E v \in Users : StartRead(t, u, v)
         \/ \E s \in Sockets :
              \/ \E u \in Users, room \in {GLOBAL_ROOM} \union DOMAIN conversations :
                   Connect(t, s, u, room)
              \/ \E op \in {"join", "send"} : Event(t, s, op)
  PROVE  \A r \in Threads : thread[r].msg \in {0, thread'[r].msg} \union withheld'
<1>1. thread \in [Threads -> Task] /\ thread[t] \in Task
  BY DEF IInv, TypeInv
<1>2. CASE PruneRead(t) \/ Remove(t) \/ Disconnect(t) \/ UserSockets(t) \/ EventCheck(t)
  <2>1. thread'[t].msg = thread[t].msg
    BY <1>1, <1>2 DEF PruneRead, Remove, Disconnect, UserSockets, EventCheck, Task
  <2>2. \A r \in Threads \ {t} : thread'[r] = thread[r]
    BY <1>1, <1>2 DEF PruneRead, Remove, Disconnect, UserSockets, EventCheck
  <2> QED BY <2>1, <2>2
<1>3. CASE \/ Closes(t) \/ ConnectCheck(t) \/ ConnectAdd(t) \/ JoinRoom(t) \/ StartCommit(t)
           \/ SendCheck(t) \/ SaveRead(t)
  <2>1. thread[t].msg = 0
    BY <1>3, NothingToLet DEF Closes, ConnectCheck, ConnectAdd, JoinRoom, StartCommit,
                              SendCheck, SaveRead, Pruned, At
  <2>2. \A r \in Threads \ {t} : thread'[r] = thread[r]
    BY <1>1, <1>3 DEF Closes, ConnectCheck, ConnectAdd, JoinRoom, StartCommit,
                      SendCheck, SaveRead, Finish, Goto
  <2> QED BY <2>1, <2>2
<1>4. CASE Fails(t)
  <2>1. thread[t].msg \in {0} \union withheld' /\ Finish(t)
    BY <1>4 DEF Fails
  <2> QED BY <1>1, <2>1 DEF Finish
<1>5. CASE \/ \E u \in Users :
                \/ \E status \in {"active", "dormant"} : Revoke(t, u, status)
                \/ \E v \in Users : StartRead(t, u, v)
           \/ \E s \in Sockets :
                \/ \E u \in Users, room \in {GLOBAL_ROOM} \union DOMAIN conversations :
                     Connect(t, s, u, room)
                \/ \E op \in {"join", "send"} : Event(t, s, op)
  <2>1. Idle(t) /\ \A r \in Threads \ {t} : thread'[r] = thread[r]
    BY <1>1, <1>5 DEF Revoke, StartRead, Connect, Event
  <2> QED BY <2>1, NothingToLet
<1> QED BY <1>2, <1>3, <1>4, <1>5

\* What the steps other than Emit and Connect do to the sockets.
LEMMA Pages ==
  ASSUME IInv, NEW t \in Threads, NEW s \in Sockets, Open(s)',
         \/ Disconnect(t) \/ ConnectCheck(t) \/ ConnectAdd(t) \/ JoinRoom(t) \/ Fails(t)
  PROVE  \/ socket'[s] = socket[s]
         \/ socket'[s].since = Len(messages) /\ JoinRoom(t)
<1> socket \in [Sockets -> Page]
  BY DEF IInv, TypeInv
<1>1. CASE Disconnect(t) \/ ConnectCheck(t) \/ ConnectAdd(t) \/ Fails(t)
  BY <1>1 DEF Disconnect, ConnectCheck, ConnectAdd, Fails, Open
<1>2. CASE JoinRoom(t)
  <2>1. CASE socket' = [socket EXCEPT ![thread[t].socket].since = Len(messages)]
    BY <1>2, <2>1 DEF Page
  <2> QED BY <1>2, <2>1 DEF JoinRoom
<1> QED BY <1>1, <1>2

LEMMA EmitSees ==
  ASSUME IInv, JoinedSeesAll, NEW t \in Threads, Emit(t)
  PROVE  JoinedSeesAll'
<1> SUFFICES ASSUME NEW s \in Sockets, Open(s)', socket'[s].since # -1,
                    NEW i \in (socket'[s].since + 1) .. Len(messages'),
                    messages'[i] = socket'[s].room
             PROVE  i \in socket'[s].shown \union withheld' \union {thread'[r].msg : r \in Threads}
  BY DEF JoinedSeesAll
<1>1. socket \in [Sockets -> Page] /\ thread \in [Threads -> Task] /\ TaskOf(t)
  BY DEF IInv, TypeInv
<1>2. messages' = messages /\ withheld' = withheld /\ thread' = [thread EXCEPT ![t] = Resting]
  BY DEF Emit, Finish
<1>3. CASE socket[s].since # -1 /\ socket[s].room = thread[t].room
  <2>1. socket'[s] = [socket[s] EXCEPT !.shown = @ \union {thread[t].msg}]
    BY <1>3 DEF Emit, Recipients
  <2>2. /\ socket'[s].since = socket[s].since /\ socket'[s].room = socket[s].room
        /\ socket'[s].shown = socket[s].shown \union {thread[t].msg} /\ Open(s)
    BY <1>1, <1>3, <2>1, Records DEF Page, Open
  <2>3. i \in socket[s].shown \union withheld \union {thread[r].msg : r \in Threads}
    BY <1>2, <2>2 DEF JoinedSeesAll
  <2> QED BY <1>1, <1>2, <2>2, <2>3
<1>4. CASE ~(socket[s].since # -1 /\ socket[s].room = thread[t].room)
  <2>1. socket'[s] = socket[s]
    BY <1>4 DEF Emit, Recipients
  <2>2. i \in socket[s].shown \union withheld \union {thread[r].msg : r \in Threads}
    BY <1>2, <2>1 DEF JoinedSeesAll, Open
  <2>3. i # thread[t].msg
    BY <1>1, <1>2, <1>4, <2>1 DEF Emit, TaskOf
  <2> QED BY <1>1, <1>2, <2>1, <2>2, <2>3
<1> QED BY <1>3, <1>4

LEMMA SaveSees ==
  ASSUME IInv, JoinedSeesAll, NEW t \in Threads, SaveCommit(t)
  PROVE  JoinedSeesAll'
<1> SUFFICES ASSUME NEW s \in Sockets, Open(s)', socket'[s].since # -1,
                    NEW i \in (socket'[s].since + 1) .. Len(messages'),
                    messages'[i] = socket'[s].room
             PROVE  i \in socket'[s].shown \union withheld' \union {thread'[r].msg : r \in Threads}
  BY DEF JoinedSeesAll
<1>1. /\ socket \in [Sockets -> Page] /\ thread \in [Threads -> Task] /\ TaskOf(t)
      /\ messages \in Seq(Rooms) /\ thread[t].pc = "saving" /\ thread[t].room \in Rooms
  BY DEF IInv, TypeInv, SaveCommit, At, Task
<1>2. socket' = socket /\ withheld' = withheld /\ messages' = Append(messages, thread[t].room)
  BY DEF SaveCommit
<1>3. thread'[t].msg = Len(messages) + 1 /\ \A r \in Threads \ {t} : thread'[r] = thread[r]
  BY <1>1 DEF SaveCommit, Task
<1>4. socket[s].since \in Nat /\ thread[t].msg = 0 /\ Open(s) /\ Len(messages) \in Nat
      /\ Len(messages') = Len(messages) + 1
      /\ \A j \in 1 .. Len(messages) : messages'[j] = messages[j]
  <2>1. socket[s].since \in -1 .. MaxMessages /\ socket[s].since # -1 /\ Open(s)
    BY <1>1, <1>2 DEF Page, Open
  <2> QED BY <1>1, <1>2, <2>1, ChatAssumption DEF TaskOf
<1>5. CASE i = Len(messages) + 1
  BY <1>3, <1>5
<1>6. CASE i # Len(messages) + 1
  <2>1. i \in (socket[s].since + 1) .. Len(messages) /\ i # 0 /\ messages[i] = socket[s].room
    BY <1>2, <1>4, <1>6
  <2>2. i \in socket[s].shown \union withheld \union {thread[r].msg : r \in Threads}
    BY <1>2, <1>4, <2>1 DEF JoinedSeesAll
  <2> QED BY <1>2, <1>3, <1>4, <2>1, <2>2
<1> QED BY <1>5, <1>6

LEMMA StepSees ==
  ASSUME IInv, JoinedSeesAll, [Next]_vars
  PROVE  JoinedSeesAll'
<1>1. CASE UNCHANGED vars
  BY <1>1 DEF vars, JoinedSeesAll, Open
<1>2. ASSUME NEW t \in Threads,
             \/ Disconnect(t) \/ ConnectCheck(t) \/ ConnectAdd(t) \/ JoinRoom(t) \/ Fails(t)
      PROVE  JoinedSeesAll'
  <2>1. messages' = messages /\ withheld \subseteq withheld'
    BY <1>2 DEF Disconnect, ConnectCheck, ConnectAdd, JoinRoom, Fails
  <2>2. \A r \in Threads : thread[r].msg \in {0, thread'[r].msg} \union withheld'
    BY <1>2, Carries
  <2>3. \A s \in Sockets : Open(s)' /\ socket'[s].since # -1 =>
          socket'[s].since = Len(messages) \/ socket'[s] = socket[s]
    BY <1>2, Pages
  <2> QED BY <2>1, <2>2, <2>3, KeepsSeeing DEF Open
<1>3. ASSUME NEW t \in Threads,
             \/ PruneRead(t) \/ Remove(t) \/ Closes(t) \/ UserSockets(t) \/ EventCheck(t)
             \/ SendCheck(t) \/ SaveRead(t) \/ StartCommit(t)
             \/ \E u \in Users :
                  \/ \E status \in {"active", "dormant"} : Revoke(t, u, status)
                  \/ \E v \in Users : StartRead(t, u, v)
             \/ \E s \in Sockets, op \in {"join", "send"} : Event(t, s, op)
      PROVE  JoinedSeesAll'
  <2>1. messages' = messages /\ withheld' = withheld /\ socket' = socket
    BY <1>3 DEF PruneRead, Remove, Closes, UserSockets, EventCheck, SendCheck, SaveRead,
                StartCommit, Revoke, StartRead, Event
  <2>2. \A r \in Threads : thread[r].msg \in {0, thread'[r].msg} \union withheld'
    BY <1>3, Carries
  <2> QED BY <2>1, <2>2, KeepsSeeing DEF Open
<1>4. ASSUME NEW t \in Threads, NEW s \in Sockets, NEW u \in Users,
             NEW room \in {GLOBAL_ROOM} \union DOMAIN conversations, Connect(t, s, u, room)
      PROVE  JoinedSeesAll'
  <2>1. messages' = messages /\ withheld' = withheld
    BY <1>4 DEF Connect
  <2>2. \A r \in Threads : thread[r].msg \in {0, thread'[r].msg} \union withheld'
    BY <1>4, Carries
  <2>3. socket'[s].since = -1 /\ \A x \in Sockets \ {s} : socket'[x] = socket[x]
    BY <1>4 DEF Connect, Closed, IInv, TypeInv
  <2> QED BY <2>1, <2>2, <2>3, KeepsSeeing DEF Open
<1>5. ASSUME NEW s \in Sockets, Leave(s) \/ Age(s) PROVE JoinedSeesAll'
  <2>1. messages' = messages /\ withheld' = withheld /\ thread' = thread
    BY <1>5 DEF Leave, Age
  <2>2. \A x \in Sockets : socket'[x] = socket[x] \/ ~Open(x)'
    BY <1>5 DEF Leave, Age, Open, IInv, TypeInv
  <2> QED BY <2>1, <2>2, KeepsSeeing DEF Open
<1>6. CASE Restart
  BY <1>6 DEF Restart, JoinedSeesAll, Open
<1>7. ASSUME NEW t \in Threads, Emit(t) \/ SaveCommit(t) PROVE JoinedSeesAll'
  BY <1>7, EmitSees, SaveSees
<1> QED BY <1>1, <1>2, <1>3, <1>4, <1>5, <1>6, <1>7 DEF Next

\* A page that has joined a room misses no message committed to it since, but
\* one whose handler failed before its emit (events.py, _emit_message).
THEOREM Joined == Spec => []JoinedSeesAll
<1>1. Init => JoinedSeesAll
  BY DEF Init, JoinedSeesAll, Open
<1>2. IInv /\ JoinedSeesAll /\ [Next]_vars => JoinedSeesAll'
  BY StepSees
<1> QED BY Invariance, <1>1, <1>2, PTL DEF Spec

-----------------------------------------------------------------------------
(* What is committed after a revocation does not reach the revoked socket. *)

Closing(s) == \E r \in Threads : thread[r].closing = s

\* The registry knows the socket, or a thread is about to close it.
Held(s) == Registered(s) \/ Closing(s)

\* Nobody is registered, or about to be, with a version his account has yet
\* to reach: what a revocation invalidates stays invalid.
VersionInv ==
  /\ \A s \in Sockets : registry[s].user \in Users =>
       registry[s].version <= account[registry[s].user].version
  /\ \A t \in Threads : thread[t].pc = "connecting" =>
       thread[t].version <= account[thread[t].user].version

\* The events of one socket are handled one after the other.
Apart ==
  \A t, r \in Threads :
    thread[t].socket = thread[r].socket /\ thread[t].socket # NoSocket => t = r

\* A page joins no room before its socket is registered.
HeldInv ==
  /\ \A s \in Sockets : Open(s) /\ socket[s].since # -1 => Held(s)
  /\ \A t \in Threads :
       /\ thread[t].op = "connect" => socket[thread[t].socket].since = -1
       /\ thread[t].pc = "authenticated" /\ Open(thread[t].socket) => Held(thread[t].socket)

\* A socket that was dead when the message was committed stays so, and the
\* prune before the emit finds it.
DoomedOf(t) ==
  \A s \in thread[t].dead :
    /\ thread[t].msg # 0 /\ ~Live(s)
    /\ Open(s) => Held(s)
    /\ \A r \in Threads : thread[r].op = "connect" => thread[r].socket # s
    /\ thread[t].pc # "prune" /\ Open(s) => s \in thread[t].stale \/ Closing(s)

\* Every message has one handler, which has yet to emit it.
Fresh ==
  /\ \A t, r \in Threads : thread[t].msg = thread[r].msg /\ thread[t].msg # 0 => t = r
  /\ \A t \in Threads, s \in Sockets : thread[t].msg \notin socket[s].shown

RevocationInv ==
  /\ VersionInv /\ Apart /\ HeldInv /\ Fresh
  /\ \A t \in Threads : DoomedOf(t)

Handles(t) ==
  \/ PruneRead(t) \/ Remove(t) \/ Disconnect(t) \/ Closes(t) \/ UserSockets(t)
  \/ ConnectCheck(t) \/ ConnectAdd(t) \/ EventCheck(t) \/ JoinRoom(t)
  \/ SendCheck(t) \/ SaveRead(t) \/ SaveCommit(t) \/ Emit(t)
  \/ StartCommit(t) \/ Fails(t)

Commences(t) ==
  \/ \E u \in Users :
       \/ \E status \in {"active", "dormant"} : Revoke(t, u, status)
       \/ \E v \in Users : StartRead(t, u, v)
  \/ \E s \in Sockets :
       \/ \E u \in Users, room \in {GLOBAL_ROOM} \union DOMAIN conversations :
            Connect(t, s, u, room)
       \/ \E op \in {"join", "send"} : Event(t, s, op)

LEMMA NextSteps ==
  Next <=> \/ \E t \in Threads : Handles(t) \/ Commences(t)
           \/ \E s \in Sockets : Leave(s) \/ Age(s)
           \/ Restart
BY DEF Next, Handles, Commences

LEMMA Rested ==
  /\ Resting.pc = "idle" /\ Resting.op = "none" /\ Resting.socket = NoSocket
  /\ Resting.closing = NoSocket /\ Resting.msg = 0 /\ Resting.dead = {}
BY DEF Resting

\* One thread moves at a time.
LEMMA Alone ==
  ASSUME IInv, NEW t \in Threads, Handles(t) \/ Commences(t)
  PROVE  \A r \in Threads : r # t => thread'[r] = thread[r]
<1> thread \in [Threads -> Task]
  BY DEF IInv, TypeInv
<1>1. CASE Handles(t)
  BY <1>1 DEF Handles, PruneRead, Remove, Disconnect, Closes, UserSockets, ConnectCheck,
              ConnectAdd, EventCheck, JoinRoom, SendCheck, SaveRead, SaveCommit, Emit,
              StartCommit, Fails, Finish, Goto
<1>2. CASE Commences(t)
  BY <1>2 DEF Commences, Revoke, StartRead, Connect, Event
<1> QED BY <1>1, <1>2

\* A handler begins with a socket that no other one works on.
LEMMA BeginsAfresh ==
  ASSUME IInv, NEW t \in Threads, Commences(t)
  PROVE  /\ thread[t] = Resting /\ UNCHANGED <<registry, messages>>
         /\ thread'[t].pc \in {"revoked", "starting", "prune"}
         /\ thread'[t].msg = 0 /\ thread'[t].dead = {} /\ thread'[t].closing = NoSocket
         /\ thread'[t].socket # NoSocket => \A r \in Threads : thread[r].socket # thread'[t].socket
         /\ \/ socket' = socket /\ thread'[t].op # "connect"
            \/ \E s \in Sockets, u \in Users, room \in {GLOBAL_ROOM} \union DOMAIN conversations :
                 Connect(t, s, u, room) /\ thread'[t].socket = s
<1> thread \in [Threads -> Task]
  BY DEF IInv, TypeInv
<1>1. ASSUME NEW u \in Users, NEW status \in {"active", "dormant"}, Revoke(t, u, status)
      PROVE  /\ thread[t] = Resting /\ UNCHANGED <<registry, messages, socket>>
             /\ thread'[t].pc = "revoked" /\ thread'[t].op = "revoke"
             /\ thread'[t].msg = 0 /\ thread'[t].dead = {} /\ thread'[t].closing = NoSocket
             /\ thread'[t].socket = NoSocket
  BY <1>1 DEF Revoke, Idle, Resting
<1>2. ASSUME NEW u \in Users, NEW v \in Users, StartRead(t, u, v)
      PROVE  /\ thread[t] = Resting /\ UNCHANGED <<registry, messages, socket>>
             /\ thread'[t].pc = "starting" /\ thread'[t].op = "start"
             /\ thread'[t].msg = 0 /\ thread'[t].dead = {} /\ thread'[t].closing = NoSocket
             /\ thread'[t].socket = NoSocket
  BY <1>2 DEF StartRead, Idle, Resting
<1>3. ASSUME NEW s \in Sockets, NEW op \in {"join", "send"}, Event(t, s, op)
      PROVE  /\ thread[t] = Resting /\ UNCHANGED <<registry, messages, socket>>
             /\ thread'[t].pc = "prune" /\ thread'[t].op = op
             /\ thread'[t].msg = 0 /\ thread'[t].dead = {} /\ thread'[t].closing = NoSocket
             /\ thread'[t].socket = s /\ \A r \in Threads : thread[r].socket # s
  BY <1>3 DEF Event, Idle, Resting
<1>4. ASSUME NEW s \in Sockets, NEW u \in Users,
             NEW room \in {GLOBAL_ROOM} \union DOMAIN conversations, Connect(t, s, u, room)
      PROVE  /\ thread[t] = Resting /\ UNCHANGED <<registry, messages>>
             /\ thread'[t].pc = "prune"
             /\ thread'[t].msg = 0 /\ thread'[t].dead = {} /\ thread'[t].closing = NoSocket
             /\ thread'[t].socket = s /\ \A r \in Threads : thread[r].socket # s
  BY <1>4 DEF Connect, Idle, Resting
<1> QED BY <1>1, <1>2, <1>3, <1>4 DEF Commences

\* A handler keeps its socket and its message to its end.
LEMMA GoesOn ==
  ASSUME IInv, NEW t \in Threads, Handles(t), thread'[t] # Resting
  PROVE  /\ thread'[t].socket = thread[t].socket
         /\ thread'[t].op \in {thread[t].op, "terminate"}
         /\ SaveCommit(t) \/ (thread'[t].msg = thread[t].msg /\ thread'[t].dead = thread[t].dead)
<1> thread \in [Threads -> Task] /\ thread[t] \in Task
  BY DEF IInv, TypeInv
<1>1. CASE PruneRead(t) \/ Remove(t) \/ Disconnect(t) \/ UserSockets(t) \/ EventCheck(t)
  BY <1>1 DEF PruneRead, Remove, Disconnect, UserSockets, EventCheck, Task
<1>2. CASE ConnectCheck(t) \/ SendCheck(t) \/ SaveRead(t) \/ SaveCommit(t)
  BY <1>2 DEF ConnectCheck, SendCheck, SaveRead, SaveCommit, Finish, Goto, Task
<1>3. CASE Closes(t) \/ ConnectAdd(t) \/ JoinRoom(t) \/ Emit(t) \/ StartCommit(t) \/ Fails(t)
  BY <1>3 DEF Closes, ConnectAdd, JoinRoom, Emit, StartCommit, Fails, Finish
<1> QED BY <1>1, <1>2, <1>3 DEF Handles

LEMMA ApartStays ==
  ASSUME IInv, Apart, [Next]_vars
  PROVE  Apart'
<1>1. CASE UNCHANGED vars
  BY <1>1 DEF vars, Apart
<1>2. ASSUME NEW t \in Threads, Handles(t) \/ Commences(t) PROVE Apart'
  <2>1. \A r \in Threads : r # t => thread'[r] = thread[r]
    BY <1>2, Alone
  <2>2. \/ thread'[t].socket \in {thread[t].socket, NoSocket}
        \/ \A r \in Threads : thread[r].socket # thread'[t].socket
    BY <1>2, BeginsAfresh, GoesOn, Rested
  <2> QED BY <2>1, <2>2 DEF Apart
<1>3. ASSUME NEW s \in Sockets, Leave(s) \/ Age(s) PROVE Apart'
  BY <1>3 DEF Leave, Age, Apart
<1>4. CASE Restart
  BY <1>4, Rested DEF Restart, Apart
<1> QED BY <1>1, <1>2, <1>3, <1>4, NextSteps

\* A socket opens for a page that has not joined yet, and joins where its own
\* handler lets it.
LEMMA SocketMoves ==
  ASSUME IInv, [Next]_vars, NEW s \in Sockets, Open(s)'
  PROVE  \/ Open(s) /\ socket'[s].since = socket[s].since
         \/ /\ socket'[s].since = -1
            /\ \E t \in Threads, u \in Users, room \in {GLOBAL_ROOM} \union DOMAIN conversations :
                 Connect(t, s, u, room)
         \/ \E t \in Threads : JoinRoom(t) /\ s = thread[t].socket /\ Open(s)
<1> socket \in [Sockets -> Page]
  BY DEF IInv, TypeInv
<1>1. CASE UNCHANGED vars
  BY <1>1 DEF vars, Open
<1>2. ASSUME NEW t \in Threads, Commences(t), socket' # socket
      PROVE  \/ Open(s) /\ socket'[s].since = socket[s].since
             \/ /\ socket'[s].since = -1
                /\ \E u \in Users, room \in {GLOBAL_ROOM} \union DOMAIN conversations :
                     Connect(t, s, u, room)
  <2> PICK x \in Sockets, u \in Users, room \in {GLOBAL_ROOM} \union DOMAIN conversations :
             Connect(t, x, u, room)
    BY <1>2, BeginsAfresh
  <2>1. socket' = [socket EXCEPT ![x] = [Closed EXCEPT !.user = u, !.room = room]]
    BY DEF Connect
  <2>2. CASE x = s
    BY <2>1, <2>2 DEF Closed
  <2>3. CASE x # s
    BY <2>1, <2>3 DEF Open
  <2> QED BY <2>2, <2>3
<1>3. ASSUME NEW t \in Threads,
             Disconnect(t) \/ ConnectCheck(t) \/ ConnectAdd(t) \/ JoinRoom(t) \/ Fails(t)
      PROVE  \/ Open(s) /\ socket'[s].since = socket[s].since
             \/ JoinRoom(t) /\ s = thread[t].socket /\ Open(s)
  <2>1. CASE socket'[s] = socket[s]
    BY <2>1 DEF Open
  <2>2. CASE JoinRoom(t) /\ socket'[s] # socket[s]
    BY <2>2 DEF JoinRoom
  <2> QED BY <1>3, <2>1, <2>2, Pages
<1>4. ASSUME NEW t \in Threads, Emit(t) PROVE Open(s) /\ socket'[s].since = socket[s].since
  <2>1. CASE socket'[s] = [socket[s] EXCEPT !.shown = @ \union {thread[t].msg}]
             /\ socket[s].since # -1
    BY <2>1, Records DEF Page, Open
  <2>2. CASE socket'[s] = socket[s]
    BY <2>2 DEF Open
  <2> QED BY <1>4, <2>1, <2>2 DEF Emit, Recipients
<1>5. ASSUME NEW t \in Threads,
             \/ PruneRead(t) \/ Remove(t) \/ Closes(t) \/ UserSockets(t) \/ EventCheck(t)
             \/ SendCheck(t) \/ SaveRead(t) \/ SaveCommit(t) \/ StartCommit(t)
      PROVE  socket' = socket
  BY <1>5 DEF PruneRead, Remove, Closes, UserSockets, EventCheck, SendCheck, SaveRead,
              SaveCommit, StartCommit
<1>6. ASSUME socket' = socket PROVE Open(s) /\ socket'[s].since = socket[s].since
  BY <1>6 DEF Open
<1>7. ASSUME NEW t \in Threads, Handles(t)
      PROVE  \/ Open(s) /\ socket'[s].since = socket[s].since
             \/ JoinRoom(t) /\ s = thread[t].socket /\ Open(s)
  BY <1>3, <1>4, <1>5, <1>6, <1>7 DEF Handles
<1>8. ASSUME NEW x \in Sockets, Leave(x) \/ Age(x)
      PROVE  Open(s) /\ socket'[s].since = socket[s].since
  BY <1>8 DEF Leave, Age, Open
<1>9. ~Restart
  BY DEF Restart, Open
<1> QED BY <1>1, <1>2, <1>6, <1>7, <1>8, <1>9, NextSteps

\* A thread that took a socket out of the registry closes it.
LEMMA ClosingStays ==
  ASSUME IInv, [Next]_vars, NEW s \in Sockets, Closing(s), Open(s)'
  PROVE  Closing(s)'
<1> PICK r \in Threads : thread[r].closing = s
  BY DEF Closing
<1>1. thread[r].pc = "closing" /\ thread[r].op \in Ops
  BY ChatAssumption DEF IInv, TypeInv, TaskOf, Task
<1>2. ASSUME Handles(r) PROVE FALSE
  <2>1. ~Disconnect(r)
    BY DEF Disconnect, Open, IInv, TypeInv
  <2>2. ~(PruneRead(r) \/ Remove(r) \/ Closes(r) \/ UserSockets(r) \/ ConnectCheck(r)
          \/ ConnectAdd(r) \/ EventCheck(r) \/ JoinRoom(r) \/ SendCheck(r) \/ SaveRead(r)
          \/ SaveCommit(r) \/ Emit(r) \/ StartCommit(r) \/ Fails(r))
    BY <1>1 DEF PruneRead, Remove, Closes, UserSockets, ConnectCheck, ConnectAdd, EventCheck,
                JoinRoom, SendCheck, SaveRead, SaveCommit, Emit, StartCommit, Fails, Pruned, At
  <2> QED BY <1>2, <2>1, <2>2 DEF Handles
<1>3. ~Commences(r)
  BY <1>1, BeginsAfresh, Rested
<1>4. ASSUME NEW t \in Threads, Handles(t) \/ Commences(t) PROVE thread'[r] = thread[r]
  BY <1>2, <1>3, <1>4, Alone
<1>5. ASSUME NEW x \in Sockets, Leave(x) \/ Age(x) PROVE thread' = thread
  BY <1>5 DEF Leave, Age
<1>6. ~Restart
  BY DEF Restart, Open
<1>7. thread'[r] = thread[r]
  BY <1>4, <1>5, <1>6, NextSteps DEF vars
<1> QED BY <1>7 DEF Closing

\* An open socket leaves the registry only to be closed, and enters it for the
\* version its handler has read.
LEMMA RegistryMoves ==
  ASSUME IInv, [Next]_vars, NEW s \in Sockets, registry'[s] # registry[s]
  PROVE  \/ registry'[s] = Unregistered /\ (~Open(s)' \/ Closing(s)')
         \/ registry'[s] = [registry[s] EXCEPT !.old = TRUE]
         \/ \E t \in Threads :
              /\ thread[t].pc = "connecting" /\ s = thread[t].socket /\ account' = account
              /\ thread[t].user \in Users
              /\ registry'[s] = [user |-> thread[t].user, version |-> thread[t].version,
                                 old |-> FALSE]
<1> registry \in [Sockets -> Entry] /\ thread \in [Threads -> Task]
  BY DEF IInv, TypeInv
<1>1. ASSUME NEW t \in Threads, Remove(t) PROVE registry'[s] = Unregistered /\ Closing(s)'
  BY <1>1 DEF Remove, Closing
<1>2. ASSUME NEW t \in Threads, ConnectAdd(t)
      PROVE  /\ thread[t].pc = "connecting" /\ s = thread[t].socket /\ account' = account
             /\ thread[t].user \in Users
             /\ registry'[s] = [user |-> thread[t].user, version |-> thread[t].version,
                                old |-> FALSE]
  BY <1>2 DEF ConnectAdd, At, IInv, TaskOf
<1>3. ASSUME NEW x \in Sockets, Leave(x) PROVE registry'[s] = Unregistered /\ ~Open(s)'
  BY <1>3 DEF Leave, Open, IInv, TypeInv
<1>4. ASSUME NEW x \in Sockets, Age(x) PROVE registry'[s] = [registry[s] EXCEPT !.old = TRUE]
  BY <1>4 DEF Age
<1>5. ASSUME Restart PROVE registry'[s] = Unregistered /\ ~Open(s)'
  BY <1>5 DEF Restart, Open
<1>6. ASSUME NEW t \in Threads,
             \/ PruneRead(t) \/ Disconnect(t) \/ Closes(t) \/ UserSockets(t)
             \/ ConnectCheck(t) \/ EventCheck(t) \/ JoinRoom(t) \/ SendCheck(t)
             \/ SaveRead(t) \/ SaveCommit(t) \/ Emit(t) \/ StartCommit(t) \/ Fails(t)
      PROVE  FALSE
  BY <1>6 DEF PruneRead, Disconnect, Closes, UserSockets, ConnectCheck, EventCheck, JoinRoom,
              SendCheck, SaveRead, SaveCommit, Emit, StartCommit, Fails
<1>7. ASSUME NEW t \in Threads, Commences(t) PROVE FALSE
  BY <1>7, BeginsAfresh
<1>8. ~(UNCHANGED vars)
  BY DEF vars
<1> QED BY <1>1, <1>2, <1>3, <1>4, <1>5, <1>6, <1>7, <1>8, NextSteps DEF Handles

LEMMA HeldStays ==
  ASSUME IInv, [Next]_vars, NEW s \in Sockets, Held(s), Open(s)'
  PROVE  Held(s)'
<1> SUFFICES ASSUME Registered(s), ~Registered(s)' PROVE Closing(s)'
  BY ClosingStays DEF Held
<1>1. registry[s] \in Entry /\ registry'[s] # registry[s] /\ Unregistered.old = FALSE
      /\ Unregistered.user = Nobody /\ Nobody \notin Users
  BY ChatAssumption DEF Registered, IInv, TypeInv, Unregistered
<1>2. registry'[s].old = FALSE /\ registry'[s].user = Nobody
  BY <1>1 DEF Registered
<1>3. [registry[s] EXCEPT !.old = TRUE].old = TRUE
  BY <1>1 DEF Entry
<1>4. ASSUME NEW t \in Threads, thread[t].user \in Users,
             registry'[s] = [user |-> thread[t].user, version |-> thread[t].version, old |-> FALSE]
      PROVE  registry'[s].user \in Users
  BY <1>4
<1>5. ~(registry'[s] = [registry[s] EXCEPT !.old = TRUE])
  BY <1>2, <1>3
<1> QED BY <1>1, <1>2, <1>4, <1>5, RegistryMoves

\* A version is only ever raised.
LEMMA VersionsRise ==
  ASSUME IInv, [Next]_vars, NEW u \in Users
  PROVE  /\ account[u].version \in Nat /\ account'[u].version \in Nat
         /\ \/ account'[u] = account[u]
            \/ account[u].version < account'[u].version
<1> account \in [Users -> Account] /\ account' \in [Users -> Account]
  BY Steps DEF IInv, TypeInv
<1>1. account[u].version \in Nat /\ account'[u].version \in Nat
  BY ChatAssumption DEF Account
<1>2. ASSUME NEW t \in Threads, NEW v \in Users, NEW status \in {"active", "dormant"},
             Revoke(t, v, status)
      PROVE  account'[u] = account[u] \/ account[u].version < account'[u].version
  <2>1. account' = [account EXCEPT ![v] = [status |-> status, version |-> Raised(v)]]
    BY <1>2 DEF Revoke
  <2> QED BY <1>1, <2>1 DEF Raised
<1>3. ASSUME NEW t \in Threads, Handles(t) PROVE account' = account
  BY <1>3 DEF Handles, PruneRead, Remove, Disconnect, Closes, UserSockets, ConnectCheck,
              ConnectAdd, EventCheck, JoinRoom, SendCheck, SaveRead, SaveCommit, Emit,
              StartCommit, Fails
<1>4. ASSUME NEW t \in Threads, Commences(t)
      PROVE  account'[u] = account[u] \/ account[u].version < account'[u].version
  <2>1. ASSUME NEW v \in Users, NEW w \in Users, StartRead(t, v, w) PROVE account' = account
    BY <2>1 DEF StartRead
  <2>2. ASSUME NEW s \in Sockets,
               \/ \E v \in Users, room \in {GLOBAL_ROOM} \union DOMAIN conversations :
                    Connect(t, s, v, room)
               \/ \E op \in {"join", "send"} : Event(t, s, op)
        PROVE  account' = account
    BY <2>2 DEF Connect, Event
  <2> QED BY <1>2, <1>4, <2>1, <2>2 DEF Commences
<1>5. Restart \/ (\E s \in Sockets : Leave(s) \/ Age(s)) \/ UNCHANGED vars => account' = account
  BY DEF Restart, Leave, Age, vars
<1> QED BY <1>1, <1>3, <1>4, <1>5, NextSteps

LEMMA VersionsHold ==
  ASSUME IInv, VersionInv, [Next]_vars
  PROVE  VersionInv'
<1>1. ASSUME NEW u \in Users, NEW n \in Int, n <= account[u].version
      PROVE  n <= account'[u].version
  BY <1>1, VersionsRise
<1>2. ASSUME NEW s \in Sockets, registry'[s].user \in Users
      PROVE  registry'[s].version <= account'[registry'[s].user].version
  <2>1. registry[s] \in Entry /\ registry[s].version \in Int
    BY ChatAssumption DEF IInv, TypeInv, Entry
  <2>2. ASSUME NEW t \in Threads, thread[t].user \in Users, thread[t].pc = "connecting"
        PROVE  thread[t].version <= account'[thread[t].user].version
    <3>1. thread[t].version \in Int
      BY ChatAssumption DEF IInv, TypeInv, Task
    <3> QED BY <1>1, <2>2, <3>1 DEF VersionInv
  <2>3. CASE registry'[s].user = registry[s].user /\ registry'[s].version = registry[s].version
    BY <1>1, <1>2, <2>1, <2>3 DEF VersionInv
  <2>4. registry'[s] # Unregistered
    BY <1>2, ChatAssumption DEF Unregistered
  <2>5. /\ [registry[s] EXCEPT !.old = TRUE].user = registry[s].user
        /\ [registry[s] EXCEPT !.old = TRUE].version = registry[s].version
    BY <2>1 DEF Entry
  <2>6. ASSUME NEW t \in Threads, thread[t].pc = "connecting", thread[t].user \in Users,
               registry'[s] = [user |-> thread[t].user, version |-> thread[t].version,
                               old |-> FALSE]
        PROVE  registry'[s].version <= account'[registry'[s].user].version
    BY <2>2, <2>6
  <2>7. CASE registry'[s] = [registry[s] EXCEPT !.old = TRUE]
    BY <2>3, <2>5, <2>7
  <2>8. CASE registry'[s] = registry[s]
    BY <2>3, <2>8
  <2> QED BY <2>4, <2>6, <2>7, <2>8, RegistryMoves
<1>3. ASSUME NEW t \in Threads, thread'[t].pc = "connecting"
      PROVE  thread'[t].version <= account'[thread'[t].user].version
  <2>1. CASE thread'[t] = thread[t]
    <3>1. thread[t].user \in Users /\ thread[t].version \in Int
      BY <1>3, <2>1, ChatAssumption DEF IInv, TaskOf, TypeInv, Task
    <3> QED BY <1>1, <1>3, <2>1, <3>1 DEF VersionInv
  <2>2. CASE Handles(t) /\ thread'[t] # thread[t]
    <3>1. thread[t] \in Task /\ thread \in [Threads -> Task]
      BY DEF IInv, TypeInv
    <3>2. ConnectCheck(t)
      <4>1. ~(PruneRead(t) \/ Remove(t) \/ Disconnect(t) \/ UserSockets(t) \/ SaveCommit(t))
        BY <1>3, <3>1 DEF PruneRead, Remove, Disconnect, UserSockets, SaveCommit, Task
      <4>2. ~(EventCheck(t) \/ SendCheck(t) \/ SaveRead(t))
        BY <1>3, <3>1 DEF EventCheck, SendCheck, SaveRead, Pruned, At, Goto, Finish, Resting, Task
      <4>3. ~(Closes(t) \/ ConnectAdd(t) \/ JoinRoom(t) \/ Emit(t) \/ StartCommit(t) \/ Fails(t))
        BY <1>3, <3>1, Rested
           DEF Closes, ConnectAdd, JoinRoom, Emit, StartCommit, Fails, Finish
      <4> QED BY <2>2, <4>1, <4>2, <4>3 DEF Handles
    <3>3. thread[t].user \in Users
      BY <3>2 DEF ConnectCheck, Pruned, IInv, TaskOf
    <3>4. /\ thread'[t].version = account[thread[t].user].version
          /\ thread'[t].user = thread[t].user /\ account' = account
      BY <1>3, <3>1, <3>2, Rested DEF ConnectCheck, Finish, Task
    <3> QED BY <3>3, <3>4, VersionsRise
  <2>3. ~Commences(t)
    BY <1>3, BeginsAfresh
  <2>4. ASSUME NEW r \in Threads, r # t, Handles(r) \/ Commences(r) PROVE thread'[t] = thread[t]
    BY <2>4, Alone
  <2>5. ~Restart
    BY <1>3, Rested DEF Restart
  <2>6. ASSUME NEW s \in Sockets, Leave(s) \/ Age(s) PROVE thread'[t] = thread[t]
    BY <2>6 DEF Leave, Age
  <2> QED BY <2>1, <2>2, <2>3, <2>4, <2>5, <2>6, NextSteps DEF vars
<1> QED BY <1>2, <1>3 DEF VersionInv

LEMMA Moving ==
  ASSUME IInv, [Next]_vars, NEW t \in Threads
  PROVE  \/ thread'[t] \in {thread[t], Resting}
         \/ Handles(t) /\ thread'[t] # Resting /\ thread'[t] # thread[t]
         \/ Commences(t)
<1>1. ASSUME NEW s \in Sockets, Leave(s) \/ Age(s) PROVE thread' = thread
  BY <1>1 DEF Leave, Age
<1>2. ASSUME Restart PROVE thread'[t] = Resting
  BY <1>2 DEF Restart
<1> QED BY <1>1, <1>2, Alone, NextSteps DEF vars

\* Only EventCheck lets a handler act for its socket's user.
LEMMA Authenticating ==
  ASSUME IInv, NEW t \in Threads, Handles(t), thread'[t] # Resting, thread'[t] # thread[t],
         thread'[t].pc = "authenticated"
  PROVE  Registered(thread[t].socket) /\ registry' = registry
<1>1. thread[t] \in Task /\ thread \in [Threads -> Task]
  BY DEF IInv, TypeInv
<1>2. ~(PruneRead(t) \/ Remove(t) \/ Disconnect(t) \/ UserSockets(t) \/ SaveCommit(t))
  BY <1>1 DEF PruneRead, Remove, Disconnect, UserSockets, SaveCommit, Task
<1>3. ~(ConnectCheck(t) \/ SendCheck(t) \/ SaveRead(t))
  BY <1>1, Rested DEF ConnectCheck, SendCheck, SaveRead, Pruned, At, Goto, Finish, Task
<1>4. ~(Closes(t) \/ ConnectAdd(t) \/ JoinRoom(t) \/ Emit(t) \/ StartCommit(t) \/ Fails(t))
  BY <1>1 DEF Closes, ConnectAdd, JoinRoom, Emit, StartCommit, Fails, Finish
<1>5. EventCheck(t)
  BY <1>2, <1>3, <1>4 DEF Handles
<1> QED BY <1>1, <1>5 DEF EventCheck, Pruned, At, Task

LEMMA HeldInvStays ==
  ASSUME IInv, Apart, HeldInv, [Next]_vars
  PROVE  HeldInv'
<1>1. ASSUME NEW s \in Sockets, Open(s)', socket'[s].since # -1 PROVE Held(s)'
  <2>1. CASE Open(s) /\ socket'[s].since = socket[s].since
    BY <1>1, <2>1, HeldStays DEF HeldInv
  <2>2. ASSUME NEW t \in Threads, JoinRoom(t), s = thread[t].socket, Open(s) PROVE Held(s)'
    BY <1>1, <2>2, HeldStays DEF HeldInv, JoinRoom, At
  <2> QED BY <1>1, <2>1, <2>2, SocketMoves
<1>2. ASSUME NEW t \in Threads, thread'[t].op = "connect"
      PROVE  socket'[thread'[t].socket].since = -1
  <2>1. CASE thread[t].op = "connect" /\ thread'[t].socket = thread[t].socket
    <3> PICK s \in Sockets : s = thread[t].socket
      BY <2>1 DEF IInv, TaskOf
    <3>1. socket[s].since = -1 /\ s # NoSocket
      BY <2>1, ChatAssumption DEF HeldInv
    <3>2. ASSUME NEW q \in Threads, JoinRoom(q), s = thread[q].socket PROVE FALSE
      <4>1. q = t
        BY <3>1, <3>2 DEF Apart
      <4> QED BY <2>1, <3>2, <4>1 DEF JoinRoom, At, IInv, TaskOf
    <3>3. CASE ~Open(s)'
      BY <2>1, <3>3, Records DEF Open
    <3> QED BY <2>1, <3>1, <3>2, <3>3, SocketMoves
  <2>2. ASSUME NEW s \in Sockets, NEW u \in Users,
               NEW room \in {GLOBAL_ROOM} \union DOMAIN conversations,
               Connect(t, s, u, room), thread'[t].socket = s
        PROVE  socket'[thread'[t].socket].since = -1
    BY <2>2 DEF Connect, Closed, IInv, TypeInv
  <2> QED BY <1>2, <2>1, <2>2, Moving, GoesOn, BeginsAfresh, Rested
<1>3. ASSUME NEW t \in Threads, NEW s \in Sockets, thread'[t].pc = "authenticated",
             thread'[t].socket = s, Open(s)'
      PROVE  Held(s)'
  <2>1. CASE thread'[t] = thread[t]
    <3>1. ASSUME NEW q \in Threads, NEW u \in Users,
                 NEW room \in {GLOBAL_ROOM} \union DOMAIN conversations, Connect(q, s, u, room)
          PROVE  FALSE
      BY <1>3, <2>1, <3>1 DEF Connect
    <3>2. Open(s)
      BY <1>3, <3>1, SocketMoves
    <3>3. Held(s)
      BY <1>3, <2>1, <3>2 DEF HeldInv
    <3> QED BY <1>3, <3>3, HeldStays
  <2>2. CASE Handles(t) /\ thread'[t] # Resting /\ thread'[t] # thread[t]
    <3>1. s = thread[t].socket
      BY <1>3, <2>2, GoesOn
    <3>2. Registered(s) /\ registry' = registry
      BY <1>3, <2>2, <3>1, Authenticating
    <3> QED BY <3>2 DEF Held, Registered
  <2> QED BY <1>3, <2>1, <2>2, Moving, BeginsAfresh, Rested
<1>4. \A t \in Threads : thread'[t].pc = "authenticated" => thread'[t].socket \in Sockets
  BY Steps DEF IInv, TaskOf
<1> QED BY <1>1, <1>2, <1>3, <1>4 DEF HeldInv

\* Who was turned out is not let in again before his socket opens anew.
LEMMA DeadStays ==
  ASSUME IInv, VersionInv, [Next]_vars, NEW s \in Sockets, ~Live(s),
         \A r \in Threads : thread[r].op = "connect" => thread[r].socket # s
  PROVE  ~Live(s)'
<1>1. registry[s] \in Entry /\ registry'[s] \in Entry
  BY Steps DEF IInv, TypeInv
<1>2. ~Live(s) <=> \/ registry[s].user \notin Users
                   \/ account[registry[s].user].status # "active"
                   \/ registry[s].version # account[registry[s].user].version
                   \/ registry[s].old
  BY DEF Live, Welcome, Active
<1>3. ~Live(s)' <=> \/ registry'[s].user \notin Users
                    \/ account'[registry'[s].user].status # "active"
                    \/ registry'[s].version # account'[registry'[s].user].version
                    \/ registry'[s].old
  BY DEF Live, Welcome, Active
<1>4. CASE registry'[s] = registry[s]
  <2>1. CASE registry[s].user \in Users
    <3>1. registry[s].version <= account[registry[s].user].version /\ registry[s].version \in Int
      BY <1>1, <2>1, ChatAssumption DEF VersionInv, Entry
    <3>2. CASE account'[registry[s].user] = account[registry[s].user]
      BY <1>2, <1>3, <1>4, <3>2
    <3>3. CASE account[registry[s].user].version < account'[registry[s].user].version
      <4>1. registry[s].version # account'[registry[s].user].version
        BY <2>1, <3>1, <3>3, VersionsRise
      <4> QED BY <1>3, <1>4, <4>1
    <3> QED BY <2>1, <3>2, <3>3, VersionsRise
  <2> QED BY <1>3, <1>4, <2>1
<1>5. CASE registry'[s] = Unregistered
  BY <1>3, <1>5, ChatAssumption DEF Unregistered
<1>6. CASE registry'[s] = [registry[s] EXCEPT !.old = TRUE]
  BY <1>1, <1>3, <1>6 DEF Entry
<1>7. ~\E t \in Threads : thread[t].pc = "connecting" /\ s = thread[t].socket
  BY DEF IInv, TaskOf
<1> QED BY <1>4, <1>5, <1>6, <1>7, RegistryMoves

\* The prune before the emit finds what was dead at the commit.
LEMMA PruneFinds ==
  ASSUME IInv, [Next]_vars, NEW t \in Threads, DoomedOf(t), NEW s \in thread[t].dead,
         Handles(t), thread'[t] # Resting, ~SaveCommit(t), thread'[t].pc # "prune", Open(s), Open(s)'
  PROVE  s \in thread'[t].stale \/ Closing(s)'
<1>1. thread[t] \in Task /\ thread \in [Threads -> Task] /\ s \in Sockets /\ thread[t].msg # 0
  BY DEF IInv, TypeInv, Task, DoomedOf
<1>2. Closing(s) => Closing(s)'
  BY <1>1, ClosingStays
<1>3. CASE PruneRead(t)
  <2>1. thread'[t].stale = {x \in Sockets : Registered(x) /\ ~Live(x)}
    BY <1>1, <1>3 DEF PruneRead, Task
  <2>2. Held(s) /\ ~Live(s)
    BY DEF DoomedOf
  <2> QED BY <1>1, <1>2, <2>1, <2>2 DEF Held
<1>4. CASE Remove(t)
  <2>1. thread'[t].stale = thread[t].stale /\ thread[t].pc = "pruning"
    BY <1>1, <1>4 DEF Remove, At, Task
  <2> QED BY <1>2, <2>1 DEF DoomedOf
<1>5. CASE Disconnect(t)
  <2>1. thread'[t].stale = thread[t].stale \ {thread[t].closing} /\ thread[t].pc = "closing"
    BY <1>1, <1>5 DEF Disconnect, At, Task
  <2>2. s # thread[t].closing
    BY <1>1, <1>5 DEF Disconnect, Open, IInv, TypeInv
  <2> QED BY <1>2, <2>1, <2>2 DEF DoomedOf
<1>6. ~(UserSockets(t) \/ ConnectCheck(t) \/ EventCheck(t) \/ SendCheck(t) \/ SaveRead(t))
  BY <1>1 DEF UserSockets, ConnectCheck, EventCheck, SendCheck, SaveRead, Pruned, At, IInv, TaskOf
<1>7. ~(Closes(t) \/ ConnectAdd(t) \/ JoinRoom(t) \/ Emit(t) \/ StartCommit(t) \/ Fails(t))
  BY <1>1 DEF Closes, ConnectAdd, JoinRoom, Emit, StartCommit, Fails, Finish
<1> QED BY <1>3, <1>4, <1>5, <1>6, <1>7 DEF Handles

LEMMA DoomedStays ==
  ASSUME IInv, RevocationInv, [Next]_vars, NEW t \in Threads
  PROVE  DoomedOf(t)'
<1> SUFFICES ASSUME NEW s \in thread'[t].dead
             PROVE  /\ thread'[t].msg # 0 /\ ~Live(s)'
                    /\ Open(s)' => Held(s)'
                    /\ \A r \in Threads : thread'[r].op = "connect" => thread'[r].socket # s
                    /\ thread'[t].pc # "prune" /\ Open(s)' =>
                         s \in thread'[t].stale \/ Closing(s)'
  BY DEF DoomedOf
<1> thread \in [Threads -> Task]
  BY DEF IInv, TypeInv
<1>1. CASE SaveCommit(t)
  <2>1. /\ thread'[t].dead = Dead /\ thread'[t].msg = Len(messages) + 1
        /\ thread'[t].pc = "prune" /\ Len(messages) \in Nat
    BY <1>1 DEF SaveCommit, Task, IInv, TypeInv
  <2>2. s \in Sockets /\ Open(s) /\ socket[s].since # -1 /\ ~Live(s)
    BY <2>1 DEF Dead
  <2>3. UNCHANGED <<account, registry, socket>>
    BY <1>1 DEF SaveCommit
  <2>4. \A r \in Threads : thread'[r].op = thread[r].op /\ thread'[r].socket = thread[r].socket
    BY <1>1 DEF SaveCommit, Task
  <2>5. Held(s)'
    BY <2>2, <2>3, HeldStays DEF RevocationInv, HeldInv, Open
  <2>6. ~Live(s)'
    BY <2>2, <2>3 DEF Live, Welcome, Active
  <2>7. \A r \in Threads : thread'[r].op = "connect" => thread'[r].socket # s
    BY <2>2, <2>4 DEF RevocationInv, HeldInv
  <2> QED BY <2>1, <2>5, <2>6, <2>7
<1>2. CASE /\ s \in thread[t].dead /\ thread'[t].msg = thread[t].msg
           /\ \/ thread'[t] = thread[t]
              \/ Handles(t) /\ thread'[t] # Resting /\ ~SaveCommit(t)
  <2>1. DoomedOf(t) /\ s \in Sockets
    BY <1>2 DEF RevocationInv, Task
  <2>2. /\ thread[t].msg # 0 /\ ~Live(s) /\ (Open(s) => Held(s))
        /\ \A r \in Threads : thread[r].op = "connect" => thread[r].socket # s
    BY <1>2, <2>1 DEF DoomedOf
  <2>3. ASSUME NEW q \in Threads, NEW u \in Users,
               NEW room \in {GLOBAL_ROOM} \union DOMAIN conversations, Connect(q, s, u, room)
        PROVE  FALSE
    BY <1>2, <2>3 DEF Connect
  <2>4. Open(s)' => Open(s)
    BY <2>1, <2>3, SocketMoves
  <2>5. Open(s)' => Held(s)'
    BY <2>1, <2>2, <2>4, HeldStays
  <2>6. ~Live(s)'
    BY <2>1, <2>2, DeadStays DEF RevocationInv
  <2>7. \A r \in Threads : thread'[r].op = "connect" => thread'[r].socket # s
    BY <2>2, <2>3, Moving, GoesOn, BeginsAfresh, Rested
  <2>8. ASSUME thread'[t].pc # "prune", Open(s)' PROVE s \in thread'[t].stale \/ Closing(s)'
    <3>1. CASE thread'[t] = thread[t]
      BY <1>2, <2>1, <2>4, <2>8, <3>1, ClosingStays DEF DoomedOf
    <3> QED BY <1>2, <2>1, <2>4, <2>8, <3>1, PruneFinds
  <2> QED BY <1>2, <2>2, <2>5, <2>6, <2>7, <2>8
<1>3. thread'[t] # Resting /\ ~Commences(t)
  BY BeginsAfresh, Rested
<1> QED BY <1>1, <1>2, <1>3, Moving, GoesOn

\* A page is shown only what a handler emits.
LEMMA Showing ==
  ASSUME IInv, [Next]_vars, NEW s \in Sockets
  PROVE  \/ socket'[s].shown \subseteq socket[s].shown
         \/ \E q \in Threads :
              Emit(q) /\ socket'[s].shown \subseteq socket[s].shown \union {thread[q].msg}
<1> socket \in [Sockets -> Page]
  BY DEF IInv, TypeInv
<1>1. ASSUME ~Open(s)' PROVE socket'[s].shown = {}
  BY <1>1, Records DEF Open
<1>2. CASE Open(s)'
  <2>1. ASSUME NEW t \in Threads, Commences(t) PROVE socket'[s].shown \subseteq socket[s].shown
    <3>1. ASSUME NEW x \in Sockets, NEW u \in Users,
                 NEW room \in {GLOBAL_ROOM} \union DOMAIN conversations, Connect(t, x, u, room)
          PROVE  socket'[s].shown \subseteq socket[s].shown
      <4>1. x = s => socket'[s].shown = {}
        BY <3>1 DEF Connect, Closed
      <4> QED BY <3>1, <4>1 DEF Connect
    <3> QED BY <2>1, <3>1, BeginsAfresh
  <2>2. ASSUME NEW t \in Threads, JoinRoom(t) PROVE socket'[s].shown \subseteq socket[s].shown
    BY <2>2 DEF JoinRoom, Page
  <2>3. ASSUME NEW t \in Threads, Emit(t)
        PROVE  socket'[s].shown \subseteq socket[s].shown \union {thread[t].msg}
    BY <2>3 DEF Emit, Page
  <2>4. ASSUME NEW t \in Threads, Disconnect(t) \/ ConnectCheck(t) \/ ConnectAdd(t) \/ Fails(t)
        PROVE  socket'[s] = socket[s]
    BY <1>2, <2>4 DEF Disconnect, ConnectCheck, ConnectAdd, Fails, Open
  <2>5. ASSUME NEW t \in Threads,
               \/ PruneRead(t) \/ Remove(t) \/ Closes(t) \/ UserSockets(t) \/ EventCheck(t)
               \/ SendCheck(t) \/ SaveRead(t) \/ SaveCommit(t) \/ StartCommit(t)
        PROVE  socket' = socket
    BY <2>5 DEF PruneRead, Remove, Closes, UserSockets, EventCheck, SendCheck, SaveRead,
                SaveCommit, StartCommit
  <2>6. ASSUME NEW x \in Sockets, Leave(x) \/ Age(x) PROVE socket'[s] = socket[s]
    BY <1>2, <2>6 DEF Leave, Age, Open
  <2>7. ~Restart
    BY <1>2 DEF Restart, Open
  <2> QED BY <2>1, <2>2, <2>3, <2>4, <2>5, <2>6, <2>7, NextSteps DEF Handles, vars
<1> QED BY <1>1, <1>2

LEMMA FreshStays ==
  ASSUME IInv, Fresh, [Next]_vars
  PROVE  Fresh'
<1>1. ASSUME NEW r \in Threads, thread'[r].msg # 0
      PROVE  \/ thread'[r].msg = thread[r].msg
             \/ SaveCommit(r) /\ thread'[r].msg = Len(messages) + 1
  <2>1. SaveCommit(r) => thread'[r].msg = Len(messages) + 1
    BY DEF SaveCommit, IInv, TypeInv, Task
  <2> QED BY <1>1, <2>1, Moving, GoesOn, BeginsAfresh, Rested
<1>2. /\ \A r \in Threads : thread[r].msg # 0 => thread[r].msg \in 1 .. Len(messages)
      /\ \A s \in Sockets : socket[s].shown \subseteq 1 .. Len(messages)
      /\ Len(messages) \in Nat
  BY DEF IInv, TypeInv, TaskOf, PageOf
<1>3. \A s \in Sockets : 0 \notin socket'[s].shown
  <2>1. IInv'
    BY Steps
  <2> QED BY <2>1 DEF IInv, TypeInv, PageOf
<1>4. ASSUME NEW t \in Threads, NEW r \in Threads, thread'[t].msg = thread'[r].msg,
             thread'[t].msg # 0, t # r
      PROVE  FALSE
  <2>1. SaveCommit(t) => thread'[r] = thread[r]
    BY <1>4, Alone DEF Handles
  <2>2. SaveCommit(r) => thread'[t] = thread[t]
    BY <1>4, Alone DEF Handles
  <2> QED BY <1>1, <1>2, <1>4, <2>1, <2>2 DEF Fresh
<1>5. ASSUME NEW t \in Threads, NEW s \in Sockets, thread'[t].msg \in socket'[s].shown
      PROVE  FALSE
  <2>1. thread'[t].msg # 0
    BY <1>3, <1>5
  <2>2. CASE SaveCommit(t) /\ thread'[t].msg = Len(messages) + 1
    <3>1. socket' = socket
      BY <2>2 DEF SaveCommit
    <3> QED BY <1>2, <1>5, <2>2, <3>1
  <2>3. CASE thread'[t].msg = thread[t].msg
    <3>1. thread[t].msg \notin socket[s].shown
      BY DEF Fresh
    <3> PICK q \in Threads : Emit(q) /\ thread[q].msg = thread[t].msg
      BY <1>5, <2>3, <3>1, Showing
    <3>2. q = t
      BY <2>1, <2>3 DEF Fresh
    <3> QED BY <2>1, <3>2, Rested DEF Emit, Finish, IInv, TypeInv
  <2> QED BY <1>1, <2>1, <2>2, <2>3
<1> QED BY <1>4, <1>5 DEF Fresh

LEMMA RevocationInvStays ==
  ASSUME IInv, RevocationInv, [Next]_vars
  PROVE  RevocationInv'
BY VersionsHold, ApartStays, HeldInvStays, FreshStays, DoomedStays DEF RevocationInv

LEMMA RevocationInvInit == Init => RevocationInv
<1> SUFFICES ASSUME Init PROVE RevocationInv
  OBVIOUS
<1>1. \A t \in Threads : thread[t] = Resting
  BY DEF Init
<1>2. \A s \in Sockets : socket[s].since = -1 /\ socket[s].shown = {}
  BY Records DEF Init
<1>3. \A s \in Sockets : registry[s].user = Nobody
  BY DEF Init, Unregistered
<1>4. VersionInv
  BY <1>1, <1>3, Rested, ChatAssumption DEF VersionInv
<1>5. Apart /\ Fresh
  BY <1>1, <1>2, Rested DEF Apart, Fresh
<1>6. HeldInv
  BY <1>1, <1>2, Rested DEF HeldInv
<1>7. \A t \in Threads : DoomedOf(t)
  BY <1>1, Rested DEF DoomedOf
<1> QED BY <1>4, <1>5, <1>6, <1>7 DEF RevocationInv

\* A message that is committed after an account was revoked is not shown on the
\* account's sockets, unless another thread is about to close them: the prune
\* between the commit and the emit takes out every one of them (events.py,
\* _emit_message; connections.py), for any number of users, sockets and threads.
THEOREM Revoked == Spec => NoDeliveryToRevoked
<1> DEFINE Withheld == \A s \in Sockets, t \in Threads :
             s \in thread[t].dead /\ thread[t].msg \in socket'[s].shown =>
               \E r \in Threads : thread[r].closing = s
<1>1. ASSUME IInv, RevocationInv, [Next]_vars PROVE Withheld
  <2> SUFFICES ASSUME NEW s \in Sockets, NEW t \in Threads, s \in thread[t].dead,
                      thread[t].msg \in socket'[s].shown
               PROVE  Closing(s)
    BY DEF Closing
  <2>1. DoomedOf(t) /\ thread[t].msg # 0
    BY <1>1 DEF RevocationInv, DoomedOf
  <2> PICK q \in Threads : Emit(q) /\ thread[q].msg = thread[t].msg
    BY <1>1, Showing DEF RevocationInv, Fresh
  <2>2. q = t
    BY <1>1, <2>1 DEF RevocationInv, Fresh
  <2>3. thread[t].pc = "pruning" /\ thread[t].stale = {}
    BY <2>2 DEF Emit, Pruned, At
  <2>4. socket[s].since # -1
    BY <1>1, <2>2 DEF Emit, Recipients, RevocationInv, Fresh
  <2>5. Open(s)
    BY <2>4, Records DEF Open
  <2> QED BY <2>1, <2>3, <2>5 DEF DoomedOf
<1>2. IInv /\ RevocationInv /\ [Next]_vars => [Withheld]_vars
  BY <1>1
<1> HIDE DEF Withheld
<1>3. Spec => [][Withheld]_vars
  BY Invariance, RevocationInvInit, RevocationInvStays, <1>2, PTL DEF Spec
<1> QED BY <1>3 DEF NoDeliveryToRevoked, Withheld
=============================================================================
