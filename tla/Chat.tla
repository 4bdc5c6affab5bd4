--------------------------------- MODULE Chat ---------------------------------
(***************************************************************************)
(* Live chat: sockets, rooms, direct conversations and messages            *)
(* (chat/events.py, chat/connections.py, chat/services.py).                *)
(*                                                                         *)
(* Every event handler runs on a thread of its own.  It first prunes the   *)
(* registry: reads who is still welcome, then takes each stale socket out  *)
(* of the registry and closes it, one after the other.  A sent message is  *)
(* committed, the registry is pruned again, and only then the message is   *)
(* emitted to the room.                                                    *)
(***************************************************************************)
EXTENDS Integers, Sequences, FiniteSets

CONSTANTS
  Users, Sockets, Threads,
  Nobody, NoSocket,
  MaxConnections,   \* CHAT_MAX_CONNECTIONS_PER_USER
  Contacts,         \* bound: the pairs of users who talk directly
  MaxConversations, MaxMessages, MaxRevocations    \* bounds

ASSUME ChatAssumption ==
  /\ Nobody \notin Users /\ NoSocket \notin Sockets
  /\ MaxConnections \in Nat \ {0}
  /\ MaxConversations \in Nat /\ MaxMessages \in Nat /\ MaxRevocations \in Nat

VARIABLES
  account,         \* rows: [status, version]
  conversations,   \* DirectConversation rows; id: index.  The ids of the users,
                   \* which the code sorts, are a set
  messages,        \* ChatMessage rows, the room of each; id: index
  registry,        \* [user, version, old] of the registered sockets
  socket,          \* Socket.IO: [user, room, since, shown] of the open sockets
  thread,
  withheld         \* history: committed messages whose handler failed to emit

vars == <<account, conversations, messages, registry, socket, thread, withheld>>

GLOBAL_ROOM == 0
Rooms == 0 .. MaxConversations

Unregistered == [user |-> Nobody, version |-> 0, old |-> FALSE]

\* A page talks in one room.  since: how many messages there were when it
\* joined, -1 before; shown: the messages that were emitted to it.
Closed == [user |-> Nobody, room |-> GLOBAL_ROOM, since |-> -1, shown |-> {}]

Resting == [pc |-> "idle", op |-> "none", socket |-> NoSocket, user |-> Nobody,
            peer |-> Nobody, room |-> GLOBAL_ROOM, version |-> 0, stale |-> {},
            closing |-> NoSocket, msg |-> 0, dead |-> {}]

Init ==
  /\ account = [u \in Users |-> [status |-> "active", version |-> 1]]
  /\ conversations = << >> /\ messages = << >> /\ withheld = {}
  /\ registry = [s \in Sockets |-> Unregistered]
  /\ socket = [s \in Sockets |-> Closed]
  /\ thread = [t \in Threads |-> Resting]

Idle(t) == thread[t] = Resting
At(t, pc) == thread[t].pc = pc
Goto(t, pc) == thread' = [thread EXCEPT ![t].pc = pc]
Finish(t) == thread' = [thread EXCEPT ![t] = Resting]

Active(u) == u \in Users /\ account[u].status = "active"
Open(s) == socket[s] # Closed
Registered(s) == registry[s] # Unregistered
Sids(u) == {s \in Sockets : registry[s].user = u}

\* The account check of prune_stale_connections and authenticated_chat_event.
Welcome(s) ==
  /\ Active(registry[s].user)
  /\ registry[s].version = account[registry[s].user].version

\* prune_stale_connections also turns out what is over the maximal age.
Live(s) == Welcome(s) /\ ~registry[s].old

-----------------------------------------------------------------------------
(* prune_stale_connections and disconnect_user_sockets *)

\* Snapshot of the registry and the batch query.
PruneRead(t) ==
  /\ At(t, "prune")
  /\ thread' = [thread EXCEPT ![t].pc = "pruning",
       ![t].stale = {s \in Sockets : Registered(s) /\ ~Live(s)}]
  /\ UNCHANGED <<account, conversations, messages, registry, socket, withheld>>

\* _disconnect_sids: registry.remove, then server.disconnect, for each sid.
Remove(t) ==
  /\ At(t, "pruning")
  /\ \E s \in thread[t].stale :
       /\ registry' = [registry EXCEPT ![s] = Unregistered]
       /\ thread' = [thread EXCEPT ![t].pc = "closing", ![t].closing = s]
  /\ UNCHANGED <<account, conversations, messages, socket, withheld>>

Disconnect(t) ==
  LET s == thread[t].closing IN
  /\ At(t, "closing")
  /\ socket' = [socket EXCEPT ![s] = Closed]
  /\ thread' = [thread EXCEPT ![t].pc = "pruning", ![t].closing = NoSocket,
                              ![t].stale = @ \ {s}]
  /\ UNCHANGED <<account, conversations, messages, registry, withheld>>

Pruned(t, ops) ==
  At(t, "pruning") /\ thread[t].stale = {} /\ thread[t].op \in ops

Closes(t) ==
  /\ Pruned(t, {"revoke", "terminate"})
  /\ Finish(t)
  /\ UNCHANGED <<account, conversations, messages, registry, socket, withheld>>

WithinBound ==
  Cardinality({u \in Users : account[u].version > 1})
    + Cardinality({s \in Sockets : registry[s].old})
  < MaxRevocations

Raised(u) == account[u].version + 1

\* A password change, a suspension or a restore commits; then the sockets go.
Revoke(t, u, status) ==
  /\ Idle(t) /\ WithinBound /\ account[u].version <= MaxRevocations
  /\ account' = [account EXCEPT ![u] =
       [status |-> status, version |-> Raised(u)]]
  /\ thread' = [thread EXCEPT ![t].pc = "revoked", ![t].op = "revoke", ![t].user = u]
  /\ UNCHANGED <<conversations, messages, registry, socket, withheld>>

UserSockets(t) ==
  /\ At(t, "revoked")
  /\ thread' = [thread EXCEPT ![t].pc = "pruning", ![t].stale = Sids(thread[t].user)]
  /\ UNCHANGED <<account, conversations, messages, registry, socket, withheld>>

-----------------------------------------------------------------------------
(* connect and disconnect *)

\* A page of user u opens a socket it will use for one room.
Connect(t, s, u, room) ==
  /\ Idle(t) /\ Active(u)
  /\ ~Open(s) /\ ~Registered(s)
  /\ \A r \in Threads :
       thread[r].socket # s /\ s \notin thread[r].stale /\ s \notin thread[r].dead
  /\ socket' = [socket EXCEPT ![s] = [Closed EXCEPT !.user = u, !.room = room]]
  /\ thread' = [thread EXCEPT ![t] =
       [Resting EXCEPT !.pc = "prune", !.op = "connect", !.socket = s, !.user = u]]
  /\ UNCHANGED <<account, conversations, messages, registry, withheld>>

\* _connected_user
ConnectCheck(t) ==
  /\ Pruned(t, {"connect"})
  /\ IF Active(thread[t].user)
     THEN /\ thread' = [thread EXCEPT ![t].pc = "connecting",
                                      ![t].version = account[thread[t].user].version]
          /\ UNCHANGED socket
     ELSE /\ socket' = [socket EXCEPT ![thread[t].socket] = Closed]
          /\ Finish(t)
  /\ UNCHANGED <<account, conversations, messages, registry, withheld>>

\* Mutant: one more than the limit.
Full_OneMore(u) == Cardinality(Sids(u)) > MaxConnections

Full(u) == Cardinality(Sids(u)) >= MaxConnections

\* registry.add under its lock.  A socket whose client has left meanwhile is
\* registered all the same.
ConnectAdd(t) ==
  LET s == thread[t].socket  u == thread[t].user IN
  /\ At(t, "connecting")
  /\ IF Full(u)
     THEN socket' = [socket EXCEPT ![s] = Closed] /\ UNCHANGED registry
     ELSE /\ registry' = [registry EXCEPT ![s] =
                            [user |-> u, version |-> thread[t].version, old |-> FALSE]]
          /\ UNCHANGED socket
  /\ Finish(t)
  /\ UNCHANGED <<account, conversations, messages, withheld>>

\* The client goes away; disconnect_chat.
Leave(s) ==
  /\ Open(s)
  /\ socket' = [socket EXCEPT ![s] = Closed]
  /\ registry' = [registry EXCEPT ![s] = Unregistered]
  /\ UNCHANGED <<account, conversations, messages, thread, withheld>>

\* CHAT_SOCKET_MAX_AGE_SECONDS pass.
Age(s) ==
  /\ Registered(s) /\ ~registry[s].old /\ WithinBound
  /\ registry' = [registry EXCEPT ![s].old = TRUE]
  /\ UNCHANGED <<account, conversations, messages, socket, thread, withheld>>

-----------------------------------------------------------------------------
(* chat:join_* and chat:send_* *)

\* authenticated_chat_event, from its prune on.  async_handlers is off: the
\* events of one socket are handled one after the other.
Event(t, s, op) ==
  /\ Idle(t) /\ Open(s)
  /\ \A r \in Threads : thread[r].socket # s
  /\ op = "join" => socket[s].since = -1
  /\ thread' = [thread EXCEPT ![t] =
       [Resting EXCEPT !.pc = "prune", !.op = op, !.socket = s]]
  /\ UNCHANGED <<account, conversations, messages, registry, socket, withheld>>

EventCheck(t) ==
  LET s == thread[t].socket IN
  /\ Pruned(t, {"join", "send"}) /\ thread[t].msg = 0
  /\ thread' = IF Registered(s) /\ Welcome(s)
       THEN [thread EXCEPT ![t].pc = "authenticated", ![t].user = registry[s].user]
       ELSE [thread EXCEPT ![t].op = "terminate", ![t].stale = {s}]
  /\ UNCHANGED <<account, conversations, messages, registry, socket, withheld>>

\* Mutant: any conversation that exists.
Participant_Anybody(u, room) == room \in DOMAIN conversations

\* get_direct_conversation
Participant(u, room) == room \in DOMAIN conversations /\ u \in conversations[room]

\* join_room fails for a socket that is closed by now.
JoinRoom(t) ==
  LET s == thread[t].socket IN
  /\ At(t, "authenticated") /\ thread[t].op = "join"
  /\ IF Open(s) /\ (\/ socket[s].room = GLOBAL_ROOM
                    \/ Participant(thread[t].user, socket[s].room))
     THEN socket' = [socket EXCEPT ![s].since = Len(messages)]
     ELSE UNCHANGED socket
  /\ Finish(t)
  /\ UNCHANGED <<account, conversations, messages, registry, withheld>>

CounterpartActive(u, room) == \A v \in conversations[room] \ {u} : Active(v)

\* Room membership, then for a direct message the counterpart.
SendCheck(t) ==
  LET s == thread[t].socket  room == socket[s].room IN
  /\ At(t, "authenticated") /\ thread[t].op = "send"
  /\ IF /\ socket[s].since # -1
        /\ \/ room = GLOBAL_ROOM
           \/ Participant(thread[t].user, room) /\ CounterpartActive(thread[t].user, room)
     THEN thread' = [thread EXCEPT ![t].pc = "checked", ![t].room = room]
     ELSE Finish(t)
  /\ UNCHANGED <<account, conversations, messages, registry, socket, withheld>>

\* save_message: the sender is still active ...
SaveRead(t) ==
  /\ At(t, "checked")
  /\ IF Active(thread[t].user) THEN Goto(t, "saving") ELSE Finish(t)
  /\ UNCHANGED <<account, conversations, messages, registry, socket, withheld>>

\* The joined sockets that prune_stale_connections would turn out now.
Dead == {s \in Sockets : Open(s) /\ socket[s].since # -1 /\ ~Live(s)}

\* Mutant: the broadcast follows the commit at once.
SaveCommit_NoPrune(t) ==
  /\ At(t, "saving") /\ Len(messages) < MaxMessages
  /\ messages' = Append(messages, thread[t].room)
  /\ thread' = [thread EXCEPT ![t].pc = "pruning", ![t].msg = Len(messages) + 1,
                              ![t].dead = Dead]
  /\ UNCHANGED <<account, conversations, registry, socket, withheld>>

\* ... and the row commits.  `dead' is history.
SaveCommit(t) ==
  /\ At(t, "saving") /\ Len(messages) < MaxMessages
  /\ messages' = Append(messages, thread[t].room)
  /\ thread' = [thread EXCEPT ![t].pc = "prune", ![t].msg = Len(messages) + 1,
                              ![t].dead = Dead]
  /\ UNCHANGED <<account, conversations, registry, socket, withheld>>

\* Mutant: the broadcast of one socket to the others.
Recipients_Others(room, sender) ==
  {s \in Sockets : socket[s].since # -1 /\ socket[s].room = room} \ {sender}

Recipients(room, sender) ==
  {s \in Sockets : socket[s].since # -1 /\ socket[s].room = room}

\* _emit_message, after its prune.
Emit(t) ==
  LET to == Recipients(thread[t].room, thread[t].socket) IN
  /\ Pruned(t, {"send"}) /\ thread[t].msg # 0
  /\ socket' = [s \in Sockets |->
       IF s \in to THEN [socket[s] EXCEPT !.shown = @ \union {thread[t].msg}]
                   ELSE socket[s]]
  /\ Finish(t)
  /\ UNCHANGED <<account, conversations, messages, registry, withheld>>

-----------------------------------------------------------------------------
(* POST /chat/direct/start *)

Existing(u, v) == {i \in DOMAIN conversations : conversations[i] = {u, v}}

StartRead(t, u, v) ==
  /\ Idle(t)
  /\ Active(u) /\ Active(v) /\ u # v /\ {u, v} \in Contacts
  /\ Existing(u, v) = {}
  /\ thread' = [thread EXCEPT ![t] =
       [Resting EXCEPT !.pc = "starting", !.op = "start", !.user = u, !.peer = v]]
  /\ UNCHANGED <<account, conversations, messages, registry, socket, withheld>>

\* UNIQUE decides who was first; the other one finds the row on its second look.
StartCommit(t) ==
  LET u == thread[t].user  v == thread[t].peer IN
  /\ At(t, "starting")
  /\ IF Existing(u, v) # {} THEN UNCHANGED conversations
     ELSE /\ Len(conversations) < MaxConversations
          /\ conversations' = Append(conversations, {u, v})
  /\ Finish(t)
  /\ UNCHANGED <<account, messages, registry, socket, withheld>>

-----------------------------------------------------------------------------
\* The database refuses a query or a commit: nothing is written, and what was
\* to follow is left out (chat_error_handler).
Fails(t) ==
  /\ thread[t].pc \in {"prune", "checked", "saving", "starting"}
  /\ withheld' = withheld \union ({thread[t].msg} \ {0})
  /\ socket' = IF thread[t].op = "connect"
               THEN [socket EXCEPT ![thread[t].socket] = Closed] ELSE socket
  /\ Finish(t)
  /\ UNCHANGED <<account, conversations, messages, registry>>

\* The server restarts: only the rows stay.
Restart ==
  /\ registry' = [s \in Sockets |-> Unregistered]
  /\ socket' = [s \in Sockets |-> Closed]
  /\ thread' = [t \in Threads |-> Resting]
  /\ UNCHANGED <<account, conversations, messages, withheld>>

Next ==
  \/ \E t \in Threads :
       \/ PruneRead(t) \/ Remove(t) \/ Disconnect(t) \/ Closes(t) \/ UserSockets(t)
       \/ ConnectCheck(t) \/ ConnectAdd(t) \/ EventCheck(t) \/ JoinRoom(t)
       \/ SendCheck(t) \/ SaveRead(t) \/ SaveCommit(t) \/ Emit(t)
       \/ StartCommit(t) \/ Fails(t)
       \/ \E u \in Users :
            \/ \E status \in {"active", "dormant"} : Revoke(t, u, status)
            \/ \E v \in Users : StartRead(t, u, v)
       \/ \E s \in Sockets :
            \/ \E u \in Users, room \in {GLOBAL_ROOM} \union DOMAIN conversations :
                 Connect(t, s, u, room)
            \/ \E op \in {"join", "send"} : Event(t, s, op)
  \/ \E s \in Sockets : Leave(s) \/ Age(s)
  \/ Restart

Spec == Init /\ [][Next]_vars

-----------------------------------------------------------------------------
(* Properties. *)

Ids == 1 .. MaxMessages

\* Rows, registry and rooms; a thread closes only sockets it took out of the
\* registry and holds on to.
TypeOK ==
  /\ account \in [Users -> [status : {"active", "dormant"}, version : 1 .. MaxRevocations + 1]]
  /\ conversations \in Seq(SUBSET Users) /\ Len(conversations) <= MaxConversations
  /\ messages \in Seq(Rooms) /\ withheld \subseteq DOMAIN messages
  /\ registry \in [Sockets -> [user : Users \union {Nobody}, version : 0 .. MaxRevocations + 1,
                               old : BOOLEAN]]
  /\ socket \in [Sockets -> [user : Users \union {Nobody}, room : Rooms,
                             since : -1 .. MaxMessages, shown : SUBSET Ids]]
  /\ \A t \in Threads : thread[t].closing \in thread[t].stale \union {NoSocket}

\* Two users have one conversation, whoever starts it and however often.
OneConversationPerPair ==
  \A i, j \in DOMAIN conversations : conversations[i] = conversations[j] => i = j

\* A direct message is shown to its two participants and to nobody else.
DirectStaysPrivate ==
  \A s \in Sockets : \A i \in socket[s].shown :
    messages[i] # GLOBAL_ROOM => socket[s].user \in conversations[messages[i]]

\* The limit on a user's sockets holds while several connect at once.
CapRespected == \A u \in Users : Cardinality(Sids(u)) <= MaxConnections

\* A page that has joined misses no message committed since, unless the handler
\* is still to emit it or failed on the way.
JoinedSeesAll ==
  \A s \in Sockets : Open(s) /\ socket[s].since # -1 =>
    \A i \in (socket[s].since + 1) .. Len(messages) :
      messages[i] = socket[s].room =>
        i \in socket[s].shown \union withheld \union {thread[t].msg : t \in Threads}

\* A socket whose account was revoked before a message was committed is not
\* shown the message, unless another thread has just taken it out of the
\* registry and is about to close it.
NoDeliveryToRevoked ==
  [][\A s \in Sockets, t \in Threads :
       s \in thread[t].dead /\ thread[t].msg \in socket'[s].shown =>
         \E r \in Threads : thread[r].closing = s]_vars

\* What two users write to each other is in one place, and theirs.
ConversationsAreTheirs == OneConversationPerPair /\ DirectStaysPrivate
=============================================================================
