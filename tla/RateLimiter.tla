----------------------------- MODULE RateLimiter ----------------------------
(***************************************************************************)
(* ChatEventLimiter (chat/rate_limit.py): sliding windows over the chat    *)
(* messages and room joins of one user, whose sockets are served by        *)
(* different threads.  A call reads the clock first and takes the lock     *)
(* second; in between other calls may read a later clock and get the lock  *)
(* earlier.                                                                *)
(***************************************************************************)
EXTENDS Integers, Sequences, FiniteSets

CONSTANTS
  Threads,
  BurstLimit, BurstWindow,    \* 5 messages in 10 seconds
  HourlyLimit, Hour,          \* 120 messages in 3600 seconds
  JoinLimit, JoinWindow,      \* 30 joins in 60 seconds
  MaxDelay,   \* longest time from a call's clock reading to its lock
  MaxTime     \* bound on the clock

VARIABLES
  now,               \* the monotonic clock
  messages, joins,   \* the user's deques of timestamps
  call,              \* what each thread is doing
  sent, joined       \* history: timestamps of all that was let through

vars == <<now, messages, joins, call, sent, joined>>

Resting == [op |-> "none", read |-> 0]

Init ==
  /\ now = 0
  /\ messages = << >> /\ joins = << >>
  /\ call = [t \in Threads |-> Resting]
  /\ sent = << >> /\ joined = << >>

\* now = self._clock(), before the lock.
ReadClock(t, op) ==
  /\ call[t] = Resting
  /\ call' = [call EXCEPT ![t] = [op |-> op, read |-> now]]
  /\ UNCHANGED <<now, messages, joins, sent, joined>>

\* Mutant: looks at the newest timestamp instead of the oldest.
_prune_Newest(timestamps, cutoff) ==
  IF timestamps # << >> /\ timestamps[Len(timestamps)] > cutoff THEN timestamps ELSE << >>

\* Popping from the left stops at the first timestamp after the cutoff.
_prune(timestamps, cutoff) ==
  LET kept == {i \in DOMAIN timestamps : timestamps[i] > cutoff} IN
  IF kept = {} THEN << >>
  ELSE SubSeq(timestamps, CHOOSE i \in kept : \A j \in kept : i <= j, Len(timestamps))

\* Mutant: only the window that ends at the call's own clock reading.
burst_count_OwnWindow(timestamps, read) ==
  Cardinality({i \in DOMAIN timestamps :
    read - BurstWindow < timestamps[i] /\ timestamps[i] <= read})

burst_count(timestamps, read) ==
  Cardinality({i \in DOMAIN timestamps : timestamps[i] > read - BurstWindow})

Full(timestamps, read) ==
  burst_count(timestamps, read) >= BurstLimit \/ Len(timestamps) >= HourlyLimit

\* The body under the lock; a refused call leaves the pruned deque behind.
consume_message(t) ==
  LET read == call[t].read
      pruned == _prune(messages, read - Hour) IN
  /\ call[t].op = "message"
  /\ IF Full(pruned, read)
     THEN messages' = pruned /\ UNCHANGED sent
     ELSE messages' = Append(pruned, read) /\ sent' = Append(sent, read)
  /\ call' = [call EXCEPT ![t] = Resting]
  /\ UNCHANGED <<now, joins, joined>>

consume_join(t) ==
  LET read == call[t].read
      pruned == _prune(joins, read - JoinWindow) IN
  /\ call[t].op = "join"
  /\ IF Len(pruned) >= JoinLimit
     THEN joins' = pruned /\ UNCHANGED joined
     ELSE joins' = Append(pruned, read) /\ joined' = Append(joined, read)
  /\ call' = [call EXCEPT ![t] = Resting]
  /\ UNCHANGED <<now, messages, sent>>

\* Time passes; no call waits for the lock longer than MaxDelay.
Tick ==
  /\ now < MaxTime
  /\ \A t \in Threads : call[t] # Resting => now < call[t].read + MaxDelay
  /\ now' = now + 1
  /\ UNCHANGED <<messages, joins, call, sent, joined>>

Next ==
  \/ \E t \in Threads :
       \/ \E op \in {"message", "join"} : ReadClock(t, op)
       \/ consume_message(t) \/ consume_join(t)
  \/ Tick

Spec == Init /\ [][Next]_vars

-----------------------------------------------------------------------------
(* Properties. *)

Times == 0 .. MaxTime

\* The deques never outgrow the limits (bounded memory per user).
TypeOK ==
  /\ now \in Times
  /\ messages \in Seq(Times) /\ Len(messages) <= HourlyLimit
  /\ joins \in Seq(Times) /\ Len(joins) <= JoinLimit
  /\ call \in [Threads -> [op : {"none", "message", "join"}, read : Times]]

\* How many events of a history fall into the window that ends at time e.
InWindow(history, e, window) ==
  Cardinality({i \in DOMAIN history : e - window < history[i] /\ history[i] <= e})

\* No window of BurstWindow holds more than BurstLimit messages, in whatever
\* order the calls of the user's sockets get the lock: a call that read an
\* early clock also counts the later timestamps it finds.
BurstQuota == \A e \in Times : InWindow(sent, e, BurstWindow) <= BurstLimit

\* The other two limits are enforced by the length of a deque that a call with a
\* later clock reading may have pruned already.  They hold for windows shorter
\* by the time a call can wait for the lock, however the calls interleave.
HourlyQuota ==
  \A e \in Times : InWindow(sent, e, Hour - MaxDelay) <= HourlyLimit

JoinQuota ==
  \A e \in Times : InWindow(joined, e, JoinWindow - MaxDelay) <= JoinLimit

Since(history, e) == Cardinality({i \in DOMAIN history : history[i] > e})

\* A call is refused only when the events since the start of its own window
\* reach a limit.  A timestamp entered out of order hides behind a later one
\* when it expires, but not for longer than a call can wait for the lock.
RefusedOnlyWhenFull ==
  [][\A t \in Threads :
       /\ (call[t].op = "message" /\ call'[t] = Resting /\ sent' = sent) =>
            \/ Since(sent, call[t].read - BurstWindow) >= BurstLimit
            \/ Since(sent, call[t].read - Hour - MaxDelay) >= HourlyLimit
       /\ (call[t].op = "join" /\ call'[t] = Resting /\ joined' = joined) =>
            Since(joined, call[t].read - JoinWindow - MaxDelay) >= JoinLimit]_vars

\* The three limits hold for all sockets of a user together.
Quotas == BurstQuota /\ HourlyQuota /\ JoinQuota
=============================================================================
