---------------------------- MODULE LimiterProofs ----------------------------
(***************************************************************************)
(* Theorems about the RateLimiter part of SiteChat for any number of       *)
(* threads and any limits and windows, those of config.py among them.      *)
(***************************************************************************)
EXTENDS SiteChat, FiniteSetTheorems, WellFoundedInduction, SequenceTheorems, TLAPS

\* The deque holds the latest events of a history; what went before is no
\* younger than a bound.
Remembers(history, deque, bound) ==
  LET gone == Len(history) - Len(deque) IN
  /\ gone \in Nat
  /\ \A i \in 1 .. Len(deque) : deque[i] = history[gone + i]
  /\ \A i \in 1 .. gone : history[i] <= bound

\* The limiter counts with the library's Cardinality.
LEMMA SameCount == \A S : Limiter!Cardinality(S) = Cardinality(S)
BY DEF Cardinality, Limiter!Cardinality

\* The places of what is after a moment.
Later(deque, after) == {i \in DOMAIN deque : deque[i] > after}

-----------------------------------------------------------------------------
\* A set of natural numbers has a least element.
LEMMA Least ==
  ASSUME NEW S \in SUBSET Nat, S # {}
  PROVE  \E i \in S : \A j \in S : i <= j
<1> DEFINE R == OpToRel(<, Nat)
<1>1. \E i \in S : \A j \in S : <<j, i>> \notin R
  BY NatLessThanWellFounded, WFMin
<1>2. \A i, j \in Nat : j < i => <<j, i>> \in R
  BY DEF OpToRel
<1> HIDE DEF R
<1> PICK i \in S : \A j \in S : <<j, i>> \notin R
  BY <1>1
<1>3. ASSUME NEW j \in S PROVE i <= j
  <2>1. ~(j < i)
    BY <1>2
  <2> QED BY <2>1
<1> QED BY <1>3

\* _prune pops from the left what is not after the cutoff, up to the first
\* timestamp that is.
LEMMA Prunes ==
  ASSUME NEW timestamps \in Seq(Limiter!Times), NEW cutoff \in Int
  PROVE  LET pruned == Limiter!_prune(timestamps, cutoff) IN
         /\ pruned \in Seq(Limiter!Times) /\ Remembers(timestamps, pruned, cutoff)
         /\ pruned # << >> => pruned[1] > cutoff
<1> DEFINE kept == {i \in DOMAIN timestamps : timestamps[i] > cutoff}
           pruned == Limiter!_prune(timestamps, cutoff)
           n == Len(timestamps)
<1>1. n \in Nat /\ Limiter!Times \subseteq Int /\ DOMAIN timestamps = 1 .. n /\ \A i \in 1 .. n : timestamps[i] \in Int
  BY LimiterAssumption DEF Limiter!Times
<1>2. CASE kept = {}
  <2>1. pruned = << >>
    BY <1>2 DEF Limiter!_prune
  <2>2. Len(pruned) = 0 /\ pruned \in Seq(Limiter!Times)
    BY <2>1
  <2>3. \A i \in 1 .. n : timestamps[i] <= cutoff
    BY <1>1, <1>2
  <2> HIDE DEF pruned
  <2> QED BY <1>1, <2>1, <2>2, <2>3 DEF Remembers, pruned
<1>3. CASE kept # {}
  <2> PICK first \in kept : \A j \in kept : first <= j
    <3>1. kept \in SUBSET Nat
      BY <1>1
    <3> HIDE DEF kept
    <3> QED BY <1>3, <3>1, Least
  <2>1. first = CHOOSE i \in kept : \A j \in kept : i <= j
    BY <1>1
  <2>2. pruned = SubSeq(timestamps, first, n)
    BY <1>3, <2>1 DEF Limiter!_prune
  <2>3. first \in 1 .. n /\ timestamps[first] > cutoff
        /\ \A i \in 1 .. first - 1 : ~(timestamps[i] > cutoff)
    BY <1>1
  <2>4. /\ pruned \in Seq(Limiter!Times) /\ Len(pruned) = n - first + 1
        /\ \A i \in 1 .. n - first + 1 : pruned[i] = timestamps[first + i - 1]
    <3>1. first \in Int /\ n \in Int /\ first <= n /\ \A i \in first .. n : timestamps[i] \in Limiter!Times
      BY <1>1, <2>3
    <3> HIDE DEF pruned, kept, n
    <3> QED BY <2>2, <3>1, SubSeqProperties
  <2> HIDE DEF pruned, kept
  <2>5. ASSUME NEW i \in 1 .. first - 1 PROVE timestamps[i] <= cutoff
    <3>1. i \in 1 .. n /\ timestamps[i] \in Int
      BY <1>1, <2>3
    <3> QED BY <2>3, <3>1
  <2>6. n - Len(pruned) = first - 1 /\ pruned[1] = timestamps[first]
    BY <1>1, <2>3, <2>4
  <2> QED BY <1>1, <2>3, <2>4, <2>5, <2>6 DEF Remembers, pruned
<1> QED BY <1>2, <1>3

LEMMA Counted ==
  ASSUME NEW deque \in Seq(Limiter!Times), NEW after \in Int
  PROVE  /\ IsFiniteSet(Later(deque, after)) /\ Cardinality(Later(deque, after)) \in Nat
         /\ Cardinality(Later(deque, after)) <= Len(deque)
<1> DEFINE J == Later(deque, after)
<1>1. J \in SUBSET (1 .. Len(deque)) /\ 1 \in Int /\ Len(deque) \in Int /\ Len(deque) \in Nat
  BY DEF Later
<1>2. /\ IsFiniteSet(1 .. Len(deque))
      /\ Cardinality(1 .. Len(deque)) = IF 1 > Len(deque) THEN 0 ELSE Len(deque) - 1 + 1
  BY ONLY <1>1, FS_Interval
<1> HIDE DEF J
<1>3. Cardinality(1 .. Len(deque)) = Len(deque)
  BY <1>1, <1>2
<1>4. IsFiniteSet(J) /\ Cardinality(J) \in Nat /\ Cardinality(J) <= Len(deque)
  BY <1>1, <1>2, <1>3, FS_Subset, FS_CardinalityType
<1> QED BY <1>4 DEF J

\* What a history has after the bound is in the deque.
LEMMA Counts ==
  ASSUME NEW history \in Seq(Limiter!Times), NEW deque \in Seq(Limiter!Times),
         NEW bound \in Int, Remembers(history, deque, bound),
         NEW after \in Int, NEW I \in SUBSET DOMAIN history,
         \A i \in I : history[i] > after, bound <= after
  PROVE  /\ IsFiniteSet(I)
         /\ Cardinality(I) <= Cardinality(Later(deque, after))
         /\ Cardinality(I) \in Nat
<1> DEFINE gone == Len(history) - Len(deque)
           J == Later(deque, after)
           f == [i \in I |-> i - gone]
<1>1. /\ DOMAIN history = 1 .. Len(history) /\ DOMAIN deque = 1 .. Len(deque)
      /\ Len(history) \in Nat /\ Len(deque) \in Nat
      /\ \A i \in 1 .. Len(history) : history[i] \in Int
  BY LimiterAssumption DEF Limiter!Times
<1>a. gone \in Nat
  BY DEF Remembers
<1>2. IsFiniteSet(J) /\ Cardinality(J) <= Len(deque) /\ Cardinality(J) \in Nat
  BY Counted
<1>3. \A i \in I : i > gone /\ i <= Len(history)
  <2> SUFFICES ASSUME NEW i \in I PROVE i > gone /\ i <= Len(history)
    OBVIOUS
  <2>1. i \in 1 .. Len(history) /\ history[i] \in Int /\ history[i] > after
    BY <1>1
  <2>2. ~(history[i] <= bound)
    BY <2>1
  <2> QED BY <1>a, <2>1, <2>2 DEF Remembers
<1>4. \A i \in I : i - gone \in J
  <2> SUFFICES ASSUME NEW i \in I PROVE i - gone \in J
    OBVIOUS
  <2>1. i - gone \in 1 .. Len(deque) /\ gone + (i - gone) = i
    BY <1>1, <1>3, <1>a
  <2>2. deque[i - gone] = history[i]
    BY <2>1 DEF Remembers
  <2> QED BY <1>1, <2>1, <2>2 DEF Later
<1>5. f \in Injection(I, J)
  BY <1>1, <1>a, <1>3, <1>4 DEF Injection, IsInjective
<1> HIDE DEF f, J
<1>6. IsFiniteSet(I) /\ Cardinality(I) <= Cardinality(J)
  BY <1>2, <1>5, FS_Injection
<1> QED BY <1>2, <1>6, FS_CardinalityType DEF J

-----------------------------------------------------------------------------
Call == [op : {"none", "message", "join"}, read : Limiter!Times]

\* The clock readings of the calls are at most MaxDelay old.
ClockInv ==
  /\ now \in Limiter!Times
  /\ call \in [Callers -> Call]
  /\ \A t \in Callers : call[t] # Limiter!Resting => call[t].read <= now /\ now <= call[t].read + MaxDelay

\* A history grows by timestamps that are at most MaxDelay old.
Chronological(history) ==
  /\ history \in Seq(Limiter!Times)
  /\ \A i \in DOMAIN history : history[i] <= now
  /\ \A i, j \in DOMAIN history : i < j => history[i] - MaxDelay <= history[j]

IInv ==
  /\ ClockInv
  /\ Chronological(sent) /\ Chronological(joined)
  /\ recent \in Seq(Limiter!Times) /\ Len(recent) <= HourlyLimit
  /\ joins \in Seq(Limiter!Times) /\ Len(joins) <= JoinLimit
  /\ Remembers(sent, recent, now - Hour)
  /\ Remembers(joined, joins, now - JoinWindow)

\* What a call that has the lock does to a deque and its history.
LEMMA Consumes ==
  ASSUME NEW history \in Seq(Limiter!Times), NEW deque \in Seq(Limiter!Times), Chronological(history),
         NEW window \in Nat, Remembers(history, deque, now - window),
         ClockInv, NEW t \in Callers, call[t] # Limiter!Resting,
         NEW limit \in Nat, Len(deque) <= limit
  PROVE  LET read == call[t].read
             pruned == Limiter!_prune(deque, read - window) IN
         /\ read \in Limiter!Times /\ pruned \in Seq(Limiter!Times) /\ Len(pruned) <= limit
         /\ Remembers(history, pruned, now - window)
         /\ pruned # << >> => pruned[1] > read - window
         /\ Len(pruned) < limit =>
              /\ Chronological(Append(history, read))
              /\ Append(pruned, read) \in Seq(Limiter!Times) /\ Len(Append(pruned, read)) <= limit
              /\ Remembers(Append(history, read), Append(pruned, read), now - window)
<1> DEFINE read == call[t].read
           pruned == Limiter!_prune(deque, read - window)
<1>1. read \in Limiter!Times /\ read \in Int /\ read <= now /\ now <= read + MaxDelay
      /\ now \in Int /\ MaxDelay \in Nat
  BY LimiterAssumption DEF ClockInv, Call, Limiter!Times
<1>2. /\ pruned \in Seq(Limiter!Times) /\ Remembers(deque, pruned, read - window)
      /\ pruned # << >> => pruned[1] > read - window
  <2>1. read - window \in Int
    BY <1>1
  <2> QED BY <2>1, Prunes
<1> HIDE DEF pruned
<1>3. Len(pruned) \in Nat /\ Len(deque) \in Nat /\ Len(history) \in Nat
  BY <1>2
<1>4. Len(pruned) <= Len(deque) /\ Len(deque) <= Len(history)
  BY <1>2, <1>3 DEF Remembers
<1>5. Remembers(history, pruned, now - window)
  <2>1. Len(history) - Len(pruned) \in Nat
    BY <1>3, <1>4
  <2>2. ASSUME NEW i \in 1 .. Len(pruned)
        PROVE  pruned[i] = history[Len(history) - Len(pruned) + i]
    <3>1. /\ pruned[i] = deque[Len(deque) - Len(pruned) + i]
          /\ Len(deque) - Len(pruned) + i \in 1 .. Len(deque)
      BY <1>2, <1>3, <1>4 DEF Remembers
    <3>2. Len(history) - Len(deque) + (Len(deque) - Len(pruned) + i) = Len(history) - Len(pruned) + i
      BY <1>3
    <3> QED BY <3>1, <3>2 DEF Remembers
  <2>3. ASSUME NEW i \in 1 .. Len(history) - Len(pruned) PROVE history[i] <= now - window
    <3>1. CASE i <= Len(history) - Len(deque)
      BY <1>3, <1>4, <3>1 DEF Remembers
    <3>2. CASE i > Len(history) - Len(deque)
      <4> DEFINE j == i - (Len(history) - Len(deque))
      <4>1. j \in 1 .. Len(deque) - Len(pruned) /\ j \in 1 .. Len(deque)
            /\ Len(history) - Len(deque) + j = i /\ i \in 1 .. Len(history)
        BY <1>3, <1>4, <3>2
      <4>2. deque[j] = history[i] /\ deque[j] <= read - window
        BY <1>2, <4>1 DEF Remembers
      <4>3. history[i] \in Int
        <5>1. history[i] \in Limiter!Times
          BY <4>1
        <5> HIDE DEF j, read
        <5> QED BY <5>1, LimiterAssumption DEF Limiter!Times
      <4> HIDE DEF j, read
      <4> QED BY <1>1, <4>2, <4>3
    <3> QED BY <1>3, <3>1, <3>2
  <2> QED BY <2>1, <2>2, <2>3 DEF Remembers
<1>6. ASSUME Len(pruned) < limit
      PROVE  /\ Chronological(Append(history, read))
             /\ Append(pruned, read) \in Seq(Limiter!Times) /\ Len(Append(pruned, read)) <= limit
             /\ Remembers(Append(history, read), Append(pruned, read), now - window)
  <2>1. /\ Append(history, read) \in Seq(Limiter!Times) /\ Len(Append(history, read)) = Len(history) + 1
        /\ \A i \in 1 .. Len(history) : Append(history, read)[i] = history[i]
        /\ Append(history, read)[Len(history) + 1] = read
    BY <1>1, AppendProperties
  <2>2. /\ Append(pruned, read) \in Seq(Limiter!Times) /\ Len(Append(pruned, read)) = Len(pruned) + 1
        /\ \A i \in 1 .. Len(pruned) : Append(pruned, read)[i] = pruned[i]
        /\ Append(pruned, read)[Len(pruned) + 1] = read
    BY <1>1, <1>2, AppendProperties
  <2> DEFINE h == Append(history, read)
             p == Append(pruned, read)
  <2> HIDE DEF h, p
  <2>3. Chronological(h)
    <3>1. \A i \in 1 .. Len(history) : history[i] \in Int /\ history[i] <= now
      BY LimiterAssumption DEF Chronological, Limiter!Times
    <3>2. DOMAIN h = 1 .. Len(history) + 1
      BY <2>1 DEF h
    <3>3. ASSUME NEW i \in DOMAIN h PROVE h[i] <= now /\ h[i] \in Int
      BY <1>1, <1>3, <2>1, <3>1, <3>2 DEF h
    <3>4. ASSUME NEW i \in DOMAIN h, NEW j \in DOMAIN h, i < j PROVE h[i] - MaxDelay <= h[j]
      <4>1. i \in 1 .. Len(history) /\ h[i] = history[i]
        BY <1>3, <2>1, <3>2, <3>4 DEF h
      <4>2. CASE j = Len(history) + 1
        BY <1>1, <2>1, <3>1, <4>1, <4>2 DEF h
      <4>3. CASE j # Len(history) + 1
        <5>1. j \in 1 .. Len(history) /\ h[j] = history[j]
          BY <1>3, <2>1, <3>2, <4>3 DEF h
        <5> QED BY <3>4, <4>1, <5>1 DEF Chronological
      <4> QED BY <4>2, <4>3
    <3> QED BY <2>1, <3>3, <3>4 DEF Chronological, h
  <2>4. Remembers(h, p, now - window)
    <3>1. Len(h) - Len(p) = Len(history) - Len(pruned) /\ Len(history) - Len(pruned) \in Nat
      BY <1>3, <1>4, <2>1, <2>2 DEF h, p
    <3>2. ASSUME NEW i \in 1 .. Len(p) PROVE p[i] = h[Len(h) - Len(p) + i]
      <4>1. CASE i = Len(pruned) + 1
        BY <1>3, <2>1, <2>2, <3>1, <4>1 DEF h, p
      <4>2. CASE i # Len(pruned) + 1
        <5>1. i \in 1 .. Len(pruned) /\ Len(history) - Len(pruned) + i \in 1 .. Len(history)
          BY <1>3, <2>2, <3>1, <4>2 DEF p
        <5> QED BY <1>5, <2>1, <2>2, <3>1, <5>1 DEF Remembers, h, p
      <4> QED BY <4>1, <4>2
    <3>3. ASSUME NEW i \in 1 .. Len(h) - Len(p) PROVE h[i] <= now - window
      <4>1. i \in 1 .. Len(history) - Len(pruned) /\ i \in 1 .. Len(history)
        BY <1>3, <3>1
      <4> QED BY <1>5, <2>1, <4>1 DEF Remembers, h
    <3> QED BY <3>1, <3>2, <3>3 DEF Remembers
  <2> QED BY <1>3, <1>6, <2>2, <2>3, <2>4 DEF h, p
<1> QED BY <1>1, <1>2, <1>3, <1>4, <1>5, <1>6 DEF pruned

-----------------------------------------------------------------------------
\* A call in its turn.
LEMMA Turns ==
  ASSUME IInv, NEW t \in Callers
  PROVE  /\ Limiter!consume_message(t) => call[t] # Limiter!Resting
         /\ Limiter!consume_join(t) => call[t] # Limiter!Resting
         /\ Hour \in Nat /\ JoinWindow \in Nat /\ HourlyLimit \in Nat /\ JoinLimit \in Nat
         /\ sent \in Seq(Limiter!Times) /\ joined \in Seq(Limiter!Times)
BY LimiterAssumption DEF Limiter!consume_message, Limiter!consume_join, Limiter!Resting, IInv, Chronological

LEMMA Initially == Limiter!Init => IInv
<1> SUFFICES ASSUME Limiter!Init PROVE IInv
  OBVIOUS
<1>1. Limiter!Resting \in Call /\ now \in Limiter!Times
  BY LimiterAssumption DEF Limiter!Init, Limiter!Resting, Call, Limiter!Times
<1>2. ClockInv
  BY <1>1 DEF Limiter!Init, ClockInv
<1>3. << >> \in Seq(Limiter!Times) /\ Len(<< >>) = 0 /\ DOMAIN << >> = {}
  OBVIOUS
<1> QED BY <1>2, <1>3, LimiterAssumption DEF Limiter!Init, IInv, Chronological, Remembers

LEMMA Steps ==
  ASSUME IInv, [Limiter!Next]_limiterVars
  PROVE  IInv'
<1>1. CASE UNCHANGED limiterVars
  BY <1>1 DEF limiterVars, IInv, ClockInv, Chronological, Remembers
<1>2. ASSUME NEW t \in Callers, NEW op \in {"message", "join"}, Limiter!ReadClock(t, op)
      PROVE  IInv'
  <2>1. [op |-> op, read |-> now] \in Call
    BY <1>2 DEF Call, IInv, ClockInv
  <2>2. /\ call' = [call EXCEPT ![t] = [op |-> op, read |-> now]]
        /\ UNCHANGED <<now, recent, joins, sent, joined>>
    BY <1>2 DEF Limiter!ReadClock
  <2>3. ClockInv'
    BY <2>1, <2>2, LimiterAssumption DEF IInv, ClockInv, Limiter!Times
  <2> QED BY <2>2, <2>3 DEF IInv, Chronological
<1>3. ASSUME NEW t \in Callers, Limiter!consume_message(t) PROVE IInv'
  <2> DEFINE pruned == Limiter!_prune(recent, call[t].read - Hour)
             h == Append(sent, call[t].read)
             p == Append(pruned, call[t].read)
  <2>1. /\ call' = [call EXCEPT ![t] = Limiter!Resting] /\ UNCHANGED <<now, joins, joined>>
        /\ \/ recent' = pruned /\ sent' = sent
           \/ /\ ~(Len(pruned) >= HourlyLimit)
              /\ recent' = p /\ sent' = h
    BY <1>3 DEF Limiter!consume_message, Limiter!Full
  <2>2. ClockInv'
    BY <2>1, LimiterAssumption DEF IInv, ClockInv, Call, Limiter!Resting, Limiter!Times
  <2>3. /\ pruned \in Seq(Limiter!Times) /\ Len(pruned) <= HourlyLimit
        /\ Remembers(sent, pruned, now - Hour)
        /\ Len(pruned) < HourlyLimit =>
             /\ Chronological(h)
             /\ p \in Seq(Limiter!Times)
             /\ Len(p) <= HourlyLimit
             /\ Remembers(h, p, now - Hour)
    BY <1>3, Turns, Consumes DEF IInv
  <2> HIDE DEF pruned, h, p
  <2>4. Len(pruned) \in Nat /\ HourlyLimit \in Nat
    BY <2>3, LimiterAssumption
  <2>5. now' = now /\ joins' = joins /\ joined' = joined
    BY <2>1
  <2>6. Chronological(sent)' /\ Chronological(joined)'
    <3>1. CASE sent' = sent
      BY <2>5, <3>1 DEF IInv, Chronological
    <3>2. CASE sent' = h /\ Chronological(h)
      BY <2>5, <3>2 DEF IInv, Chronological
    <3> QED BY <2>1, <2>3, <2>4, <3>1, <3>2
  <2>7. recent' \in Seq(Limiter!Times) /\ Len(recent') <= HourlyLimit /\ Remembers(sent', recent', now - Hour)
    BY <2>1, <2>3, <2>4
  <2>8. recent' \in Seq(Limiter!Times) /\ Len(recent') <= HourlyLimit /\ Remembers(sent, recent, now - Hour)'
    BY <2>5, <2>7 DEF Remembers
  <2> QED BY <2>1, <2>2, <2>5, <2>6, <2>8 DEF IInv, Remembers
<1>4. ASSUME NEW t \in Callers, Limiter!consume_join(t) PROVE IInv'
  <2> DEFINE pruned == Limiter!_prune(joins, call[t].read - JoinWindow)
             h == Append(joined, call[t].read)
             p == Append(pruned, call[t].read)
  <2>1. /\ call' = [call EXCEPT ![t] = Limiter!Resting] /\ UNCHANGED <<now, recent, sent>>
        /\ \/ joins' = pruned /\ joined' = joined
           \/ /\ ~(Len(pruned) >= JoinLimit)
              /\ joins' = p /\ joined' = h
    BY <1>4 DEF Limiter!consume_join
  <2>2. ClockInv'
    BY <2>1, LimiterAssumption DEF IInv, ClockInv, Call, Limiter!Resting, Limiter!Times
  <2>3. /\ pruned \in Seq(Limiter!Times) /\ Len(pruned) <= JoinLimit
        /\ Remembers(joined, pruned, now - JoinWindow)
        /\ Len(pruned) < JoinLimit =>
             /\ Chronological(h)
             /\ p \in Seq(Limiter!Times)
             /\ Len(p) <= JoinLimit
             /\ Remembers(h, p,
                          now - JoinWindow)
    BY <1>4, Turns, Consumes DEF IInv
  <2> HIDE DEF pruned, h, p
  <2>4. Len(pruned) \in Nat /\ JoinLimit \in Nat
    BY <2>3, LimiterAssumption
  <2>5. now' = now /\ recent' = recent /\ sent' = sent
    BY <2>1
  <2>6. Chronological(joined)' /\ Chronological(sent)'
    <3>1. CASE joined' = joined
      BY <2>5, <3>1 DEF IInv, Chronological
    <3>2. CASE joined' = h /\ Chronological(h)
      BY <2>5, <3>2 DEF IInv, Chronological
    <3> QED BY <2>1, <2>3, <2>4, <3>1, <3>2
  <2>7. joins' \in Seq(Limiter!Times) /\ Len(joins') <= JoinLimit /\ Remembers(joined', joins', now - JoinWindow)
    BY <2>1, <2>3, <2>4
  <2>8. joins' \in Seq(Limiter!Times) /\ Len(joins') <= JoinLimit /\ Remembers(joined, joins, now - JoinWindow)'
    BY <2>5, <2>7 DEF Remembers
  <2> QED BY <2>1, <2>2, <2>5, <2>6, <2>8 DEF IInv, Remembers
<1>5. CASE Limiter!Tick
  <2>1. now' = now + 1 /\ now \in Int /\ now' \in Limiter!Times
    BY <1>5, LimiterAssumption DEF Limiter!Tick, IInv, ClockInv, Limiter!Times
  <2>2. UNCHANGED <<recent, joins, call, sent, joined>>
    BY <1>5 DEF Limiter!Tick
  <2>3. ClockInv'
    BY <1>5, <2>1, <2>2, LimiterAssumption DEF Limiter!Tick, IInv, ClockInv, Call, Limiter!Times
  <2>4. ASSUME NEW history, Chronological(history) PROVE Chronological(history)'
    BY <2>1, <2>4, LimiterAssumption DEF Chronological, Limiter!Times
  <2>5. ASSUME NEW history, NEW deque, Chronological(history), NEW window \in Nat,
               Remembers(history, deque, now - window), deque \in Seq(Limiter!Times)
        PROVE  Remembers(history, deque, now' - window)
    <3>1. \A i \in DOMAIN history : history[i] \in Int
      BY <2>5, LimiterAssumption DEF Chronological, Limiter!Times
    <3>2. \A i \in 1 .. Len(history) - Len(deque) : i \in DOMAIN history
      BY <2>5 DEF Chronological
    <3> QED BY <2>1, <2>5, <3>1, <3>2 DEF Remembers
  <2>6. Chronological(sent)' /\ Chronological(joined)'
    BY <2>1, <2>2, <2>4 DEF IInv, Chronological
  <2>7. Remembers(sent, recent, now' - Hour) /\ Remembers(joined, joins, now' - JoinWindow)
    BY <2>5, LimiterAssumption DEF IInv
  <2> QED BY <2>2, <2>3, <2>6, <2>7 DEF IInv
<1> QED BY <1>1, <1>2, <1>3, <1>4, <1>5 DEF Limiter!Next

\* A step of the composition is one of the limiter or leaves it alone.
LEMMA LimiterSteps ==
  [ChatNext]_<<vars, limiterVars>> => [Limiter!Next]_limiterVars
BY DEF ChatNext

\* The invariant above holds for any limits and windows.
THEOREM Invariance == ChatSpec => []IInv
<1>1. ChatInit => IInv
  BY Initially DEF ChatInit
<1>2. IInv /\ [ChatNext]_<<vars, limiterVars>> => IInv'
  BY LimiterSteps, Steps
<1> QED BY <1>1, <1>2, PTL DEF ChatSpec

\* The deques hold timestamps and never outgrow the limits: the memory a user
\* can make the server keep is bounded (rate_limit.py).
THEOREM TypeCorrect == ChatSpec => []Limiter!TypeOK
<1>1. IInv => Limiter!TypeOK
  BY DEF IInv, ClockInv, Call, Limiter!TypeOK
<1> QED BY Invariance, <1>1, PTL

-----------------------------------------------------------------------------
\* A call that finds less than the limit after the beginning of its own window
\* breaks no window that ends at any time.
LEMMA Fits ==
  ASSUME NEW history \in Seq(Limiter!Times), NEW deque \in Seq(Limiter!Times), NEW bound \in Int,
         Remembers(history, deque, bound),
         NEW read \in Limiter!Times, NEW width \in Int, NEW after \in Int, after = read - width,
         bound <= after, NEW limit \in Nat,
         \/ Cardinality(Later(deque, after)) < limit
         \/ Len(deque) < limit,
         \A e \in Limiter!Times : Limiter!InWindow(history, e, width) <= limit
  PROVE  \A e \in Limiter!Times : Limiter!InWindow(Append(history, read), e, width) <= limit
<1> SUFFICES ASSUME NEW e \in Limiter!Times
             PROVE  Limiter!InWindow(Append(history, read), e, width) <= limit
  OBVIOUS
<1> DEFINE h == Append(history, read)
           n == Len(history)
           I == {i \in DOMAIN history : e - width < history[i] /\ history[i] <= e}
           K == {i \in DOMAIN h : e - width < h[i] /\ h[i] <= e}
           J == Later(deque, after)
<1>1. e \in Int /\ read \in Int /\ n \in Nat /\ DOMAIN history = 1 .. n
      /\ DOMAIN h = 1 .. n + 1 /\ h[n + 1] = read
      /\ \A i \in 1 .. n : h[i] = history[i] /\ history[i] \in Int
  BY LimiterAssumption, AppendProperties DEF Limiter!Times
<1>2. CASE ~(e - width < read /\ read <= e)
  <2>1. K = I
    BY <1>1, <1>2
  <2> QED BY <2>1 DEF Limiter!InWindow
<1>3. CASE e - width < read /\ read <= e
  <2>1. K = I \union {n + 1} /\ n + 1 \notin I
    BY <1>1, <1>3
  <2>2. \A i \in I : history[i] > after
    BY <1>1, <1>3
  <2>3. I \in SUBSET DOMAIN history
    BY <1>1
  <2>4. /\ IsFiniteSet(I) /\ Cardinality(I) \in Nat /\ Cardinality(J) \in Nat
        /\ Cardinality(I) <= Cardinality(J) /\ Cardinality(J) <= Len(deque)
    <3> HIDE DEF I
    <3> QED BY <2>2, <2>3, Counts, Counted
  <2>5. Len(deque) \in Nat
    OBVIOUS
  <2> HIDE DEF I, J, K
  <2>6. Cardinality(I) < limit
    BY <2>4, <2>5 DEF J
  <2>7. Cardinality(K) = Cardinality(I) + 1
    BY <2>1, <2>4, FS_AddElement
  <2>8. Cardinality(K) <= limit
    BY <2>4, <2>6, <2>7
  <2> QED BY <2>8, SameCount DEF Limiter!InWindow, K
<1> QED BY <1>2, <1>3

LEMMA QuotaSteps ==
  ASSUME IInv, Limiter!Quotas, [Limiter!Next]_limiterVars
  PROVE  Limiter!Quotas'
<1>1. CASE UNCHANGED <<sent, joined>>
  BY <1>1 DEF Limiter!Quotas, Limiter!BurstQuota, Limiter!HourlyQuota, Limiter!JoinQuota
<1>2. ASSUME NEW t \in Callers, Limiter!consume_message(t), sent' # sent PROVE Limiter!Quotas'
  <2> DEFINE read == call[t].read
             pruned == Limiter!_prune(recent, read - Hour)
  <2>1. /\ sent' = Append(sent, read) /\ joined' = joined
        /\ ~(Limiter!burst_count(pruned, read) >= BurstLimit) /\ ~(Len(pruned) >= HourlyLimit)
    BY <1>2 DEF Limiter!consume_message, Limiter!Full
  <2>2. read \in Limiter!Times /\ pruned \in Seq(Limiter!Times) /\ Remembers(sent, pruned, now - Hour)
    BY <1>2, Turns, Consumes DEF IInv
  <2>3. /\ read \in Int /\ now \in Int /\ now <= read + MaxDelay /\ sent \in Seq(Limiter!Times)
        /\ now - Hour \in Int /\ Hour - MaxDelay \in Int /\ BurstWindow \in Int
        /\ BurstLimit \in Nat /\ HourlyLimit \in Nat
        /\ read - BurstWindow \in Int /\ read - (Hour - MaxDelay) \in Int
        /\ now - Hour <= read - BurstWindow /\ now - Hour <= read - (Hour - MaxDelay)
    <3>1. /\ call[t] # Limiter!Resting /\ now \in Limiter!Times /\ sent \in Seq(Limiter!Times)
          /\ now <= read + MaxDelay
      BY <1>2, Turns DEF IInv, ClockInv, Chronological
    <3> HIDE DEF read, pruned
    <3>2. /\ read \in Int /\ now \in Int
          /\ BurstLimit \in Nat /\ HourlyLimit \in Nat /\ BurstWindow \in Int
          /\ Hour \in Int /\ MaxDelay \in Int /\ BurstWindow + MaxDelay <= Hour
      BY <2>2, <3>1, LimiterAssumption DEF Limiter!Times
    <3> QED BY <3>1, <3>2
  <2>4. Len(pruned) \in Nat
    BY <2>2
  <2> HIDE DEF pruned, read
  <2>5. Len(pruned) < HourlyLimit
    BY <2>1, <2>3, <2>4
  <2>6. Cardinality(Later(pruned, read - BurstWindow)) < BurstLimit
    <3>1. read - BurstWindow \in Int
      BY <2>3
    <3>2. Cardinality(Later(pruned, read - BurstWindow)) \in Nat
      BY <2>2, <3>1, Counted
    <3> QED BY <2>1, <2>3, <3>2, SameCount DEF Limiter!burst_count, Later
  <2>7. \A e \in Limiter!Times : Limiter!InWindow(Append(sent, read), e, BurstWindow) <= BurstLimit
    BY <2>2, <2>3, <2>6, Fits DEF Limiter!Quotas, Limiter!BurstQuota
  <2>8. \A e \in Limiter!Times : Limiter!InWindow(Append(sent, read), e, Hour - MaxDelay) <= HourlyLimit
    <3> PICK width \in Int, after \in Int : width = Hour - MaxDelay /\ after = read - width
      BY <2>3
    <3>1. now - Hour <= after /\ \A e \in Limiter!Times : Limiter!InWindow(sent, e, width) <= HourlyLimit
      BY <2>3 DEF Limiter!Quotas, Limiter!HourlyQuota
    <3>2. \A e \in Limiter!Times : Limiter!InWindow(Append(sent, read), e, width) <= HourlyLimit
      BY <2>2, <2>3, <2>5, <3>1, Fits
    <3> QED BY <3>2
  <2> QED BY <2>1, <2>7, <2>8 DEF Limiter!Quotas, Limiter!BurstQuota, Limiter!HourlyQuota, Limiter!JoinQuota
<1>3. ASSUME NEW t \in Callers, Limiter!consume_join(t), joined' # joined PROVE Limiter!Quotas'
  <2> DEFINE read == call[t].read
             pruned == Limiter!_prune(joins, read - JoinWindow)
  <2>1. joined' = Append(joined, read) /\ sent' = sent /\ ~(Len(pruned) >= JoinLimit)
    BY <1>3 DEF Limiter!consume_join
  <2>2. read \in Limiter!Times /\ pruned \in Seq(Limiter!Times) /\ Remembers(joined, pruned, now - JoinWindow)
    BY <1>3, Turns, Consumes DEF IInv
  <2>3. /\ now - JoinWindow \in Int /\ JoinWindow - MaxDelay \in Int /\ JoinLimit \in Nat
        /\ joined \in Seq(Limiter!Times) /\ read - (JoinWindow - MaxDelay) \in Int
        /\ now - JoinWindow <= read - (JoinWindow - MaxDelay)
    <3>1. /\ call[t] # Limiter!Resting /\ now \in Limiter!Times /\ joined \in Seq(Limiter!Times)
          /\ now <= read + MaxDelay
      BY <1>3, Turns DEF IInv, ClockInv, Chronological
    <3> HIDE DEF read, pruned
    <3>2. /\ read \in Int /\ now \in Int /\ JoinLimit \in Nat
          /\ JoinWindow \in Int /\ MaxDelay \in Int
      BY <2>2, <3>1, LimiterAssumption DEF Limiter!Times
    <3> QED BY <3>1, <3>2
  <2>4. Len(pruned) \in Nat
    BY <2>2
  <2> HIDE DEF pruned, read
  <2>5. Len(pruned) < JoinLimit
    BY <2>1, <2>3, <2>4
  <2>6. \A e \in Limiter!Times : Limiter!InWindow(Append(joined, read), e, JoinWindow - MaxDelay) <= JoinLimit
    <3> PICK width \in Int, after \in Int : width = JoinWindow - MaxDelay /\ after = read - width
      BY <2>3
    <3>1. now - JoinWindow <= after /\ \A e \in Limiter!Times : Limiter!InWindow(joined, e, width) <= JoinLimit
      BY <2>3 DEF Limiter!Quotas, Limiter!JoinQuota
    <3>2. \A e \in Limiter!Times : Limiter!InWindow(Append(joined, read), e, width) <= JoinLimit
      BY <2>2, <2>3, <2>5, <3>1, Fits
    <3> QED BY <3>2
  <2> QED BY <2>1, <2>6 DEF Limiter!Quotas, Limiter!BurstQuota, Limiter!HourlyQuota, Limiter!JoinQuota
<1>4. \/ UNCHANGED <<sent, joined>>
      \/ \E t \in Callers : Limiter!consume_message(t) /\ sent' # sent
      \/ \E t \in Callers : Limiter!consume_join(t) /\ joined' # joined
  BY DEF Limiter!Next, limiterVars, Limiter!ReadClock, Limiter!Tick, Limiter!consume_message, Limiter!consume_join
<1> QED BY <1>1, <1>2, <1>3, <1>4

\* In whatever order the calls of a user's sockets get the lock: no ten seconds
\* with more than five messages, and the hour and the minute as exact as the
\* wait for the lock lets them be (rate_limit.py).
THEOREM QuotasHold == ChatSpec => []Quotas
<1>1. Limiter!Init => Limiter!Quotas
  <2> SUFFICES ASSUME Limiter!Init PROVE Limiter!Quotas
    OBVIOUS
  <2>1. \A e, width : Limiter!InWindow(<< >>, e, width) = 0
    <3> TAKE e, width
    <3>1. {i \in DOMAIN << >> : e - width < << >>[i] /\ << >>[i] <= e} = {}
      OBVIOUS
    <3> QED BY <3>1, FS_EmptySet, SameCount DEF Limiter!InWindow
  <2> QED BY <2>1, LimiterAssumption DEF Limiter!Init, Limiter!Quotas, Limiter!BurstQuota, Limiter!HourlyQuota, Limiter!JoinQuota
<1>2. ChatInit => Quotas
  BY <1>1 DEF ChatInit, Quotas
<1>3. IInv /\ Quotas /\ [ChatNext]_<<vars, limiterVars>> => Quotas'
  BY LimiterSteps, QuotaSteps DEF Quotas
<1> QED BY Invariance, <1>2, <1>3, PTL DEF ChatSpec

-----------------------------------------------------------------------------
\* What the deque has after a moment, its history has.
LEMMA Remembered ==
  ASSUME NEW history \in Seq(Limiter!Times), NEW deque \in Seq(Limiter!Times), NEW bound \in Int,
         Remembers(history, deque, bound), NEW after \in Int
  PROVE  Cardinality(Later(deque, after)) <= Cardinality(Later(history, after))
<1> DEFINE gone == Len(history) - Len(deque)
           f == [i \in Later(deque, after) |-> gone + i]
<1>1. gone \in Nat /\ Len(deque) \in Nat /\ Len(history) \in Nat
      /\ \A i \in Later(deque, after) : i \in 1 .. Len(deque)
  BY DEF Remembers, Later
<1>2. \A i \in Later(deque, after) : gone + i \in Later(history, after)
  <2> TAKE i \in Later(deque, after)
  <2>1. gone + i \in 1 .. Len(history) /\ deque[i] = history[gone + i] /\ deque[i] > after
    BY <1>1 DEF Remembers, Later
  <2> QED BY <2>1 DEF Later
<1>3. f \in Injection(Later(deque, after), Later(history, after))
  BY <1>1, <1>2 DEF Injection, IsInjective
<1> HIDE DEF f
<1> QED BY <1>3, Counted, FS_Injection

\* A pruned deque holds nothing that is older than its window by more than a
\* call can wait for the lock.
LEMMA Fresh ==
  ASSUME NEW history \in Seq(Limiter!Times), NEW deque \in Seq(Limiter!Times), NEW bound \in Int,
         Remembers(history, deque, bound), Chronological(history),
         NEW cutoff \in Int, deque # << >> => deque[1] > cutoff
  PROVE  /\ Len(deque) <= Cardinality(Later(history, cutoff - MaxDelay))
         /\ Cardinality(Later(history, cutoff - MaxDelay)) \in Nat
<1> DEFINE gone == Len(history) - Len(deque)
<1>1. gone \in Nat /\ Len(deque) \in Nat /\ Len(history) \in Nat /\ MaxDelay \in Nat
      /\ cutoff - MaxDelay \in Int /\ DOMAIN deque = 1 .. Len(deque)
      /\ DOMAIN history = 1 .. Len(history)
      /\ \A i \in DOMAIN history : history[i] \in Int
  BY LimiterAssumption DEF Remembers, Limiter!Times
<1>2. ASSUME NEW i \in 1 .. Len(deque) PROVE deque[i] > cutoff - MaxDelay
  <2>1. gone + i \in DOMAIN history /\ gone + 1 \in DOMAIN history
        /\ 1 \in 1 .. Len(deque) /\ deque # << >> /\ i >= 1
    BY <1>1
  <2>2. deque[i] = history[gone + i] /\ deque[1] = history[gone + 1]
    BY <2>1 DEF Remembers
  <2>3. history[gone + 1] - MaxDelay <= history[gone + i]
    <3>1. CASE i = 1
      BY <1>1, <2>1, <3>1
    <3>2. CASE gone + 1 < gone + i
      BY <2>1, <3>2 DEF Chronological
    <3> QED BY <1>1, <3>1, <3>2
  <2>4. history[gone + 1] \in Int /\ history[gone + i] \in Int /\ deque[1] > cutoff
    BY <1>1, <2>1
  <2> QED BY <1>1, <2>2, <2>3, <2>4
<1>3. Later(deque, cutoff - MaxDelay) = 1 .. Len(deque)
  BY <1>1, <1>2 DEF Later
<1>4. Cardinality(1 .. Len(deque)) = IF 1 > Len(deque) THEN 0 ELSE Len(deque) - 1 + 1
  <2>1. 1 \in Int /\ Len(deque) \in Int
    BY <1>1
  <2> QED BY ONLY <2>1, FS_Interval
<1>5. Cardinality(Later(deque, cutoff - MaxDelay)) = Len(deque)
  BY <1>1, <1>3, <1>4
<1>6. Cardinality(Later(deque, cutoff - MaxDelay)) <= Cardinality(Later(history, cutoff - MaxDelay))
  BY <1>1, Remembered
<1> QED BY <1>1, <1>5, <1>6, Counted

\* A step that ends a call is that call.
LEMMA Ends ==
  ASSUME IInv, [Limiter!Next]_limiterVars, NEW t \in Callers, call[t].op \in {"message", "join"},
         call'[t] = Limiter!Resting
  PROVE  \/ Limiter!consume_message(t) /\ call[t].op = "message"
         \/ Limiter!consume_join(t) /\ call[t].op = "join"
<1>1. call \in [Callers -> Call] /\ call[t] # Limiter!Resting
  BY DEF IInv, ClockInv, Limiter!Resting
<1>2. ASSUME NEW r \in Callers, NEW op \in {"message", "join"}, Limiter!ReadClock(r, op)
      PROVE  FALSE
  BY <1>1, <1>2 DEF Limiter!ReadClock, Limiter!Resting
<1>3. ~Limiter!Tick /\ ~UNCHANGED limiterVars
  BY <1>1 DEF Limiter!Tick, limiterVars
<1>4. ASSUME NEW r \in Callers, Limiter!consume_message(r) \/ Limiter!consume_join(r) PROVE r = t
  BY <1>1, <1>4 DEF Limiter!consume_message, Limiter!consume_join
<1> QED BY <1>2, <1>3, <1>4 DEF Limiter!Next, Limiter!consume_message, Limiter!consume_join

LEMMA Refusals ==
  ASSUME IInv, [Limiter!Next]_limiterVars, NEW t \in Callers, call'[t] = Limiter!Resting
  PROVE  /\ (call[t].op = "message" /\ sent' = sent) =>
              \/ Limiter!Since(sent, call[t].read - BurstWindow) >= BurstLimit
              \/ Limiter!Since(sent, call[t].read - Hour - MaxDelay) >= HourlyLimit
         /\ (call[t].op = "join" /\ joined' = joined) =>
              Limiter!Since(joined, call[t].read - JoinWindow - MaxDelay) >= JoinLimit
<1> DEFINE read == call[t].read
<1>1. \A history, after : Limiter!Since(history, after) = Cardinality(Later(history, after))
  BY SameCount DEF Limiter!Since, Later
<1>2. ASSUME call[t].op = "message", sent' = sent
      PROVE  \/ Limiter!Since(sent, read - BurstWindow) >= BurstLimit
             \/ Limiter!Since(sent, read - Hour - MaxDelay) >= HourlyLimit
  <2> DEFINE pruned == Limiter!_prune(recent, read - Hour)
  <2>1. Limiter!consume_message(t)
    BY <1>2, Ends
  <2>2. /\ read \in Int /\ pruned \in Seq(Limiter!Times) /\ Remembers(sent, pruned, now - Hour)
        /\ pruned # << >> => pruned[1] > read - Hour
        /\ Chronological(sent) /\ sent \in Seq(Limiter!Times)
        /\ read - BurstWindow \in Int /\ read - Hour \in Int /\ now - Hour \in Int
    <3>1. /\ read \in Limiter!Times /\ pruned \in Seq(Limiter!Times) /\ Remembers(sent, pruned, now - Hour)
          /\ pruned # << >> => pruned[1] > read - Hour
      BY <2>1, Turns, Consumes DEF IInv
    <3>2. Chronological(sent) /\ sent \in Seq(Limiter!Times) /\ now \in Limiter!Times
      BY DEF IInv, Chronological, ClockInv
    <3> HIDE DEF read, pruned
    <3>3. read \in Int /\ now \in Int /\ BurstWindow \in Int /\ Hour \in Int
      BY <3>1, <3>2, LimiterAssumption DEF Limiter!Times
    <3> QED BY <3>1, <3>2, <3>3
  <2>3. Limiter!Full(pruned, read)
    <3> SUFFICES ASSUME sent = Append(sent, read) PROVE FALSE
      BY <1>2, <2>1 DEF Limiter!consume_message
    <3> QED BY <2>2
  <2> HIDE DEF pruned, read
  <2>4. Cardinality(Later(pruned, read - BurstWindow)) <= Cardinality(Later(sent, read - BurstWindow))
    BY <2>2, Remembered
  <2>5. /\ Len(pruned) <= Cardinality(Later(sent, read - Hour - MaxDelay))
        /\ Cardinality(Later(sent, read - Hour - MaxDelay)) \in Nat
    BY <2>2, Fresh
  <2>6. /\ Len(pruned) \in Nat /\ Cardinality(Later(pruned, read - BurstWindow)) \in Nat
        /\ Cardinality(Later(sent, read - BurstWindow)) \in Nat
        /\ BurstLimit \in Nat /\ HourlyLimit \in Nat
    <3> PICK after \in Int : after = read - BurstWindow
      BY <2>2
    <3>1. Cardinality(Later(pruned, after)) \in Nat /\ Cardinality(Later(sent, after)) \in Nat
      BY <2>2, Counted
    <3> QED BY <2>2, <3>1, LimiterAssumption
  <2>7. Limiter!burst_count(pruned, read) = Cardinality(Later(pruned, read - BurstWindow))
    BY SameCount DEF Limiter!burst_count, Later
  <2> QED BY <1>1, <2>3, <2>4, <2>5, <2>6, <2>7 DEF Limiter!Full
<1>3. ASSUME call[t].op = "join", joined' = joined
      PROVE  Limiter!Since(joined, read - JoinWindow - MaxDelay) >= JoinLimit
  <2> DEFINE pruned == Limiter!_prune(joins, read - JoinWindow)
  <2>1. Limiter!consume_join(t)
    BY <1>3, Ends
  <2>2. /\ read \in Int /\ pruned \in Seq(Limiter!Times) /\ Remembers(joined, pruned, now - JoinWindow)
        /\ pruned # << >> => pruned[1] > read - JoinWindow
        /\ Chronological(joined) /\ joined \in Seq(Limiter!Times)
        /\ read - JoinWindow \in Int /\ now - JoinWindow \in Int
    <3>1. /\ read \in Limiter!Times /\ pruned \in Seq(Limiter!Times) /\ Remembers(joined, pruned, now - JoinWindow)
          /\ pruned # << >> => pruned[1] > read - JoinWindow
      BY <2>1, Turns, Consumes DEF IInv
    <3> QED BY <3>1, LimiterAssumption DEF IInv, Chronological, ClockInv, Limiter!Times
  <2>3. Len(pruned) >= JoinLimit
    <3> SUFFICES ASSUME joined = Append(joined, read) PROVE FALSE
      BY <1>3, <2>1 DEF Limiter!consume_join
    <3> QED BY <2>2
  <2> HIDE DEF pruned, read
  <2>4. /\ Len(pruned) <= Cardinality(Later(joined, read - JoinWindow - MaxDelay))
        /\ Cardinality(Later(joined, read - JoinWindow - MaxDelay)) \in Nat
    BY <2>2, Fresh
  <2>5. /\ Len(pruned) \in Nat /\ JoinLimit \in Nat
    BY <2>2, LimiterAssumption
  <2> QED BY <1>1, <2>3, <2>4, <2>5
<1> QED BY <1>2, <1>3

\* Nobody is refused before he has used up a limit, but for timestamps that hide
\* behind a later one for as long as a call can wait for the lock (_prune).
THEOREM RefusedWhenFull == ChatSpec => RefusedOnlyWhenFull
<1>1. IInv /\ [ChatNext]_<<vars, limiterVars>> =>
        [\A t \in Callers :
           /\ (call[t].op = "message" /\ call'[t] = Limiter!Resting /\ sent' = sent) =>
                \/ Limiter!Since(sent, call[t].read - BurstWindow) >= BurstLimit
                \/ Limiter!Since(sent, call[t].read - Hour - MaxDelay) >= HourlyLimit
           /\ (call[t].op = "join" /\ call'[t] = Limiter!Resting /\ joined' = joined) =>
                Limiter!Since(joined, call[t].read - JoinWindow - MaxDelay) >= JoinLimit]_Limiter!vars
  BY LimiterSteps, Refusals DEF limiterVars, Limiter!vars
<1> QED BY Invariance, <1>1, PTL DEF ChatSpec, RefusedOnlyWhenFull, Limiter!RefusedOnlyWhenFull
=============================================================================
