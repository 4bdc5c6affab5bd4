---------------------------- MODULE ListingProofs ----------------------------
(***************************************************************************)
(* Theorems about Listing, as SitePages has it: for any page size, any     *)
(* number of rows and events, and every list of the site.                  *)
(***************************************************************************)
EXTENDS SitePages, SequenceTheorems, FiniteSetTheorems, TLAPS


LEMMA SameSize == \A S : Lists!Cardinality(S) = Cardinality(S)
BY DEF Lists!Cardinality, Cardinality

\* A row inserted, removed: what is where then.
InsertedAt(t, s, i, e) ==
  /\ Len(t) = Len(s) + 1
  /\ \A k \in 1 .. Len(s) + 1 : t[k] = IF k < i THEN s[k] ELSE IF k = i THEN e ELSE s[k - 1]

LEMMA Inserted ==
  ASSUME NEW S, NEW s \in Seq(S), NEW e \in S, NEW i \in 1 .. Len(s) + 1
  PROVE  /\ Lists!InsertAt(s, i, e) \in Seq(S)
         /\ InsertedAt(Lists!InsertAt(s, i, e), s, i, e)
<1> DEFINE front == SubSeq(s, 1, i - 1)  back == SubSeq(s, i, Len(s))
           head == front \o <<e>>
<1>1. /\ front \in Seq(S) /\ Len(front) = i - 1
      /\ \A k \in 1 .. i - 1 : front[k] = s[k]
  BY SubSeqProperties
<1>2. /\ back \in Seq(S) /\ Len(back) = Len(s) - i + 1
      /\ \A k \in 1 .. Len(s) - i + 1 : back[k] = s[i + k - 1]
  BY SubSeqProperties
<1> HIDE DEF front, back
<1>3. /\ head \in Seq(S) /\ Len(head) = i
      /\ \A k \in 1 .. i : head[k] = IF k < i THEN s[k] ELSE e
  <2>1. <<e>> \in Seq(S) /\ Len(<<e>>) = 1 /\ <<e>>[1] = e
    OBVIOUS
  <2>2. /\ head \in Seq(S) /\ Len(head) = Len(front) + 1
        /\ \A k \in 1 .. Len(front) + 1 :
             head[k] = IF k <= Len(front) THEN front[k] ELSE <<e>>[k - Len(front)]
    <3>1. front \in Seq(S) /\ <<e>> \in Seq(S) /\ Len(<<e>>) = 1
      BY <1>1, <2>1
    <3> QED BY ONLY <3>1, ConcatProperties
  <2>3. \A k \in 1 .. i : k <= i - 1 \/ k = i
    OBVIOUS
  <2> QED BY <1>1, <2>1, <2>2, <2>3
<1> HIDE DEF head
<1>4. /\ head \o back \in Seq(S) /\ Len(head \o back) = Len(s) + 1
      /\ \A k \in 1 .. Len(s) + 1 :
           (head \o back)[k] = IF k <= i THEN head[k] ELSE back[k - i]
  <2>1. head \in Seq(S) /\ back \in Seq(S)
    BY <1>2, <1>3
  <2>2. /\ head \o back \in Seq(S) /\ Len(head \o back) = Len(head) + Len(back)
        /\ \A k \in 1 .. Len(head) + Len(back) :
             (head \o back)[k] = IF k <= Len(head) THEN head[k] ELSE back[k - Len(head)]
    BY ONLY <2>1, ConcatProperties
  <2>3. Len(head) = i /\ Len(head) + Len(back) = Len(s) + 1
    BY <1>2, <1>3
  <2> QED BY <2>2, <2>3
<1>5. Lists!InsertAt(s, i, e) = head \o back
  BY DEF Lists!InsertAt, head, front, back
<1>6. \A k \in 1 .. Len(s) + 1 :
        (head \o back)[k] = IF k < i THEN s[k] ELSE IF k = i THEN e ELSE s[k - 1]
  <2> SUFFICES ASSUME NEW k \in 1 .. Len(s) + 1
               PROVE  (head \o back)[k] = IF k < i THEN s[k] ELSE IF k = i THEN e ELSE s[k - 1]
    OBVIOUS
  <2>1. CASE k <= i
    BY <1>3, <1>4, <2>1
  <2>2. CASE k > i
    <3>1. k - i \in 1 .. Len(s) - i + 1 /\ i + (k - i) - 1 = k - 1
      BY <2>2
    <3> QED BY <1>2, <1>4, <2>2, <3>1
  <2>3. k <= i \/ k > i
    OBVIOUS
  <2> QED BY ONLY <2>1, <2>2, <2>3
<1> QED BY <1>4, <1>5, <1>6 DEF InsertedAt

RemovedAt(t, s, i) ==
  /\ Len(t) = Len(s) - 1
  /\ \A k \in 1 .. Len(s) - 1 : t[k] = IF k < i THEN s[k] ELSE s[k + 1]

LEMMA Removed ==
  ASSUME NEW S, NEW s \in Seq(S), NEW i \in 1 .. Len(s)
  PROVE  /\ Lists!RemoveAt(s, i) \in Seq(S)
         /\ RemovedAt(Lists!RemoveAt(s, i), s, i)
<1> DEFINE front == SubSeq(s, 1, i - 1)  back == SubSeq(s, i + 1, Len(s))
<1>1. /\ front \in Seq(S) /\ Len(front) = i - 1
      /\ \A k \in 1 .. i - 1 : front[k] = s[k]
  BY SubSeqProperties
<1>2. /\ back \in Seq(S) /\ Len(back) = Len(s) - i
      /\ \A k \in 1 .. Len(s) - i : back[k] = s[i + k]
  BY SubSeqProperties
<1> HIDE DEF front, back
<1>3. /\ front \o back \in Seq(S) /\ Len(front \o back) = Len(s) - 1
      /\ \A k \in 1 .. Len(s) - 1 :
           (front \o back)[k] = IF k <= i - 1 THEN front[k] ELSE back[k - (i - 1)]
  <2>1. front \in Seq(S) /\ back \in Seq(S)
    BY <1>1, <1>2
  <2>2. /\ front \o back \in Seq(S) /\ Len(front \o back) = Len(front) + Len(back)
        /\ \A k \in 1 .. Len(front) + Len(back) :
             (front \o back)[k] = IF k <= Len(front) THEN front[k] ELSE back[k - Len(front)]
    BY ONLY <2>1, ConcatProperties
  <2>3. Len(front) = i - 1 /\ Len(front) + Len(back) = Len(s) - 1
    BY <1>1, <1>2
  <2> QED BY <2>2, <2>3
<1>4. Lists!RemoveAt(s, i) = front \o back
  BY DEF Lists!RemoveAt, front, back
<1>5. \A k \in 1 .. Len(s) - 1 : ~(k < i) => back[k - (i - 1)] = s[k + 1]
  <2> SUFFICES ASSUME NEW k \in 1 .. Len(s) - 1, ~(k < i) PROVE back[k - (i - 1)] = s[k + 1]
    OBVIOUS
  <2>1. k - (i - 1) \in 1 .. Len(s) - i /\ i + (k - (i - 1)) = k + 1
    OBVIOUS
  <2> QED BY <1>2, <2>1
<1> QED BY <1>1, <1>3, <1>4, <1>5 DEF RemovedAt

-----------------------------------------------------------------------------
\* The rows among the first n of the list, and those after them.
UpTo(n) == {listed[i] : i \in {j \in DOMAIN listed : j <= n}}
Beyond(n) == {listed[i] : i \in {j \in DOMAIN listed : j > n}}

\* How far the reader has read.
Place ==
  CASE reader.pc \in {"count", "select"} -> Lists!Offset(reader.page)
    [] reader.pc \in {"read", "done"} -> reader.page * PerPage
    [] OTHER -> 0

WalkType ==
  /\ created \in Nat /\ left \in Nat /\ moved \in Nat /\ late \in Nat
  /\ listed \in Seq(1 .. created) /\ IsInjective(listed)
  /\ shown \in Seq(1 .. created)
  /\ standing \subseteq {listed[i] : i \in DOMAIN listed}
  /\ reader \in [pc : {"closed", "count", "select", "read", "done"},
                 page : Nat, total : Nat, opened : Nat]
  /\ reader.pc # "closed" => reader.page > 0 /\ reader.opened <= created
  /\ reader.pc = "closed" =>
       reader = Lists!Closed /\ shown = << >> /\ standing = {} /\ listed = << >>
       /\ created = 0 /\ left = 0 /\ moved = 0 /\ late = 0

\* Rows the reader has passed without seeing them; rows he will see again.
Passed == (standing \ Lists!ShownRows) \intersect UpTo(Place)
Again == Lists!ShownRows \intersect Beyond(Place)

Accounts ==
  /\ Cardinality(Passed) <= left + moved
  /\ (Len(shown) - Cardinality(Lists!ShownRows)) + Cardinality(Again)
       <= (created - reader.opened) + moved
  /\ reader.pc = "select" => Len(listed) <= reader.total + late
  /\ Lists!MissesAreCaused

\* The list of the oldest transfers only grows, at its end.
Exact ==
  list = Lists!list_transfer_history("oldest") =>
    /\ Len(shown) <= Len(listed)
    /\ \A k \in DOMAIN shown : shown[k] = listed[k]
    /\ reader.pc \in {"count", "select", "read"} => Len(shown) = Place
    /\ reader.pc = "select" => reader.total <= Len(listed)
    /\ reader.pc = "done" => Len(shown) >= reader.total

WalkInv == WalkType /\ Accounts /\ Exact

LEMMA FiniteRows ==
  ASSUME WalkType
  PROVE  /\ IsFiniteSet(standing) /\ IsFiniteSet(Lists!ShownRows)
         /\ \A n : IsFiniteSet(UpTo(n)) /\ IsFiniteSet(Beyond(n))
         /\ Lists!ShownRows \subseteq 1 .. created
<1>1. IsFiniteSet(1 .. created)
  BY FS_Interval DEF WalkType
<1>2. /\ standing \subseteq 1 .. created /\ Lists!ShownRows \subseteq 1 .. created
      /\ \A n : UpTo(n) \subseteq 1 .. created /\ Beyond(n) \subseteq 1 .. created
  BY SMTT(30) DEF WalkType, Lists!ShownRows, UpTo, Beyond
<1> QED BY <1>1, <1>2, FS_Subset

LEMMA OneMore ==
  ASSUME NEW S, IsFiniteSet(S), NEW T, NEW x, T \subseteq S \union {x}
  PROVE  IsFiniteSet(T) /\ Cardinality(T) <= Cardinality(S) + 1
         /\ Cardinality(S) \in Nat /\ Cardinality(T) \in Nat
<1>1. IsFiniteSet(S \union {x}) /\ Cardinality(S \union {x}) <= Cardinality(S) + 1
  <2>1. Cardinality(S) \in Nat
    BY FS_CardinalityType
  <2>2. /\ IsFiniteSet(S \union {x})
        /\ Cardinality(S \union {x}) \in {Cardinality(S), Cardinality(S) + 1}
    BY FS_AddElement
  <2> QED BY <2>1, <2>2
<1>2. IsFiniteSet(T) /\ Cardinality(T) <= Cardinality(S \union {x})
  BY <1>1, FS_Subset
<1> QED BY <1>1, <1>2, FS_CardinalityType

LEMMA NotMore ==
  ASSUME NEW S, IsFiniteSet(S), NEW T, T \subseteq S
  PROVE  IsFiniteSet(T) /\ Cardinality(T) <= Cardinality(S)
         /\ Cardinality(S) \in Nat /\ Cardinality(T) \in Nat
BY FS_Subset, FS_CardinalityType

LEMMA PlaceIs ==
  ASSUME WalkType
  PROVE  /\ Place \in Nat /\ Lists!Offset(reader.page) + PerPage = reader.page * PerPage
         /\ reader.page * PerPage \in Nat
         /\ reader.pc # "closed" => Lists!Offset(reader.page) \in Nat
<1>1. reader.page \in Nat /\ PerPage \in Nat
  BY PageAssumption, RowsAssumption DEF WalkType
<1>2. reader.page * PerPage \in Nat /\ (reader.page - 1) * PerPage \in Int
      /\ (reader.page - 1) * PerPage + PerPage = reader.page * PerPage
  BY <1>1
<1>3. reader.page > 0 => (reader.page - 1) * PerPage \in Nat
  BY <1>1
<1> QED BY <1>2, <1>3 DEF WalkType, Place, Lists!Offset

\* Commits of others leave the reader where he is.
RowStep == Lists!RowComes \/ Lists!RowLeaves \/ Lists!RowMoves

LEMMA ComesShifts ==
  ASSUME WalkType, NEW i \in 1 .. Len(listed) + 1,
         listed' = Lists!InsertAt(listed, i, created + 1), created' = created + 1
  PROVE  /\ listed' \in Seq(1 .. created') /\ Len(listed') = Len(listed) + 1
         /\ IsInjective(listed')
         /\ {listed[k] : k \in DOMAIN listed} \subseteq {listed'[k] : k \in DOMAIN listed'}
         /\ \A n \in Nat : \E y :
              /\ UpTo(n)' \subseteq UpTo(n) \union {created + 1}
              /\ Beyond(n)' \subseteq Beyond(n) \union {y, created + 1}
         /\ i = Len(listed) + 1 => \A k \in DOMAIN listed : listed'[k] = listed[k]
<1>1. created \in Nat /\ listed \in Seq(1 .. created) /\ IsInjective(listed)
  BY DEF WalkType
<1> DEFINE R == 1 .. created'  new == created + 1
<1>2. listed \in Seq(R) /\ new \in R
  BY <1>1
<1> HIDE DEF R, new
<1>3. /\ listed' \in Seq(R) /\ Len(listed') = Len(listed) + 1
      /\ \A k \in 1 .. Len(listed) + 1 : listed'[k] =
           IF k < i THEN listed[k] ELSE IF k = i THEN new ELSE listed[k - 1]
  <2>1. listed' = Lists!InsertAt(listed, i, new)
    BY DEF new
  <2>2. /\ Lists!InsertAt(listed, i, new) \in Seq(R)
        /\ Len(Lists!InsertAt(listed, i, new)) = Len(listed) + 1
        /\ \A k \in 1 .. Len(listed) + 1 : Lists!InsertAt(listed, i, new)[k] =
             IF k < i THEN listed[k] ELSE IF k = i THEN new ELSE listed[k - 1]
    BY <1>2, Inserted DEF InsertedAt
  <2> QED BY <2>1, <2>2
<1>4. /\ DOMAIN listed = 1 .. Len(listed) /\ DOMAIN listed' = 1 .. Len(listed) + 1
      /\ Len(listed) \in Nat
  BY <1>1, <1>3
<1>5. \A k \in DOMAIN listed : listed[k] # new
  BY <1>1 DEF new
<1>6. IsInjective(listed')
  <2> SUFFICES ASSUME NEW k \in DOMAIN listed', NEW m \in DOMAIN listed', k < m
               PROVE  listed'[k] # listed'[m]
    BY <1>4 DEF IsInjective
  <2>1. k \in DOMAIN listed /\ m - 1 \in DOMAIN listed
    BY <1>4
  <2>2. \A p, q \in DOMAIN listed : p # q => listed[p] # listed[q]
    BY <1>1 DEF IsInjective
  <2>3. CASE m < i
    <3>1. listed'[k] = listed[k] /\ listed'[m] = listed[m] /\ m \in DOMAIN listed
      BY <1>3, <1>4, <2>3
    <3> QED BY <2>1, <2>2, <3>1
  <2>4. CASE m = i
    <3>1. listed'[k] = listed[k] /\ listed'[m] = new
      BY <1>3, <1>4, <2>4
    <3> QED BY <1>5, <2>1, <3>1
  <2>5. CASE m > i
    <3>1. listed'[m] = listed[m - 1]
      BY <1>3, <1>4, <2>5
    <3>2. CASE k < i
      <4>1. listed'[k] = listed[k] /\ k # m - 1
        BY <1>3, <1>4, <2>5, <3>2
      <4> QED BY <2>1, <2>2, <3>1, <4>1
    <3>3. CASE k = i
      <4>1. listed'[k] = new
        BY <1>3, <1>4, <3>3
      <4> QED BY <1>5, <2>1, <3>1, <4>1
    <3>4. CASE k > i
      <4>1. listed'[k] = listed[k - 1] /\ k - 1 # m - 1 /\ k - 1 \in DOMAIN listed
        BY <1>3, <1>4, <3>4, SMTT(30)
      <4> QED BY <2>1, <2>2, <3>1, <4>1
    <3> QED BY <1>4, <3>2, <3>3, <3>4
  <2> QED BY <1>4, <2>3, <2>4, <2>5
<1>7. \A k \in DOMAIN listed : \E m \in DOMAIN listed' : listed'[m] = listed[k]
  <2> SUFFICES ASSUME NEW k \in DOMAIN listed
               PROVE  \E m \in DOMAIN listed' : listed'[m] = listed[k]
    OBVIOUS
  <2>1. CASE k < i
    BY <1>3, <1>4, <2>1
  <2>2. CASE ~(k < i)
    <3>1. k + 1 \in 1 .. Len(listed) + 1 /\ ~(k + 1 < i) /\ k + 1 # i /\ (k + 1) - 1 = k
      BY <1>4, <2>2
    <3>2. k + 1 \in DOMAIN listed' /\ listed'[k + 1] = listed[k]
      BY <1>3, <1>4, <3>1
    <3> QED BY <3>2
  <2> QED BY <2>1, <2>2
<1>8. ASSUME NEW n \in Nat
      PROVE  /\ UpTo(n)' \subseteq UpTo(n) \union {new}
             /\ Beyond(n)' \subseteq Beyond(n) \union {listed[n], new}
  <2>1. ASSUME NEW k \in DOMAIN listed', k <= n
        PROVE  listed'[k] \in UpTo(n) \union {new}
    <3>1. CASE k < i
      <4>1. listed'[k] = listed[k] /\ k \in DOMAIN listed
        BY <1>3, <1>4, <3>1
      <4> QED BY <2>1, <4>1 DEF UpTo
    <3>2. CASE k = i
      BY <1>3, <1>4, <3>2
    <3>3. CASE k > i
      <4>1. listed'[k] = listed[k - 1] /\ k - 1 \in DOMAIN listed /\ k - 1 <= n
        BY <1>3, <1>4, <2>1, <3>3
      <4> QED BY <4>1 DEF UpTo
    <3> QED BY <1>4, <3>1, <3>2, <3>3
  <2>2. ASSUME NEW k \in DOMAIN listed', k > n
        PROVE  listed'[k] \in Beyond(n) \union {listed[n], new}
    <3>1. CASE k < i
      <4>1. listed'[k] = listed[k] /\ k \in DOMAIN listed
        BY <1>3, <1>4, <3>1
      <4> QED BY <2>2, <4>1 DEF Beyond
    <3>2. CASE k = i
      BY <1>3, <1>4, <3>2
    <3>3. CASE k > i
      <4>1. listed'[k] = listed[k - 1] /\ k - 1 \in DOMAIN listed /\ (k - 1 > n \/ k - 1 = n)
        <5>1. k - 1 \in 1 .. Len(listed) /\ ~(k < i) /\ k # i /\ (k - 1 > n \/ k - 1 = n)
          BY <1>4, <2>2, <3>3
        <5> QED BY <1>3, <1>4, <5>1
      <4> QED BY <4>1 DEF Beyond
    <3> QED BY <1>4, <3>1, <3>2, <3>3
  <2> QED BY <2>1, <2>2 DEF UpTo, Beyond
<1>9. i = Len(listed) + 1 => \A k \in DOMAIN listed : listed'[k] = listed[k]
  BY <1>3, <1>4
<1>10. \A n \in Nat : \E y :
         /\ UpTo(n)' \subseteq UpTo(n) \union {created + 1}
         /\ Beyond(n)' \subseteq Beyond(n) \union {y, created + 1}
  BY <1>8 DEF new
<1>11. {listed[k] : k \in DOMAIN listed} \subseteq {listed'[k] : k \in DOMAIN listed'}
  BY <1>7
<1> QED BY <1>3, <1>6, <1>9, <1>10, <1>11 DEF R

LEMMA LeavesShifts ==
  ASSUME WalkType, NEW i \in DOMAIN listed, listed' = Lists!RemoveAt(listed, i), created' = created
  PROVE  /\ listed' \in Seq(1 .. created') /\ Len(listed') = Len(listed) - 1
         /\ IsInjective(listed')
         /\ {listed[k] : k \in DOMAIN listed} \ {listed[i]} \subseteq
              {listed'[k] : k \in DOMAIN listed'}
         /\ \A n \in Nat : \E x :
              /\ UpTo(n)' \subseteq UpTo(n) \union {x}
              /\ Beyond(n)' \subseteq Beyond(n)
<1>1. created \in Nat /\ listed \in Seq(1 .. created) /\ IsInjective(listed)
      /\ DOMAIN listed = 1 .. Len(listed) /\ Len(listed) \in Nat
  BY DEF WalkType
<1>2. /\ listed' \in Seq(1 .. created) /\ Len(listed') = Len(listed) - 1
      /\ \A k \in 1 .. Len(listed) - 1 :
           listed'[k] = IF k < i THEN listed[k] ELSE listed[k + 1]
  <2> DEFINE R == 1 .. created  after == Lists!RemoveAt(listed, i)
  <2>1. listed \in Seq(R) /\ i \in 1 .. Len(listed)
    BY <1>1
  <2> HIDE DEF R
  <2>2. after \in Seq(R) /\ RemovedAt(after, listed, i)
    BY ONLY <2>1, Removed
  <2> QED BY <2>2 DEF RemovedAt, R
<1>3. DOMAIN listed' = 1 .. Len(listed) - 1
  BY <1>2
<1> DEFINE old(k) == IF k < i THEN k ELSE k + 1
<1>4. \A k \in DOMAIN listed' :
        listed'[k] = listed[old(k)] /\ old(k) \in DOMAIN listed /\ k <= old(k) /\ old(k) <= k + 1
  <2> SUFFICES ASSUME NEW k \in 1 .. Len(listed) - 1
               PROVE  /\ listed'[k] = listed[old(k)] /\ old(k) \in DOMAIN listed
                      /\ k <= old(k) /\ old(k) <= k + 1
    BY <1>3
  <2>1. old(k) \in DOMAIN listed /\ k <= old(k) /\ old(k) <= k + 1
    BY <1>1
  <2> QED BY <1>2, <2>1
<1>5. IsInjective(listed')
  <2>1. ASSUME NEW k \in DOMAIN listed', NEW m \in DOMAIN listed', old(k) = old(m) PROVE k = m
    <3>1. k \in Nat /\ m \in Nat /\ i \in Nat
      BY <1>1, <1>3
    <3> QED BY <2>1, <3>1
  <2> HIDE DEF old
  <2> QED BY <1>1, <1>4, <2>1 DEF IsInjective
<1>6. ASSUME NEW k \in DOMAIN listed, k # i
      PROVE  \E m \in DOMAIN listed' : listed'[m] = listed[k]
  <2>1. CASE k < i
    <3>1. k \in DOMAIN listed' /\ old(k) = k
      BY <1>1, <1>3, <2>1
    <3> QED BY <1>4, <3>1
  <2>2. CASE k > i
    <3>1. k - 1 \in DOMAIN listed' /\ old(k - 1) = k
      BY <1>1, <1>3, <2>2
    <3> QED BY <1>4, <3>1
  <2> QED BY <1>1, <1>6, <2>1, <2>2
<1>7. ASSUME NEW n \in Nat
      PROVE  /\ UpTo(n)' \subseteq UpTo(n) \union {listed[n + 1]}
             /\ Beyond(n)' \subseteq Beyond(n)
  <2> HIDE DEF old
  <2>1. ASSUME NEW k \in DOMAIN listed', k <= n
        PROVE  listed'[k] \in UpTo(n) \union {listed[n + 1]}
    <3>1. old(k) <= n \/ old(k) = n + 1
      BY <1>1, <1>3, <1>4, <2>1
    <3> QED BY <1>4, <3>1 DEF UpTo
  <2>2. ASSUME NEW k \in DOMAIN listed', k > n
        PROVE  listed'[k] \in Beyond(n)
    <3>1. old(k) > n
      BY <1>1, <1>3, <1>4, <2>2
    <3> QED BY <1>4, <3>1 DEF Beyond
  <2> QED BY <2>1, <2>2 DEF UpTo, Beyond
<1>8. \A n \in Nat : \E x :
        /\ UpTo(n)' \subseteq UpTo(n) \union {x}
        /\ Beyond(n)' \subseteq Beyond(n)
  BY <1>7
<1>9. {listed[k] : k \in DOMAIN listed} \ {listed[i]} \subseteq
        {listed'[k] : k \in DOMAIN listed'}
  BY <1>6
<1> QED BY <1>2, <1>5, <1>8, <1>9

LEMMA MovesShifts ==
  ASSUME WalkType, NEW i \in DOMAIN listed, NEW j \in DOMAIN listed, created' = created,
         listed' = Lists!InsertAt(Lists!RemoveAt(listed, i), j, listed[i])
  PROVE  /\ listed' \in Seq(1 .. created') /\ Len(listed') = Len(listed)
         /\ IsInjective(listed')
         /\ {listed[k] : k \in DOMAIN listed} \subseteq {listed'[k] : k \in DOMAIN listed'}
         /\ \A n \in Nat : \E x, y :
              /\ UpTo(n)' \subseteq UpTo(n) \union {x}
              /\ Beyond(n)' \subseteq Beyond(n) \union {y}
<1> DEFINE R == 1 .. created  mid == Lists!RemoveAt(listed, i)
           Old(k) == IF k = j THEN i
                     ELSE LET m == IF k < j THEN k ELSE k - 1 IN IF m < i THEN m ELSE m + 1
<1>1. created \in Nat /\ listed \in Seq(R) /\ IsInjective(listed)
      /\ DOMAIN listed = 1 .. Len(listed) /\ Len(listed) \in Nat /\ listed[i] \in R
  <2>1. created \in Nat /\ listed \in Seq(R) /\ IsInjective(listed)
    BY DEF WalkType
  <2> HIDE DEF R
  <2> QED BY <2>1
<1> HIDE DEF R
<1>2. /\ mid \in Seq(R) /\ Len(mid) = Len(listed) - 1
      /\ \A k \in 1 .. Len(listed) - 1 :
           mid[k] = IF k < i THEN listed[k] ELSE listed[k + 1]
  BY <1>1, Removed DEF RemovedAt
<1>3. j \in 1 .. Len(mid) + 1 /\ Len(mid) + 1 = Len(listed)
  BY <1>1, <1>2
<1>4. /\ listed' \in Seq(R) /\ Len(listed') = Len(listed)
      /\ \A k \in 1 .. Len(listed) : listed'[k] =
           IF k < j THEN mid[k] ELSE IF k = j THEN listed[i] ELSE mid[k - 1]
  <2>1. listed' = Lists!InsertAt(mid, j, listed[i])
    OBVIOUS
  <2> HIDE DEF mid
  <2> DEFINE after == Lists!InsertAt(mid, j, listed[i])
  <2>2. /\ after \in Seq(R) /\ Len(after) = Len(mid) + 1
        /\ \A k \in 1 .. Len(mid) + 1 : after[k] =
             IF k < j THEN mid[k] ELSE IF k = j THEN listed[i] ELSE mid[k - 1]
    <3> DEFINE e == listed[i]
    <3>1. mid \in Seq(R) /\ e \in R /\ j \in 1 .. Len(mid) + 1
      BY <1>1, <1>2, <1>3
    <3> HIDE DEF e
    <3>2. after \in Seq(R) /\ InsertedAt(after, mid, j, e)
      BY <3>1, Inserted DEF e
    <3> QED BY <3>2 DEF e, InsertedAt
  <2> HIDE DEF after
  <2>3. listed' = after
    BY <2>1 DEF after
  <2> QED BY <1>3, <2>2, <2>3
<1> HIDE DEF mid
<1>5. DOMAIN listed' = DOMAIN listed
  BY <1>1, <1>4
<1>6. \A k \in DOMAIN listed : listed'[k] = listed[Old(k)] /\ Old(k) \in DOMAIN listed
  <2> SUFFICES ASSUME NEW k \in DOMAIN listed
               PROVE  listed'[k] = listed[Old(k)] /\ Old(k) \in DOMAIN listed
    OBVIOUS
  <2>1. CASE k = j
    BY <1>1, <1>4, <2>1
  <2>2. CASE k < j
    <3>1. k \in 1 .. Len(listed) - 1 /\ listed'[k] = mid[k]
      BY <1>1, <1>4, <2>2
    <3> QED BY <1>1, <1>2, <2>2, <3>1
  <2>3. CASE k > j
    <3>1. k - 1 \in 1 .. Len(listed) - 1 /\ listed'[k] = mid[k - 1]
      BY <1>1, <1>4, <2>3
    <3> QED BY <1>1, <1>2, <2>3, <3>1
  <2> QED BY <1>1, <2>1, <2>2, <2>3
<1>7. \A k, m \in DOMAIN listed : Old(k) = Old(m) => k = m
  BY <1>1
<1>8. IsInjective(listed')
  <2> HIDE DEF Old
  <2> QED BY <1>1, <1>5, <1>6, <1>7 DEF IsInjective
<1>9. \A k \in DOMAIN listed : \E m \in DOMAIN listed : Old(m) = k
  <2> SUFFICES ASSUME NEW k \in DOMAIN listed PROVE \E m \in DOMAIN listed : Old(m) = k
    OBVIOUS
  <2> DEFINE c == IF k < i THEN k ELSE k - 1
             m == IF k = i THEN j ELSE IF c < j THEN c ELSE c + 1
  <2>1. m \in DOMAIN listed /\ Old(m) = k
    BY <1>1
  <2> QED BY <2>1
<1>10. {listed[k] : k \in DOMAIN listed} \subseteq {listed'[k] : k \in DOMAIN listed'}
  <2> HIDE DEF Old
  <2> QED BY <1>5, <1>6, <1>9
<1>11. ASSUME NEW n \in Nat
       PROVE  \E x, y : /\ UpTo(n)' \subseteq UpTo(n) \union {x}
                        /\ Beyond(n)' \subseteq Beyond(n) \union {y}
  <2> DEFINE x == IF i <= n THEN listed[n + 1] ELSE listed[i]
             y == IF i <= n THEN listed[i] ELSE listed[n]
  <2>1. ASSUME NEW k \in DOMAIN listed, k <= n
        PROVE  Old(k) <= n \/ (i <= n /\ Old(k) = n + 1) \/ (i > n /\ Old(k) = i)
    BY <1>1, <2>1
  <2>2. ASSUME NEW k \in DOMAIN listed, k > n
        PROVE  Old(k) > n \/ (i <= n /\ Old(k) = i) \/ (i > n /\ Old(k) = n)
    BY <1>1, <2>2
  <2> HIDE DEF Old
  <2>3. UpTo(n)' \subseteq UpTo(n) \union {x}
    BY <1>5, <1>6, <2>1 DEF UpTo
  <2>4. Beyond(n)' \subseteq Beyond(n) \union {y}
    <3> SUFFICES ASSUME NEW k \in DOMAIN listed, k > n
                 PROVE  listed'[k] \in Beyond(n) \union {y}
      BY <1>5 DEF Beyond
    <3>1. listed'[k] = listed[Old(k)] /\ Old(k) \in DOMAIN listed
      BY <1>6
    <3>2. CASE Old(k) > n
      BY <3>1, <3>2 DEF Beyond
    <3>3. CASE ~(Old(k) > n)
      <4>1. (i <= n /\ Old(k) = i) \/ (i > n /\ Old(k) = n)
        BY <2>2, <3>3
      <4>2. listed[Old(k)] = y
        BY <1>1, <4>1
      <4> QED BY <3>1, <4>2
    <3> QED BY <3>2, <3>3
  <2> QED BY <2>3, <2>4
<1> QED BY <1>4, <1>8, <1>10, <1>11 DEF R

-----------------------------------------------------------------------------
\* What a commit of another request does to those who are passed and to those
\* who are met again.
LEMMA TypeAfterRow ==
  ASSUME WalkType, RowStep, UNCHANGED <<reader, shown>>, reader.pc # "closed",
         listed' \in Seq(1 .. created'), IsInjective(listed'),
         created' \in {created, created + 1},
         standing' \subseteq {listed'[k] : k \in DOMAIN listed'},
         left' \in Nat, moved' \in Nat, late' \in Nat
  PROVE  WalkType'
<1>1. shown \in Seq(1 .. created) /\ created \in Nat /\ created' \in Nat
  BY DEF WalkType
<1>2. 1 .. created \subseteq 1 .. created'
  BY <1>1
<1>3. shown' \in Seq(1 .. created')
  BY <1>1, <1>2
<1>4. reader'.opened <= created'
  BY <1>1 DEF WalkType
<1> QED BY <1>1, <1>3, <1>4 DEF WalkType

LEMMA Stays ==
  ASSUME UNCHANGED <<reader, shown>>
  PROVE  Place' = Place /\ Lists!ShownRows' = Lists!ShownRows
BY DEF Place, Lists!ShownRows, Lists!Offset

LEMMA ComesKeeps ==
  ASSUME WalkInv, Lists!RowComes
  PROVE  WalkInv'
<1> USE DEF WalkInv
<1>1. /\ reader.pc \in {"count", "select", "read"} /\ created' = created + 1
      /\ UNCHANGED <<list, reader, shown, standing, left, moved>>
      /\ late' = IF reader.pc = "select" THEN late + 1 ELSE late
  BY DEF Lists!RowComes, Lists!Walking
<1>2. /\ Place' = Place /\ Lists!ShownRows' = Lists!ShownRows /\ Place \in Nat
  BY <1>1, Stays, PlaceIs
<1>3. PICK i \in Lists!Places : listed' = Lists!InsertAt(listed, i, created + 1)
  BY DEF Lists!RowComes
<1>4. /\ i \in 1 .. Len(listed) + 1
      /\ list = Lists!list_transfer_history("oldest") => i = Len(listed) + 1
  <2>1. Len(listed) \in Nat
    BY DEF WalkType
  <2> QED BY <2>1 DEF Lists!Places, Lists!list_transfer_history, Lists!list_transfers,
                      Lists!ByAge
<1>5. /\ listed' \in Seq(1 .. created') /\ Len(listed') = Len(listed) + 1 /\ IsInjective(listed')
      /\ {listed[k] : k \in DOMAIN listed} \subseteq {listed'[k] : k \in DOMAIN listed'}
      /\ i = Len(listed) + 1 => \A k \in DOMAIN listed : listed'[k] = listed[k]
  BY <1>1, <1>3, <1>4, ComesShifts
<1>6. PICK y : /\ UpTo(Place)' \subseteq UpTo(Place) \union {created + 1}
               /\ Beyond(Place)' \subseteq Beyond(Place) \union {y, created + 1}
  <2>1. \A n \in Nat : \E y : /\ UpTo(n)' \subseteq UpTo(n) \union {created + 1}
                             /\ Beyond(n)' \subseteq Beyond(n) \union {y, created + 1}
    BY <1>1, <1>3, <1>4, ComesShifts
  <2>2. UpTo(Place)' = {listed'[k] : k \in {j \in DOMAIN listed' : j <= Place}}
    BY <1>2 DEF UpTo
  <2>3. Beyond(Place)' = {listed'[k] : k \in {j \in DOMAIN listed' : j > Place}}
    BY <1>2 DEF Beyond
  <2> QED BY <1>2, <2>1, <2>2, <2>3 DEF UpTo, Beyond
<1>7. created \in Nat /\ left \in Nat /\ moved \in Nat /\ late \in Nat
  BY DEF WalkType
<1>8. created + 1 \notin standing /\ created + 1 \notin Lists!ShownRows
  BY <1>7, FiniteRows DEF WalkType
<1>9. Passed' \subseteq Passed
  BY <1>1, <1>2, <1>6, <1>8 DEF Passed
<1>10. Again' \subseteq Again \union {y}
  BY <1>2, <1>6, <1>8 DEF Again
<1>11. WalkType'
  <2>1. standing' \subseteq {listed'[k] : k \in DOMAIN listed'}
    BY <1>1, <1>5 DEF WalkType
  <2> QED BY <1>1, <1>5, <1>7, <2>1, TypeAfterRow DEF RowStep
<1>12. Accounts'
  <2>1. IsFiniteSet(Passed) /\ IsFiniteSet(Again)
    BY FiniteRows, FS_Intersection, FS_Difference DEF Passed, Again
  <2>2. Cardinality(Passed') <= left' + moved'
    BY <1>1, <1>7, <1>9, <2>1, NotMore DEF Accounts
  <2>3. Cardinality(Again') <= Cardinality(Again) + 1 /\ Cardinality(Again) \in Nat
        /\ Cardinality(Again') \in Nat
    BY <1>10, <2>1, OneMore
  <2>4. Len(shown) \in Nat /\ Cardinality(Lists!ShownRows) \in Nat /\ reader.opened \in Nat
    BY <1>1, FiniteRows, FS_CardinalityType DEF WalkType
  <2>5. (Len(shown') - Cardinality(Lists!ShownRows')) + Cardinality(Again')
          <= (created' - reader'.opened) + moved'
    BY <1>1, <1>2, <1>7, <2>3, <2>4, SMTT(30) DEF Accounts
  <2>6. reader'.pc = "select" => Len(listed') <= reader'.total + late'
    BY <1>1, <1>5, <1>7, SMTT(30) DEF Accounts, WalkType
  <2>7. Lists!MissesAreCaused'
    BY <1>1 DEF Lists!MissesAreCaused
  <2> QED BY <2>2, <2>5, <2>6, <2>7 DEF Accounts
<1>13. Exact'
  <2> SUFFICES ASSUME list = Lists!list_transfer_history("oldest")
               PROVE  /\ Len(shown) <= Len(listed')
                      /\ \A k \in DOMAIN shown : shown[k] = listed'[k]
                      /\ reader.pc \in {"count", "select", "read"} => Len(shown) = Place
                      /\ reader.pc = "select" => reader.total <= Len(listed')
                      /\ reader.pc = "done" => Len(shown) >= reader.total
    BY <1>1, <1>2 DEF Exact, Lists!list_transfer_history, Lists!list_transfers, Lists!ByAge
  <2>1. /\ Len(shown) <= Len(listed) /\ \A k \in DOMAIN shown : shown[k] = listed[k]
        /\ reader.pc \in {"count", "select", "read"} => Len(shown) = Place
        /\ reader.pc = "select" => reader.total <= Len(listed)
    BY DEF Exact
  <2>2. /\ DOMAIN shown = 1 .. Len(shown) /\ DOMAIN listed = 1 .. Len(listed)
        /\ Len(shown) \in Nat /\ Len(listed) \in Nat /\ reader.total \in Nat
    BY DEF WalkType
  <2> QED BY <1>1, <1>4, <1>5, <2>1, <2>2
<1> QED BY <1>11, <1>12, <1>13

LEMMA LeavesKeeps ==
  ASSUME WalkInv, Lists!RowLeaves
  PROVE  WalkInv'
<1> USE DEF WalkInv
<1>1. /\ reader.pc \in {"count", "select", "read"} /\ left' = left + 1 /\ list.leaves
      /\ UNCHANGED <<list, created, reader, shown, moved, late>>
  BY DEF Lists!RowLeaves, Lists!Walking
<1>2. /\ Place' = Place /\ Lists!ShownRows' = Lists!ShownRows /\ Place \in Nat
  BY <1>1, Stays, PlaceIs
<1>3. PICK i \in DOMAIN listed : /\ listed' = Lists!RemoveAt(listed, i)
                                 /\ standing' = standing \ {listed[i]}
  BY DEF Lists!RowLeaves
<1>5. /\ listed' \in Seq(1 .. created') /\ Len(listed') = Len(listed) - 1 /\ IsInjective(listed')
      /\ {listed[k] : k \in DOMAIN listed} \ {listed[i]} \subseteq
           {listed'[k] : k \in DOMAIN listed'}
  BY <1>1, <1>3, LeavesShifts
<1>6. PICK x : /\ UpTo(Place)' \subseteq UpTo(Place) \union {x}
               /\ Beyond(Place)' \subseteq Beyond(Place)
  <2>1. \A n \in Nat : \E x : /\ UpTo(n)' \subseteq UpTo(n) \union {x}
                             /\ Beyond(n)' \subseteq Beyond(n)
    BY <1>1, <1>3, LeavesShifts
  <2>2. UpTo(Place)' = {listed'[k] : k \in {j \in DOMAIN listed' : j <= Place}}
    BY <1>2 DEF UpTo
  <2>3. Beyond(Place)' = {listed'[k] : k \in {j \in DOMAIN listed' : j > Place}}
    BY <1>2 DEF Beyond
  <2> QED BY <1>2, <2>1, <2>2, <2>3 DEF UpTo, Beyond
<1>7. created \in Nat /\ left \in Nat /\ moved \in Nat /\ late \in Nat
  BY DEF WalkType
<1>9. Passed' \subseteq Passed \union {x}
  BY <1>2, <1>3, <1>6 DEF Passed
<1>10. Again' \subseteq Again
  BY <1>2, <1>6 DEF Again
<1>11. WalkType'
  <2>1. standing' \subseteq {listed'[k] : k \in DOMAIN listed'}
    BY <1>3, <1>5 DEF WalkType
  <2> QED BY <1>1, <1>5, <1>7, <2>1, TypeAfterRow DEF RowStep
<1>12. Accounts'
  <2>1. IsFiniteSet(Passed) /\ IsFiniteSet(Again)
    BY FiniteRows, FS_Intersection, FS_Difference DEF Passed, Again
  <2>2. Cardinality(Passed') <= left' + moved'
    <3>1. /\ Cardinality(Passed') <= Cardinality(Passed) + 1
          /\ Cardinality(Passed') \in Nat /\ Cardinality(Passed) \in Nat
      BY <1>9, <2>1, OneMore
    <3>2. Cardinality(Passed) <= left + moved
      BY DEF Accounts
    <3> QED BY <1>1, <1>7, <3>1, <3>2
  <2>3. Cardinality(Again') <= Cardinality(Again) /\ Cardinality(Again) \in Nat
        /\ Cardinality(Again') \in Nat
    BY <1>10, <2>1, NotMore
  <2>4. Len(shown) \in Nat /\ Cardinality(Lists!ShownRows) \in Nat /\ reader.opened \in Nat
    BY <1>1, FiniteRows, FS_CardinalityType DEF WalkType
  <2>5. (Len(shown') - Cardinality(Lists!ShownRows')) + Cardinality(Again')
          <= (created' - reader'.opened) + moved'
    BY <1>1, <1>2, <1>7, <2>3, <2>4 DEF Accounts
  <2>6. reader'.pc = "select" => Len(listed') <= reader'.total + late'
    BY <1>1, <1>5, <1>7, SMTT(30) DEF Accounts, WalkType
  <2>7. Lists!MissesAreCaused'
    BY <1>1 DEF Lists!MissesAreCaused
  <2> QED BY <2>2, <2>5, <2>6, <2>7 DEF Accounts
<1>13. Exact'
  BY <1>1 DEF Exact, Lists!list_transfer_history, Lists!list_transfers, Lists!ByAge
<1> QED BY <1>11, <1>12, <1>13

LEMMA MovesKeeps ==
  ASSUME WalkInv, Lists!RowMoves
  PROVE  WalkInv'
<1> USE DEF WalkInv
<1>1. /\ reader.pc \in {"count", "select", "read"} /\ moved' = moved + 1 /\ list.moves
      /\ UNCHANGED <<list, created, reader, shown, standing, left, late>>
  BY DEF Lists!RowMoves, Lists!Walking
<1>2. /\ Place' = Place /\ Lists!ShownRows' = Lists!ShownRows /\ Place \in Nat
  BY <1>1, Stays, PlaceIs
<1>3. PICK i \in DOMAIN listed, j \in DOMAIN listed :
        listed' = Lists!InsertAt(Lists!RemoveAt(listed, i), j, listed[i])
  BY DEF Lists!RowMoves
<1>5. /\ listed' \in Seq(1 .. created') /\ Len(listed') = Len(listed) /\ IsInjective(listed')
      /\ {listed[k] : k \in DOMAIN listed} \subseteq {listed'[k] : k \in DOMAIN listed'}
  BY <1>1, <1>3, MovesShifts
<1>6. PICK x, y : /\ UpTo(Place)' \subseteq UpTo(Place) \union {x}
                  /\ Beyond(Place)' \subseteq Beyond(Place) \union {y}
  <2>1. \A n \in Nat : \E x, y : /\ UpTo(n)' \subseteq UpTo(n) \union {x}
                                /\ Beyond(n)' \subseteq Beyond(n) \union {y}
    BY <1>1, <1>3, MovesShifts
  <2>2. UpTo(Place)' = {listed'[k] : k \in {m \in DOMAIN listed' : m <= Place}}
    BY <1>2 DEF UpTo
  <2>3. Beyond(Place)' = {listed'[k] : k \in {m \in DOMAIN listed' : m > Place}}
    BY <1>2 DEF Beyond
  <2> QED BY <1>2, <2>1, <2>2, <2>3 DEF UpTo, Beyond
<1>7. created \in Nat /\ left \in Nat /\ moved \in Nat /\ late \in Nat
  BY DEF WalkType
<1>9. Passed' \subseteq Passed \union {x}
  BY <1>1, <1>2, <1>6 DEF Passed
<1>10. Again' \subseteq Again \union {y}
  BY <1>2, <1>6 DEF Again
<1>11. WalkType'
  <2>1. standing' \subseteq {listed'[k] : k \in DOMAIN listed'}
    BY <1>1, <1>5 DEF WalkType
  <2> QED BY <1>1, <1>5, <1>7, <2>1, TypeAfterRow DEF RowStep
<1>12. Accounts'
  <2>1. IsFiniteSet(Passed) /\ IsFiniteSet(Again)
    BY FiniteRows, FS_Intersection, FS_Difference DEF Passed, Again
  <2>2. Cardinality(Passed') <= left' + moved'
    <3>1. /\ Cardinality(Passed') <= Cardinality(Passed) + 1
          /\ Cardinality(Passed') \in Nat /\ Cardinality(Passed) \in Nat
      BY <1>9, <2>1, OneMore
    <3>2. Cardinality(Passed) <= left + moved
      BY DEF Accounts
    <3> QED BY <1>1, <1>7, <3>1, <3>2
  <2>3. Cardinality(Again') <= Cardinality(Again) + 1 /\ Cardinality(Again) \in Nat
        /\ Cardinality(Again') \in Nat
    BY <1>10, <2>1, OneMore
  <2>4. Len(shown) \in Nat /\ Cardinality(Lists!ShownRows) \in Nat /\ reader.opened \in Nat
    BY <1>1, FiniteRows, FS_CardinalityType DEF WalkType
  <2>5. (Len(shown') - Cardinality(Lists!ShownRows')) + Cardinality(Again')
          <= (created' - reader'.opened) + moved'
    BY <1>1, <1>2, <1>7, <2>3, <2>4, SMTT(30) DEF Accounts
  <2>6. reader'.pc = "select" => Len(listed') <= reader'.total + late'
    BY <1>1, <1>5, <1>7 DEF Accounts, WalkType
  <2>7. Lists!MissesAreCaused'
    BY <1>1 DEF Lists!MissesAreCaused
  <2> QED BY <2>2, <2>5, <2>6, <2>7 DEF Accounts
<1>13. Exact'
  BY <1>1 DEF Exact, Lists!list_transfer_history, Lists!list_transfers, Lists!ByAge
<1> QED BY <1>11, <1>12, <1>13

-----------------------------------------------------------------------------
(* The reader's steps. *)

LEMMA NothingUpToZero ==
  ASSUME WalkType
  PROVE  UpTo(0) = {}
BY DEF UpTo, WalkType

LEMMA OpenKeeps ==
  ASSUME WalkInv, NEW l \in Lists!Lists, NEW n \in 0 .. MaxRows - 1, Lists!Open(l, n)
  PROVE  WalkInv'
<1> USE DEF WalkInv
<1>1. /\ reader.pc = "closed" /\ shown = << >> /\ created = 0
      /\ left = 0 /\ moved = 0 /\ late = 0
  BY DEF WalkType, Lists!Open, Lists!Closed
<1>2. n \in Nat
  BY PageAssumption, RowsAssumption
<1>3. /\ created' = n /\ standing' = 1 .. n /\ list' = l
      /\ reader' = [pc |-> "count", page |-> 1, total |-> 0, opened |-> n]
      /\ UNCHANGED <<shown, left, moved, late>>
  BY DEF Lists!Open
<1>4. \/ listed' = [i \in 1 .. n |-> n + 1 - i]
      \/ listed' = [i \in 1 .. n |-> i]
  BY DEF Lists!Open
<1>5. /\ listed' \in Seq(1 .. n) /\ IsInjective(listed')
      /\ 1 .. n \subseteq {listed'[i] : i \in DOMAIN listed'}
  <2>1. CASE listed' = [i \in 1 .. n |-> n + 1 - i]
    <3>1. listed' \in Seq(1 .. n) /\ IsInjective(listed')
      BY <1>2, <2>1 DEF IsInjective
    <3>2. \A m \in 1 .. n : n + 1 - m \in DOMAIN listed' /\ listed'[n + 1 - m] = m
      BY <1>2, <2>1
    <3> QED BY <3>1, <3>2
  <2>2. CASE listed' = [i \in 1 .. n |-> i]
    <3>1. listed' \in Seq(1 .. n) /\ IsInjective(listed')
      BY <1>2, <2>2 DEF IsInjective
    <3>2. \A m \in 1 .. n : m \in DOMAIN listed' /\ listed'[m] = m
      BY <1>2, <2>2
    <3> QED BY <3>1, <3>2
  <2> QED BY <1>4, <2>1, <2>2
<1>6. WalkType'
  BY <1>1, <1>2, <1>3, <1>5 DEF WalkType
<1>7. Place' = 0 /\ Lists!ShownRows' = {} /\ Len(shown') = 0
  <2>1. (1 - 1) * PerPage = 0
    BY PageAssumption, RowsAssumption
  <2> QED BY <1>1, <1>3, <2>1 DEF Place, Lists!Offset, Lists!ShownRows
<1>8. Accounts'
  <2>1. Again' = {}
    BY <1>7 DEF Again
  <2>2. Passed' = {}
    BY <1>6, <1>7, NothingUpToZero, SMTT(30) DEF Passed, UpTo, WalkType
  <2>3. Lists!MissesAreCaused'
    BY <1>3 DEF Lists!MissesAreCaused
  <2> QED BY <1>1, <1>2, <1>3, <1>7, <2>1, <2>2, <2>3, FS_EmptySet DEF Accounts
<1>9. Exact'
  BY <1>1, <1>3, <1>5, <1>7 DEF Exact
<1> QED BY <1>6, <1>8, <1>9

LEMMA CountKeeps ==
  ASSUME WalkInv, Lists!Count
  PROVE  WalkInv'
<1> USE DEF WalkInv
<1>1. /\ reader.pc = "count" /\ late' = 0
      /\ reader' = [reader EXCEPT !.pc = "select", !.total = Len(listed)]
      /\ UNCHANGED <<list, listed, created, shown, standing, left, moved>>
  BY DEF Lists!Count
<1>2. Len(listed) \in Nat
  BY DEF WalkType
<1>3. /\ reader'.pc = "select" /\ reader'.total = Len(listed) /\ reader'.page = reader.page
      /\ reader'.opened = reader.opened
  BY <1>1 DEF WalkType
<1>4. WalkType'
  BY <1>1, <1>2, <1>3 DEF WalkType
<1>5. Place' = Place
  BY <1>1, <1>3 DEF Place, Lists!Offset
<1>6. Passed' = Passed /\ Again' = Again /\ Lists!ShownRows' = Lists!ShownRows
  BY <1>1, <1>5 DEF Passed, Again, Lists!ShownRows, UpTo, Beyond
<1>7. Accounts'
  BY <1>1, <1>2, <1>3, <1>6 DEF Accounts, Lists!MissesAreCaused
<1>8. Exact'
  BY <1>1, <1>2, <1>3, <1>5 DEF Exact
<1> QED BY <1>4, <1>7, <1>8

LEMMA TurnPageKeeps ==
  ASSUME WalkInv, Lists!TurnPage
  PROVE  WalkInv'
<1> USE DEF WalkInv
<1>1. /\ reader.pc = "read" /\ reader' = [reader EXCEPT !.pc = "count", !.page = @ + 1]
      /\ UNCHANGED <<list, listed, created, shown, standing, left, moved, late>>
  BY DEF Lists!TurnPage
<1>2. /\ reader'.pc = "count" /\ reader'.total = reader.total /\ reader'.page = reader.page + 1
      /\ reader'.opened = reader.opened /\ reader.page \in Nat
  BY <1>1 DEF WalkType
<1>3. WalkType'
  <2>1. reader' \in [pc : {"closed", "count", "select", "read", "done"},
                     page : Nat, total : Nat, opened : Nat]
    <3>1. reader' = [pc |-> "count", page |-> reader.page + 1, total |-> reader.total,
                     opened |-> reader.opened]
      BY <1>1 DEF WalkType
    <3>2. reader.page + 1 \in Nat /\ reader.total \in Nat /\ reader.opened \in Nat
      BY DEF WalkType
    <3> QED BY <3>1, <3>2
  <2>2. reader.pc # "closed" /\ reader'.pc # "closed" /\ reader'.page > 0
    BY <1>1, <1>2
  <2> QED BY <1>1, <1>2, <2>1, <2>2 DEF WalkType
<1>4. Place' = Place
  <2>1. (reader.page + 1) - 1 = reader.page
    BY <1>2
  <2> QED BY <1>1, <1>2, <2>1 DEF Place, Lists!Offset
<1>5. Passed' = Passed /\ Again' = Again /\ Lists!ShownRows' = Lists!ShownRows
  BY <1>1, <1>4 DEF Passed, Again, Lists!ShownRows, UpTo, Beyond
<1>6. Accounts'
  BY <1>1, <1>2, <1>5 DEF Accounts, Lists!MissesAreCaused
<1>7. Exact'
  BY <1>1, <1>2, <1>4 DEF Exact
<1> QED BY <1>3, <1>6, <1>7

LEMMA LeaveKeeps ==
  ASSUME WalkInv, Lists!Leave
  PROVE  WalkInv'
<1>1. /\ list' = Lists!NoList /\ listed' = << >> /\ created' = 0
      /\ reader' = Lists!Closed /\ shown' = << >> /\ standing' = {}
      /\ left' = 0 /\ moved' = 0 /\ late' = 0
  BY DEF Lists!Leave
<1>2. WalkType'
  BY <1>1 DEF WalkType, Lists!Closed, IsInjective
<1>3. Accounts'
  <2>1. Passed' = {} /\ Again' = {} /\ Lists!ShownRows' = {} /\ Len(shown') = 0
    BY <1>1 DEF Passed, Again, Lists!ShownRows
  <2> QED BY <1>1, <2>1, FS_EmptySet DEF Accounts, Lists!Closed, Lists!MissesAreCaused
<1>4. Exact'
  BY <1>1 DEF Exact, Lists!Closed, Lists!NoList, Lists!list_transfer_history,
              Lists!list_transfers, Lists!ByAge
<1> QED BY <1>2, <1>3, <1>4 DEF WalkInv

\* The page that is counted as the last one, or as not the last one.
LEMMA LastPage ==
  ASSUME NEW total \in Nat, NEW no \in Nat
  PROVE  /\ ~(no < Lists!Pages(total)) => total <= no * PerPage
         /\ no < Lists!Pages(total) => no * PerPage < total
<1> DEFINE q == (total + PerPage - 1) \div PerPage
<1>1. PerPage \in Nat /\ PerPage > 0
  BY PageAssumption, RowsAssumption
<1>2. /\ q \in Int /\ total + PerPage - 1 < q * PerPage + PerPage
      /\ q * PerPage <= total + PerPage - 1
  BY <1>1
<1>3. Lists!Pages(total) = q
  BY DEF Lists!Pages
<1> HIDE DEF q
<1>4. ASSUME q <= no PROVE total <= no * PerPage
  <2>1. q * PerPage <= no * PerPage
    BY <1>1, <1>2, <1>4
  <2> QED BY <1>1, <1>2, <2>1
<1>5. ASSUME no < q PROVE no * PerPage < total
  <2>1. (no + 1) * PerPage <= q * PerPage
    BY <1>1, <1>2, <1>5
  <2>2. (no + 1) * PerPage = no * PerPage + PerPage
    BY <1>1
  <2> QED BY <1>1, <1>2, <2>1, <2>2
<1> QED BY <1>2, <1>3, <1>4, <1>5

\* The rows of one page.
LEMMA ItemsAre ==
  ASSUME WalkType, reader.pc = "select"
  PROVE  LET b == Lists!Offset(reader.page)
             c == b + PerPage
             end == IF c < Len(listed) THEN c ELSE Len(listed)
             items == Lists!Items(reader.page)
             n == IF b < end THEN end - b ELSE 0
         IN /\ items \in Seq(1 .. created) /\ Len(items) = n
            /\ \A k \in 1 .. n : items[k] = listed[b + k] /\ b + k \in DOMAIN listed
<1> DEFINE b == Lists!Offset(reader.page)
           c == b + PerPage
           end == IF c < Len(listed) THEN c ELSE Len(listed)
           items == SubSeq(listed, b + 1, end)
<1>1. b \in Nat /\ PerPage \in Nat /\ listed \in Seq(1 .. created) /\ Len(listed) \in Nat
      /\ DOMAIN listed = 1 .. Len(listed)
  BY PlaceIs, PageAssumption DEF WalkType
<1>2. Lists!Items(reader.page) = items
  BY DEF Lists!Items
<1> HIDE DEF b
<1>3. end \in Nat /\ end <= Len(listed)
  BY <1>1
<1> HIDE DEF end, c
<1>4. \A k \in b + 1 .. end : listed[k] \in 1 .. created
  <2> SUFFICES ASSUME NEW k \in b + 1 .. end PROVE listed[k] \in 1 .. created
    OBVIOUS
  <2>1. k \in 1 .. Len(listed)
    BY ONLY <1>1, <1>3
  <2> QED BY <1>1, <2>1, ElementOfSeq
<1>5. /\ items \in Seq(1 .. created)
      /\ Len(items) = IF b + 1 <= end THEN end - (b + 1) + 1 ELSE 0
      /\ \A k \in 1 .. end - (b + 1) + 1 : items[k] = listed[(b + 1) + k - 1]
  BY <1>1, <1>3, <1>4, SubSeqProperties
<1>6. Len(items) = IF b < end THEN end - b ELSE 0
  BY <1>1, <1>3, <1>5
<1>7. \A k \in 1 .. (IF b < end THEN end - b ELSE 0) :
        items[k] = listed[b + k] /\ b + k \in DOMAIN listed
  <2> SUFFICES ASSUME NEW k \in 1 .. (IF b < end THEN end - b ELSE 0)
               PROVE  items[k] = listed[b + k] /\ b + k \in DOMAIN listed
    OBVIOUS
  <2>0. b < end /\ k \in 1 .. end - b
    <3>1. CASE b < end
      BY <3>1
    <3>2. CASE ~(b < end)
      <4>1. k \in 1 .. 0
        BY <3>2
      <4> QED BY <4>1
    <3> QED BY <3>1, <3>2
  <2>1. k \in 1 .. end - (b + 1) + 1 /\ (b + 1) + k - 1 = b + k
    BY <1>1, <1>3, <2>0
  <2> QED BY <1>1, <1>3, <1>5, <2>0, <2>1
<1> QED BY <1>2, <1>5, <1>6, <1>7 DEF b, end, c

LEMMA SelectKeeps ==
  ASSUME WalkInv, Lists!Select
  PROVE  WalkInv'
<1> USE DEF WalkInv
<1> DEFINE b == Lists!Offset(reader.page)  c == reader.page * PerPage
           end == IF c < Len(listed) THEN c ELSE Len(listed)
           items == Lists!Items(reader.page)
           n == IF b < end THEN end - b ELSE 0
           new == {items[k] : k \in DOMAIN items}
           more == reader.page < Lists!Pages(reader.total)
<1>1. /\ reader.pc = "select" /\ shown' = shown \o items
      /\ reader' = [reader EXCEPT !.pc = IF more THEN "read" ELSE "done"]
      /\ UNCHANGED <<list, listed, created, standing, left, moved, late>>
  BY DEF Lists!Select
<1>2. /\ b \in Nat /\ c \in Nat /\ b + PerPage = c /\ PerPage \in Nat /\ Place = b
      /\ listed \in Seq(1 .. created) /\ IsInjective(listed) /\ Len(listed) \in Nat
      /\ DOMAIN listed = 1 .. Len(listed) /\ shown \in Seq(1 .. created) /\ Len(shown) \in Nat
      /\ DOMAIN shown = 1 .. Len(shown)
  BY <1>1, PlaceIs, PageAssumption, SMTT(30) DEF WalkType, Place
<1>3. /\ items \in Seq(1 .. created) /\ Len(items) = n /\ DOMAIN items = 1 .. n /\ n \in Nat
      /\ \A k \in 1 .. n : items[k] = listed[b + k] /\ b + k \in DOMAIN listed
  <2>1. \A k \in 1 .. n : items[k] = listed[b + k] /\ b + k \in DOMAIN listed
    BY <1>1, <1>2, ItemsAre
  <2>2. items \in Seq(1 .. created) /\ Len(items) = n
    BY <1>1, <1>2, ItemsAre
  <2> QED BY <2>1, <2>2
<1>4. /\ reader'.pc = (IF more THEN "read" ELSE "done") /\ reader'.page = reader.page
      /\ reader'.total = reader.total /\ reader'.opened = reader.opened
      /\ reader.page \in Nat /\ reader.total \in Nat
  BY <1>1 DEF WalkType
<1>5. more \in BOOLEAN
  OBVIOUS
<1>6. Place' = c
  BY <1>4 DEF Place
<1>7. end \in Nat /\ end <= Len(listed) /\ end <= c /\ (end < c => end = Len(listed))
      /\ b <= c /\ b \in Int /\ c \in Int /\ Len(listed) \in Int
      /\ (c <= Len(listed) => end = c) /\ b >= 0
  BY <1>2
<1>8. new = {listed[k] : k \in b + 1 .. end}
  <2>1. \A k \in 1 .. n : b + k \in b + 1 .. end
    BY <1>2, <1>7
  <2>2. \A k \in b + 1 .. end : k - b \in 1 .. n /\ b + (k - b) = k
    BY <1>2, <1>7
  <2> HIDE DEF n, end, b, items
  <2> QED BY <1>3, <2>1, <2>2
<1> HIDE DEF b, c, items, n, end, new, more
<1>9. /\ shown' \in Seq(1 .. created) /\ Len(shown') = Len(shown) + n
      /\ \A k \in 1 .. Len(shown) + n : shown'[k] =
           IF k <= Len(shown) THEN shown[k] ELSE items[k - Len(shown)]
  BY <1>1, <1>2, <1>3, ConcatProperties
<1>10. DOMAIN shown' = 1 .. Len(shown) + n
  BY <1>3, <1>9
<1>11. Lists!ShownRows' = Lists!ShownRows \union new
  <2>1. Lists!ShownRows' = {shown'[k] : k \in 1 .. Len(shown) + n}
    BY <1>10 DEF Lists!ShownRows
  <2>2. \A k \in 1 .. n : shown'[Len(shown) + k] = items[k]
    <3> SUFFICES ASSUME NEW k \in 1 .. n PROVE shown'[Len(shown) + k] = items[k]
      OBVIOUS
    <3>1. /\ Len(shown) + k \in 1 .. Len(shown) + n /\ (Len(shown) + k) - Len(shown) = k
          /\ ~(Len(shown) + k <= Len(shown))
      BY <1>2, <1>3
    <3> QED BY <1>9, <3>1
  <2>3. new \subseteq Lists!ShownRows'
    <3> SUFFICES ASSUME NEW k \in 1 .. n PROVE items[k] \in Lists!ShownRows'
      BY <1>3 DEF new
    <3>1. Len(shown) + k \in 1 .. Len(shown) + n
      BY <1>2, <1>3
    <3> QED BY <2>1, <2>2, <3>1
  <2>4. Lists!ShownRows \subseteq Lists!ShownRows'
    <3>1. Lists!ShownRows = {shown[k] : k \in 1 .. Len(shown)} /\ Len(shown) \in Nat
      BY <1>2, <1>3, <1>10 DEF WalkInv, WalkType, Lists!ShownRows
    <3>2. \A k \in 1 .. Len(shown) : k \in 1 .. Len(shown) + n /\ shown'[k] = shown[k]
      BY <1>2, <1>3, <1>9, <3>1
    <3> QED BY <2>1, <3>1, <3>2
  <2>5. ASSUME NEW k \in 1 .. Len(shown) + n PROVE shown'[k] \in Lists!ShownRows \union new
    <3>1. CASE k <= Len(shown)
      BY <1>2, <1>9, <3>1 DEF Lists!ShownRows
    <3>2. CASE ~(k <= Len(shown))
      <4>1. k - Len(shown) \in DOMAIN items
        BY <1>2, <1>3, <3>2
      <4> QED BY <1>9, <3>2, <4>1 DEF new
    <3> QED BY <3>1, <3>2
  <2> QED BY <2>1, <2>3, <2>4, <2>5
<1>12. WalkType'
  <2>1. reader' \in [pc : {"closed", "count", "select", "read", "done"},
                     page : Nat, total : Nat, opened : Nat]
    BY <1>1, <1>5 DEF WalkType
  <2>2. reader'.pc # "closed"
    BY <1>4, <1>5
  <2> QED BY <1>1, <1>4, <1>9, <2>1, <2>2 DEF WalkType
<1>13. UpTo(c) = UpTo(b) \union new
  <2>1. \A k \in DOMAIN listed : k <= c <=> k <= b \/ k \in b + 1 .. end
    <3> SUFFICES ASSUME NEW k \in 1 .. Len(listed)
                 PROVE  k <= c <=> k <= b \/ k \in b + 1 .. end
      BY <1>2
    <3> QED BY ONLY <1>7
  <2>2. \A k \in b + 1 .. end : k \in DOMAIN listed
    <3> SUFFICES ASSUME NEW k \in b + 1 .. end PROVE k \in 1 .. Len(listed)
      BY <1>2
    <3> QED BY ONLY <1>7
  <2>3. UpTo(c) = {listed[k] : k \in {j \in DOMAIN listed : j <= c}}
        /\ UpTo(b) = {listed[k] : k \in {j \in DOMAIN listed : j <= b}}
    BY DEF UpTo
  <2> QED BY <1>8, <2>1, <2>2, <2>3
<1>14. /\ UpTo(Place)' = UpTo(c) /\ Beyond(Place)' = Beyond(c)
  <2>1. UpTo(Place)' = {listed'[k] : k \in {j \in DOMAIN listed' : j <= c}}
    BY <1>6 DEF UpTo
  <2>2. Beyond(Place)' = {listed'[k] : k \in {j \in DOMAIN listed' : j > c}}
    BY <1>6 DEF Beyond
  <2> QED BY <1>1, <2>1, <2>2 DEF UpTo, Beyond
<1>15. Passed' \subseteq Passed
  BY <1>1, <1>2, <1>11, <1>13, <1>14 DEF Passed
<1>16. Beyond(b) = new \union Beyond(c) /\ new \intersect Beyond(c) = {}
  <2>1. Beyond(b) = new \union Beyond(c)
    <3>1. \A k \in DOMAIN listed : k > b <=> k > c \/ k \in b + 1 .. end
      <4> SUFFICES ASSUME NEW k \in 1 .. Len(listed)
                   PROVE  k > b <=> k > c \/ k \in b + 1 .. end
        BY <1>2
      <4> QED BY ONLY <1>7
    <3>2. \A k \in b + 1 .. end : k \in DOMAIN listed
      <4> SUFFICES ASSUME NEW k \in b + 1 .. end PROVE k \in 1 .. Len(listed)
        BY <1>2
      <4> QED BY ONLY <1>7
    <3>3. Beyond(c) = {listed[k] : k \in {j \in DOMAIN listed : j > c}}
          /\ Beyond(b) = {listed[k] : k \in {j \in DOMAIN listed : j > b}}
      BY DEF Beyond
    <3> QED BY <1>8, <3>1, <3>2, <3>3
  <2>2. ASSUME NEW k \in b + 1 .. end, NEW m \in DOMAIN listed, m > c
        PROVE  listed[k] # listed[m]
    <3>1. k \in 1 .. Len(listed)
      BY ONLY <1>7
    <3>2. m \in 1 .. Len(listed) /\ m > c
      BY <1>2, <2>2
    <3>3. k # m
      BY ONLY <1>7, <3>2
    <3> QED BY <1>2, <3>1, <3>2, <3>3 DEF IsInjective
  <2> QED BY <1>8, <2>1, <2>2 DEF Beyond
<1>17. Again' = Lists!ShownRows \intersect Beyond(c)
  BY <1>11, <1>14, <1>16 DEF Again
<1>18. /\ IsFiniteSet(Passed) /\ IsFiniteSet(Again) /\ IsFiniteSet(Lists!ShownRows)
       /\ IsFiniteSet(new) /\ IsFiniteSet(Beyond(c)) /\ Cardinality(new) = n
  <2>1. IsFiniteSet(Beyond(c)) /\ IsFiniteSet(Lists!ShownRows)
    BY FiniteRows
  <2>2. IsFiniteSet(Passed) /\ IsFiniteSet(Again)
    BY FiniteRows, FS_Intersection, FS_Difference DEF Passed, Again
  <2>3. IsFiniteSet(1 .. n) /\ Cardinality(1 .. n) = n
    BY <1>3, FS_Interval
  <2>4. items \in Bijection(1 .. n, new)
    <3>1. items \in [1 .. n -> new] /\ \A x \in new : \E k \in 1 .. n : items[k] = x
      BY <1>3 DEF new
    <3>2. ASSUME NEW k \in 1 .. n, NEW m \in 1 .. n, items[k] = items[m] PROVE k = m
      <4>1. b + k = b + m
        BY <1>2, <1>3, <3>2 DEF IsInjective
      <4> QED BY <1>2, <1>3, <4>1
    <3> QED BY <3>1, <3>2 DEF Bijection, Injection, Surjection, IsInjective
  <2>5. IsFiniteSet(new) /\ Cardinality(new) = n
    <3> HIDE DEF n
    <3>1. ExistsBijection(1 .. n, new)
      BY <2>4 DEF ExistsBijection
    <3>2. IsFiniteSet(new) /\ Cardinality(1 .. n) = Cardinality(new)
      BY ONLY <2>3, <3>1, FS_Bijection, SMTT(30)
    <3> QED BY <2>3, <3>2
  <2> QED BY <2>1, <2>2, <2>5
<1>19. Accounts'
  <2> DEFINE seen == Lists!ShownRows \intersect new
  <2>1. Cardinality(Passed') <= left' + moved' /\ Cardinality(Passed') <= left + moved
        /\ IsFiniteSet(Passed') /\ Cardinality(Passed') \in Nat
    <3>1. /\ IsFiniteSet(Passed') /\ Cardinality(Passed') <= Cardinality(Passed)
          /\ Cardinality(Passed) \in Nat /\ Cardinality(Passed') \in Nat
      BY ONLY <1>15, <1>18, NotMore
    <3>2. Cardinality(Passed) <= left + moved /\ left \in Nat /\ moved \in Nat
      BY DEF Accounts, WalkType
    <3> QED BY <1>1, <3>1, <3>2
  <2>2. /\ Cardinality(Lists!ShownRows') = Cardinality(Lists!ShownRows) + n - Cardinality(seen)
        /\ Cardinality(seen) \in Nat /\ Cardinality(Lists!ShownRows) \in Nat
        /\ Cardinality(Lists!ShownRows') \in Nat
    BY <1>11, <1>18, FS_Union, FS_Intersection, FS_CardinalityType
  <2>3. Cardinality(Again) = Cardinality(seen) + Cardinality(Again')
        /\ Cardinality(Again') \in Nat
    <3>1. Again = seen \union Again' /\ seen \intersect Again' = {}
      BY <1>2, <1>16, <1>17 DEF Again
    <3>2. IsFiniteSet(seen) /\ IsFiniteSet(Again')
      BY <1>17, <1>18, FS_Intersection
    <3> HIDE DEF seen
    <3> DEFINE rest == Again'
    <3>3. Again = seen \union rest /\ seen \intersect rest = {}
          /\ IsFiniteSet(seen) /\ IsFiniteSet(rest)
      BY <3>1, <3>2
    <3> HIDE DEF rest
    <3>4. Cardinality(seen \union rest)
            = Cardinality(seen) + Cardinality(rest) - Cardinality(seen \intersect rest)
      BY ONLY <3>3, FS_Union
    <3>5. Cardinality(seen) \in Nat /\ Cardinality(rest) \in Nat
          /\ Cardinality(seen \intersect rest) = 0
      BY <3>3, FS_CardinalityType, FS_EmptySet
    <3>6. Cardinality(Again) = Cardinality(seen) + Cardinality(rest)
      BY <3>3, <3>4, <3>5
    <3> QED BY <3>5, <3>6 DEF rest
  <2>4. (Len(shown') - Cardinality(Lists!ShownRows')) + Cardinality(Again')
          <= (created' - reader'.opened) + moved'
    <3>1. (Len(shown) - Cardinality(Lists!ShownRows)) + Cardinality(Again)
            <= (created - reader.opened) + moved
      BY DEF Accounts
    <3>2. reader.opened \in Nat /\ created \in Nat /\ moved \in Nat
      BY DEF WalkType
    <3>3. created' = created /\ moved' = moved /\ reader'.opened = reader.opened
          /\ Len(shown') = Len(shown) + n /\ Len(shown) \in Nat /\ n \in Nat
      BY <1>1, <1>2, <1>3, <1>4, <1>9
    <3> DEFINE R == Cardinality(Lists!ShownRows)  Rp == Cardinality(Lists!ShownRows')
               A == Cardinality(Again)  Ap == Cardinality(Again')
               q == Cardinality(seen)
    <3>4. /\ Rp = R + n - q /\ A = q + Ap /\ (Len(shown) - R) + A <= (created - reader.opened) + moved
          /\ R \in Nat /\ Rp \in Nat /\ q \in Nat /\ Ap \in Nat
      BY <2>2, <2>3, <3>1
    <3> HIDE DEF R, Rp, A, Ap, q
    <3>5. (Len(shown') - Rp) + Ap <= (created' - reader'.opened) + moved'
      BY <3>2, <3>3, <3>4
    <3> QED BY <3>5 DEF Rp, Ap
  <2>5. Lists!MissesAreCaused'
    <3> SUFFICES ASSUME ~more
                 PROVE  Cardinality(standing \ Lists!ShownRows') <= (left + moved) + late
      <4>1. reader'.pc = "done" => ~more
        BY <1>4
      <4>2. UNCHANGED <<standing, left, moved, late>>
        BY <1>1
      <4>3. Lists!MissesAreCaused' = (reader'.pc = "done" =>
              Cardinality(standing' \ Lists!ShownRows') <= left' + moved' + late')
        BY SameSize DEF Lists!MissesAreCaused
      <4> HIDE DEF more
      <4> QED BY <4>1, <4>2, <4>3
    <3>1. reader.total <= c
      BY <1>4, LastPage DEF more, c
    <3>2. Len(listed) <= c + late /\ late \in Nat /\ left \in Nat /\ moved \in Nat
      BY <1>1, <1>2, <1>4, <3>1, SMTT(30) DEF Accounts, WalkType
    <3>3. standing \ Lists!ShownRows' \subseteq Passed' \union Beyond(c)
      <4>1. standing \subseteq UpTo(c) \union Beyond(c)
        BY <1>2 DEF WalkType, UpTo, Beyond
      <4> QED BY <1>1, <1>14, <4>1 DEF Passed
    <3>4. Cardinality(Beyond(c)) <= late
      <4>1. CASE Len(listed) <= c
        <5>1. Beyond(c) = {}
          BY <1>2, <4>1 DEF Beyond
        <5> QED BY <3>2, <5>1, FS_EmptySet
      <4>2. CASE c < Len(listed)
        <5>1. IsFiniteSet(c + 1 .. Len(listed)) /\ Cardinality(c + 1 .. Len(listed)) = Len(listed) - c
          BY <1>2, <4>2, FS_Interval
        <5>2. Beyond(c) = {listed[k] : k \in c + 1 .. Len(listed)}
          BY <1>2 DEF Beyond
        <5>3. Cardinality({listed[k] : k \in c + 1 .. Len(listed)})
                <= Cardinality(c + 1 .. Len(listed))
          <6> DEFINE f == [k \in c + 1 .. Len(listed) |-> listed[k]]
                     T == {listed[k] : k \in c + 1 .. Len(listed)}
          <6>1. f \in Surjection(c + 1 .. Len(listed), T)
            BY DEF Surjection
          <6> HIDE DEF f, T
          <6> QED BY <5>1, <6>1, FS_Surjection DEF T
        <5>4. Cardinality(Beyond(c)) \in Nat
          BY <1>18, FS_CardinalityType
        <5> QED BY <1>2, <3>2, <5>1, <5>2, <5>3, <5>4
      <4> QED BY <1>2, <4>1, <4>2
    <3>5. /\ IsFiniteSet(Passed' \union Beyond(c))
          /\ Cardinality(Passed' \union Beyond(c)) <= Cardinality(Passed') + Cardinality(Beyond(c))
      <4> DEFINE P == Passed'  B == Beyond(c)
      <4>1. IsFiniteSet(P) /\ IsFiniteSet(B)
        BY <1>18, <2>1
      <4> HIDE DEF P, B
      <4>2. IsFiniteSet(P \intersect B)
        BY <4>1, FS_Intersection
      <4>3. IsFiniteSet(P \union B)
            /\ Cardinality(P \union B) = Cardinality(P) + Cardinality(B) - Cardinality(P \intersect B)
        BY ONLY <4>1, FS_Union
      <4>4. Cardinality(P) \in Nat /\ Cardinality(B) \in Nat /\ Cardinality(P \intersect B) \in Nat
        BY <4>1, <4>2, FS_CardinalityType
      <4>5. IsFiniteSet(P \union B) /\ Cardinality(P \union B) <= Cardinality(P) + Cardinality(B)
        BY <4>3, <4>4
      <4> QED BY <4>5 DEF P, B
    <3>6. Cardinality(standing \ Lists!ShownRows') <= Cardinality(Passed' \union Beyond(c))
          /\ Cardinality(standing \ Lists!ShownRows') \in Nat
          /\ Cardinality(Passed' \union Beyond(c)) \in Nat /\ Cardinality(Beyond(c)) \in Nat
      BY <1>18, <3>3, <3>5, NotMore, FS_CardinalityType
    <3> QED BY <2>1, <3>2, <3>4, <3>5, <3>6
  <2> QED BY <1>4, <2>1, <2>4, <2>5 DEF Accounts
<1>20. Exact'
  <2> SUFFICES ASSUME list = Lists!list_transfer_history("oldest")
               PROVE  /\ Len(shown') <= Len(listed)
                      /\ \A k \in DOMAIN shown' : shown'[k] = listed[k]
                      /\ more => Len(shown') = c
                      /\ ~more => Len(shown') >= reader.total
    BY <1>1, <1>4, <1>6 DEF Exact, Lists!list_transfer_history, Lists!list_transfers,
                            Lists!ByAge
  <2>1. /\ Len(shown) <= Len(listed) /\ \A k \in DOMAIN shown : shown[k] = listed[k]
        /\ Len(shown) = b /\ reader.total <= Len(listed)
    BY <1>1, <1>2 DEF Exact
  <2>2. Len(shown') = end
    <3>1. Len(shown') = Len(shown) + n /\ Len(shown) = b
      BY <1>9, <2>1
    <3>2. n = IF b < end THEN end - b ELSE 0
      BY DEF n
    <3>3. b <= Len(listed)
      BY <1>2, <2>1, <3>1
    <3>4. b <= end
      BY ONLY <1>7, <3>3
    <3>5. CASE b < end
      BY ONLY <1>7, <3>1, <3>2, <3>5
    <3>6. CASE b = end
      BY ONLY <1>7, <3>1, <3>2, <3>6
    <3> QED BY ONLY <1>7, <3>4, <3>5, <3>6
  <2>3. ASSUME NEW k \in DOMAIN shown' PROVE shown'[k] = listed[k]
    <3>1. CASE k <= Len(shown)
      BY <1>2, <1>9, <1>10, <2>1, <3>1
    <3>2. CASE ~(k <= Len(shown))
      <4>1. k - b \in 1 .. n /\ b + (k - b) = k
        BY <1>2, <1>3, <1>10, <2>1, <3>2
      <4> QED BY <1>3, <1>9, <1>10, <2>1, <3>2, <4>1
    <3> QED BY <3>1, <3>2
  <2>4. more => c < reader.total
    BY <1>4, LastPage DEF more, c
  <2>5. ~more => reader.total <= c
    BY <1>4, LastPage DEF more, c
  <2>6. more => Len(shown') = c
    <3>1. more => c <= Len(listed)
      BY ONLY <1>4, <1>7, <2>1, <2>4
    <3> QED BY <1>7, <2>2, <3>1
  <2>7. ~more => end >= reader.total
    BY ONLY <1>4, <1>7, <2>1, <2>5
  <2> QED BY <1>7, <2>2, <2>3, <2>6, <2>7
<1> QED BY <1>12, <1>19, <1>20

-----------------------------------------------------------------------------
LEMMA NobodyReads == ASSUME Lists!Init PROVE WalkInv
<1>1. /\ list = Lists!NoList /\ listed = << >> /\ created = 0
      /\ reader = Lists!Closed /\ shown = << >> /\ standing = {}
      /\ left = 0 /\ moved = 0 /\ late = 0
  BY DEF Lists!Init
<1>2. WalkType
  BY <1>1 DEF WalkType, Lists!Closed, IsInjective
<1>3. Accounts
  <2>1. Passed = {} /\ Again = {} /\ Lists!ShownRows = {} /\ Len(shown) = 0
    BY <1>1 DEF Passed, Again, Lists!ShownRows
  <2> QED BY <1>1, <2>1, FS_EmptySet DEF Accounts, Lists!Closed, Lists!MissesAreCaused
<1>4. Exact
  BY <1>1 DEF Exact, Lists!Closed, Lists!NoList, Lists!list_transfer_history,
              Lists!list_transfers, Lists!ByAge
<1> QED BY <1>2, <1>3, <1>4 DEF WalkInv

LEMMA WalkKeeps == ASSUME WalkInv, [Lists!Next]_listVars PROVE WalkInv'
<1>1. CASE UNCHANGED listVars
  <2> USE <1>1 DEF listVars
  <2>1. /\ Place' = Place /\ Lists!ShownRows' = Lists!ShownRows
        /\ \A n : UpTo(n)' = UpTo(n) /\ Beyond(n)' = Beyond(n)
    BY DEF Place, Lists!ShownRows, Lists!Offset, UpTo, Beyond
  <2>2. Passed' = Passed /\ Again' = Again
    BY <2>1 DEF Passed, Again, UpTo, Beyond
  <2>3. WalkType'
    BY DEF WalkInv, WalkType
  <2>4. Accounts'
    BY <2>1, <2>2 DEF WalkInv, Accounts, Lists!MissesAreCaused
  <2>5. Exact'
    BY <2>1 DEF WalkInv, Exact
  <2> QED BY <2>3, <2>4, <2>5 DEF WalkInv
<1>2. CASE Lists!Next
  BY <1>2, OpenKeeps, CountKeeps, SelectKeeps, TurnPageKeeps, LeaveKeeps, ComesKeeps,
     LeavesKeeps, MovesKeeps DEF Lists!Next
<1> QED BY <1>1, <1>2

\* What the reader has passed over, and what he will see again, is accounted for
\* at every step of his walk: kept by every read and every commit.
THEOREM WalkInvariance == PagesSpec => []WalkInv
<1>1. PagesInit => WalkInv
  BY NobodyReads DEF PagesInit
<1>2. ASSUME WalkInv, [PagesNext]_<<vars, listVars>> PROVE WalkInv'
  <2>1. [Lists!Next]_listVars
    BY <1>2 DEF PagesNext
  <2> QED BY <1>2, <2>1, WalkKeeps
<1> QED BY <1>1, <1>2, PTL DEF PagesSpec

\* Whatever is inserted, leaves or moves between the reads of a walk through any
\* list of the site (paginate in the services): every row that is passed over,
\* and every one shown twice, has its cause, one for each.
THEOREM WalksAreAccounted == PagesSpec => []WalkIsAccounted
<1>1. WalkInv => WalkIsAccounted
  <2> SUFFICES ASSUME WalkInv PROVE Lists!RepeatsAreCaused
    BY DEF WalkInv, Accounts, WalkIsAccounted, Lists!WalkIsAccounted
  <2>1. Cardinality(Again) \in Nat /\ Cardinality(Lists!ShownRows) \in Nat
    BY FiniteRows, FS_Intersection, FS_CardinalityType DEF Again, WalkInv
  <2>2. created \in Nat /\ moved \in Nat /\ reader.opened \in Nat /\ Len(shown) \in Nat
    BY DEF WalkInv, WalkType
  <2>3. (Len(shown) - Cardinality(Lists!ShownRows)) + Cardinality(Again)
          <= (created - reader.opened) + moved
    BY DEF WalkInv, Accounts
  <2> DEFINE R == Cardinality(Lists!ShownRows)  A == Cardinality(Again)
             gone == Len(shown) - R
  <2>4. A \in Nat /\ R \in Nat /\ gone + A <= (created - reader.opened) + moved
    BY <2>1, <2>3
  <2>5. gone \in Int
    BY <2>1, <2>2
  <2> HIDE DEF A, gone
  <2>6. gone <= (created - reader.opened) + moved
    BY <2>2, <2>4, <2>5
  <2> QED BY <2>6, SameSize DEF gone, Lists!RepeatsAreCaused
<1> QED BY <1>1, WalkInvariance, PTL

\* The pages of the oldest transfers first copy the books: created_at is taken
\* under the write lock, so a new transfer comes in at the end (wallet/services.py).
THEOREM OldestFirstIsExact == PagesSpec => []OldestTransfersExact
<1>1. WalkInv => OldestTransfersExact
  <2> SUFFICES ASSUME WalkInv, list = Lists!list_transfer_history("oldest")
               PROVE  Lists!IsPrefix(shown, listed)
    BY DEF WalkInv, Exact, OldestTransfersExact, Lists!OldestTransfersExact
  <2>1. /\ shown \in Seq(1 .. created) /\ listed \in Seq(1 .. created)
        /\ Len(shown) <= Len(listed) /\ \A k \in DOMAIN shown : shown[k] = listed[k]
    BY DEF WalkInv, WalkType, Exact
  <2>2. SubSeq(shown, 1, Len(shown)) = SubSeq(listed, 1, Len(shown))
    BY <2>1
  <2> QED BY <2>1, <2>2 DEF Lists!IsPrefix
<1> QED BY <1>1, WalkInvariance, PTL
=============================================================================
