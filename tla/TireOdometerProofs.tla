------------------------- MODULE TireOdometerProofs -------------------------
(***************************************************************************)
(* What the events of a tire leave behind.  Of the odometer records: that  *)
(* one marked with a period's end is its only one and says what the period *)
(* says, that a tire's and the other writers' never touch each other, and  *)
(* that a figure put on one end is on its day.  Of the low-tread warning:  *)
(* that a request nobody interferes with leaves it right.                  *)
(*                                                                         *)
(* The invariant LInv adds to that of the cards and histories the types of *)
(* the records and of the readings: a withdrawn reading hands its record   *)
(* to the reading that backs it.  What a writer does to a table is proved  *)
(* once, of its operator (Published, Followed, Recorded, Reported,         *)
(* DeletedRows) and of the rows of the other side (PublishedSide and the   *)
(* rest); an action is then its tables' lemma and a split on the rows it   *)
(* writes.  The invariant TInv of the warning says what an undisturbed     *)
(* request knows: the tire as it is and, once it looked, what is pending.  *)
(***************************************************************************)
EXTENDS TireServiceProofs, TreadWarning, FiniteSetTheorems

-----------------------------------------------------------------------------
\* The places of finitely many rows are 1, 2, ... in their order.
LEMMA PlacesInOrder ==
    ASSUME NEW N \in Nat, NEW ks \in SUBSET (1 .. N)
    PROVE  /\ IsFiniteSet(ks) /\ Cardinality(ks) \in Nat
           /\ \A k \in ks : Place(ks, k) \in 1 .. Cardinality(ks)
           /\ \A j, k \in ks : j < k => Place(ks, j) < Place(ks, k)
           /\ \A j, k \in ks : Place(ks, j) = Place(ks, k) => j = k
<1>1. IsFiniteSet(ks) /\ Cardinality(ks) \in Nat
  <2>1. IsFiniteSet(1 .. N)
    BY FS_Interval
  <2> QED BY <2>1, FS_Subset, FS_CardinalityType
<1> DEFINE Upto(k) == {j \in ks : j <= k}
<1>2. ASSUME NEW k \in ks
      PROVE  /\ IsFiniteSet(Upto(k)) /\ Cardinality(Upto(k)) \in Nat
             /\ Cardinality(Upto(k)) <= Cardinality(ks) /\ Upto(k) # {}
             /\ Cardinality(Upto(k)) # 0
  <2>1. Upto(k) \in SUBSET ks /\ k \in Upto(k)
    OBVIOUS
  <2> HIDE DEF Upto
  <2> QED BY <1>1, <2>1, FS_Subset, FS_CardinalityType, FS_EmptySet
<1>3. ASSUME NEW j \in ks, NEW k \in ks, j < k
      PROVE  Cardinality(Upto(j)) < Cardinality(Upto(k))
  <2>1. Upto(j) \in SUBSET Upto(k) /\ Upto(j) # Upto(k)
    <3>1. \A i \in ks : i \in Int
      OBVIOUS
    <3>2. k \in Upto(k) /\ k \notin Upto(j)
      BY <1>3, <3>1
    <3>3. Upto(j) \subseteq Upto(k)
      <4> SUFFICES ASSUME NEW i \in ks, i <= j PROVE i <= k
        OBVIOUS
      <4> QED BY <1>3, <3>1
    <3> HIDE DEF Upto
    <3> QED BY <3>2, <3>3
  <2> HIDE DEF Upto
  <2> QED BY <1>2, <2>1, FS_Subset
<1>4. \A k \in ks : Place(ks, k) = Cardinality(Upto(k))
  BY DEF Place
<1> HIDE DEF Upto
<1>5. \A k \in ks : Place(ks, k) \in 1 .. Cardinality(ks)
  BY <1>1, <1>2, <1>4
<1>6. \A j, k \in ks : j < k => Place(ks, j) < Place(ks, k)
  BY <1>3, <1>4
<1>7. \A j, k \in ks : Place(ks, j) = Place(ks, k) => j = k
  <2>1. \A j, k \in ks : j \in Int /\ k \in Int
    OBVIOUS
  <2> QED BY <1>5, <1>6, <2>1
<1> QED BY <1>1, <1>5, <1>6, <1>7

\* The row at a place.
Nth(ks, n) == CHOOSE k \in ks : Place(ks, k) = n

LEMMA EveryPlaceTaken ==
    ASSUME NEW N \in Nat, NEW ks \in SUBSET (1 .. N)
    PROVE  /\ \A n \in 1 .. Cardinality(ks) : Nth(ks, n) \in ks /\ Place(ks, Nth(ks, n)) = n
           /\ \A k \in ks : Nth(ks, Place(ks, k)) = k
<1> DEFINE places == 1 .. Cardinality(ks)
           f == [k \in ks |-> Place(ks, k)]
<1>1. /\ IsFiniteSet(ks) /\ Cardinality(ks) \in Nat
      /\ \A k \in ks : Place(ks, k) \in places
      /\ \A j, k \in ks : Place(ks, j) = Place(ks, k) => j = k
  BY PlacesInOrder
<1>2. f \in Injection(ks, places)
  BY <1>1 DEF Injection, IsInjective
<1>3. IsFiniteSet(places) /\ Cardinality(places) = Cardinality(ks)
  BY <1>1, FS_Interval
<1>4. f \in Surjection(ks, places)
  BY <1>1, <1>2, <1>3, FS_Injection
<1>5. ASSUME NEW n \in places PROVE \E k \in ks : Place(ks, k) = n
  BY <1>4 DEF Surjection
<1>6. \A n \in places : Nth(ks, n) \in ks /\ Place(ks, Nth(ks, n)) = n
  BY <1>5 DEF Nth
<1> QED BY <1>1, <1>6

LEMMA PickedRows ==
    ASSUME NEW X, NEW s \in Seq(X), NEW ks \in SUBSET DOMAIN s
    PROVE  /\ Picked(s, ks) \in Seq(X)
           /\ Len(Picked(s, ks)) = Cardinality(ks) /\ Cardinality(ks) \in Nat
           /\ \A n \in DOMAIN Picked(s, ks) :
                 Nth(ks, n) \in ks /\ Picked(s, ks)[n] = s[Nth(ks, n)]
           /\ \A k \in ks : /\ Place(ks, k) \in DOMAIN Picked(s, ks)
                            /\ Picked(s, ks)[Place(ks, k)] = s[k]
           /\ \A m, n \in DOMAIN Picked(s, ks) : Nth(ks, m) = Nth(ks, n) => m = n
<1> DEFINE q == Picked(s, ks)
           N == Cardinality(ks)
<1>1. ks \in SUBSET (1 .. Len(s)) /\ Len(s) \in Nat
  OBVIOUS
<1>2. /\ N \in Nat
      /\ \A k \in ks : Place(ks, k) \in 1 .. N
      /\ \A n \in 1 .. N : Nth(ks, n) \in ks /\ Place(ks, Nth(ks, n)) = n
      /\ \A k \in ks : Nth(ks, Place(ks, k)) = k
  BY <1>1, PlacesInOrder, EveryPlaceTaken
<1>3. q = [n \in 1 .. N |-> s[Nth(ks, n)]]
  BY DEF Picked, Nth
<1> HIDE DEF q, N
<1>4. q \in [1 .. N -> X]
  BY <1>1, <1>2, <1>3
<1>5. q \in Seq(X) /\ Len(q) = N /\ DOMAIN q = 1 .. N
  BY <1>2, <1>4
<1>6. \A n \in DOMAIN q : Nth(ks, n) \in ks /\ q[n] = s[Nth(ks, n)]
  BY <1>2, <1>3, <1>5
<1>7. \A k \in ks : Place(ks, k) \in DOMAIN q /\ q[Place(ks, k)] = s[k]
  BY <1>2, <1>5, <1>6
<1>8. \A m, n \in DOMAIN q : Nth(ks, m) = Nth(ks, n) => m = n
  BY <1>2, <1>5
<1> QED BY <1>2, <1>5, <1>6, <1>7, <1>8 DEF q, N

\* Two tables have the same rows at some indices, in the same order, when an
\* order-preserving bijection between the indices says so.
Renumbers(b, s, ks, q, js) ==
    /\ \E X : s \in Seq(X) /\ q \in Seq(X)
    /\ ks \in SUBSET DOMAIN s /\ js \in SUBSET DOMAIN q
    /\ b \in [ks -> js]
    /\ \A j \in js : \E k \in ks : b[k] = j
    /\ \A i, k \in ks : i < k => b[i] < b[k]
    /\ \A k \in ks : s[k] = q[b[k]]

LEMMA PickedSame ==
    ASSUME NEW b, NEW s, NEW ks, NEW q, NEW js, Renumbers(b, s, ks, q, js)
    PROVE  Picked(s, ks) = Picked(q, js)
<1>0. PICK X : s \in Seq(X) /\ q \in Seq(X)
  BY DEF Renumbers
<1>a. /\ ks \in SUBSET DOMAIN s /\ js \in SUBSET DOMAIN q
      /\ b \in [ks -> js]
      /\ \A j \in js : \E k \in ks : b[k] = j
      /\ \A i, k \in ks : i < k => b[i] < b[k]
      /\ \A k \in ks : s[k] = q[b[k]]
  BY DEF Renumbers
<1> USE <1>0, <1>a
<1>1. /\ ks \in SUBSET (1 .. Len(s)) /\ Len(s) \in Nat
      /\ js \in SUBSET (1 .. Len(q)) /\ Len(q) \in Nat
  OBVIOUS
<1>2. \A i, k \in ks : i \in Int /\ k \in Int /\ b[i] \in Int /\ b[k] \in Int
  BY <1>1
<1>3. \A i, k \in ks : /\ b[i] = b[k] => i = k
                       /\ i <= k <=> b[i] <= b[k]
  BY <1>2
<1>4. /\ IsFiniteSet(ks) /\ Cardinality(ks) \in Nat
      /\ \A k \in ks : Place(ks, k) \in 1 .. Cardinality(ks)
  BY <1>1, PlacesInOrder
<1>5. Cardinality(js) = Cardinality(ks)
  <2>1. b \in Bijection(ks, js)
    BY <1>3 DEF Bijection, Injection, IsInjective, Surjection
  <2> QED BY <1>4, <2>1, FS_Bijection DEF ExistsBijection
<1>6. ASSUME NEW k \in ks PROVE Place(js, b[k]) = Place(ks, k)
  <2> DEFINE S == {i \in ks : i <= k}
             T == {j \in js : j <= b[k]}
             c == [i \in S |-> b[i]]
  <2>1. c \in Bijection(S, T)
    <3>1. c \in [S -> T]
      BY <1>3
    <3>2. \A i, m \in S : c[i] = c[m] => i = m
      BY <1>3
    <3>3. ASSUME NEW j \in T PROVE \E i \in S : c[i] = j
      <4>1. PICK i \in ks : b[i] = j
        OBVIOUS
      <4> QED BY <1>3, <4>1
    <3> QED BY <3>1, <3>2, <3>3 DEF Bijection, Injection, IsInjective, Surjection
  <2>2. IsFiniteSet(S)
    BY <1>4, FS_Subset
  <2> QED BY <2>1, <2>2, FS_Bijection DEF ExistsBijection, Place
<1>7. ASSUME NEW n \in 1 .. Cardinality(ks) PROVE s[Nth(ks, n)] = q[Nth(js, n)]
  <2>1. Nth(ks, n) \in ks /\ Place(ks, Nth(ks, n)) = n
    BY <1>1, EveryPlaceTaken
  <2>2. b[Nth(ks, n)] \in js /\ Place(js, b[Nth(ks, n)]) = n
    BY <1>6, <2>1
  <2>3. Nth(js, n) = b[Nth(ks, n)]
    <3>1. \A j \in js : Nth(js, Place(js, j)) = j
      BY <1>1, EveryPlaceTaken
    <3> QED BY <2>2, <3>1
  <2> QED BY <2>1, <2>3
<1>8. /\ Picked(s, ks) = [n \in 1 .. Cardinality(ks) |-> s[Nth(ks, n)]]
      /\ Picked(q, js) = [n \in 1 .. Cardinality(js) |-> q[Nth(js, n)]]
  BY DEF Picked, Nth
<1> QED BY <1>5, <1>7, <1>8

-----------------------------------------------------------------------------
(* The tables of odometer records, and what each writer leaves of one.     *)
EventKinds == {"tire_mount", "tire_dismount"}
IsEvent(m) == m.kind \in EventKinds

Markers ==
    [kind : EventKinds \union {"tire", "tire_rotation", "tire_set",
                               "manual", "livelink", "service_visit"},
     tire : Maybe(Tire), period : Nat]
LogRow == [day : Day, km : Km, marker : Markers]

\* A period's end has one record at most.
OneEach(rows) ==
    \A k, l \in DOMAIN rows :
        IsEvent(rows[k].marker) /\ rows[k].marker = rows[l].marker => k = l

Sound(rows) == rows \in Seq(LogRow) /\ OneEach(rows)

LEMMA MarkerKinds ==
    /\ \A kind \in EventKinds \union {"tire", "tire_rotation"}, t \in Tire, i \in Nat :
          /\ Marker(kind, t, i) \in Markers
          /\ Marker(kind, t, i).kind = kind
          /\ Marker(kind, t, i).tire = t /\ Marker(kind, t, i).period = i
    /\ \A m \in Markers : m = Marker(m.kind, m.tire, m.period)
    /\ {Manual, LiveLink, Visit, SetFit} \subseteq Markers
    /\ ~IsEvent(Manual) /\ ~IsEvent(LiveLink) /\ ~IsEvent(Visit) /\ ~IsEvent(SetFit)
    /\ \A t, i : ~IsEvent(Marker("tire", t, i)) /\ ~IsEvent(Marker("tire_rotation", t, i))
<1> USE DEF Marker, Markers, Maybe
<1>1. \A kind \in EventKinds \union {"tire", "tire_rotation"}, t \in Tire, i \in Nat :
          /\ Marker(kind, t, i) \in Markers
          /\ Marker(kind, t, i).kind = kind
          /\ Marker(kind, t, i).tire = t /\ Marker(kind, t, i).period = i
  OBVIOUS
<1>2. \A m \in Markers : m = Marker(m.kind, m.tire, m.period)
  OBVIOUS
<1>3. {Manual, LiveLink, Visit, SetFit} \subseteq Markers
  BY DEF Manual, LiveLink, Visit, SetFit
<1>4. ~IsEvent(Manual) /\ ~IsEvent(LiveLink) /\ ~IsEvent(Visit) /\ ~IsEvent(SetFit)
  BY DEF IsEvent, EventKinds, Manual, LiveLink, Visit, SetFit
<1>5. \A t, i : ~IsEvent(Marker("tire", t, i)) /\ ~IsEvent(Marker("tire_rotation", t, i))
  BY DEF IsEvent, EventKinds
<1> QED BY <1>1, <1>2, <1>3, <1>4, <1>5

LEMMA LastOf ==
    ASSUME NEW N \in Nat, NEW S \in SUBSET (1 .. N), S # {}
    PROVE  Max(S) \in S /\ \A i \in S : i <= Max(S)
<1> DEFINE T == S
           R == {x \in T \X T : x[1] > x[2]}
<1>1. \A i \in T : i \in Int
  OBVIOUS
<1>2. T \in SUBSET (1 .. N) /\ T # {} /\ N \in Nat
  OBVIOUS
<1> HIDE DEF T
<1>3. \A i, k \in T : <<i, k>> \in R <=> i > k
  OBVIOUS
<1> HIDE DEF R
<1>4. \A i, k \in T : i = k \/ <<i, k>> \in R \/ <<k, i>> \in R
  <2> SUFFICES ASSUME NEW i \in T, NEW k \in T
               PROVE  i = k \/ <<i, k>> \in R \/ <<k, i>> \in R
    OBVIOUS
  <2>1. i = k \/ i > k \/ k > i
    BY <1>1
  <2> QED BY <1>3, <2>1, Zenon
<1>5. \A i, j, k \in T : <<i, j>> \in R /\ <<j, k>> \in R => <<i, k>> \in R
  BY <1>1, <1>3
<1>6. \E i \in T : \A k \in T : k = i \/ <<i, k>> \in R
  BY <1>2, <1>4, <1>5, FirstExists, Zenon
<1>7. PICK i \in T : \A k \in T : k = i \/ <<i, k>> \in R
  BY <1>6
<1>8. ASSUME NEW y \in T PROVE i >= y
  <2>1. y = i \/ i > y
    BY <1>3, <1>7, Zenon
  <2> QED BY <1>1, <2>1
<1>9. Max(T) \in T /\ \A y \in T : Max(T) >= y
  <2>1. \E x \in T : \A y \in T : x >= y
    BY <1>8, Zenon
  <2> QED BY <2>1, Zenon DEF Max
<1>10. \A y \in T : y <= Max(T)
  BY <1>1, <1>9
<1> QED BY <1>9, <1>10 DEF T

LEMMA RemovedRows ==
    ASSUME NEW X, NEW s \in Seq(X), NEW k \in DOMAIN s
    PROVE  /\ RemoveAt(s, k) \in Seq(X)
           /\ DOMAIN RemoveAt(s, k) = 1 .. Len(s) - 1 /\ Len(s) \in Nat \ {0}
           /\ \A i \in 1 .. Len(s) - 1 :
                 /\ i < k => RemoveAt(s, k)[i] = s[i]
                 /\ i >= k => RemoveAt(s, k)[i] = s[i + 1]
<1> DEFINE a == SubSeq(s, 1, k - 1)
           c == SubSeq(s, k + 1, Len(s))
<1>1. Len(s) \in Nat /\ k \in 1 .. Len(s)
  OBVIOUS
<1>2. a \in Seq(X) /\ Len(a) = k - 1 /\ \A i \in 1 .. k - 1 : a[i] = s[i]
  BY <1>1
<1>3. c \in Seq(X) /\ Len(c) = Len(s) - k /\ \A i \in 1 .. Len(s) - k : c[i] = s[k + i]
  BY <1>1
<1>4. RemoveAt(s, k) = a \o c
  BY DEF RemoveAt
<1> HIDE DEF a, c
<1>5. a \o c \in Seq(X) /\ Len(a \o c) = Len(s) - 1
  BY <1>1, <1>2, <1>3
<1>6. ASSUME NEW i \in 1 .. Len(s) - 1 PROVE i < k => (a \o c)[i] = s[i]
  BY <1>1, <1>2, <1>3
<1>7. ASSUME NEW i \in 1 .. Len(s) - 1 PROVE i >= k => (a \o c)[i] = s[i + 1]
  <2> SUFFICES ASSUME i >= k PROVE (a \o c)[i] = s[i + 1]
    OBVIOUS
  <2>1. (a \o c)[i] = c[i - (k - 1)]
    BY <1>1, <1>2, <1>3
  <2>2. i - (k - 1) \in 1 .. Len(s) - k /\ k + (i - (k - 1)) = i + 1
    BY <1>1
  <2> QED BY <1>3, <2>1, <2>2
<1> QED BY <1>1, <1>4, <1>5, <1>6, <1>7

LEMMA RemovedIsSound ==
    ASSUME NEW rows, Sound(rows), NEW k \in DOMAIN rows
    PROVE  /\ Sound(RemoveAt(rows, k))
           /\ \A r \in Range(RemoveAt(rows, k)) :
                 r \in Range(rows) /\ (IsEvent(rows[k].marker) => r.marker # rows[k].marker)
<1> DEFINE q == RemoveAt(rows, k)
           was(i) == IF i < k THEN i ELSE i + 1
<1>1. rows \in Seq(LogRow) /\ k \in 1 .. Len(rows)
  BY DEF Sound
<1>2. q \in Seq(LogRow) /\ DOMAIN q = 1 .. Len(rows) - 1 /\ Len(rows) \in Nat \ {0}
  BY <1>1, RemovedRows
<1>3. \A i \in DOMAIN q : was(i) \in DOMAIN rows /\ was(i) # k /\ q[i] = rows[was(i)]
  BY <1>1, <1>2, RemovedRows
<1>4. \A i, j \in DOMAIN q : was(i) = was(j) => i = j
  BY <1>1, <1>2
<1> HIDE DEF q, was
<1>5. OneEach(q)
  BY <1>3, <1>4 DEF Sound, OneEach
<1>6. ASSUME NEW r \in Range(q)
      PROVE  r \in Range(rows) /\ (IsEvent(rows[k].marker) => r.marker # rows[k].marker)
  <2>1. PICK i \in DOMAIN q : r = q[i]
    BY DEF Range
  <2> QED BY <1>3, <2>1 DEF Range, Sound, OneEach
<1> QED BY <1>2, <1>5, <1>6 DEF Sound, q

LEMMA RewrittenIsSound ==
    ASSUME NEW rows, Sound(rows), NEW k \in DOMAIN rows,
           NEW day \in Day, NEW km \in Km, NEW m \in Markers,
           m = rows[k].marker \/ ~IsEvent(m)
    PROVE  LET q == Rewrite(rows, k, day, km, m)
           IN  /\ Sound(q) /\ DOMAIN q = DOMAIN rows
               /\ q[k] = Row(day, km, m)
               /\ \A i \in DOMAIN rows \ {k} : q[i] = rows[i]
<1> DEFINE q == Rewrite(rows, k, day, km, m)
<1>1. Row(day, km, m) \in LogRow /\ Row(day, km, m).marker = m
  BY DEF Row, LogRow
<1>2. rows \in Seq(LogRow)
  BY DEF Sound
<1>3. /\ q \in Seq(LogRow) /\ DOMAIN q = DOMAIN rows /\ q[k] = Row(day, km, m)
      /\ \A i \in DOMAIN rows \ {k} : q[i] = rows[i]
  BY <1>1, <1>2 DEF Rewrite
<1> HIDE DEF q
<1>4. OneEach(q)
  BY <1>1, <1>3 DEF Sound, OneEach
<1> QED BY <1>3, <1>4 DEF Sound, q

LEMMA AppendedIsSound ==
    ASSUME NEW rows, Sound(rows),
           NEW day \in Day, NEW km \in Km, NEW m \in Markers,
           IsEvent(m) => Marked(rows, m) = {}
    PROVE  LET q == Append(rows, Row(day, km, m))
           IN  /\ Sound(q) /\ DOMAIN q = 1 .. Len(rows) + 1
               /\ q[Len(rows) + 1] = Row(day, km, m) /\ Len(rows) \in Nat
               /\ \A i \in DOMAIN rows : i \in 1 .. Len(rows) /\ q[i] = rows[i]
<1> DEFINE r == Row(day, km, m)
           q == Append(rows, r)
<1>1. r \in LogRow /\ r.marker = m
  BY DEF Row, LogRow
<1> HIDE DEF r
<1>2. rows \in Seq(LogRow)
  BY DEF Sound
<1>3. /\ q \in Seq(LogRow) /\ DOMAIN q = 1 .. Len(rows) + 1 /\ Len(rows) \in Nat
      /\ q[Len(rows) + 1] = r
      /\ \A i \in DOMAIN rows : i \in 1 .. Len(rows) /\ q[i] = rows[i]
      /\ DOMAIN rows = 1 .. Len(rows)
  BY <1>1, <1>2
<1> HIDE DEF q
<1>4. OneEach(q)
  <2> SUFFICES ASSUME NEW k \in DOMAIN q, NEW l \in DOMAIN q,
                      IsEvent(q[k].marker), q[k].marker = q[l].marker
               PROVE  k = l
    BY DEF OneEach
  <2>1. \A i \in DOMAIN q : i \in DOMAIN rows \/ i = Len(rows) + 1
    BY <1>3
  <2>2. ASSUME NEW i \in DOMAIN rows, IsEvent(m) PROVE rows[i].marker # m
    BY <2>2 DEF Marked
  <2> QED BY <1>1, <1>3, <2>1, <2>2 DEF Sound, OneEach
<1> QED BY <1>3, <1>4 DEF Sound, q, r

LEMMA PickedIsSound ==
    ASSUME NEW rows, Sound(rows), NEW ks \in SUBSET DOMAIN rows
    PROVE  /\ Sound(Picked(rows, ks))
           /\ \A r \in Range(Picked(rows, ks)) : \E k \in ks : r = rows[k]
<1> DEFINE q == Picked(rows, ks)
<1>1. /\ q \in Seq(LogRow)
      /\ \A n \in DOMAIN q : Nth(ks, n) \in ks /\ q[n] = rows[Nth(ks, n)]
      /\ \A m, n \in DOMAIN q : Nth(ks, m) = Nth(ks, n) => m = n
  BY PickedRows DEF Sound
<1> HIDE DEF q
<1>2. OneEach(q)
  <2>1. \A n \in DOMAIN q : Nth(ks, n) \in DOMAIN rows
    BY <1>1
  <2> QED BY <1>1, <2>1 DEF Sound, OneEach
<1> QED BY <1>1, <1>2 DEF Sound, Range, q

-----------------------------------------------------------------------------
LEMMA NotBelowItself ==
    /\ \A km \in Km : ~Below(km, km)
    /\ \A d \in Day : d # None
    /\ \A km \in Km : km # None
BY TireAssumption, FigureAssumption DEF Below

LEMMA RowHolds ==
    ASSUME NEW rows, NEW k \in DOMAIN rows, NEW day, NEW km \in Km, NEW m,
           rows[k] = Row(day, km, m)
    PROVE  HighestOn(rows, day, km)
<1>1. rows[k].day = day /\ ~Below(rows[k].km, km)
  BY NotBelowItself DEF Row
<1> QED BY <1>1 DEF HighestOn, ReadsAtOrAbove, SameDay

\* publish_tire_odometer, for a marker that names no period's end or one no
\* record is marked with yet.
LEMMA Published ==
    ASSUME NEW rows, Sound(rows),
           NEW day \in Day, NEW km \in Maybe(Km), NEW m \in Markers,
           IsEvent(m) => Marked(rows, m) = {}
    PROVE  LET q == Publish(rows, day, km, m)
           IN  /\ Sound(q)
               /\ \A r \in Range(q) : r \in Range(rows) \/ (km \in Km /\ r = Row(day, km, m))
               /\ km # None => HighestOn(q, day, km)
               /\ IsEvent(m) => \A d, x : HighestOn(rows, d, x) => HighestOn(q, d, x)
<1> DEFINE own == SameDay(rows, day) \intersect Marked(rows, m)
           q == Publish(rows, day, km, m)
<1>1. CASE km = None
  BY <1>1 DEF Publish
<1>2. CASE km # None /\ own # {}
  <2>1. km \in Km
    BY <1>2 DEF Maybe
  <2>2. rows \in Seq(LogRow) /\ own \in SUBSET (1 .. Len(rows)) /\ Len(rows) \in Nat
    BY DEF Sound, SameDay
  <2> DEFINE k == Max(own)
  <2>3. k \in own
    <3> HIDE DEF own
    <3> QED BY <1>2, <2>2, LastOf
  <2>4. k \in DOMAIN rows /\ rows[k].marker = m
    BY <2>3 DEF SameDay, Marked
  <2>5. q = Rewrite(rows, k, day, km, m)
    BY <1>2 DEF Publish
  <2>6. ~IsEvent(m)
    BY <1>2
  <2> HIDE DEF k, q, own
  <2>7. /\ Sound(q) /\ DOMAIN q = DOMAIN rows
        /\ q[k] = Row(day, km, m)
        /\ \A i \in DOMAIN rows \ {k} : q[i] = rows[i]
    BY <2>1, <2>4, <2>5, RewrittenIsSound
  <2>8. \A r \in Range(q) : r \in Range(rows) \/ r = Row(day, km, m)
    BY <2>7 DEF Range
  <2>9. HighestOn(q, day, km)
    BY <2>1, <2>4, <2>7, RowHolds
  <2> QED BY <2>1, <2>6, <2>7, <2>8, <2>9 DEF q
<1>3. CASE km # None /\ own = {}
  <2>1. km \in Km
    BY <1>3 DEF Maybe
  <2>2. CASE ReadsAtOrAbove(rows, SameDay(rows, day), km)
    <3>1. q = rows
      BY <1>3, <2>2 DEF Publish
    <3> QED BY <2>2, <3>1 DEF HighestOn
  <2>3. CASE ~ReadsAtOrAbove(rows, SameDay(rows, day), km) /\ ~IsEvent(m)
    <3>1. q = Append(rows, Row(day, km, m))
      BY <1>3, <2>3 DEF Publish
    <3> HIDE DEF q
    <3>2. /\ Sound(q) /\ DOMAIN q = 1 .. Len(rows) + 1
          /\ q[Len(rows) + 1] = Row(day, km, m) /\ Len(rows) \in Nat
          /\ \A i \in DOMAIN rows : i \in 1 .. Len(rows) /\ q[i] = rows[i]
      BY <2>1, <2>3, <3>1, AppendedIsSound
    <3>3. DOMAIN rows = 1 .. Len(rows)
      BY DEF Sound
    <3>4. \A i \in DOMAIN q : i \in DOMAIN rows \/ i = Len(rows) + 1
      BY <3>2, <3>3
    <3>5. \A r \in Range(q) : r \in Range(rows) \/ r = Row(day, km, m)
      BY <3>2, <3>4 DEF Range
    <3>6. Len(rows) + 1 \in DOMAIN q
      BY <3>2
    <3>7. HighestOn(q, day, km)
      BY <2>1, <3>2, <3>6, RowHolds
    <3> QED BY <2>1, <2>3, <3>2, <3>5, <3>7 DEF q
  <2>4. CASE ~ReadsAtOrAbove(rows, SameDay(rows, day), km) /\ IsEvent(m)
    <3>1. q = Append(rows, Row(day, km, m))
      BY <1>3, <2>4 DEF Publish
    <3> HIDE DEF q
    <3>2. /\ Sound(q) /\ DOMAIN q = 1 .. Len(rows) + 1
          /\ q[Len(rows) + 1] = Row(day, km, m) /\ Len(rows) \in Nat
          /\ \A i \in DOMAIN rows : i \in 1 .. Len(rows) /\ q[i] = rows[i]
      BY <2>1, <3>1, AppendedIsSound
    <3>3. DOMAIN rows = 1 .. Len(rows)
      BY DEF Sound
    <3>4. \A i \in DOMAIN q : i \in DOMAIN rows \/ i = Len(rows) + 1
      BY <3>2, <3>3
    <3>5. \A r \in Range(q) : r \in Range(rows) \/ r = Row(day, km, m)
      BY <3>2, <3>4 DEF Range
    <3>6. Len(rows) + 1 \in DOMAIN q /\ \A i \in DOMAIN rows : i \in DOMAIN q
      BY <3>2, <3>3
    <3>7. HighestOn(q, day, km)
      BY <2>1, <3>2, <3>6, RowHolds
    <3>8. ASSUME NEW d, NEW x, HighestOn(rows, d, x) PROVE HighestOn(q, d, x)
      <4>1. PICK i \in DOMAIN rows : rows[i].day = d /\ ~Below(rows[i].km, x)
        BY <3>8 DEF HighestOn, ReadsAtOrAbove, SameDay
      <4>2. i \in DOMAIN q /\ q[i] = rows[i]
        BY <3>2, <3>6
      <4> QED BY <4>1, <4>2 DEF HighestOn, ReadsAtOrAbove, SameDay
    <3> QED BY <2>1, <3>2, <3>5, <3>7, <3>8 DEF q
  <2> QED BY <2>2, <2>3, <2>4
<1> QED BY <1>1, <1>2, <1>3

\* _follow_period_event: no record of the end it moves is left but its own.
LEMMA Followed ==
    ASSUME NEW rows, Sound(rows),
           NEW day \in Maybe(Day), NEW km \in Maybe(Km), NEW m \in Markers, IsEvent(m)
    PROVE  LET q == Follow(rows, day, km, m)
           IN  /\ Sound(q)
               /\ \A r \in Range(q) :
                     \/ r \in Range(rows) /\ r.marker # m
                     \/ day \in Day /\ km \in Km /\ r = Row(day, km, m)
               /\ day # None /\ km # None => HighestOn(q, day, km)
<1> DEFINE own == Marked(rows, m)
           k == Max(own)
           without == RemoveAt(rows, k)
           q == Follow(rows, day, km, m)
<1>0. rows \in Seq(LogRow) /\ Len(rows) \in Nat /\ DOMAIN rows = 1 .. Len(rows)
  BY DEF Sound
<1>1. day # None => day \in Day
  BY DEF Maybe
<1>2. km # None => km \in Km
  BY DEF Maybe
<1>3. CASE own = {} /\ (day = None \/ km = None)
  <2>1. q = rows
    BY <1>3 DEF Follow
  <2>2. \A r \in Range(rows) : r.marker # m
    BY <1>3 DEF Range, Marked
  <2> QED BY <1>3, <2>1, <2>2
<1>4. CASE own = {} /\ day # None /\ km # None
  <2>1. q = Publish(rows, day, km, m)
    BY <1>4 DEF Follow
  <2>2. \A r \in Range(rows) : r.marker # m
    BY <1>4 DEF Range, Marked
  <2> QED BY <1>1, <1>2, <1>4, <2>1, <2>2, Published
<1>5. CASE own # {}
  <2>1. own \in SUBSET (1 .. Len(rows))
    BY <1>0 DEF Marked
  <2>2. k \in own
    <3> HIDE DEF own
    <3> QED BY <1>0, <1>5, <2>1, LastOf
  <2>3. k \in DOMAIN rows /\ rows[k].marker = m
    BY <2>2 DEF Marked
  <2> HIDE DEF k
  <2>4. /\ Sound(without)
        /\ \A r \in Range(without) : r \in Range(rows) /\ r.marker # m
    BY <2>3, RemovedIsSound
  <2>5. Marked(without, m) = {}
    BY <2>4 DEF Marked, Range
  <2> HIDE DEF without
  <2>6. CASE day = None \/ km = None
    <3>1. q = without
      BY <1>5, <2>6 DEF Follow, without, k
    <3> QED BY <2>4, <2>6, <3>1
  <2>7. CASE /\ day # None /\ km # None
             /\ \/ ReadsAtOrAbove(rows, SameDay(rows, day) \ {k}, km)
                \/ \E o \in SameDay(rows, day) \ {k} : o > k
    <3>1. q = Publish(without, day, km, m)
      BY <1>5, <2>7 DEF Follow, without, k
    <3>2. /\ Sound(q)
          /\ \A r \in Range(q) : r \in Range(without) \/ (km \in Km /\ r = Row(day, km, m))
          /\ HighestOn(q, day, km)
      BY <1>1, <1>2, <2>4, <2>5, <2>7, <3>1, Published
    <3> QED BY <1>1, <1>2, <2>4, <2>7, <3>2
  <2>8. CASE /\ day # None /\ km # None
             /\ ~ReadsAtOrAbove(rows, SameDay(rows, day) \ {k}, km)
             /\ ~\E o \in SameDay(rows, day) \ {k} : o > k
    <3>1. q = Rewrite(rows, k, day, km, m)
      BY <1>5, <2>8 DEF Follow, k
    <3> HIDE DEF q
    <3>2. /\ Sound(q) /\ DOMAIN q = DOMAIN rows
          /\ q[k] = Row(day, km, m)
          /\ \A i \in DOMAIN rows \ {k} : q[i] = rows[i]
      BY <1>1, <1>2, <2>3, <2>8, <3>1, RewrittenIsSound
    <3>3. \A i \in DOMAIN rows \ {k} : rows[i].marker # m
      BY <2>3 DEF Sound, OneEach
    <3>4. \A r \in Range(q) :
             \/ r \in Range(rows) /\ r.marker # m
             \/ r = Row(day, km, m)
      BY <3>2, <3>3 DEF Range
    <3>5. HighestOn(q, day, km)
      BY <1>2, <2>3, <2>8, <3>2, RowHolds
    <3> QED BY <1>1, <1>2, <2>8, <3>2, <3>4, <3>5 DEF q
  <2> QED BY <2>6, <2>7, <2>8
<1> QED BY <1>3, <1>4, <1>5

\* What the vehicle's other writers leave of the table.
LEMMA Recorded ==
    ASSUME NEW rows, Sound(rows), NEW day \in Day, NEW km \in Km
    PROVE  /\ Sound(SyncRecord(rows, day, km, Visit))
           /\ \A r \in Range(SyncRecord(rows, day, km, Visit)) :
                 r \in Range(rows) \/ ~IsEvent(r.marker)
<1> DEFINE own == SameDay(rows, day) \intersect Marked(rows, Visit)
           rest == Takeable(rows, day)
           q == SyncRecord(rows, day, km, Visit)
<1>0. /\ rows \in Seq(LogRow) /\ Len(rows) \in Nat /\ DOMAIN rows = 1 .. Len(rows)
      /\ own \in SUBSET (1 .. Len(rows)) /\ rest \in SUBSET (1 .. Len(rows))
  BY DEF Sound, SameDay, Takeable
<1>1. /\ Visit \in Markers /\ ~IsEvent(Visit)
      /\ Row(day, km, Visit).marker = Visit /\ km # None
  BY MarkerKinds, NotBelowItself DEF Row
<1>2. ASSUME NEW k \in DOMAIN rows, q = Rewrite(rows, k, day, km, Visit)
      PROVE  Sound(q) /\ \A r \in Range(q) : r \in Range(rows) \/ ~IsEvent(r.marker)
  <2> HIDE DEF q
  <2>1. /\ Sound(q) /\ DOMAIN q = DOMAIN rows
        /\ q[k] = Row(day, km, Visit)
        /\ \A i \in DOMAIN rows \ {k} : q[i] = rows[i]
    BY <1>1, <1>2, RewrittenIsSound
  <2> QED BY <1>1, <2>1 DEF Range
<1>3. CASE own # {}
  <2>1. Max(own) \in DOMAIN rows
    <3> HIDE DEF own
    <3> QED BY <1>0, <1>3, LastOf
  <2>2. q = Rewrite(rows, Max(own), day, km, Visit)
    BY <1>1, <1>3 DEF SyncRecord
  <2> QED BY <1>2, <2>1, <2>2
<1>4. CASE own = {} /\ rest = {}
  <2>1. q = Append(rows, Row(day, km, Visit))
    BY <1>1, <1>4 DEF SyncRecord
  <2> HIDE DEF q
  <2>2. /\ Sound(q) /\ DOMAIN q = 1 .. Len(rows) + 1
        /\ q[Len(rows) + 1] = Row(day, km, Visit)
        /\ \A i \in DOMAIN rows : q[i] = rows[i]
    BY <1>1, <2>1, AppendedIsSound
  <2>3. \A i \in DOMAIN q : i \in DOMAIN rows \/ i = Len(rows) + 1
    BY <1>0, <2>2
  <2>4. \A r \in Range(q) : r \in Range(rows) \/ ~IsEvent(r.marker)
    BY <1>1, <2>2, <2>3 DEF Range
  <2> QED BY <2>2, <2>4 DEF q
<1>5. CASE own = {} /\ rest # {}
  <2>1. Max(rest) \in DOMAIN rows
    <3> HIDE DEF rest
    <3> QED BY <1>0, <1>5, LastOf
  <2>2. q = rows \/ q = Rewrite(rows, Max(rest), day, km, Visit)
    BY <1>1, <1>5 DEF SyncRecord
  <2> QED BY <1>2, <2>1, <2>2
<1> QED BY <1>3, <1>4, <1>5

LEMMA Reported ==
    ASSUME NEW rows, Sound(rows), NEW day \in Day, NEW km \in Km
    PROVE  /\ Sound(SyncFromTelemetry(rows, day, km))
           /\ \A r \in Range(SyncFromTelemetry(rows, day, km)) :
                 r \in Range(rows) \/ ~IsEvent(r.marker)
<1> DEFINE own == SameDay(rows, day) \intersect Marked(rows, LiveLink)
           q == SyncFromTelemetry(rows, day, km)
<1>0. /\ rows \in Seq(LogRow) /\ Len(rows) \in Nat /\ DOMAIN rows = 1 .. Len(rows)
      /\ own \in SUBSET (1 .. Len(rows))
  BY DEF Sound, SameDay
<1>1. /\ LiveLink \in Markers /\ ~IsEvent(LiveLink)
      /\ Row(day, km, LiveLink).marker = LiveLink
  BY MarkerKinds DEF Row
<1>2. CASE q = rows
  BY <1>2
<1>3. CASE own # {} /\ q = Rewrite(rows, Max(own), day, km, LiveLink)
  <2>1. Max(own) \in DOMAIN rows
    <3> HIDE DEF own
    <3> QED BY <1>0, <1>3, LastOf
  <2> HIDE DEF q
  <2> DEFINE k == Max(own)
  <2>4. k \in DOMAIN rows /\ q = Rewrite(rows, k, day, km, LiveLink)
    BY <1>3, <2>1
  <2> HIDE DEF k
  <2>2. /\ Sound(q) /\ DOMAIN q = DOMAIN rows
        /\ q[k] = Row(day, km, LiveLink)
        /\ \A i \in DOMAIN rows \ {k} : q[i] = rows[i]
    BY <1>1, <2>4, RewrittenIsSound
  <2>3. \A r \in Range(q) : r \in Range(rows) \/ ~IsEvent(r.marker)
    BY <1>1, <2>2 DEF Range
  <2> QED BY <2>2, <2>3 DEF q
<1>4. CASE q = Append(rows, Row(day, km, LiveLink))
  <2> HIDE DEF q
  <2>2. /\ Sound(q) /\ DOMAIN q = 1 .. Len(rows) + 1
        /\ q[Len(rows) + 1] = Row(day, km, LiveLink)
        /\ \A i \in DOMAIN rows : q[i] = rows[i]
    BY <1>1, <1>4, AppendedIsSound
  <2>3. \A i \in DOMAIN q : i \in DOMAIN rows \/ i = Len(rows) + 1
    BY <1>0, <2>2
  <2>4. \A r \in Range(q) : r \in Range(rows) \/ ~IsEvent(r.marker)
    BY <1>1, <2>2, <2>3 DEF Range
  <2> QED BY <2>2, <2>4 DEF q
<1>5. \/ q = rows
      \/ own # {} /\ q = Rewrite(rows, Max(own), day, km, LiveLink)
      \/ q = Append(rows, Row(day, km, LiveLink))
  BY DEF SyncFromTelemetry
<1> QED BY <1>2, <1>3, <1>4, <1>5

-----------------------------------------------------------------------------
(* The tires' records of a table, and the others.                          *)
Whose(r) == IF IsTireMarked(r) THEN "tire" ELSE "other"
Side(rows, b) == {k \in DOMAIN rows : Whose(rows[k]) = b}

LEMMA Sides ==
    ASSUME NEW rows
    PROVE  /\ OtherRecords(rows) = Picked(rows, Side(rows, "other"))
           /\ TireRecords(rows) = Picked(rows, Side(rows, "tire"))
<1>1. Others(rows) = Side(rows, "other")
  BY DEF Others, Side, Whose
<1>2. DOMAIN rows \ Others(rows) = Side(rows, "tire")
  BY DEF Others, Side, Whose
<1> QED BY <1>1, <1>2 DEF OtherRecords, TireRecords

\* A row of the one side that comes, or is written over with one of its own,
\* leaves the other side as it was.
LEMMA InPlaceSide ==
    ASSUME NEW rows \in Seq(LogRow), NEW q \in Seq(LogRow), NEW b,
           \A i \in DOMAIN rows :
              /\ i \in DOMAIN q
              /\ \/ q[i] = rows[i]
                 \/ Whose(q[i]) # b /\ Whose(rows[i]) # b,
           \A i \in DOMAIN q \ DOMAIN rows : Whose(q[i]) # b
    PROVE  Picked(q, Side(q, b)) = Picked(rows, Side(rows, b))
<1>1. Side(q, b) = Side(rows, b)
  BY DEF Side
<1>2. \A i \in Side(rows, b) : q[i] = rows[i]
  BY DEF Side
<1> DEFINE ks == Side(rows, b)
           was == [i \in ks |-> i]
<1>3. ks \in SUBSET DOMAIN q /\ ks \in SUBSET DOMAIN rows
  BY <1>1 DEF Side
<1>4. \A i \in ks : q[i] = rows[i]
  BY <1>2
<1> HIDE DEF ks
<1>5. was \in [ks -> ks] /\ \A i \in ks : was[i] = i
  OBVIOUS
<1> HIDE DEF was
<1>6. \A j \in ks : \E k \in ks : was[k] = j
  BY <1>5
<1>7. \A i, k \in ks : i < k => was[i] < was[k]
  BY <1>5
<1>8. \A k \in ks : q[k] = rows[was[k]]
  BY <1>4, <1>5
<1>9. Picked(q, ks) = Picked(rows, ks)
  <2>1. Renumbers(was, q, ks, rows, ks)
    BY <1>3, <1>5, <1>6, <1>7, <1>8 DEF Renumbers
  <2> QED BY <2>1, PickedSame
<1> QED BY <1>1, <1>9 DEF ks

LEMMA RemovedSide ==
    ASSUME NEW rows \in Seq(LogRow), NEW b,
           NEW k \in DOMAIN rows, Whose(rows[k]) # b
    PROVE  Picked(RemoveAt(rows, k), Side(RemoveAt(rows, k), b)) = Picked(rows, Side(rows, b))
<1> DEFINE q == RemoveAt(rows, k)
           ks == Side(q, b)
           js == Side(rows, b)
           was == [i \in ks |-> IF i < k THEN i ELSE i + 1]
<1>1. /\ q \in Seq(LogRow) /\ DOMAIN q = 1 .. Len(rows) - 1 /\ Len(rows) \in Nat \ {0}
      /\ \A i \in 1 .. Len(rows) - 1 :
            /\ i < k => q[i] = rows[i]
            /\ i >= k => q[i] = rows[i + 1]
      /\ k \in 1 .. Len(rows) /\ DOMAIN rows = 1 .. Len(rows)
  <2>1. k \in 1 .. Len(rows) /\ DOMAIN rows = 1 .. Len(rows)
    OBVIOUS
  <2> HIDE DEF was, ks, js
  <2> QED BY <2>1, RemovedRows, Zenon
<1> HIDE DEF q
<1>2. \A i \in ks : i \in 1 .. Len(rows) - 1 /\ Whose(q[i]) = b
  BY <1>1 DEF Side
<1>3. \A j : j \in js <=> j \in 1 .. Len(rows) /\ Whose(rows[j]) = b
  BY <1>1 DEF Side
<1>4. \A i \in 1 .. Len(rows) - 1 : Whose(q[i]) = b => i \in ks
  BY <1>1 DEF Side
<1>5. ks \in SUBSET DOMAIN q /\ js \in SUBSET DOMAIN rows
  BY DEF Side
<1> HIDE DEF ks, js
<1>6. ASSUME NEW i \in ks PROVE was[i] \in js /\ q[i] = rows[was[i]]
  <2>0. i \in 1 .. Len(rows) - 1 /\ Whose(q[i]) = b /\ k \in Int /\ i \in Int
    BY <1>1, <1>2
  <2>1. CASE i < k
    <3>1. was[i] = i /\ q[i] = rows[i]
      BY <1>1, <2>0, <2>1
    <3>2. i \in 1 .. Len(rows)
      BY <1>1, <2>0
    <3> HIDE DEF was
    <3> QED BY <1>3, <2>0, <3>1, <3>2
  <2>2. CASE i >= k
    <3>1. ~(i < k)
      BY <2>0, <2>2
    <3>2. was[i] = i + 1 /\ q[i] = rows[i + 1]
      BY <1>1, <2>0, <2>2, <3>1
    <3>3. i + 1 \in 1 .. Len(rows)
      BY <1>1, <2>0
    <3> HIDE DEF was
    <3> QED BY <1>3, <2>0, <3>2, <3>3
  <2>3. i < k \/ i >= k
    BY <2>0
  <2> QED BY <2>1, <2>2, <2>3
<1>7. was \in [ks -> js] /\ \A i \in ks : q[i] = rows[was[i]]
  BY <1>6
<1>8. \A i, j \in ks : i < j => was[i] < was[j]
  BY <1>1, <1>2
<1>9. ASSUME NEW j \in js PROVE \E i \in ks : was[i] = j
  <2>1. j \in 1 .. Len(rows) /\ j # k /\ Whose(rows[j]) = b
    BY <1>3
  <2>2. CASE j < k
    <3>0. j \in 1 .. Len(rows) - 1
      BY <1>1, <2>1, <2>2
    <3>1. q[j] = rows[j]
      BY <1>1, <2>2, <3>0
    <3>2. j \in ks
      BY <1>4, <2>1, <3>0, <3>1
    <3> QED BY <2>2, <3>2
  <2>3. CASE j > k
    <3>1. j - 1 \in 1 .. Len(rows) - 1 /\ j - 1 >= k /\ (j - 1) + 1 = j
      BY <1>1, <2>1, <2>3
    <3>2. q[j - 1] = rows[j]
      BY <1>1, <3>1
    <3>3. j - 1 \in ks
      BY <1>4, <2>1, <3>1, <3>2
    <3>4. was[j - 1] = j
      BY <1>1, <3>1, <3>3
    <3> QED BY <3>3, <3>4
  <2> QED BY <1>1, <2>1, <2>2, <2>3
<1> HIDE DEF was
<1>10. Picked(q, ks) = Picked(rows, js)
  <2>1. \A j \in js : \E i \in ks : was[i] = j
    BY <1>9
  <2>2. q \in Seq(LogRow)
    BY <1>1
  <2>3. Renumbers(was, q, ks, rows, js)
    BY <1>5, <1>7, <1>8, <2>1, <2>2 DEF Renumbers
  <2> QED BY <2>3, PickedSame
<1> QED BY <1>10 DEF q, ks, js

LEMMA PickedSide ==
    ASSUME NEW rows \in Seq(LogRow), NEW b, NEW ks \in SUBSET DOMAIN rows,
           \A k \in DOMAIN rows \ ks : Whose(rows[k]) # b
    PROVE  Picked(Picked(rows, ks), Side(Picked(rows, ks), b)) = Picked(rows, Side(rows, b))
<1> DEFINE q == Picked(rows, ks)
           is == Side(q, b)
           js == Side(rows, b)
           was == [i \in is |-> Nth(ks, i)]
<1>1. /\ q \in Seq(LogRow) /\ DOMAIN q = 1 .. Cardinality(ks) /\ Cardinality(ks) \in Nat
      /\ \A n \in DOMAIN q : Nth(ks, n) \in ks /\ q[n] = rows[Nth(ks, n)]
      /\ \A k \in ks : Place(ks, k) \in DOMAIN q /\ q[Place(ks, k)] = rows[k]
  BY PickedRows
<1>2. ks \in SUBSET (1 .. Len(rows)) /\ Len(rows) \in Nat
  OBVIOUS
<1>3. /\ \A n \in 1 .. Cardinality(ks) : Nth(ks, n) \in ks /\ Place(ks, Nth(ks, n)) = n
      /\ \A k \in ks : Nth(ks, Place(ks, k)) = k
      /\ \A j, k \in ks : j < k => Place(ks, j) < Place(ks, k)
  BY <1>2, EveryPlaceTaken, PlacesInOrder
<1> HIDE DEF q
<1>4. is \in SUBSET DOMAIN q /\ js \in SUBSET DOMAIN rows
  BY DEF Side
<1>5. /\ \A i \in is : i \in DOMAIN q /\ Whose(q[i]) = b
      /\ \A i \in DOMAIN q : Whose(q[i]) = b => i \in is
      /\ \A j \in js : j \in DOMAIN rows /\ Whose(rows[j]) = b
      /\ \A j \in DOMAIN rows : Whose(rows[j]) = b => j \in js
  BY DEF Side
<1> HIDE DEF is, js
<1>6. ASSUME NEW i \in is PROVE was[i] \in js /\ q[i] = rows[was[i]]
  BY <1>1, <1>5
<1>7. was \in [is -> js] /\ \A i \in is : q[i] = rows[was[i]]
  BY <1>6
<1>8. ASSUME NEW i \in is, NEW j \in is, i < j PROVE was[i] < was[j]
  <2>1. i \in 1 .. Cardinality(ks) /\ j \in 1 .. Cardinality(ks)
    BY <1>1, <1>5
  <2>2. /\ Nth(ks, i) \in ks /\ Place(ks, Nth(ks, i)) = i
        /\ Nth(ks, j) \in ks /\ Place(ks, Nth(ks, j)) = j
    BY <1>3, <2>1
  <2>3. Nth(ks, i) \in Int /\ Nth(ks, j) \in Int /\ i \in Int /\ j \in Int
    BY <1>2, <2>1, <2>2
  <2>4. ~(Nth(ks, j) < Nth(ks, i)) /\ Nth(ks, i) # Nth(ks, j)
    <3>1. Nth(ks, j) < Nth(ks, i) => j < i
      BY <1>3, <2>2
    <3>2. Nth(ks, i) = Nth(ks, j) => i = j
      BY <2>2
    <3> QED BY <1>8, <2>3, <3>1, <3>2
  <2> QED BY <2>3, <2>4
<1>9. ASSUME NEW j \in js PROVE \E i \in is : was[i] = j
  <2>1. j \in ks
    BY <1>5
  <2>2. Place(ks, j) \in DOMAIN q /\ q[Place(ks, j)] = rows[j] /\ Nth(ks, Place(ks, j)) = j
    BY <1>1, <1>3, <2>1
  <2>3. Place(ks, j) \in is
    BY <1>5, <2>2
  <2> QED BY <2>2, <2>3
<1>10. \A i, j \in is : i < j => was[i] < was[j]
  BY <1>8
<1> HIDE DEF was
<1>11. Picked(q, is) = Picked(rows, js)
  <2>1. \A j \in js : \E i \in is : was[i] = j
    BY <1>9
  <2>2. q \in Seq(LogRow)
    BY <1>1
  <2>3. is \in SUBSET DOMAIN q /\ js \in SUBSET DOMAIN rows
    BY <1>4
  <2> HIDE DEF is, js, was, q
  <2>4. Renumbers(was, q, is, rows, js)
    BY <1>7, <1>10, <2>1, <2>2, <2>3 DEF Renumbers
  <2> QED BY <2>4, PickedSame
<1> QED BY <1>11 DEF q, is, js

\* So does rewriting one row in place, or adding one.
LEMMA RewrittenSide ==
    ASSUME NEW rows, Sound(rows), NEW k \in DOMAIN rows, NEW b,
           NEW day \in Day, NEW km \in Km, NEW m \in Markers,
           m = rows[k].marker \/ ~IsEvent(m),
           Whose(rows[k]) # b, Whose(Row(day, km, m)) # b,
           NEW q, q = Rewrite(rows, k, day, km, m)
    PROVE  Picked(q, Side(q, b)) = Picked(rows, Side(rows, b))
<1>1. Whose(Row(day, km, m)) # b
  OBVIOUS
<1>2. rows \in Seq(LogRow)
  BY DEF Sound
<1>3. /\ Sound(q) /\ DOMAIN q = DOMAIN rows
      /\ q[k] = Row(day, km, m)
      /\ \A i \in DOMAIN rows \ {k} : q[i] = rows[i]
  BY RewrittenIsSound
<1>4. q \in Seq(LogRow)
  BY <1>3 DEF Sound
<1>5. \A i \in DOMAIN rows :
         /\ i \in DOMAIN q
         /\ \/ q[i] = rows[i]
            \/ Whose(q[i]) # b /\ Whose(rows[i]) # b
  BY <1>1, <1>3
<1>6. \A i \in DOMAIN q \ DOMAIN rows : Whose(q[i]) # b
  BY <1>3
<1> QED BY <1>2, <1>4, <1>5, <1>6, InPlaceSide

Added(rows, r) == Append(rows, r)

LEMMA AppendedSide ==
    ASSUME NEW rows, Sound(rows), NEW b,
           NEW day \in Day, NEW km \in Km, NEW m \in Markers,
           Whose(Row(day, km, m)) # b,
           NEW q, q = Added(rows, Row(day, km, m))
    PROVE  Picked(q, Side(q, b)) = Picked(rows, Side(rows, b))
<1> DEFINE r == Row(day, km, m)
<1>1. Whose(r) # b /\ r \in LogRow /\ q = Append(rows, r)
  BY DEF Row, LogRow, Added
<1>2. rows \in Seq(LogRow)
  BY DEF Sound
<1> HIDE DEF r
<1>3. /\ q \in Seq(LogRow) /\ DOMAIN q = 1 .. Len(rows) + 1 /\ Len(rows) \in Nat
      /\ DOMAIN rows = 1 .. Len(rows)
      /\ q[Len(rows) + 1] = r /\ \A i \in 1 .. Len(rows) : q[i] = rows[i]
  BY <1>1, <1>2
<1>4. \A i \in DOMAIN rows :
         /\ i \in DOMAIN q
         /\ \/ q[i] = rows[i]
            \/ Whose(q[i]) # b /\ Whose(rows[i]) # b
  BY <1>3
<1>5. \A i \in DOMAIN q \ DOMAIN rows : Whose(q[i]) # b
  <2>1. \A i \in DOMAIN q \ DOMAIN rows : i = Len(rows) + 1
    BY <1>3
  <2> QED BY <1>1, <1>3, <2>1
<1>6. q \in Seq(LogRow)
  BY <1>3
<1> QED BY <1>2, <1>4, <1>5, <1>6, InPlaceSide

\* Publishing and following an event leave every record no tire marks.
LEMMA PublishedSide ==
    ASSUME NEW rows, Sound(rows), NEW day \in Day, NEW km \in Maybe(Km),
           NEW m \in Markers, m.kind \in TireKinds, IsEvent(m) => Marked(rows, m) = {}
    PROVE  OtherRecords(Publish(rows, day, km, m)) = OtherRecords(rows)
<1> DEFINE own == SameDay(rows, day) \intersect Marked(rows, m)
           q == Publish(rows, day, km, m)
<1>1. CASE q = rows
  BY <1>1
<1>2. CASE km \in Km /\ q = Append(rows, Row(day, km, m))
  <2>0. Whose(Row(day, km, m)) # "other"
    BY DEF Whose, IsTireMarked, Row
  <2>3. km \in Km /\ q = Added(rows, Row(day, km, m))
    BY <1>2 DEF Added
  <2> HIDE DEF q
  <2>1. Picked(q, Side(q, "other")) = Picked(rows, Side(rows, "other"))
    BY <2>0, <2>3, AppendedSide
  <2>2. OtherRecords(q) = OtherRecords(rows)
    BY <2>1, Sides
  <2> QED BY <2>2 DEF q
<1>3. CASE km \in Km /\ own # {} /\ q = Rewrite(rows, Max(own), day, km, m)
  <2>1. rows \in Seq(LogRow) /\ own \in SUBSET (1 .. Len(rows)) /\ Len(rows) \in Nat
    BY DEF Sound, SameDay
  <2> DEFINE k == Max(own)
  <2>2. k \in own
    <3> HIDE DEF own
    <3> QED BY <1>3, <2>1, LastOf
  <2>3. k \in DOMAIN rows /\ rows[k].marker = m /\ q = Rewrite(rows, k, day, km, m)
    BY <1>3, <2>2 DEF SameDay, Marked
  <2> HIDE DEF k, q
  <2>4. Whose(rows[k]) # "other" /\ Whose(Row(day, km, m)) # "other"
    BY <2>3 DEF Whose, IsTireMarked, Row
  <2>5. Picked(q, Side(q, "other")) = Picked(rows, Side(rows, "other"))
    BY <1>3, <2>3, <2>4, RewrittenSide
  <2>6. OtherRecords(q) = OtherRecords(rows)
    BY <2>5, Sides
  <2> QED BY <2>6 DEF q
<1>4. \/ q = rows
      \/ km \in Km /\ q = Append(rows, Row(day, km, m))
      \/ km \in Km /\ own # {} /\ q = Rewrite(rows, Max(own), day, km, m)
  BY DEF Publish, Maybe
<1> QED BY <1>1, <1>2, <1>3, <1>4

LEMMA FollowedSide ==
    ASSUME NEW rows, Sound(rows),
           NEW day \in Maybe(Day), NEW km \in Maybe(Km), NEW m \in Markers, IsEvent(m)
    PROVE  OtherRecords(Follow(rows, day, km, m)) = OtherRecords(rows)
<1> DEFINE own == Marked(rows, m)
           k == Max(own)
           without == RemoveAt(rows, k)
           q == Follow(rows, day, km, m)
<1>0. /\ rows \in Seq(LogRow) /\ Len(rows) \in Nat /\ own \in SUBSET (1 .. Len(rows))
      /\ m.kind \in TireKinds
  BY DEF Sound, Marked, IsEvent, EventKinds, TireKinds
<1>1. (day # None => day \in Day) /\ (km # None => km \in Km)
  BY DEF Maybe
<1>2. CASE own = {}
  <2>1. \/ q = rows
        \/ day \in Day /\ q = Publish(rows, day, km, m)
    BY <1>1, <1>2 DEF Follow
  <2> QED BY <1>0, <1>2, <2>1, PublishedSide
<1>3. CASE own # {}
  <2>1. k \in own
    <3> HIDE DEF own
    <3> QED BY <1>0, <1>3, LastOf
  <2>2. k \in DOMAIN rows /\ rows[k].marker = m
    BY <2>1 DEF Marked
  <2>3. \/ q = without
        \/ day \in Day /\ km \in Km /\ q = Publish(without, day, km, m)
        \/ day \in Day /\ km \in Km /\ q = Rewrite(rows, k, day, km, m)
    BY <1>1, <1>3 DEF Follow
  <2> HIDE DEF k
  <2>4. Whose(rows[k]) # "other" /\ Whose(Row(day, km, m)) # "other"
    BY <1>0, <2>2 DEF Whose, IsTireMarked, Row
  <2>5. /\ Sound(without)
        /\ \A r \in Range(without) : r.marker # m
    BY <2>2, RemovedIsSound
  <2>6. Marked(without, m) = {}
    BY <2>5 DEF Marked, Range
  <2>7. Picked(without, Side(without, "other")) = Picked(rows, Side(rows, "other"))
    BY <1>0, <2>2, <2>4, RemovedSide
  <2>8. OtherRecords(without) = OtherRecords(rows)
    BY <2>7, Sides
  <2> HIDE DEF without, q
  <2>9. CASE q = without
    BY <2>8, <2>9 DEF q
  <2>10. CASE day \in Day /\ km \in Km /\ q = Publish(without, day, km, m)
    <3>1. OtherRecords(q) = OtherRecords(without)
      BY <1>0, <2>5, <2>6, <2>10, PublishedSide DEF Maybe
    <3> QED BY <2>8, <3>1 DEF q
  <2>11. CASE day \in Day /\ km \in Km /\ q = Rewrite(rows, k, day, km, m)
    <3>1. Picked(q, Side(q, "other")) = Picked(rows, Side(rows, "other"))
      BY <2>2, <2>4, <2>11, RewrittenSide
    <3>2. OtherRecords(q) = OtherRecords(rows)
      BY <3>1, Sides
    <3> QED BY <3>2 DEF q
  <2> QED BY <2>3, <2>9, <2>10, <2>11
<1> QED BY <1>2, <1>3

\* What the vehicle's other writers do leaves every tire's record.
LEMMA RecordedSide ==
    ASSUME NEW rows, Sound(rows), NEW day \in Day, NEW km \in Km
    PROVE  TireRecords(SyncRecord(rows, day, km, Visit)) = TireRecords(rows)
<1> DEFINE own == SameDay(rows, day) \intersect Marked(rows, Visit)
           rest == Takeable(rows, day)
           q == SyncRecord(rows, day, km, Visit)
<1>0. /\ rows \in Seq(LogRow) /\ Len(rows) \in Nat
      /\ own \in SUBSET (1 .. Len(rows)) /\ rest \in SUBSET (1 .. Len(rows))
  BY DEF Sound, SameDay, Takeable
<1>1. /\ Visit \in Markers /\ ~IsEvent(Visit)
      /\ Whose(Row(day, km, Visit)) # "tire" /\ km # None
  BY MarkerKinds, NotBelowItself DEF Row, Whose, IsTireMarked, Visit, Marker, TireKinds
<1>2. \/ q = rows
      \/ q = Added(rows, Row(day, km, Visit))
      \/ own # {} /\ q = Rewrite(rows, Max(own), day, km, Visit)
      \/ rest # {} /\ q = Rewrite(rows, Max(rest), day, km, Visit)
  BY <1>1 DEF SyncRecord, Added
<1>3. own # {} => Max(own) \in own
  <2> HIDE DEF own
  <2> QED BY <1>0, LastOf
<1>4. rest # {} => Max(rest) \in rest
  <2> HIDE DEF rest
  <2> QED BY <1>0, LastOf
<1>5. \A k \in own \union rest : k \in DOMAIN rows /\ Whose(rows[k]) # "tire"
  BY DEF SameDay, Marked, Takeable, Whose, IsTireMarked, Visit, Marker, TireKinds
<1> HIDE DEF own, rest, q
<1>6. ASSUME NEW k \in own \union rest, q = Rewrite(rows, k, day, km, Visit)
      PROVE  Picked(q, Side(q, "tire")) = Picked(rows, Side(rows, "tire"))
  BY <1>1, <1>5, <1>6, RewrittenSide
<1>7. ASSUME q = Added(rows, Row(day, km, Visit))
      PROVE  Picked(q, Side(q, "tire")) = Picked(rows, Side(rows, "tire"))
  BY <1>1, <1>7, AppendedSide
<1>8. Picked(q, Side(q, "tire")) = Picked(rows, Side(rows, "tire"))
  BY <1>2, <1>3, <1>4, <1>6, <1>7
<1>9. TireRecords(q) = TireRecords(rows)
  BY <1>8, Sides
<1> QED BY <1>9 DEF q

LEMMA ReportedSide ==
    ASSUME NEW rows, Sound(rows), NEW day \in Day, NEW km \in Km
    PROVE  TireRecords(SyncFromTelemetry(rows, day, km)) = TireRecords(rows)
<1> DEFINE own == SameDay(rows, day) \intersect Marked(rows, LiveLink)
           q == SyncFromTelemetry(rows, day, km)
<1>0. /\ rows \in Seq(LogRow) /\ Len(rows) \in Nat
      /\ own \in SUBSET (1 .. Len(rows))
  BY DEF Sound, SameDay
<1>1. /\ LiveLink \in Markers /\ ~IsEvent(LiveLink)
      /\ Whose(Row(day, km, LiveLink)) # "tire"
  BY MarkerKinds DEF Row, Whose, IsTireMarked, LiveLink, Marker, TireKinds
<1>2. \/ q = rows
      \/ q = Added(rows, Row(day, km, LiveLink))
      \/ own # {} /\ q = Rewrite(rows, Max(own), day, km, LiveLink)
  BY DEF SyncFromTelemetry, Added
<1>3. own # {} => Max(own) \in own
  <2> HIDE DEF own
  <2> QED BY <1>0, LastOf
<1>5. \A k \in own : k \in DOMAIN rows /\ Whose(rows[k]) # "tire"
  BY DEF SameDay, Marked, Whose, IsTireMarked, LiveLink, Marker, TireKinds
<1> HIDE DEF own, q
<1>6. ASSUME NEW k \in own, q = Rewrite(rows, k, day, km, LiveLink)
      PROVE  Picked(q, Side(q, "tire")) = Picked(rows, Side(rows, "tire"))
  BY <1>1, <1>5, <1>6, RewrittenSide
<1>7. ASSUME q = Added(rows, Row(day, km, LiveLink))
      PROVE  Picked(q, Side(q, "tire")) = Picked(rows, Side(rows, "tire"))
  BY <1>1, <1>7, AppendedSide
<1>8. Picked(q, Side(q, "tire")) = Picked(rows, Side(rows, "tire"))
  BY <1>2, <1>3, <1>6, <1>7
<1>9. TireRecords(q) = TireRecords(rows)
  BY <1>8, Sides
<1> QED BY <1>9 DEF q

-----------------------------------------------------------------------------
(* The records of the periods' ends, and what a step does to them.         *)
Mounting(p) == <<p.on, p.at>>
Ending(p) == <<p.off, p.offAt>>

\* A record of a period's end says what the period says.
AttestedBy(pss, r) ==
    IsEvent(r.marker) =>
        /\ r.marker.tire \in Tire
        /\ r.marker.period \in DOMAIN pss[r.marker.tire]
        /\ r.marker.kind = "tire_mount" =>
              Mounting(pss[r.marker.tire][r.marker.period]) = <<r.day, r.km>>
        /\ r.marker.kind # "tire_mount" =>
              Ending(pss[r.marker.tire][r.marker.period]) = <<r.day, r.km>>

LogInv(pss, rows) == Sound(rows) /\ \A r \in Range(rows) : AttestedBy(pss, r)

LInv == IInv /\ LogInv(periods, log) /\ readings \in Seq(Reading)

\* What OneEndCovered says of one tire, and EachToTheirOwn of a step.
Covered(t) ==
    \A i \in DOMAIN periods'[t] :
        (i \notin DOMAIN periods[t] \/ ~(MountChanged(t, i) /\ EndChanged(t, i))) =>
           /\ MountChanged(t, i) => Placed(periods'[t][i].on, periods'[t][i].at)
           /\ EndChanged(t, i) => Placed(periods'[t][i].off, periods'[t][i].offAt)

Apart ==
    /\ <<tires, periods, readings>>' # <<tires, periods, readings>>
          => OtherRecords(log') = OtherRecords(log)
    /\ OtherRecords(log') # OtherRecords(log) => TireRecords(log') = TireRecords(log)

Kept == LogInv(periods', log') /\ (\A t \in Tire : Covered(t)) /\ Apart

\* A step that writes no period, and no record of a period's end.
LEMMA NoPeriodKept ==
    ASSUME LInv, periods' = periods, Sound(log'),
           \A r \in Range(log') : r \in Range(log) \/ ~IsEvent(r.marker),
           Apart
    PROVE  Kept
<1>1. LogInv(periods', log')
  BY DEF LInv, LogInv, AttestedBy
<1>2. \A t \in Tire : Covered(t)
  BY DEF Covered, MountChanged, EndChanged
<1> QED BY <1>1, <1>2 DEF Kept

LEMMA Outcome ==
    ASSUME NEW flushed, NEW touched, NEW records,
           Transact(flushed, touched, records)
    PROVE  \/ periods' = flushed[Len(flushed)].periods /\ log' = records
                /\ readings' = readings
           \/ UNCHANGED <<tires, periods, readings, log>>
BY DEF Transact

LEMMA UnchangedKept ==
    ASSUME LInv, UNCHANGED <<tires, periods, readings, log>>
    PROVE  Kept
<1>1. Apart
  BY DEF Apart
<1> QED BY <1>1, NoPeriodKept DEF LInv, LogInv

\* What a mount, a dismount or a move at one date and figure does to a tire's
\* history: what is known of a period stays.
Lasting(ps, qs) ==
    \A i \in DOMAIN ps :
        /\ i \in DOMAIN qs /\ Mounting(qs[i]) = Mounting(ps[i])
        /\ ps[i].off # None => Ending(qs[i]) = Ending(ps[i])

Written(ps, qs, when, km) ==
    /\ Lasting(ps, qs)
    /\ \A i \in DOMAIN qs :
          /\ i \in DOMAIN ps \/ Mounting(qs[i]) = <<when, km>>
          /\ \/ i \in DOMAIN ps /\ Ending(qs[i]) = Ending(ps[i])
             \/ Ending(qs[i]) = <<when, km>>
             \/ qs[i].off = None

LEMMA ClosedWritten ==
    ASSUME NEW ps \in Seq(Period), NEW when \in Day, NEW km \in Maybe(Km)
    PROVE  Written(ps, Closed(ps, when, km), when, km)
<1> DEFINE qs == Closed(ps, when, km)
<1>1. DOMAIN qs = DOMAIN ps
  BY DEF Closed
<1>2. ASSUME NEW i \in DOMAIN ps
      PROVE  \/ qs[i] = ps[i]
             \/ /\ ps[i].off = None /\ Mounting(qs[i]) = Mounting(ps[i])
                /\ Ending(qs[i]) = <<when, km>>
  <2>1. ps[i] \in Period
    OBVIOUS
  <2>2. \/ qs[i] = ps[i]
        \/ ps[i].off = None /\ qs[i] = [ps[i] EXCEPT !.off = when, !.offAt = km]
    BY DEF Closed, OpenIds
  <2> QED BY <2>1, <2>2 DEF Mounting, Ending, Period
<1> HIDE DEF qs
<1>3. Written(ps, qs, when, km)
  BY <1>1, <1>2 DEF Written, Lasting
<1> QED BY <1>3 DEF qs

LEMMA OpenedWritten ==
    ASSUME NEW ps \in Seq(Period), NEW qs \in Seq(Period), NEW c, NEW when, NEW km,
           Written(ps, qs, when, km), DOMAIN qs = DOMAIN ps
    PROVE  Written(ps, Append(qs, Opened(c, when, km)), when, km)
<1> DEFINE p == Opened(c, when, km)
           us == Append(qs, p)
<1>1. Mounting(p) = <<when, km>> /\ p.off = None
  BY DEF Opened, Mounting
<1> HIDE DEF p
<1>2. /\ DOMAIN us = 1 .. Len(qs) + 1 /\ Len(qs) \in Nat /\ DOMAIN qs = 1 .. Len(qs)
      /\ us[Len(qs) + 1] = p /\ \A i \in 1 .. Len(qs) : us[i] = qs[i]
  OBVIOUS
<1> HIDE DEF us
<1>3. \A i \in DOMAIN ps : i \in DOMAIN us /\ us[i] = qs[i]
  BY <1>2
<1>4. \A i \in DOMAIN us : \/ i \in DOMAIN qs /\ us[i] = qs[i]
                          \/ us[i] = p
  BY <1>2
<1>5. Written(ps, us, when, km)
  BY <1>1, <1>3, <1>4 DEF Written, Lasting
<1> QED BY <1>5 DEF us, p

LEMMA UnwrittenWritten == \A ps, when, km : Written(ps, ps, when, km)
BY DEF Written, Lasting

\* A record attested before is attested after.
LEMMA StillAttested ==
    ASSUME NEW pss, NEW qss, \A t \in Tire : Lasting(pss[t], qss[t]),
           NEW r \in LogRow, AttestedBy(pss, r)
    PROVE  AttestedBy(qss, r)
<1> SUFFICES ASSUME IsEvent(r.marker) PROVE AttestedBy(qss, r)
  BY DEF AttestedBy
<1> DEFINE t == r.marker.tire
           i == r.marker.period
<1>1. r.day \in Day /\ r.day # None
  BY NotBelowItself DEF LogRow
<1>2. /\ t \in Tire /\ i \in DOMAIN pss[t]
      /\ r.marker.kind = "tire_mount" => Mounting(pss[t][i]) = <<r.day, r.km>>
      /\ r.marker.kind # "tire_mount" => Ending(pss[t][i]) = <<r.day, r.km>>
  BY DEF AttestedBy
<1>3. /\ i \in DOMAIN qss[t] /\ Mounting(qss[t][i]) = Mounting(pss[t][i])
      /\ pss[t][i].off # None => Ending(qss[t][i]) = Ending(pss[t][i])
  BY <1>2 DEF Written, Lasting
<1>4. r.marker.kind # "tire_mount" => pss[t][i].off # None
  BY <1>1, <1>2 DEF Ending
<1> QED BY <1>2, <1>3, <1>4 DEF AttestedBy

\* A step that publishes one date and figure.
LEMMA MovedKept ==
    ASSUME LInv, NEW flushed, NEW pss, flushed[Len(flushed)].periods = pss,
           NEW when \in Day, NEW km \in Maybe(Km), NEW m \in Markers, m.kind \in TireKinds,
           NEW touched,
           Transact(flushed, touched, Publish(log, when, km, m)),
           \A t \in Tire : Written(periods[t], pss[t], when, km),
           IsEvent(m) => Marked(log, m) = {} /\ AttestedBy(pss, Row(when, km, m))
    PROVE  Kept
<1> DEFINE q == Publish(log, when, km, m)
<1>0. km \in Maybe(Km) /\ Sound(log)
  BY DEF LInv, LogInv
<1>1. /\ Sound(q)
      /\ \A r \in Range(q) : r \in Range(log) \/ (km \in Km /\ r = Row(when, km, m))
      /\ km # None => HighestOn(q, when, km)
  BY <1>0, Published
<1>2. OtherRecords(q) = OtherRecords(log)
  BY <1>0, PublishedSide
<1>3. CASE UNCHANGED <<tires, periods, readings, log>>
  BY <1>3, UnchangedKept
<1>4. CASE periods' = pss /\ log' = q
  <2> HIDE DEF q
  <2>1. \A r \in Range(log') : AttestedBy(pss, r)
    <3> SUFFICES ASSUME NEW r \in Range(q) PROVE AttestedBy(pss, r)
      BY <1>4
    <3>1. CASE r \in Range(log)
      <4>1. r \in LogRow
        BY <1>0, <3>1 DEF Sound, Range
      <4>2. AttestedBy(periods, r)
        BY <3>1 DEF LInv, LogInv
      <4>3. \A t \in Tire : Lasting(periods[t], pss[t])
        BY DEF Written
      <4> QED BY <4>1, <4>2, <4>3, StillAttested
    <3>2. CASE r = Row(when, km, m)
      <4>1. r.marker = m
        BY <3>2 DEF Row
      <4> QED BY <3>2, <4>1 DEF AttestedBy
    <3> QED BY <1>1, <3>1, <3>2
  <2>2. ASSUME NEW t \in Tire PROVE Covered(t)
    <3>1. Placed(when, km)
      BY <1>1, <1>4 DEF Placed, Known
    <3>2. SUFFICES ASSUME NEW i \in DOMAIN pss[t]
          PROVE  /\ MountChanged(t, i) => Placed(pss[t][i].on, pss[t][i].at)
                 /\ EndChanged(t, i) => Placed(pss[t][i].off, pss[t][i].offAt)
      BY <1>4 DEF Covered
    <3>3. Written(periods[t], pss[t], when, km)
      OBVIOUS
    <3>4. MountChanged(t, i) => pss[t][i].on = when /\ pss[t][i].at = km
      BY <1>4, <3>3 DEF MountChanged, Written, Lasting, Mounting
    <3>5. EndChanged(t, i) => \/ pss[t][i].off = when /\ pss[t][i].offAt = km
                              \/ pss[t][i].off = None
      BY <1>4, <3>3 DEF EndChanged, Written, Ending
    <3> QED BY <3>1, <3>4, <3>5 DEF Placed, Known
  <2>3. Apart
    BY <1>2, <1>4 DEF Apart
  <2> QED BY <1>1, <1>4, <2>1, <2>2, <2>3 DEF Kept, LogInv
<1> QED BY <1>3, <1>4, Outcome

\* The marker of an end no record has yet.
LEMMA EndMarked ==
    ASSUME LInv, NEW t \in Tire, NEW when \in Day, NEW km \in Maybe(Km),
           NEW pss, pss[t] = Closed(periods[t], when, km)
    PROVE  /\ EndMarker(t) \in Markers /\ EndMarker(t).kind \in TireKinds
           /\ IsEvent(EndMarker(t)) =>
                 /\ Marked(log, EndMarker(t)) = {}
                 /\ AttestedBy(pss, Row(when, km, EndMarker(t)))
<1> DEFINE ps == periods[t]
           m == EndMarker(t)
<1>1. ps \in Seq(Period) /\ \A i, j \in OpenIds(ps) : i = j
  BY OneOpen DEF LInv
<1>2. CASE OpenIds(ps) = {}
  <2>1. EndMarker(t) = Marker("tire", t, 0)
    BY <1>2 DEF EndMarker
  <2>2. /\ Marker("tire", t, 0) \in Markers /\ Marker("tire", t, 0).kind \in TireKinds
        /\ ~IsEvent(Marker("tire", t, 0))
    BY MarkerKinds DEF TireKinds
  <2> QED BY <2>1, <2>2
<1>3. CASE OpenIds(ps) # {}
  <2> DEFINE i == Max(OpenIds(ps))
  <2>1. i \in OpenIds(ps)
    <3>1. OpenIds(ps) \in SUBSET (1 .. Len(ps)) /\ Len(ps) \in Nat
      BY <1>1 DEF OpenIds
    <3> QED BY <1>3, <3>1, LastOf
  <2>2. m = Marker("tire_dismount", t, i)
    BY <1>3 DEF EndMarker
  <2>3. /\ i \in DOMAIN ps /\ i \in Nat /\ ps[i].off = None /\ ps[i] \in Period
        /\ \A j \in OpenIds(ps) : j = i
    <3>1. \A j \in OpenIds(ps) : j = i
      BY <1>1, <2>1
    <3> HIDE DEF i
    <3>2. i \in DOMAIN ps /\ ps[i].off = None
      BY <2>1 DEF OpenIds
    <3> QED BY <1>1, <3>1, <3>2
  <2> HIDE DEF i, m
  <2>4. /\ m \in Markers /\ m.kind = "tire_dismount" /\ m.tire = t /\ m.period = i
    BY <2>2, <2>3, MarkerKinds DEF EventKinds
  <2>5. Marked(log, m) = {}
    <3> SUFFICES ASSUME NEW k \in DOMAIN log, log[k].marker = m PROVE FALSE
      BY DEF Marked
    <3>1. log[k] \in LogRow /\ AttestedBy(periods, log[k])
      BY DEF LInv, LogInv, Sound, Range
    <3>2. Ending(ps[i]) = <<log[k].day, log[k].km>>
      BY <2>4, <3>1 DEF AttestedBy, IsEvent, EventKinds
    <3>3. log[k].day # None
      BY <3>1, NotBelowItself DEF LogRow
    <3> QED BY <2>3, <3>2, <3>3 DEF Ending
  <2>6. /\ i \in DOMAIN pss[t] /\ Ending(pss[t][i]) = <<when, km>>
    <3>1. DOMAIN Closed(ps, when, km) = DOMAIN ps
      BY DEF Closed
    <3>2. \A j \in OpenIds(ps) : j <= i
      BY <2>3
    <3>3. Closed(ps, when, km)[i] = [ps[i] EXCEPT !.off = when, !.offAt = km]
      BY <2>1, <2>3, <3>2 DEF Closed
    <3> QED BY <2>3, <3>1, <3>3 DEF Ending, Period
  <2>7. AttestedBy(pss, Row(when, km, m))
    BY <2>4, <2>6 DEF AttestedBy, Row
  <2>8. EndMarker(t) = m
    BY DEF m
  <2> QED BY <2>4, <2>5, <2>7, <2>8 DEF TireKinds
<1> QED BY <1>2, <1>3

LEMMA StartMarked ==
    ASSUME LInv, NEW t \in Tire, NEW when \in Day, NEW km \in Maybe(Km), NEW c,
           NEW new, new = Len(periods[t]) + 1,
           NEW pss, pss[t] = Append(periods[t], Opened(c, when, km)),
           NEW m, m = Marker("tire_mount", t, new)
    PROVE  /\ m \in Markers /\ m.kind \in TireKinds
           /\ Marked(log, m) = {} /\ AttestedBy(pss, Row(when, km, m))
<1>1. periods[t] \in Seq(Period)
  BY OneOpen DEF LInv
<1>2. new \in Nat /\ new \notin DOMAIN periods[t]
  BY <1>1
<1>3. new \in DOMAIN pss[t] /\ pss[t][new] = Opened(c, when, km)
  BY <1>1
<1>4. m \in Markers /\ m.kind = "tire_mount" /\ m.tire = t /\ m.period = new
  BY <1>2, MarkerKinds DEF EventKinds
<1>5. Marked(log, m) = {}
  <2> SUFFICES ASSUME NEW k \in DOMAIN log, log[k].marker = m PROVE FALSE
    BY DEF Marked
  <2>1. AttestedBy(periods, log[k])
    BY DEF LInv, LogInv, Range
  <2> QED BY <1>2, <1>4, <2>1 DEF AttestedBy, IsEvent, EventKinds
<1>6. AttestedBy(pss, Row(when, km, m))
  BY <1>3, <1>4 DEF AttestedBy, Row, Opened, Mounting
<1> QED BY <1>4, <1>5, <1>6 DEF TireKinds

LEMMA CreateAndMountKept ==
    ASSUME LInv, NEW t \in Tire, NEW c \in Corner, NEW when \in Day, NEW km \in Maybe(Km),
           CreateAndMount(t, c, when, km)
    PROVE  Kept
<1> DEFINE p == Opened(c, when, km)
           pss == [periods EXCEPT ![t] = <<p>>]
           ts == [tires EXCEPT ![t] = NewTire(c)]
           m == Marker("tire_mount", t, 1)
<1>1. /\ Good(tires, periods) /\ t \notin Owned
      /\ Transact(<<State(ts, pss)>>, OfTire(t, {1}), Publish(log, when, km, m))
  BY DEF LInv, IInv, CreateAndMount
<1>2. periods[t] = <<>> /\ periods[t] \in Seq(Period)
  BY <1>1, UnusedRow
<1>3. \A u \in Tire : pss[u] = IF u = t THEN <<p>> ELSE periods[u]
  BY <1>1 DEF Good, Shaped
<1>4. pss[t] = Append(periods[t], p) /\ Len(periods[t]) + 1 = 1
  BY <1>2, <1>3
<1> HIDE DEF pss
<1>5. <<State(ts, pss)>>[Len(<<State(ts, pss)>>)].periods = pss
  BY DEF State
<1>6. /\ m \in Markers /\ m.kind \in TireKinds
      /\ Marked(log, m) = {} /\ AttestedBy(pss, Row(when, km, m))
  BY <1>4, StartMarked
<1>7. \A u \in Tire : Written(periods[u], pss[u], when, km)
  <2>1. Written(periods[t], pss[t], when, km)
    BY <1>2, <1>4, UnwrittenWritten, OpenedWritten
  <2> QED BY <1>3, <2>1, UnwrittenWritten
<1> HIDE DEF m, ts
<1> QED BY <1>1, <1>5, <1>6, <1>7, MovedKept

LEMMA MountKept ==
    ASSUME LInv, NEW t \in Tire, NEW c \in Corner, NEW when \in Day, NEW km \in Maybe(Km),
           Mount(t, c, when, km)
    PROVE  Kept
<1> DEFINE p == Opened(c, when, km)
           new == Len(periods[t]) + 1
           pss == [periods EXCEPT ![t] = Append(periods[t], p)]
           ts == [tires EXCEPT ![t].position = c]
           m == Marker("tire_mount", t, new)
<1>1. /\ Good(tires, periods)
      /\ Transact(<<State(ts, pss)>>, OfTire(t, {new}), Publish(log, when, km, m))
  BY DEF LInv, IInv, Mount
<1>2. periods[t] \in Seq(Period)
  BY OneOpen DEF LInv
<1>3. \A u \in Tire : pss[u] = IF u = t THEN Append(periods[t], p) ELSE periods[u]
  BY <1>1 DEF Good, Shaped
<1> HIDE DEF pss
<1>5. <<State(ts, pss)>>[Len(<<State(ts, pss)>>)].periods = pss
  BY DEF State
<1>6. /\ m \in Markers /\ m.kind \in TireKinds
      /\ Marked(log, m) = {} /\ AttestedBy(pss, Row(when, km, m))
  BY <1>3, StartMarked
<1>7. \A u \in Tire : Written(periods[u], pss[u], when, km)
  <2>1. Written(periods[t], pss[t], when, km)
    BY <1>2, <1>3, UnwrittenWritten, OpenedWritten
  <2> QED BY <1>3, <2>1, UnwrittenWritten
<1> HIDE DEF m, ts
<1> QED BY <1>1, <1>5, <1>6, <1>7, MovedKept

\* A transaction that closes the open period of one tire.
LEMMA ClosingKept ==
    ASSUME LInv, NEW t \in Tire, NEW when \in Day, NEW km \in Maybe(Km),
           NEW ts, NEW touched,
           Transact(<<State(ts, [periods EXCEPT ![t] = Closed(periods[t], when, km)])>>,
                    touched, Publish(log, when, km, EndMarker(t)))
    PROVE  Kept
<1> DEFINE pss == [periods EXCEPT ![t] = Closed(periods[t], when, km)]
           m == EndMarker(t)
<1>1. Good(tires, periods) /\ periods[t] \in Seq(Period)
  BY OneOpen DEF LInv, IInv
<1>2. \A u \in Tire : pss[u] = IF u = t THEN Closed(periods[t], when, km) ELSE periods[u]
  BY <1>1 DEF Good, Shaped
<1> HIDE DEF pss
<1>3. <<State(ts, pss)>>[Len(<<State(ts, pss)>>)].periods = pss
  BY DEF State
<1>4. /\ m \in Markers /\ m.kind \in TireKinds
      /\ IsEvent(m) => Marked(log, m) = {} /\ AttestedBy(pss, Row(when, km, m))
  BY <1>2, EndMarked
<1>5. \A u \in Tire : Written(periods[u], pss[u], when, km)
  BY <1>1, <1>2, ClosedWritten, UnwrittenWritten
<1>6. Transact(<<State(ts, pss)>>, touched, Publish(log, when, km, m))
  BY DEF pss
<1> HIDE DEF m
<1> QED BY <1>3, <1>4, <1>5, <1>6, MovedKept

LEMMA DismountKept ==
    ASSUME LInv, NEW t \in Tire, NEW when \in Day, NEW km \in Maybe(Km), Dismount(t, when, km)
    PROVE  Kept
BY ClosingKept DEF Dismount

LEMMA RetireKept ==
    ASSUME LInv, NEW t \in Tire, NEW when \in Day, NEW km \in Maybe(Km), Retire(t, when, km)
    PROVE  Kept
<1>1. CASE tires[t].position # None
  BY <1>1, ClosingKept DEF Retire
<1>2. CASE tires[t].position = None
  <2> DEFINE ts == [tires EXCEPT ![t].position = None, ![t].retired = TRUE]
             m == Marker("tire", t, 0)
  <2>1. Transact(<<State(ts, periods)>>, OfTire(t, {}), Publish(log, when, km, m))
    BY <1>2 DEF Retire
  <2>2. m \in Markers /\ m.kind \in TireKinds /\ ~IsEvent(m)
    BY MarkerKinds DEF TireKinds
  <2>3. <<State(ts, periods)>>[Len(<<State(ts, periods)>>)].periods = periods
    BY DEF State
  <2> HIDE DEF ts, m
  <2> QED BY <2>1, <2>2, <2>3, UnwrittenWritten, MovedKept
<1> QED BY <1>1, <1>2

\* A transaction of moves.
LEMMA MovesKept ==
    ASSUME LInv, NEW vacate, NEW assign, NEW when \in Day, NEW km \in Maybe(Km),
           NEW flushed, flushed = ApplyMoves(vacate, assign, when, km),
           NEW m \in Markers, m.kind \in TireKinds, ~IsEvent(m),
           NEW touched,
           Transact(flushed, touched, Publish(log, when, km, m))
    PROVE  Kept
<1> DEFINE first == Vacated(State(tires, periods), vacate, when, km)
           last == Assigned(first, assign, when, km)
           pss == last.periods
<1>1. flushed = <<first, last>> /\ Len(flushed) = 2 /\ flushed[Len(flushed)] = last
  BY DEF ApplyMoves
<1>2. ASSUME NEW u \in Tire PROVE Written(periods[u], pss[u], when, km)
  <2> DEFINE closed == IF u \in vacate THEN Closed(periods[u], when, km) ELSE periods[u]
             final == IF u \in DOMAIN assign
                      THEN Append(closed, Opened(assign[u], when, km)) ELSE closed
  <2>1. pss[u] = final
    BY DEF Vacated, Assigned, State
  <2>2. periods[u] \in Seq(Period) /\ \A i, j \in OpenIds(periods[u]) : i = j
    BY OneOpen DEF LInv
  <2>3. Written(periods[u], closed, when, km)
    BY <2>2, ClosedWritten, UnwrittenWritten
  <2>4. closed \in Seq(Period) /\ DOMAIN closed = DOMAIN periods[u]
    BY <2>2, ClosedHistory, ClosingTraced
  <2> HIDE DEF closed
  <2>5. Written(periods[u], final, when, km)
    BY <2>2, <2>3, <2>4, OpenedWritten
  <2> QED BY <2>1, <2>5
<1> HIDE DEF pss, last, first
<1>3. flushed[Len(flushed)].periods = pss
  BY <1>1 DEF pss
<1> QED BY <1>2, <1>3, MovedKept

LEMMA LeastOf ==
    ASSUME NEW S \in SUBSET Tire, S # {}
    PROVE  Min(S) \in S
<1> DEFINE T == S
<1>1. T \in SUBSET Nat /\ T # {}
  BY TireAssumption
<1> HIDE DEF T
<1>2. PICK x \in T : \A y \in T : <<y, x>> \notin OpToRel(<, Nat)
  BY <1>1, NatLessThanWellFounded, WFMin
<1>3. ASSUME NEW y \in T PROVE x =< y
  <2>1. x \in Nat /\ y \in Nat
    BY <1>1
  <2>2. ~(y < x)
    BY <1>2, <2>1, Zenon DEF OpToRel
  <2> QED BY <2>1, <2>2
<1>4. \E u \in T : \A y \in T : u =< y
  BY <1>3
<1>5. Min(T) \in T
  BY <1>4, Zenon DEF Min
<1> QED BY <1>5 DEF T

LEMMA RotateKept ==
    ASSUME LInv, NEW moves \in Moves, NEW when \in Day, NEW km \in Maybe(Km),
           Rotate(moves, when, km)
    PROVE  Kept
<1> DEFINE flushed == ApplyMoves(DOMAIN moves, moves, when, km)
           first == Min(DOMAIN moves)
           m == Marker("tire_rotation", first, 0)
<1>1. first \in Tire
  <2>1. InUse \subseteq Tire
    BY DEF InUse, Owned
  <2>2. DOMAIN moves \in (SUBSET InUse) \ {{}}
    BY DEF Moves
  <2>3. DOMAIN moves \in SUBSET Tire /\ DOMAIN moves # {}
    BY <2>1, <2>2
  <2>4. Min(DOMAIN moves) \in DOMAIN moves
    BY <2>3, LeastOf
  <2> QED BY <2>3, <2>4
<1>2. m \in Markers /\ m.kind \in TireKinds /\ ~IsEvent(m)
  BY <1>1, MarkerKinds DEF TireKinds
<1>3. Transact(flushed, TouchedBy(flushed, DOMAIN moves),
               Publish(log, when, km, m))
  BY DEF Rotate
<1> HIDE DEF m, flushed
<1>4. flushed = ApplyMoves(DOMAIN moves, moves, when, km)
  BY DEF flushed
<1> QED BY <1>2, <1>3, <1>4, MovesKept

LEMMA MountSetKept ==
    ASSUME LInv, NEW when \in Day, NEW km \in Maybe(Km), MountSet(when, km)
    PROVE  Kept
<1> DEFINE wanted == {Remembered(t) : t \in Members}
           displaced == (UNION {At(c) : c \in wanted}) \ Members
           moving == {t \in Members : tires[t].position # Remembered(t)}
           assign == [t \in moving |-> Remembered(t)]
           vacate == displaced \union {t \in moving : tires[t].position # None}
           flushed == ApplyMoves(vacate, assign, when, km)
<1>1. Transact(flushed, TouchedBy(flushed, displaced \union moving),
               Publish(log, when, km, SetFit))
  BY Zenon DEF MountSet
<1>2. SetFit \in Markers /\ SetFit.kind \in TireKinds /\ ~IsEvent(SetFit)
  BY MarkerKinds DEF SetFit, Marker, TireKinds
<1> HIDE DEF assign, vacate
<1> QED BY <1>1, <1>2, MovesKept

-----------------------------------------------------------------------------
(* The operations on the history.                                          *)
LEMMA NewMarked ==
    ASSUME LInv, NEW t \in Tire, NEW new, new = Len(periods[t]) + 1,
           NEW kind \in EventKinds, NEW m, m = Marker(kind, t, new)
    PROVE  /\ m \in Markers /\ IsEvent(m) /\ m.kind \in TireKinds
           /\ m.kind = kind /\ m.tire = t /\ m.period = new
           /\ Marked(log, m) = {}
<1>1. periods[t] \in Seq(Period)
  BY OneOpen DEF LInv
<1>2. new \in Nat /\ new \notin DOMAIN periods[t]
  BY <1>1
<1>3. m \in Markers /\ m.kind = kind /\ m.tire = t /\ m.period = new
  BY <1>2, MarkerKinds
<1>4. Marked(log, m) = {}
  <2> SUFFICES ASSUME NEW k \in DOMAIN log, log[k].marker = m PROVE FALSE
    BY DEF Marked
  <2>1. AttestedBy(periods, log[k])
    BY DEF LInv, LogInv, Range
  <2> QED BY <1>2, <1>3, <2>1 DEF AttestedBy, IsEvent
<1> QED BY <1>3, <1>4 DEF TireKinds, EventKinds, IsEvent

LEMMA AddPastKept ==
    ASSUME LInv, NEW t \in Tire, NEW p \in Period, AddPast(t, p)
    PROVE  Kept
<1> DEFINE new == Len(periods[t]) + 1
           pss == [periods EXCEPT ![t] = Append(periods[t], p)]
           mounted == Marker("tire_mount", t, new)
           dismounted == Marker("tire_dismount", t, new)
           once == Publish(log, p.on, p.at, mounted)
           twice == Publish(once, p.off, p.offAt, dismounted)
<1>1. /\ p.on # None /\ p.off # None
      /\ Transact(<<State(tires, pss)>>, OfTire(t, {new}), twice)
  BY DEF AddPast
<1>2. /\ p.on \in Day /\ p.off \in Day
      /\ p.at \in Maybe(Km) /\ p.offAt \in Maybe(Km)
  BY <1>1 DEF Period, Maybe
<1>3. periods[t] \in Seq(Period) /\ periods \in [Tire -> Seq(Period)] /\ Sound(log)
  BY OneOpen DEF LInv, IInv, Good, Shaped, LogInv
<1>4. /\ \A u \in Tire : pss[u] = IF u = t THEN Append(periods[t], p) ELSE periods[u]
      /\ new \in DOMAIN pss[t] /\ pss[t][new] = p
      /\ \A i \in DOMAIN pss[t] : i \in DOMAIN periods[t] \/ i = new
      /\ \A i \in DOMAIN periods[t] : i \in DOMAIN pss[t] /\ pss[t][i] = periods[t][i]
      /\ new \notin DOMAIN periods[t]
  BY <1>3
<1>5. <<State(tires, pss)>>[Len(<<State(tires, pss)>>)].periods = pss
  BY DEF State
<1> DEFINE isNew(m) == /\ m \in Markers /\ IsEvent(m) /\ m.kind \in TireKinds
                       /\ m.tire = t /\ m.period = new
                       /\ Marked(log, m) = {}
<1>6. /\ isNew(mounted) /\ mounted.kind = "tire_mount"
      /\ isNew(dismounted) /\ dismounted.kind = "tire_dismount"
  BY NewMarked DEF EventKinds
<1> HIDE DEF new, pss, mounted, dismounted
<1>7. /\ Sound(once)
      /\ \A r \in Range(once) : \/ r \in Range(log)
                                \/ p.at \in Km /\ r = Row(p.on, p.at, mounted)
      /\ p.at # None => HighestOn(once, p.on, p.at)
      /\ OtherRecords(once) = OtherRecords(log)
  BY <1>2, <1>3, <1>6, Published, PublishedSide
<1>8. Marked(once, dismounted) = {}
  <2> SUFFICES ASSUME NEW k \in DOMAIN once, once[k].marker = dismounted PROVE FALSE
    BY DEF Marked
  <2>1. once[k] \in Range(once)
    BY DEF Range
  <2> HIDE DEF once
  <2>2. CASE once[k] \in Range(log)
    BY <1>6, <2>2 DEF Range, Marked
  <2>3. CASE once[k] = Row(p.on, p.at, mounted)
    BY <1>6, <2>3 DEF Row
  <2> QED BY <1>7, <2>1, <2>2, <2>3
<1> HIDE DEF once
<1>9. /\ Sound(twice)
      /\ \A r \in Range(twice) : \/ r \in Range(once)
                                 \/ p.offAt \in Km /\ r = Row(p.off, p.offAt, dismounted)
      /\ p.offAt # None => HighestOn(twice, p.off, p.offAt)
      /\ \A d, x : HighestOn(once, d, x) => HighestOn(twice, d, x)
      /\ OtherRecords(twice) = OtherRecords(once)
  BY <1>2, <1>6, <1>7, <1>8, Published, PublishedSide
<1> HIDE DEF twice
<1>10. CASE UNCHANGED <<tires, periods, readings, log>>
  BY <1>10, UnchangedKept
<1>11. CASE periods' = pss /\ log' = twice
  <2>1. ASSUME NEW r \in Range(log') PROVE AttestedBy(pss, r)
    <3>1. CASE r \in Range(log)
      <4>1. r \in LogRow
        BY <1>3, <3>1 DEF Sound, Range
      <4>2. AttestedBy(periods, r)
        BY <3>1 DEF LInv, LogInv
      <4>3. \A u \in Tire : Lasting(periods[u], pss[u])
        BY <1>4 DEF Lasting
      <4> QED BY <4>1, <4>2, <4>3, StillAttested
    <3>2. CASE r = Row(p.on, p.at, mounted)
      BY <1>4, <1>6, <3>2 DEF AttestedBy, Row, Mounting
    <3>3. CASE r = Row(p.off, p.offAt, dismounted)
      BY <1>4, <1>6, <3>3 DEF AttestedBy, Row, Ending
    <3> QED BY <1>7, <1>9, <1>11, <2>1, <3>1, <3>2, <3>3
  <2>2. ASSUME NEW u \in Tire PROVE Covered(u)
    <3>1. CASE u # t
      BY <1>4, <1>11, <3>1 DEF Covered, MountChanged, EndChanged
    <3>2. CASE u = t
      <4>1. Placed(p.on, p.at) /\ Placed(p.off, p.offAt)
        BY <1>7, <1>9, <1>11 DEF Placed, Known
      <4> QED BY <1>4, <1>11, <3>2, <4>1 DEF Covered, MountChanged, EndChanged
    <3> QED BY <3>1, <3>2
  <2>3. Apart
    BY <1>7, <1>9, <1>11 DEF Apart
  <2> QED BY <1>9, <1>11, <2>1, <2>2, <2>3 DEF Kept, LogInv
<1> QED BY <1>1, <1>5, <1>10, <1>11, Outcome

LEMMA FollowIfDoes ==
    ASSUME NEW rows, Sound(rows), NEW changed \in BOOLEAN,
           NEW day \in Maybe(Day), NEW km \in Maybe(Km), NEW m \in Markers, IsEvent(m),
           NEW q, q = FollowIf(changed, rows, day, km, m)
    PROVE  /\ Sound(q)
           /\ \A r \in Range(q) :
                 \/ r \in Range(rows) /\ (changed => r.marker # m)
                 \/ r = Row(day, km, m)
           /\ changed /\ day # None /\ km # None => HighestOn(q, day, km)
           /\ OtherRecords(q) = OtherRecords(rows)
           /\ ~changed => q = rows
<1>1. CASE ~changed
  BY <1>1 DEF FollowIf
<1>2. CASE changed
  <2>1. q = Follow(rows, day, km, m)
    BY <1>2 DEF FollowIf
  <2>2. /\ Sound(q)
        /\ \A r \in Range(q) :
              \/ r \in Range(rows) /\ r.marker # m
              \/ day \in Day /\ km \in Km /\ r = Row(day, km, m)
        /\ day # None /\ km # None => HighestOn(q, day, km)
    BY <2>1, Followed
  <2>3. OtherRecords(q) = OtherRecords(rows)
    BY <2>1, FollowedSide
  <2>4. \A r \in Range(q) :
           \/ r \in Range(rows) /\ (changed => r.marker # m)
           \/ r = Row(day, km, m)
    BY <2>2
  <2> QED BY <1>2, <2>2, <2>3, <2>4
<1> QED BY <1>1, <1>2

LEMMA EditPeriodKept ==
    ASSUME LInv, NEW t \in Tire, NEW i \in DOMAIN periods[t], NEW p \in Period,
           EditPeriod(t, i, p)
    PROVE  Kept
<1> DEFINE old == periods[t][i]
           pss == [periods EXCEPT ![t][i] = p]
           mounted == Marker("tire_mount", t, i)
           dismounted == Marker("tire_dismount", t, i)
           starts == Mounting(p) # Mounting(old)
           ends == Ending(p) # Ending(old)
           once == FollowIf(starts, log, p.on, p.at, mounted)
           twice == FollowIf(ends, once, p.off, p.offAt, dismounted)
<1>1. Transact(<<State(tires, pss)>>, OfTire(t, {i}), twice)
  BY DEF EditPeriod, Mounting, Ending
<1>2. /\ p.on \in Maybe(Day) /\ p.off \in Maybe(Day)
      /\ p.at \in Maybe(Km) /\ p.offAt \in Maybe(Km)
  BY DEF Period
<1>3. periods[t] \in Seq(Period) /\ periods \in [Tire -> Seq(Period)] /\ Sound(log)
  BY OneOpen DEF LInv, IInv, Good, Shaped, LogInv
<1>4. /\ \A u \in Tire \ {t} : pss[u] = periods[u]
      /\ DOMAIN pss[t] = DOMAIN periods[t] /\ pss[t][i] = p
      /\ \A j \in DOMAIN periods[t] \ {i} : pss[t][j] = periods[t][j]
      /\ i \in Nat
  BY <1>3
<1>5. <<State(tires, pss)>>[Len(<<State(tires, pss)>>)].periods = pss
  BY DEF State
<1>6. /\ mounted \in Markers /\ IsEvent(mounted)
      /\ mounted.kind = "tire_mount" /\ mounted.tire = t /\ mounted.period = i
      /\ dismounted \in Markers /\ IsEvent(dismounted)
      /\ dismounted.kind = "tire_dismount" /\ dismounted.tire = t /\ dismounted.period = i
  BY <1>4, MarkerKinds DEF EventKinds, IsEvent
<1>7. starts \in BOOLEAN /\ ends \in BOOLEAN
  BY Zenon
<1> HIDE DEF pss, starts, ends
<1>a. ASSUME NEW r \in LogRow, IsEvent(r.marker), r.marker.tire = t, r.marker.period = i
      PROVE  r.marker = mounted \/ r.marker = dismounted
  <2>1. r.marker \in Markers /\ r.marker.kind \in EventKinds
    BY <1>a DEF LogRow, IsEvent
  <2>2. r.marker = Marker(r.marker.kind, t, i)
    BY <1>a, <2>1, MarkerKinds
  <2> QED BY <2>1, <2>2 DEF EventKinds
<1> HIDE DEF mounted, dismounted
<1>8. /\ Sound(once)
      /\ \A r \in Range(once) : \/ r \in Range(log) /\ (starts => r.marker # mounted)
                                \/ r = Row(p.on, p.at, mounted)
      /\ starts /\ p.on # None /\ p.at # None => HighestOn(once, p.on, p.at)
      /\ OtherRecords(once) = OtherRecords(log)
      /\ ~starts => once = log
  BY <1>2, <1>3, <1>6, <1>7, FollowIfDoes
<1> HIDE DEF once
<1>9. /\ Sound(twice)
      /\ \A r \in Range(twice) : \/ r \in Range(once) /\ (ends => r.marker # dismounted)
                                 \/ r = Row(p.off, p.offAt, dismounted)
      /\ ends /\ p.off # None /\ p.offAt # None => HighestOn(twice, p.off, p.offAt)
      /\ OtherRecords(twice) = OtherRecords(once)
      /\ ~ends => twice = once
  BY <1>2, <1>6, <1>7, <1>8, FollowIfDoes
<1> HIDE DEF twice
<1>10. CASE UNCHANGED <<tires, periods, readings, log>>
  BY <1>10, UnchangedKept
<1>11. CASE periods' = pss /\ log' = twice
  <2>1. ASSUME NEW r \in Range(log') PROVE AttestedBy(pss, r)
    <3>1. CASE /\ r \in Range(log) /\ (starts => r.marker # mounted)
               /\ (ends => r.marker # dismounted)
      <4>1. r \in LogRow /\ AttestedBy(periods, r)
        BY <1>3, <3>1 DEF Sound, Range, LInv, LogInv
      <4>2. CASE ~IsEvent(r.marker)
        BY <4>2 DEF AttestedBy
      <4>3. CASE IsEvent(r.marker) /\ (r.marker.tire # t \/ r.marker.period # i)
        BY <1>4, <4>1, <4>3 DEF AttestedBy
      <4>4. CASE IsEvent(r.marker) /\ r.marker.tire = t /\ r.marker.period = i
        <5>1. CASE r.marker = mounted
          BY <1>4, <1>6, <3>1, <4>1, <4>4, <5>1 DEF AttestedBy, starts
        <5>2. CASE r.marker = dismounted
          BY <1>4, <1>6, <3>1, <4>1, <4>4, <5>2 DEF AttestedBy, ends
        <5> QED BY <1>a, <4>1, <4>4, <5>1, <5>2
      <4> QED BY <4>2, <4>3, <4>4
    <3>2. CASE r = Row(p.on, p.at, mounted)
      BY <1>4, <1>6, <3>2 DEF AttestedBy, Row, Mounting
    <3>3. CASE r = Row(p.off, p.offAt, dismounted)
      BY <1>4, <1>6, <3>3 DEF AttestedBy, Row, Ending
    <3> QED BY <1>8, <1>9, <1>11, <2>1, <3>1, <3>2, <3>3
  <2>2. ASSUME NEW u \in Tire PROVE Covered(u)
    <3>1. CASE u # t
      BY <1>4, <1>11, <3>1 DEF Covered, MountChanged, EndChanged
    <3>2. CASE u = t
      <4> SUFFICES ASSUME NEW j \in DOMAIN periods'[t],
                          ~(MountChanged(t, j) /\ EndChanged(t, j))
                   PROVE  /\ MountChanged(t, j) => Placed(periods'[t][j].on, periods'[t][j].at)
                          /\ EndChanged(t, j) => Placed(periods'[t][j].off, periods'[t][j].offAt)
        BY <1>4, <1>11, <3>2 DEF Covered
      <4>1. CASE j # i
        BY <1>4, <1>11, <4>1 DEF MountChanged, EndChanged
      <4>2. CASE j = i
        <5>1. (MountChanged(t, i) <=> starts) /\ (EndChanged(t, i) <=> ends)
          BY <1>4, <1>11 DEF MountChanged, EndChanged, starts, ends, Mounting, Ending
        <5>2. ~ends /\ starts => Placed(p.on, p.at)
          BY <1>8, <1>9, <1>11 DEF Placed, Known
        <5>3. ends => Placed(p.off, p.offAt)
          BY <1>9, <1>11 DEF Placed, Known
        <5>4. periods'[t][i] = p
          BY <1>4, <1>11
        <5> QED BY <4>2, <5>1, <5>2, <5>3, <5>4
      <4> QED BY <4>1, <4>2
    <3> QED BY <3>1, <3>2
  <2>3. Apart
    BY <1>8, <1>9, <1>11 DEF Apart
  <2> QED BY <1>9, <1>11, <2>1, <2>2, <2>3 DEF Kept, LogInv
<1> QED BY <1>1, <1>5, <1>10, <1>11, Outcome

\* Deleting the rows of some markers, of which side b has none.
NoneOn(b, rows, ms) == \A k \in DOMAIN rows : rows[k].marker \in ms => Whose(rows[k]) # b

LEMMA DeletedRows ==
    ASSUME NEW rows, Sound(rows), NEW ms, NEW q, q = WithoutMarkers(rows, ms), NEW b,
           NoneOn(b, rows, ms)
    PROVE  /\ Sound(q)
           /\ \A r \in Range(q) : r \in Range(rows) /\ r.marker \notin ms
           /\ Picked(q, Side(q, b)) = Picked(rows, Side(rows, b))
<1> DEFINE ks == {k \in DOMAIN rows : rows[k].marker \notin ms}
<1>1. ks \in SUBSET DOMAIN rows /\ q = Picked(rows, ks) /\ rows \in Seq(LogRow)
  BY DEF WithoutMarkers, Sound
<1>2. \A k \in ks : k \in DOMAIN rows /\ rows[k].marker \notin ms
  OBVIOUS
<1>3. \A k \in DOMAIN rows \ ks : Whose(rows[k]) # b
  BY DEF NoneOn
<1> HIDE DEF ks
<1>4. Sound(q) /\ \A r \in Range(q) : \E k \in ks : r = rows[k]
  BY <1>1, PickedIsSound
<1>5. \A r \in Range(q) : r \in Range(rows) /\ r.marker \notin ms
  BY <1>2, <1>4 DEF Range
<1>6. Picked(q, Side(q, b)) = Picked(rows, Side(rows, b))
  BY <1>1, <1>3, PickedSide
<1> QED BY <1>4, <1>5, <1>6

LEMMA DeleteKept ==
    ASSUME LInv, NEW t \in Tire, Delete(t)
    PROVE  Kept
<1> DEFINE ms == MarkersOf(t)
           q == log'
<1>1. /\ periods' = [periods EXCEPT ![t] = <<>>] /\ q = WithoutMarkers(log, ms)
      /\ periods \in [Tire -> Seq(Period)] /\ Sound(log)
      /\ \A r \in Range(log) : AttestedBy(periods, r)
  BY DEF Delete, LInv, IInv, Good, Shaped, LogInv
<1>2. \A u \in Tire : periods'[u] = IF u = t THEN <<>> ELSE periods[u]
  BY <1>1
<1>3. \A m \in ms : m.kind \in TireKinds
  BY DEF MarkersOf, Marker, TireKinds
<1>m. \A kind \in EventKinds, i \in DOMAIN periods[t] : Marker(kind, t, i) \in ms
  BY DEF MarkersOf, EventKinds
<1> HIDE DEF ms, q
<1>4. NoneOn("other", log, ms)
  BY <1>3 DEF NoneOn, Whose, IsTireMarked
<1>5. /\ Sound(q)
      /\ \A r \in Range(q) : r \in Range(log) /\ r.marker \notin ms
      /\ Picked(q, Side(q, "other")) = Picked(log, Side(log, "other"))
  BY <1>1, <1>4, DeletedRows
<1>6. ASSUME NEW r \in Range(q) PROVE AttestedBy(periods', r)
  <2>0. r \in Range(log) /\ r.marker \notin ms
    BY <1>5
  <2>1. r \in LogRow /\ AttestedBy(periods, r)
    BY <1>1, <2>0 DEF Sound, Range
  <2> SUFFICES ASSUME IsEvent(r.marker) PROVE AttestedBy(periods', r)
    BY DEF AttestedBy
  <2>2. r.marker.tire # t
    <3> SUFFICES ASSUME r.marker.tire = t PROVE FALSE
      OBVIOUS
    <3>1. r.marker.period \in DOMAIN periods[t] /\ r.marker.kind \in EventKinds
      BY <2>1 DEF AttestedBy, IsEvent
    <3>2. r.marker = Marker(r.marker.kind, t, r.marker.period)
      BY <2>1, MarkerKinds DEF LogRow
    <3>3. r.marker \in ms
      BY <1>m, <3>1, <3>2
    <3> QED BY <2>0, <3>3
  <2> QED BY <1>2, <2>1, <2>2 DEF AttestedBy
<1>7. \A u \in Tire : Covered(u)
  BY <1>2 DEF Covered, MountChanged, EndChanged
<1>8. Apart
  <2>1. OtherRecords(q) = OtherRecords(log)
    BY <1>5, Sides
  <2> QED BY <2>1 DEF Apart, q
<1> QED BY <1>5, <1>6, <1>7, <1>8 DEF Kept, LogInv, q

-----------------------------------------------------------------------------
(* The readings of a tire and what is described of it.                     *)
LEMMA QuietKept ==
    ASSUME LInv, periods' = periods, log' = log
    PROVE  Kept
<1>1. Apart
  BY DEF Apart
<1> QED BY <1>1, NoPeriodKept DEF LInv, LogInv

\* A record a tire's reading leaves.
LEMMA NotedRecord ==
    ASSUME NEW rows, Sound(rows), NEW day \in Day, NEW km \in Maybe(Km), NEW t \in Tire,
           NEW q, q = Publish(rows, day, km, Marker("tire", t, 0))
    PROVE  /\ Sound(q)
           /\ \A r \in Range(q) : r \in Range(rows) \/ ~IsEvent(r.marker)
           /\ OtherRecords(q) = OtherRecords(rows)
<1> DEFINE m == Marker("tire", t, 0)
<1>1. m \in Markers /\ m.kind \in TireKinds /\ ~IsEvent(m)
  BY MarkerKinds DEF TireKinds
<1>2. q = Publish(rows, day, km, m)
  OBVIOUS
<1> HIDE DEF m
<1>3. /\ Sound(q)
      /\ \A r \in Range(q) : r \in Range(rows) \/ r = Row(day, km, m)
  BY <1>1, <1>2, Published
<1>4. OtherRecords(q) = OtherRecords(rows)
  BY <1>1, <1>2, PublishedSide
<1>5. Row(day, km, m).marker = m
  BY DEF Row
<1> QED BY <1>1, <1>3, <1>4, <1>5

LEMMA AddReadingKept ==
    ASSUME LInv, NEW r \in Reading, AddReading(r)
    PROVE  Kept
<1> DEFINE q == log'
<1>1. /\ periods' = periods /\ q = Publish(log, r.day, r.km, Marker("tire", r.tire, 0))
      /\ Sound(log)
  BY DEF AddReading, LInv, LogInv
<1>2. r.day \in Day /\ r.km \in Maybe(Km) /\ r.tire \in Tire
  BY DEF Reading
<1> HIDE DEF q
<1>3. /\ Sound(q)
      /\ \A x \in Range(q) : x \in Range(log) \/ ~IsEvent(x.marker)
      /\ OtherRecords(q) = OtherRecords(log)
  BY <1>1, <1>2, NotedRecord
<1>4. Apart
  BY <1>3 DEF Apart, q
<1> QED BY <1>1, <1>3, <1>4, NoPeriodKept DEF q

LEMMA Withdrawn ==
    ASSUME LInv, NEW k \in DOMAIN readings, NEW q, q = Withdraw(k)
    PROVE  /\ Sound(q)
           /\ \A r \in Range(q) : r \in Range(log) \/ ~IsEvent(r.marker)
           /\ OtherRecords(q) = OtherRecords(log)
<1> DEFINE r == readings[k]
           m == Marker("tire", r.tire, 0)
           mine == {i \in SameDay(log, r.day) \intersect Marked(log, m) : log[i].km = r.km}
           backers == {j \in DOMAIN readings \ {k} :
                          readings[j].day = r.day /\ readings[j].km # None}
           i == Max(mine)
           b == readings[Max(backers)]
           without == RemoveAt(log, i)
<1>1. /\ log \in Seq(LogRow) /\ Sound(log)
      /\ readings \in Seq(Reading)
  BY DEF LInv, LogInv, Sound
<1>2. CASE q = log
  BY <1>1, <1>2
<1>3. CASE /\ mine # {}
           /\ \/ backers = {} /\ q = without
              \/ backers # {} /\ q = Publish(without, b.day, b.km, Marker("tire", b.tire, 0))
  <2>1. i \in mine
    <3>1. mine \in SUBSET (1 .. Len(log)) /\ Len(log) \in Nat
      BY <1>1 DEF SameDay
    <3> HIDE DEF mine
    <3> QED BY <1>3, <3>1, LastOf
  <2>2. i \in DOMAIN log /\ log[i].marker = m
    BY <2>1 DEF SameDay, Marked
  <2>3. m.kind \in TireKinds
    BY DEF Marker, TireKinds
  <2> HIDE DEF i
  <2>4. Whose(log[i]) # "other"
    BY <2>2, <2>3 DEF Whose, IsTireMarked
  <2>5. Sound(without) /\ \A x \in Range(without) : x \in Range(log)
    BY <1>1, <2>2, RemovedIsSound
  <2>6. OtherRecords(without) = OtherRecords(log)
    <3>1. Picked(without, Side(without, "other")) = Picked(log, Side(log, "other"))
      BY <1>1, <2>2, <2>4, RemovedSide
    <3> HIDE DEF without
    <3> QED BY <3>1, Sides
  <2> HIDE DEF without
  <2>7. CASE q = without
    BY <2>5, <2>6, <2>7
  <2>8. CASE backers # {} /\ q = Publish(without, b.day, b.km, Marker("tire", b.tire, 0))
    <3>1. Max(backers) \in DOMAIN readings
      <4>1. backers \in SUBSET (1 .. Len(readings)) /\ Len(readings) \in Nat
        BY <1>1
      <4>2. backers \subseteq DOMAIN readings
        OBVIOUS
      <4> HIDE DEF backers
      <4> QED BY <2>8, <4>1, <4>2, LastOf
    <3>2. b \in Reading
      <4> HIDE DEF backers
      <4> QED BY <1>1, <3>1
    <3> HIDE DEF b
    <3>3. b.day \in Day /\ b.km \in Maybe(Km) /\ b.tire \in Tire
      BY <3>2 DEF Reading
    <3>4. /\ Sound(q)
          /\ \A x \in Range(q) : x \in Range(without) \/ ~IsEvent(x.marker)
          /\ OtherRecords(q) = OtherRecords(without)
      BY <2>5, <2>8, <3>3, NotedRecord
    <3> QED BY <2>5, <2>6, <3>4
  <2> QED BY <1>3, <2>7, <2>8
<1>4. \/ q = log
      \/ /\ mine # {}
         /\ \/ backers = {} /\ q = without
            \/ backers # {} /\ q = Publish(without, b.day, b.km, Marker("tire", b.tire, 0))
  BY DEF Withdraw
<1> QED BY <1>2, <1>3, <1>4

LEMMA DeleteReadingKept ==
    ASSUME LInv, NEW k \in DOMAIN readings, DeleteReading(k)
    PROVE  Kept
<1> DEFINE q == log'
<1>1. periods' = periods /\ q = Withdraw(k)
  BY DEF DeleteReading
<1> HIDE DEF q
<1>2. /\ Sound(q)
      /\ \A r \in Range(q) : r \in Range(log) \/ ~IsEvent(r.marker)
      /\ OtherRecords(q) = OtherRecords(log)
  BY <1>1, Withdrawn
<1>3. Apart
  BY <1>2 DEF Apart, q
<1> QED BY <1>1, <1>2, <1>3, NoPeriodKept DEF q

LEMMA DescribedKept ==
    ASSUME LInv, Described
    PROVE  Kept
<1>1. ASSUME NEW t \in Tire, Create(t) PROVE Kept
  <2> DEFINE ts == [tires EXCEPT ![t] = NewTire(None)]
             flushed == <<State(ts, periods)>>
  <2>1. Transact(flushed, <<>>, log)
    BY <1>1 DEF Create
  <2>2. flushed[Len(flushed)].periods = periods
    BY DEF State
  <2> HIDE DEF flushed
  <2>3. periods' = periods /\ log' = log
    BY <2>1, <2>2, Outcome
  <2> QED BY <2>3, QuietKept
<1>2. ASSUME NEW t \in Tire, Restore(t) PROVE Kept
  <2> DEFINE ts == [tires EXCEPT ![t].retired = FALSE]
             flushed == <<State(ts, periods)>>
  <2>1. Transact(flushed, <<>>, log)
    BY <1>2 DEF Restore
  <2>2. flushed[Len(flushed)].periods = periods
    BY DEF State
  <2> HIDE DEF flushed
  <2>3. periods' = periods /\ log' = log
    BY <2>1, <2>2, Outcome
  <2> QED BY <2>3, QuietKept
<1>3. ASSUME NEW t \in Tire, NEW inSet, Edit(t, inSet) PROVE Kept
  BY <1>3, QuietKept DEF Edit
<1>4. CASE DeleteSet
  BY <1>4, QuietKept DEF DeleteSet
<1> QED BY <1>1, <1>2, <1>3, <1>4, AddReadingKept, DeleteReadingKept DEF Described

-----------------------------------------------------------------------------
(* The vehicle's other writers.                                            *)
LEMMA NotTiresKept ==
    ASSUME LInv, NotTires, Sound(log'),
           \A r \in Range(log') : r \in Range(log) \/ ~IsEvent(r.marker),
           OtherRecords(log') = OtherRecords(log) \/ TireRecords(log') = TireRecords(log)
    PROVE  Kept
<1>1. Apart /\ periods' = periods
  BY DEF NotTires, Apart
<1> QED BY <1>1, NoPeriodKept

LEMMA SaveVisitKept ==
    ASSUME LInv, NEW day \in Day, NEW km \in Km, SaveVisit(day, km)
    PROVE  Kept
<1> DEFINE q == log'
<1>1. Sound(log) /\ q = SyncRecord(log, day, km, Visit) /\ NotTires
  BY DEF LInv, LogInv, SaveVisit
<1> HIDE DEF q
<1>2. Sound(q) /\ \A r \in Range(q) : r \in Range(log) \/ ~IsEvent(r.marker)
  BY <1>1, Recorded
<1>3. TireRecords(q) = TireRecords(log)
  BY <1>1, RecordedSide
<1> QED BY <1>1, <1>2, <1>3, NotTiresKept DEF q

LEMMA TelemetryKept ==
    ASSUME LInv, NEW day \in Day, NEW km \in Km, Telemetry(day, km)
    PROVE  Kept
<1> DEFINE q == log'
<1>1. Sound(log) /\ q = SyncFromTelemetry(log, day, km) /\ NotTires
  BY DEF LInv, LogInv, Telemetry
<1> HIDE DEF q
<1>2. Sound(q) /\ \A r \in Range(q) : r \in Range(log) \/ ~IsEvent(r.marker)
  BY <1>1, Reported
<1>3. TireRecords(q) = TireRecords(log)
  BY <1>1, ReportedSide
<1> QED BY <1>1, <1>2, <1>3, NotTiresKept DEF q

LEMMA DeleteVisitKept ==
    ASSUME LInv, DeleteVisit
    PROVE  Kept
<1> DEFINE q == log'
           ms == {Visit}
<1>1. Sound(log) /\ q = WithoutMarkers(log, ms) /\ NotTires
  BY DEF LInv, LogInv, DeleteVisit
<1>2. NoneOn("tire", log, ms)
  BY DEF NoneOn, Whose, IsTireMarked, Visit, Marker, TireKinds
<1> HIDE DEF q, ms
<1>3. /\ Sound(q)
      /\ \A r \in Range(q) : r \in Range(log)
      /\ Picked(q, Side(q, "tire")) = Picked(log, Side(log, "tire"))
  BY <1>1, <1>2, DeletedRows
<1>4. TireRecords(q) = TireRecords(log)
  BY <1>3, Sides
<1> QED BY <1>1, <1>3, <1>4, NotTiresKept DEF q

LEMMA HandMade ==
    ASSUME NEW rows, Sound(rows), NEW day \in Day, NEW km \in Km,
           NEW q, q = Added(rows, Row(day, km, Manual))
    PROVE  /\ Sound(q)
           /\ \A r \in Range(q) : r \in Range(rows) \/ ~IsEvent(r.marker)
           /\ TireRecords(q) = TireRecords(rows)
<1>0. Manual \in Markers /\ ~IsEvent(Manual) /\ Row(day, km, Manual).marker = Manual
  BY MarkerKinds DEF Row
<1>1. q = Append(rows, Row(day, km, Manual))
  BY DEF Added
<1>2. /\ Sound(q) /\ DOMAIN q = 1 .. Len(rows) + 1
      /\ q[Len(rows) + 1] = Row(day, km, Manual)
      /\ \A i \in DOMAIN rows : q[i] = rows[i]
  BY <1>0, <1>1, AppendedIsSound
<1>3. DOMAIN rows = 1 .. Len(rows) /\ Len(rows) \in Nat
  BY DEF Sound
<1>4. \A i \in DOMAIN q : i \in DOMAIN rows \/ i = Len(rows) + 1
  BY <1>2, <1>3
<1>5. \A r \in Range(q) : r \in Range(rows) \/ ~IsEvent(r.marker)
  BY <1>0, <1>2, <1>4 DEF Range
<1>6. Whose(Row(day, km, Manual)) # "tire"
  BY DEF Whose, IsTireMarked, Row, Manual, Marker, TireKinds
<1>7. Picked(q, Side(q, "tire")) = Picked(rows, Side(rows, "tire"))
  BY <1>0, <1>6, AppendedSide
<1>8. TireRecords(q) = TireRecords(rows)
  BY <1>7, Sides
<1> QED BY <1>2, <1>5, <1>8

LEMMA AddRecordKept ==
    ASSUME LInv, NEW day \in Day, NEW km \in Km, AddRecord(day, km)
    PROVE  Kept
<1> DEFINE q == log'
<1>1. Sound(log) /\ q = Added(log, Row(day, km, Manual)) /\ NotTires
  BY DEF LInv, LogInv, AddRecord, Added
<1> HIDE DEF q
<1>2. /\ Sound(q)
      /\ \A r \in Range(q) : r \in Range(log) \/ ~IsEvent(r.marker)
      /\ TireRecords(q) = TireRecords(log)
  BY <1>1, HandMade
<1> QED BY <1>1, <1>2, NotTiresKept DEF q

Retyped(rows, k, day, km) == [rows EXCEPT ![k].day = day, ![k].km = km]

LEMMA RetypedIsRewritten ==
    ASSUME NEW rows \in Seq(LogRow), NEW k \in DOMAIN rows, NEW day, NEW km,
           NEW m, m = rows[k].marker
    PROVE  Retyped(rows, k, day, km) = Rewrite(rows, k, day, km, m)
<1>1. rows[k] \in LogRow
  OBVIOUS
<1> DEFINE r == rows[k]
           x == Row(day, km, m)
<1>2. [[r EXCEPT !.day = day] EXCEPT !.km = km] = x
  <2>1. r.marker = m
    OBVIOUS
  <2> HIDE DEF r
  <2>2. r \in LogRow
    BY <1>1 DEF r
  <2>3. r = [day |-> r.day, km |-> r.km, marker |-> m]
    BY <2>1, <2>2 DEF LogRow
  <2> DEFINE u == [r EXCEPT !.day = day]
  <2>4. u = [day |-> day, km |-> r.km, marker |-> m]
    BY <2>3
  <2> HIDE DEF u
  <2>5. [u EXCEPT !.km = km] = [day |-> day, km |-> km, marker |-> m]
    BY <2>4
  <2> QED BY <2>5 DEF Row, u
<1>3. Retyped(rows, k, day, km) = [rows EXCEPT ![k] = [[r EXCEPT !.day = day] EXCEPT !.km = km]]
  BY DEF Retyped
<1> QED BY <1>2, <1>3 DEF Rewrite

LEMMA Corrected ==
    ASSUME NEW rows, Sound(rows), NEW k \in DOMAIN rows, ~IsTireMarked(rows[k]),
           NEW day \in Day, NEW km \in Km,
           NEW q, q = Retyped(rows, k, day, km)
    PROVE  /\ Sound(q)
           /\ \A r \in Range(q) : r \in Range(rows) \/ ~IsEvent(r.marker)
           /\ TireRecords(q) = TireRecords(rows)
<1> DEFINE m == rows[k].marker
<1>1. rows \in Seq(LogRow)
  BY DEF Sound
<1>2. m \in Markers
  <2>1. rows[k] \in LogRow
    BY <1>1
  <2> QED BY <2>1 DEF LogRow
<1>4. q = Rewrite(rows, k, day, km, m)
  BY <1>1, RetypedIsRewritten
<1>5. ~IsEvent(m)
  BY DEF IsTireMarked, IsEvent, TireKinds, EventKinds
<1>6. /\ Whose(rows[k]) # "tire" /\ Whose(Row(day, km, m)) # "tire"
      /\ Row(day, km, m).marker = m
  BY DEF Whose, IsTireMarked, Row
<1>9. m = rows[k].marker
  OBVIOUS
<1> HIDE DEF m
<1>7. /\ Sound(q) /\ DOMAIN q = DOMAIN rows
      /\ q[k] = Row(day, km, m)
      /\ \A i \in DOMAIN rows \ {k} : q[i] = rows[i]
  BY <1>2, <1>4, <1>5, RewrittenIsSound
<1>8. \A r \in Range(q) : r \in Range(rows) \/ ~IsEvent(r.marker)
  BY <1>5, <1>6, <1>7 DEF Range
<1>10. Picked(q, Side(q, "tire")) = Picked(rows, Side(rows, "tire"))
  BY <1>2, <1>4, <1>5, <1>6, <1>9, RewrittenSide
<1>11. TireRecords(q) = TireRecords(rows)
  BY <1>10, Sides
<1> QED BY <1>7, <1>8, <1>11

LEMMA EditRecordKept ==
    ASSUME LInv, NEW k \in DOMAIN log, NEW day \in Day, NEW km \in Km, EditRecord(k, day, km)
    PROVE  Kept
<1> DEFINE q == log'
<1>1. /\ Sound(log) /\ ~IsTireMarked(log[k]) /\ NotTires
      /\ q = Retyped(log, k, day, km)
  BY DEF LInv, LogInv, EditRecord, Retyped
<1> HIDE DEF q
<1>2. /\ Sound(q)
      /\ \A r \in Range(q) : r \in Range(log) \/ ~IsEvent(r.marker)
      /\ TireRecords(q) = TireRecords(log)
  BY <1>1, Corrected
<1> QED BY <1>1, <1>2, NotTiresKept DEF q

LEMMA DeleteRecordKept ==
    ASSUME LInv, NEW k \in DOMAIN log, DeleteRecord(k)
    PROVE  Kept
<1> DEFINE q == RemoveAt(log, k)
<1>1. Sound(log) /\ log \in Seq(LogRow) /\ NotTires /\ log' = q
  BY DEF LInv, LogInv, Sound, DeleteRecord
<1>2. Sound(q) /\ \A r \in Range(q) : r \in Range(log)
  BY <1>1, RemovedIsSound
<1>3. CASE Whose(log[k]) = "tire"
  <2>1. Whose(log[k]) # "other"
    BY <1>3
  <2>2. Picked(q, Side(q, "other")) = Picked(log, Side(log, "other"))
    BY <1>1, <2>1, RemovedSide
  <2> HIDE DEF q
  <2>3. OtherRecords(q) = OtherRecords(log)
    BY <2>2, Sides
  <2> QED BY <1>1, <1>2, <2>3, NotTiresKept
<1>4. CASE Whose(log[k]) = "other"
  <2>1. Whose(log[k]) # "tire"
    BY <1>4
  <2>2. Picked(q, Side(q, "tire")) = Picked(log, Side(log, "tire"))
    BY <1>1, <2>1, RemovedSide
  <2> HIDE DEF q
  <2>3. TireRecords(q) = TireRecords(log)
    BY <2>2, Sides
  <2> QED BY <1>1, <1>2, <2>3, NotTiresKept
<1> QED BY <1>3, <1>4 DEF Whose

LEMMA StepIsKept ==
    ASSUME LInv, [Next]_vars
    PROVE  Kept
<1>1. CASE Moved
  BY <1>1, CreateAndMountKept, MountKept, DismountKept, RetireKept, RotateKept,
     MountSetKept DEF Moved
<1>2. CASE HistoryWritten
  BY <1>2, AddPastKept, EditPeriodKept, DeleteKept DEF HistoryWritten
<1>3. CASE Described
  BY <1>3, DescribedKept
<1>4. CASE OtherWriters
  BY <1>4, SaveVisitKept, TelemetryKept, DeleteVisitKept DEF OtherWriters
<1>5. CASE ByHand
  BY <1>5, AddRecordKept, EditRecordKept, DeleteRecordKept DEF ByHand
<1>6. CASE UNCHANGED vars
  BY <1>6, QuietKept DEF vars
<1> QED BY <1>1, <1>2, <1>3, <1>4, <1>5, <1>6 DEF Next

-----------------------------------------------------------------------------
(* The readings.                                                           *)
LEMMA TransactReads ==
    ASSUME NEW flushed, NEW touched, NEW records, Transact(flushed, touched, records)
    PROVE  readings' = readings
BY DEF Transact

LEMMA DeleteReads ==
    ASSUME readings \in Seq(Reading), NEW t \in Tire, Delete(t)
    PROVE  readings' \in Seq(Reading)
<1> DEFINE ks == {k \in DOMAIN readings : readings[k].tire # t}
<1>1. ks \in SUBSET DOMAIN readings /\ readings' = Picked(readings, ks)
  BY DEF Delete
<1> HIDE DEF ks
<1> QED BY <1>1, PickedRows

LEMMA StepReads ==
    ASSUME readings \in Seq(Reading), [Next]_vars
    PROVE  readings' \in Seq(Reading)
<1>1. CASE Moved
  <2>1. \A t, c, when, km : CreateAndMount(t, c, when, km) => readings' = readings
    BY TransactReads DEF CreateAndMount
  <2>2. \A t, c, when, km : Mount(t, c, when, km) => readings' = readings
    BY TransactReads DEF Mount
  <2>3. \A t, when, km : Dismount(t, when, km) => readings' = readings
    BY TransactReads DEF Dismount
  <2>4. \A t, when, km : Retire(t, when, km) => readings' = readings
    BY TransactReads DEF Retire
  <2>5. \A moves, when, km : Rotate(moves, when, km) => readings' = readings
    BY TransactReads DEF Rotate
  <2>6. \A when, km : MountSet(when, km) => readings' = readings
    BY TransactReads DEF MountSet
  <2> QED BY <1>1, <2>1, <2>2, <2>3, <2>4, <2>5, <2>6 DEF Moved
<1>2. CASE HistoryWritten
  <2>1. ASSUME NEW t \in Tire, NEW p, AddPast(t, p) PROVE readings' = readings
    BY <2>1, TransactReads DEF AddPast
  <2>2. ASSUME NEW t \in Tire, NEW i, NEW p, EditPeriod(t, i, p) PROVE readings' = readings
    BY <2>2, TransactReads DEF EditPeriod
  <2> QED BY <1>2, <2>1, <2>2, DeleteReads DEF HistoryWritten
<1>3. CASE Described
  <2>1. ASSUME NEW t \in Tire, Create(t) PROVE readings' = readings
    BY <2>1, TransactReads DEF Create
  <2>2. ASSUME NEW t \in Tire, Restore(t) PROVE readings' = readings
    BY <2>2, TransactReads DEF Restore
  <2>3. ASSUME NEW r \in Reading, AddReading(r) PROVE readings' \in Seq(Reading)
    BY <2>3 DEF AddReading
  <2>4. ASSUME NEW k \in DOMAIN readings, DeleteReading(k) PROVE readings' \in Seq(Reading)
    <3>1. RemoveAt(readings, k) \in Seq(Reading)
      BY RemovedRows
    <3> QED BY <2>4, <3>1 DEF DeleteReading
  <2> QED BY <1>3, <2>1, <2>2, <2>3, <2>4 DEF Described, Edit, DeleteSet
<1>4. CASE OtherWriters
  BY <1>4 DEF OtherWriters, SaveVisit, Telemetry, DeleteVisit, NotTires
<1>5. CASE ByHand
  BY <1>5 DEF ByHand, AddRecord, EditRecord, DeleteRecord, NotTires
<1>6. CASE UNCHANGED vars
  BY <1>6 DEF vars
<1> QED BY <1>1, <1>2, <1>3, <1>4, <1>5, <1>6 DEF Next

-----------------------------------------------------------------------------
LEMMA InitIsNoted == Init => LInv
<1> SUFFICES ASSUME Init PROVE LInv
  OBVIOUS
<1>1. log = <<>> /\ readings = <<>>
  BY DEF Init
<1>2. LogInv(periods, log)
  BY <1>1 DEF LogInv, Sound, OneEach, Range
<1>3. readings \in Seq(Reading)
  BY <1>1
<1> QED BY <1>2, <1>3, InitIsGood DEF LInv

LEMMA StepIsNoted == LInv /\ [Next]_vars => LInv'
<1> SUFFICES ASSUME LInv, [Next]_vars PROVE LInv'
  OBVIOUS
<1>1. IInv'
  BY StepIsGood DEF LInv
<1>2. LogInv(periods, log)'
  BY StepIsKept DEF Kept
<1>3. readings' \in Seq(Reading)
  BY StepReads DEF LInv
<1> QED BY <1>1, <1>2, <1>3 DEF LInv

THEOREM TireRecordsAreSound == Spec => []LInv
BY InitIsNoted, StepIsNoted, PTL DEF Spec

\* However periods are mounted, closed, filled in, edited and deleted, and
\* whatever else writes odometer records, a record marked with a period's end
\* is the only one so marked, names a period of a tire that is there, and says
\* the day and figure the period says: _follow_period_event finds and moves it.
THEOREM RecordsFollowTheirPeriods == Spec => []EventRecords
<1>1. LInv => EventRecords
  <2> SUFFICES ASSUME LInv, NEW k \in DOMAIN log,
                      log[k].marker.kind \in {"tire_mount", "tire_dismount"}
               PROVE  /\ tires[log[k].marker.tire] # None
                      /\ log[k].marker.period \in DOMAIN periods[log[k].marker.tire]
                      /\ Marked(log, log[k].marker) = {k}
                      /\ Event(log[k].marker) = <<log[k].day, log[k].km>>
    BY DEF EventRecords
  <2> DEFINE m == log[k].marker
  <2>1. IsEvent(m) /\ AttestedBy(periods, log[k]) /\ OneEach(log)
    BY DEF IsEvent, EventKinds, LInv, LogInv, Sound, Range
  <2>2. m.tire \in Tire /\ m.period \in DOMAIN periods[m.tire]
    BY <2>1 DEF AttestedBy
  <2>3. tires[m.tire] # None
    <3> SUFFICES ASSUME tires[m.tire] = None PROVE FALSE
      OBVIOUS
    <3>1. periods[m.tire] = <<>>
      BY <2>2 DEF LInv, IInv, Good, Shaped
    <3> QED BY <2>2, <3>1
  <2>4. Marked(log, m) = {k}
    BY <2>1 DEF OneEach, Marked
  <2>5. Event(m) = <<log[k].day, log[k].km>>
    BY <2>1 DEF AttestedBy, Event, Mounting, Ending
  <2> QED BY <2>2, <2>3, <2>4, <2>5
<1> QED BY <1>1, TireRecordsAreSound, PTL

\* No event of a tire touches a record of a visit, of the car or of a person,
\* and none of those touches a tire's: for every table and every write.
THEOREM WritersKeepApart == Spec => EachToTheirOwn
<1>1. LInv /\ [Next]_vars =>
         [/\ <<tires, periods, readings>>' # <<tires, periods, readings>>
                => OtherRecords(log') = OtherRecords(log)
          /\ OtherRecords(log') # OtherRecords(log)
                => TireRecords(log') = TireRecords(log)]_vars
  BY StepIsKept DEF Kept, Apart
<1> QED BY <1>1, TireRecordsAreSound, PTL DEF Spec, EachToTheirOwn

\* A write that puts a day and a figure on an end of a period leaves the day
\* with a record at least that high, its own or another writer's.
THEOREM EndsAreCovered == Spec => OneEndCovered
<1>1. LInv /\ [Next]_vars =>
         [\A t \in Tire : \A i \in DOMAIN periods'[t] :
            (i \notin DOMAIN periods[t] \/ ~(MountChanged(t, i) /\ EndChanged(t, i))) =>
               /\ MountChanged(t, i) => Placed(periods'[t][i].on, periods'[t][i].at)
               /\ EndChanged(t, i) => Placed(periods'[t][i].off, periods'[t][i].offAt)]_vars
  BY StepIsKept DEF Kept, Covered
<1> QED BY <1>1, TireRecordsAreSound, PTL DEF Spec, OneEndCovered

-----------------------------------------------------------------------------
(* The low-tread warning.                                                  *)

\* Request q knows the tire as it is, and what is pending if it looked.
Informed(q) ==
    /\ request[q].held = tire
    /\ request[q].phase = "looked" => request[q].seen = warnings

TInv ==
    /\ request = [q \in Request |-> request[q]]
    /\ warnings \in SUBSET WarningId
    /\ \A q \in Request \ disturbed : request[q] # Idle => Informed(q)

\* The reminders but the later ones are the first.
LEMMA FirstRemains ==
    ASSUME NEW S \in SUBSET WarningId, S # {}
    PROVE  \E w \in S : S \ Surplus(S) = {w}
<1> DEFINE T == S
<1>1. T \in SUBSET Nat /\ T # {}
  BY WarningAssumption
<1> HIDE DEF T
<1>2. PICK w \in T : \A v \in T : <<v, w>> \notin OpToRel(<, Nat)
  BY <1>1, NatLessThanWellFounded, WFMin
<1>3. ASSUME NEW v \in T PROVE v = w \/ w < v
  <2>1. w \in Nat /\ v \in Nat
    BY <1>1
  <2>2. ~(v < w)
    BY <1>2, <2>1, Zenon DEF OpToRel
  <2> QED BY <2>1, <2>2
<1>4. \A v \in T : ~(v < w)
  <2> SUFFICES ASSUME NEW v \in T PROVE ~(v < w)
    OBVIOUS
  <2>1. w \in Nat /\ v \in Nat
    BY <1>1
  <2> QED BY <1>2, <2>1, Zenon DEF OpToRel
<1>5. T \ Surplus(T) = {w}
  BY <1>3, <1>4 DEF Surplus
<1> QED BY <1>5 DEF T

\* A step of request q that makes it r, and leaves it informed if it was not
\* disturbed, disturbs or leaves informed every other.
LEMMA OwnStep ==
    ASSUME TInv, NEW q \in Request, NEW r, request' = [request EXCEPT ![q] = r],
           Disturbing(q), warnings' \in SUBSET WarningId,
           q \notin disturbed /\ r # Idle =>
               /\ r.held = tire'
               /\ r.phase = "looked" => r.seen = warnings'
    PROVE  TInv'
<1>1. \A p \in Request : request'[p] = IF p = q THEN r ELSE request[p]
  BY DEF TInv
<1>2. request' = [p \in Request |-> request'[p]]
  BY DEF TInv
<1>3. ASSUME NEW p \in Request, p \notin disturbed', request'[p] # Idle
      PROVE  Informed(p)'
  <2>1. /\ p \notin disturbed
        /\ p = q \/ <<tire, measured, warnings>>' = <<tire, measured, warnings>>
    BY <1>3 DEF Disturbing
  <2>2. CASE p = q
    BY <1>1, <1>3, <2>1, <2>2 DEF Informed
  <2>3. CASE p # q
    <3>1. request'[p] = request[p] /\ tire' = tire /\ warnings' = warnings
      BY <1>1, <2>1, <2>3
    <3>2. Informed(p)
      BY <1>3, <2>1, <3>1 DEF TInv
    <3> QED BY <3>1, <3>2 DEF Informed
  <2> QED BY <2>2, <2>3
<1> QED BY <1>2, <1>3 DEF TInv

\* What a busy request undisturbed so far knows.
LEMMA Undisturbed ==
    ASSUME TInv, NEW q \in Request, q \notin disturbed, request[q].phase # "idle"
    PROVE  Informed(q)
BY DEF TInv, Idle, Holding

LEMMA ChangeInforms ==
    ASSUME TInv, NEW q \in Request, NEW phase, phase # "looked", NEW depth, NEW floor,
           NEW rows, CommitChange(q, phase, depth, floor, rows)
    PROVE  TInv'
<1> DEFINE r == Holding(phase, TreadRow(depth, floor), {}, {})
<1>1. /\ request[q].phase = "loaded" /\ request' = [request EXCEPT ![q] = r]
      /\ tire' = Flushed(request[q].held, depth, floor)
      /\ warnings' = warnings /\ Disturbing(q)
  BY DEF CommitChange
<1>2. r.held = TreadRow(depth, floor) /\ r.phase = phase
  BY DEF Holding
<1>3. q \notin disturbed => tire' = TreadRow(depth, floor)
  <2> SUFFICES ASSUME q \notin disturbed PROVE tire' = TreadRow(depth, floor)
    OBVIOUS
  <2>1. request[q].held = tire
    BY <1>1, Undisturbed DEF Informed
  <2> QED BY <1>1, <2>1 DEF Flushed
<1>4. warnings' \in SUBSET WarningId
  BY <1>1 DEF TInv
<1> HIDE DEF r
<1> QED BY <1>1, <1>2, <1>3, <1>4, OwnStep

LEMMA WritingInforms ==
    ASSUME TInv, NEW q \in Request, TireWritten(q)
    PROVE  TInv'
<1>1. CASE Load(q)
  <2> DEFINE r == Holding("loaded", tire, measured, {})
  <2>1. /\ request' = [request EXCEPT ![q] = r] /\ tire' = tire
        /\ warnings' = warnings /\ Disturbing(q)
    BY <1>1 DEF Load
  <2>2. r.held = tire /\ r.phase # "looked"
    BY DEF Holding
  <2>3. warnings' \in SUBSET WarningId
    BY <2>1 DEF TInv
  <2> HIDE DEF r
  <2> QED BY <2>1, <2>2, <2>3, OwnStep
<1>2. ASSUME NEW depth, NEW floor, CreateTire(q, depth, floor) PROVE TInv'
  <2> DEFINE r == Holding("committed", tire', {}, {})
  <2>1. /\ request' = [request EXCEPT ![q] = r]
        /\ warnings' = warnings /\ Disturbing(q)
    BY <1>2 DEF CreateTire
  <2>2. r.held = tire' /\ r.phase # "looked"
    BY DEF Holding
  <2>3. warnings' \in SUBSET WarningId
    BY <2>1 DEF TInv
  <2> HIDE DEF r
  <2> QED BY <2>1, <2>2, <2>3, OwnStep
<1>3. ASSUME NEW depth, NEW floor, UpdateTire(q, depth, floor) PROVE TInv'
  BY <1>3, ChangeInforms DEF UpdateTire
<1>4. CASE MoveTire(q)
  <2> DEFINE r == Holding("committed", tire, {}, {})
  <2>1. /\ request' = [request EXCEPT ![q] = r] /\ tire' = tire
        /\ warnings' = warnings /\ Disturbing(q)
    BY <1>4 DEF MoveTire
  <2>2. r.held = tire /\ r.phase # "looked"
    BY DEF Holding
  <2>3. warnings' \in SUBSET WarningId
    BY <2>1 DEF TInv
  <2> HIDE DEF r
  <2> QED BY <2>1, <2>2, <2>3, OwnStep
<1>5. ASSUME NEW r, AddMeasurement(q, r) PROVE TInv'
  BY <1>5, ChangeInforms DEF AddMeasurement
<1>6. ASSUME NEW r, DeleteMeasurement(q, r) PROVE TInv'
  BY <1>6, ChangeInforms DEF DeleteMeasurement
<1> QED BY <1>1, <1>2, <1>3, <1>4, <1>5, <1>6 DEF TireWritten

LEMMA SettlingInforms ==
    ASSUME TInv, NEW q \in Request, WarningSettled(q) \/ Stop(q)
    PROVE  TInv'
<1>1. CASE Refresh(q)
  <2> DEFINE r == Holding("committed", tire, {}, {})
  <2>1. /\ request' = [request EXCEPT ![q] = r] /\ tire' = tire
        /\ warnings' = warnings /\ Disturbing(q)
    BY <1>1 DEF Refresh
  <2>2. r.held = tire /\ r.phase # "looked"
    BY DEF Holding
  <2>3. warnings' \in SUBSET WarningId
    BY <2>1 DEF TInv
  <2> HIDE DEF r
  <2> QED BY <2>1, <2>2, <2>3, OwnStep
<1>2. CASE Look(q)
  <2> DEFINE r == Holding("looked", request[q].held, {}, warnings)
  <2>1. /\ request' = [request EXCEPT ![q] = r] /\ tire' = tire
        /\ request[q].phase = "committed"
        /\ warnings' = warnings /\ Disturbing(q)
    BY <1>2 DEF Look
  <2>2. q \notin disturbed => r.held = tire /\ r.seen = warnings
    BY <2>1, Undisturbed DEF Informed, Holding
  <2>3. warnings' \in SUBSET WarningId
    BY <2>1 DEF TInv
  <2> HIDE DEF r
  <2> QED BY <2>1, <2>2, <2>3, OwnStep
<1>3. CASE Settle(q)
  <2>1. /\ request' = [request EXCEPT ![q] = Idle] /\ Disturbing(q)
        /\ \E new \in WarningId : warnings' = Settled(request[q].held, request[q].seen, new)
    BY <1>3 DEF Settle
  <2>2. warnings' \in SUBSET WarningId
    BY <2>1 DEF Settled, TInv
  <2> QED BY <2>1, <2>2, OwnStep
<1>4. CASE Stop(q)
  <2>1. /\ request' = [request EXCEPT ![q] = Idle] /\ warnings' = warnings
        /\ Disturbing(q)
    BY <1>4 DEF Stop
  <2>2. warnings' \in SUBSET WarningId
    BY <2>1 DEF TInv
  <2> QED BY <2>1, <2>2, OwnStep
<1> QED BY <1>1, <1>2, <1>3, <1>4 DEF WarningSettled

LEMMA InitInforms == TreadInit => TInv
BY DEF TreadInit, TInv

LEMMA StepInforms == TInv /\ [TreadNext]_treadVars => TInv'
<1> SUFFICES ASSUME TInv, [TreadNext]_treadVars PROVE TInv'
  OBVIOUS
<1>1. ASSUME NEW q \in Request, TireWritten(q) \/ WarningSettled(q) \/ Stop(q)
      PROVE  TInv'
  BY <1>1, WritingInforms, SettlingInforms
<1>2. CASE DeleteTire
  <2>1. request' = [q \in Request |-> Idle] /\ warnings' = {}
    BY <1>2 DEF DeleteTire
  <2> QED BY <2>1 DEF TInv
<1>3. ASSUME NEW w, CloseByHand(w) PROVE TInv'
  <2>1. /\ warnings' = warnings \ {w} /\ request' = request /\ tire' = tire
        /\ Disturbing(Unknown)
    BY <1>3 DEF CloseByHand
  <2>2. ASSUME NEW p \in Request, p \notin disturbed', request'[p] # Idle
        PROVE  Informed(p)'
    <3>1. p # Unknown
      BY RequestAssumption
    <3>2. p \notin disturbed /\ warnings' = warnings
      BY <2>1, <2>2, <3>1 DEF Disturbing
    <3>3. Informed(p)
      BY <2>1, <2>2, <3>2 DEF TInv
    <3> QED BY <2>1, <3>2, <3>3 DEF Informed
  <2>3. warnings' \in SUBSET WarningId /\ request' = [p \in Request |-> request'[p]]
    BY <2>1 DEF TInv
  <2> QED BY <2>2, <2>3 DEF TInv
<1>4. CASE UNCHANGED treadVars
  BY <1>4 DEF treadVars, TInv, Informed
<1> QED BY <1>1, <1>2, <1>3, <1>4 DEF TreadNext

LEMMA SettledIsRight ==
    ASSUME TInv, NEW q \in Request, Settle(q), q \notin disturbed
    PROVE  /\ Worn(tire) => \E w \in WarningId : warnings' = {w}
           /\ Healthy(tire) => warnings' = {}
           /\ ~Gauged(tire) => \/ warnings = {} /\ warnings' = {}
                               \/ \E w \in warnings : warnings' = {w}
<1>1. request[q].held = tire /\ request[q].seen = warnings
  BY Undisturbed DEF Settle, Informed
<1>2. PICK new \in WarningId : warnings' = Settled(tire, warnings, new)
  BY <1>1 DEF Settle
<1>3. warnings \in SUBSET WarningId
  BY DEF TInv
<1>4. warnings = {} => warnings \ Surplus(warnings) = {}
  OBVIOUS
<1>5. warnings # {} => \E w \in warnings : warnings \ Surplus(warnings) = {w}
  BY <1>3, FirstRemains
<1>6. Healthy(tire) => warnings' = {}
  BY <1>2 DEF Settled
<1>7. Worn(tire) => \E w \in WarningId : warnings' = {w}
  <2> SUFFICES ASSUME Worn(tire) PROVE \E w \in WarningId : warnings' = {w}
    OBVIOUS
  <2>1. ~Healthy(tire)
    BY DEF Healthy
  <2>2. CASE warnings = {}
    BY <1>2, <2>1, <2>2 DEF Settled, Raises
  <2>3. CASE warnings # {}
    BY <1>2, <1>3, <1>5, <2>1, <2>3 DEF Settled, Raises
  <2> QED BY <2>2, <2>3
<1>8. ~Gauged(tire) => \/ warnings = {} /\ warnings' = {}
                      \/ \E w \in warnings : warnings' = {w}
  <2> SUFFICES ASSUME ~Gauged(tire)
               PROVE  \/ warnings = {} /\ warnings' = {}
                      \/ \E w \in warnings : warnings' = {w}
    OBVIOUS
  <2>1. ~Healthy(tire) /\ ~Worn(tire)
    BY DEF Healthy, Worn
  <2>2. warnings' = warnings \ Surplus(warnings)
    BY <1>2, <2>1 DEF Settled, Raises
  <2> QED BY <1>4, <1>5, <2>2
<1> QED BY <1>6, <1>7, <1>8

\* The request that created, moved or edited a tire, or added or withdrew a
\* reading, and that no other request, person or crash came between, leaves
\* exactly one low-tread warning pending if the tread is at or below the
\* tire's threshold, none if it is above, and if either is unknown the first
\* of those that were: whatever earlier races and stops left pending.
THEOREM WarningsAreRight == TreadSpec => WarningRight
<1>1. TInv /\ [TreadNext]_treadVars =>
         [\A q \in Request : Settle(q) /\ q \notin disturbed =>
            /\ Worn(tire) => \E w \in WarningId : warnings' = {w}
            /\ Healthy(tire) => warnings' = {}
            /\ ~Gauged(tire) => \/ warnings = {} /\ warnings' = {}
                                \/ \E w \in warnings : warnings' = {w}]_treadVars
  BY SettledIsRight
<1> QED BY <1>1, InitInforms, StepInforms, PTL DEF TreadSpec, WarningRight
=============================================================================
