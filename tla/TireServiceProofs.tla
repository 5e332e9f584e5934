-------------------------- MODULE TireServiceProofs --------------------------
(***************************************************************************)
(* Cards and histories agree, and no write the service lets through runs   *)
(* into a unique index: for every set of tires, corners, days and figures, *)
(* and whatever the contradiction rules refuse.                            *)
(*                                                                         *)
(* The inductive invariant adds to the two properties that no two tires    *)
(* are on one corner and that an unused row id has no history.  Both are   *)
(* needed: a corner freed by one tire is taken by another, and an id may   *)
(* be given out again.                                                     *)
(*                                                                         *)
(* Of the histories themselves: the fault rules report every clash and     *)
(* nothing else, so no accepted write makes a coherent history clash and a *)
(* clash enters only with a repair.  Rule 4b compares a period with one    *)
(* counterpart, the furthest reaching before it; that it is enough is an   *)
(* argument about the first element of a set (FirstExists).                *)
(***************************************************************************)
EXTENDS TireService, NaturalsInduction, WellFoundedInduction, TLAPS

\* The cards and histories one flush may leave behind.
Agree(ts, pss) ==
    \A t \in Tire : ts[t] # None =>
        /\ OpenCorner(pss[t]) = IF ts[t].position = None THEN {} ELSE {ts[t].position}
        /\ \A i, j \in OpenIds(pss[t]) : i = j
        /\ ts[t].retired => ts[t].position = None

Shaped(ts, pss) ==
    /\ ts \in [Tire -> Maybe(TireRow)]
    /\ pss \in [Tire -> Seq(Period)]
    /\ \A t \in Tire : ts[t] = None => pss[t] = <<>>

Good(ts, pss) == Shaped(ts, pss) /\ Agree(ts, pss) /\ CornersUnique(ts)

IInv == Good(tires, periods) /\ ~raised

-----------------------------------------------------------------------------
LEMMA DaysAreKnown == \A d \in Day : d # None
BY TireAssumption, FigureAssumption

\* One tire's history with at most one open period, once that is closed.
LEMMA ClosedHistory ==
    ASSUME NEW ps \in Seq(Period), \A i, j \in OpenIds(ps) : i = j,
           NEW when \in Day, NEW km \in Maybe(Km)
    PROVE  /\ Closed(ps, when, km) \in Seq(Period)
           /\ OpenIds(Closed(ps, when, km)) = {}
           /\ OpenCorner(Closed(ps, when, km)) = {}
<1> DEFINE cs == Closed(ps, when, km)
<1>1. DOMAIN cs = 1 .. Len(ps) /\ DOMAIN ps = 1 .. Len(ps) /\ Len(ps) \in Nat
  BY DEF Closed
<1>2. ASSUME NEW i \in 1 .. Len(ps) PROVE ps[i] \in Period
  OBVIOUS
<1>3. ASSUME NEW i \in 1 .. Len(ps), i \in OpenIds(ps)
      PROVE  cs[i] = [ps[i] EXCEPT !.off = when, !.offAt = km]
  <2>1. OpenIds(ps) \subseteq Nat
    BY <1>1 DEF OpenIds
  <2>2. \A j \in OpenIds(ps) : j <= i
    BY <1>3, <2>1
  <2> QED BY <1>1, <1>3, <2>2 DEF Closed
<1>4. ASSUME NEW i \in 1 .. Len(ps), i \notin OpenIds(ps)
      PROVE  cs[i] = ps[i]
  BY <1>1, <1>4 DEF Closed
<1>5. ASSUME NEW i \in 1 .. Len(ps) PROVE cs[i] \in Period /\ cs[i].off # None
  <2>1. CASE i \in OpenIds(ps)
    <3>1. when \in Maybe(Day) /\ km \in Maybe(Km) /\ when # None
      BY DaysAreKnown DEF Maybe
    <3> QED BY <1>2, <1>3, <2>1, <3>1 DEF Period
  <2>2. CASE i \notin OpenIds(ps)
    BY <1>1, <1>2, <1>4, <2>2 DEF OpenIds
  <2> QED BY <2>1, <2>2
<1>6. cs \in [1 .. Len(ps) -> Period]
  <2>1. cs = [i \in 1 .. Len(ps) |-> cs[i]]
    BY <1>1 DEF Closed
  <2> QED BY <1>5, <2>1
<1>7. cs \in Seq(Period)
  BY <1>1, <1>6
<1>8. OpenIds(cs) = {}
  BY <1>1, <1>5 DEF OpenIds
<1> QED BY <1>7, <1>8 DEF OpenCorner

\* One tire's history once a period is opened on a corner.
LEMMA OpenedHistory ==
    ASSUME NEW ps \in Seq(Period), OpenIds(ps) = {},
           NEW c \in Corner, NEW when \in Day, NEW km \in Maybe(Km)
    PROVE  LET qs == Append(ps, Opened(c, when, km))
           IN  /\ qs \in Seq(Period)
               /\ OpenIds(qs) = {Len(ps) + 1}
               /\ OpenCorner(qs) = {c}
<1> DEFINE p == Opened(c, when, km)
           qs == Append(ps, p)
<1>1. p \in Period /\ p.off = None /\ p.position = c
  BY DaysAreKnown DEF Opened, Period, Maybe
<1>2. /\ qs \in Seq(Period) /\ Len(qs) = Len(ps) + 1 /\ Len(ps) \in Nat
      /\ DOMAIN qs = 1 .. Len(ps) + 1
      /\ \A i \in 1 .. Len(ps) : qs[i] = ps[i]
      /\ qs[Len(ps) + 1] = p
  BY <1>1
<1>3. OpenIds(qs) = {Len(ps) + 1}
  <2>1. \A i \in 1 .. Len(ps) : ps[i].off # None
    BY DEF OpenIds
  <2> QED BY <1>1, <1>2, <2>1 DEF OpenIds
<1>4. OpenCorner(qs) = {c}
  BY <1>1, <1>2, <1>3 DEF OpenCorner
<1> QED BY <1>2, <1>3, <1>4

\* One tire's history once a closed period is added to it.
LEMMA PastHistory ==
    ASSUME NEW ps \in Seq(Period), NEW p \in Period, p.off # None
    PROVE  /\ Append(ps, p) \in Seq(Period)
           /\ OpenIds(Append(ps, p)) = OpenIds(ps)
           /\ OpenCorner(Append(ps, p)) = OpenCorner(ps)
<1> DEFINE qs == Append(ps, p)
<1>1. /\ qs \in Seq(Period) /\ Len(ps) \in Nat
      /\ DOMAIN qs = 1 .. Len(ps) + 1 /\ DOMAIN ps = 1 .. Len(ps)
      /\ \A i \in 1 .. Len(ps) : qs[i] = ps[i]
      /\ qs[Len(ps) + 1] = p
  OBVIOUS
<1>2. OpenIds(qs) = OpenIds(ps)
  BY <1>1 DEF OpenIds
<1>3. \A i \in OpenIds(ps) : qs[i] = ps[i]
  BY <1>1 DEF OpenIds
<1> QED BY <1>1, <1>2, <1>3 DEF OpenCorner

\* One tire's history once a period of it is edited as the form allows.
LEMMA EditedHistory ==
    ASSUME NEW ps \in Seq(Period), NEW i \in DOMAIN ps, NEW p \in Period,
           p.position = ps[i].position, p.off = None <=> ps[i].off = None
    PROVE  /\ [ps EXCEPT ![i] = p] \in Seq(Period)
           /\ OpenIds([ps EXCEPT ![i] = p]) = OpenIds(ps)
           /\ OpenCorner([ps EXCEPT ![i] = p]) = OpenCorner(ps)
<1> DEFINE qs == [ps EXCEPT ![i] = p]
<1>1. /\ qs \in Seq(Period)
      /\ DOMAIN qs = DOMAIN ps
      /\ \A j \in DOMAIN ps : qs[j] = IF j = i THEN p ELSE ps[j]
  OBVIOUS
<1>2. OpenIds(qs) = OpenIds(ps)
  BY <1>1 DEF OpenIds
<1>3. \A j \in OpenIds(ps) : j \in DOMAIN ps /\ qs[j].position = ps[j].position
  BY <1>1 DEF OpenIds
<1> QED BY <1>1, <1>2, <1>3 DEF OpenCorner

-----------------------------------------------------------------------------
\* What the indexes ask of a flush follows from what it may leave behind.
LEMMA GoodHoldsIndexes ==
    ASSUME NEW ts, NEW pss, Good(ts, pss)
    PROVE  IndexesHold(State(ts, pss))
<1>1. \A t \in Tire : \A i, j \in OpenIds(pss[t]) : i = j
  <2> SUFFICES ASSUME NEW t \in Tire PROVE \A i, j \in OpenIds(pss[t]) : i = j
    OBVIOUS
  <2>1. CASE ts[t] = None
    <3>1. pss[t] = <<>>
      BY <2>1 DEF Good, Shaped
    <3> QED BY <3>1 DEF OpenIds
  <2>2. CASE ts[t] # None
    BY <2>2 DEF Good, Agree
  <2> QED BY <2>1, <2>2
<1> QED BY <1>1 DEF Good, IndexesHold, State, OneOpenPeriod

\* A transaction of one flush.
LEMMA OneFlush ==
    ASSUME IInv, NEW ts, NEW pss, Good(ts, pss),
           NEW touched, NEW records,
           Transact(<<State(ts, pss)>>, touched, records)
    PROVE  IInv'
<1> DEFINE flushed == <<State(ts, pss)>>
<1>1. Len(flushed) = 1 /\ DOMAIN flushed = {1} /\ flushed[1] = State(ts, pss)
  OBVIOUS
<1>2. \A k \in DOMAIN flushed : IndexesHold(flushed[k])
  BY <1>1, GoodHoldsIndexes
<1>3. tires' = ts /\ periods' = pss /\ raised' = raised
  BY <1>1, <1>2 DEF Transact, State
<1> QED BY <1>3 DEF IInv

\* A transaction of the two flushes of apply_mount_moves.
LEMMA TwoFlushes ==
    ASSUME IInv, NEW first, NEW ts, NEW pss, IndexesHold(first), Good(ts, pss),
           NEW touched, NEW records,
           Transact(<<first, State(ts, pss)>>, touched, records)
    PROVE  IInv'
<1> DEFINE flushed == <<first, State(ts, pss)>>
<1>1. /\ Len(flushed) = 2 /\ DOMAIN flushed = {1, 2}
      /\ flushed[1] = first /\ flushed[2] = State(ts, pss)
  OBVIOUS
<1>2. \A k \in DOMAIN flushed : IndexesHold(flushed[k])
  BY <1>1, GoodHoldsIndexes
<1>3. tires' = ts /\ periods' = pss /\ raised' = raised
  BY <1>1, <1>2 DEF Transact, State
<1> QED BY <1>3 DEF IInv

\* One tire gets a row and a history that agree, on no other tire's corner.
LEMMA OneTire ==
    ASSUME Good(tires, periods), NEW t \in Tire, NEW row \in TireRow,
           NEW ps \in Seq(Period),
           OpenCorner(ps) = IF row.position = None THEN {} ELSE {row.position},
           \A i, j \in OpenIds(ps) : i = j,
           row.retired => row.position = None,
           row.position # None => At(row.position) \subseteq {t}
    PROVE  Good([tires EXCEPT ![t] = row], [periods EXCEPT ![t] = ps])
<1> DEFINE ts == [tires EXCEPT ![t] = row]
           pss == [periods EXCEPT ![t] = ps]
<1>1. /\ \A u \in Tire : ts[u] = IF u = t THEN row ELSE tires[u]
      /\ \A u \in Tire : pss[u] = IF u = t THEN ps ELSE periods[u]
  BY DEF Good, Shaped
<1>2. Shaped(ts, pss)
  <2>1. row # None
    BY NoneAssumption
  <2>2. ts \in [Tire -> Maybe(TireRow)] /\ pss \in [Tire -> Seq(Period)]
    BY DEF Good, Shaped, Maybe
  <2> QED BY <1>1, <2>1, <2>2 DEF Good, Shaped
<1>3. Agree(ts, pss)
  <2> SUFFICES ASSUME NEW u \in Tire, ts[u] # None
               PROVE  /\ OpenCorner(pss[u]) = IF ts[u].position = None THEN {}
                                              ELSE {ts[u].position}
                      /\ \A i, j \in OpenIds(pss[u]) : i = j
                      /\ ts[u].retired => ts[u].position = None
    BY DEF Agree
  <2>1. CASE u = t
    <3>1. ts[u] = row /\ pss[u] = ps
      BY <1>1, <2>1
    <3> QED BY <3>1
  <2>2. CASE u # t
    <3>1. ts[u] = tires[u] /\ pss[u] = periods[u]
      BY <1>1, <2>2
    <3>2. Agree(tires, periods)
      BY DEF Good
    <3> HIDE DEF ts, pss
    <3>3. tires[u] # None
      BY <3>1
    <3>4. /\ OpenCorner(periods[u]) = IF tires[u].position = None THEN {}
                                      ELSE {tires[u].position}
          /\ \A i, j \in OpenIds(periods[u]) : i = j
          /\ tires[u].retired => tires[u].position = None
      BY <3>2, <3>3, Zenon DEF Agree
    <3> QED BY <3>1, <3>4, Zenon
  <2> QED BY <2>1, <2>2
<1>4. CornersUnique(ts)
  <2> SUFFICES ASSUME NEW u \in Tire, NEW v \in Tire, u # v,
                      ts[u] # None, ts[v] # None, ts[u].position # None
               PROVE  ts[u].position # ts[v].position
    BY DEF CornersUnique
  <2>1. CASE u = t
    BY <1>1, <2>1 DEF At, Owned
  <2>2. CASE v = t
    BY <1>1, <2>2 DEF At, Owned
  <2>3. CASE u # t /\ v # t
    BY <1>1, <2>3 DEF Good, CornersUnique
  <2> QED BY <2>1, <2>2, <2>3
<1> QED BY <1>2, <1>3, <1>4 DEF Good

\* What is known of a tire in use.
LEMMA OneRow ==
    ASSUME Good(tires, periods), NEW t \in Owned
    PROVE  /\ t \in Tire /\ tires[t] \in TireRow /\ periods[t] \in Seq(Period)
           /\ tires[t].position \in Maybe(Corner)
           /\ tires[t].retired \in BOOLEAN /\ tires[t].inSet \in BOOLEAN
           /\ OpenCorner(periods[t]) =
                 IF tires[t].position = None THEN {} ELSE {tires[t].position}
           /\ \A i, j \in OpenIds(periods[t]) : i = j
           /\ tires[t].retired => tires[t].position = None
           /\ tires[t].position # None => At(tires[t].position) = {t}
<1>1. t \in Tire /\ tires[t] # None
  BY DEF Owned
<1>2. tires[t] \in TireRow /\ periods[t] \in Seq(Period)
  BY <1>1 DEF Good, Shaped, Maybe
<1>3. /\ tires[t].position \in Maybe(Corner)
      /\ tires[t].retired \in BOOLEAN /\ tires[t].inSet \in BOOLEAN
  BY <1>2 DEF TireRow
<1>4. /\ OpenCorner(periods[t]) =
             IF tires[t].position = None THEN {} ELSE {tires[t].position}
      /\ \A i, j \in OpenIds(periods[t]) : i = j
      /\ tires[t].retired => tires[t].position = None
  BY <1>1 DEF Good, Agree
<1>5. tires[t].position # None => At(tires[t].position) = {t}
  BY <1>1 DEF Good, CornersUnique, At, Owned
<1> QED BY <1>1, <1>2, <1>3, <1>4, <1>5

\* No open period and no corner go together.
LEMMA ClosedOnNoCorner ==
    ASSUME NEW ps \in Seq(Period)
    PROVE  OpenCorner(ps) = {} <=> OpenIds(ps) = {}
BY DEF OpenCorner

-----------------------------------------------------------------------------
\* The rows the operations write.
LEMMA Rows ==
    /\ \A c \in Maybe(Corner) :
          /\ NewTire(c) \in TireRow
          /\ NewTire(c).position = c /\ NewTire(c).retired = FALSE
    /\ \A row \in TireRow, c \in Maybe(Corner) :
          /\ [row EXCEPT !.position = c] \in TireRow
          /\ [row EXCEPT !.position = c].position = c
          /\ [row EXCEPT !.position = c].retired = row.retired
    /\ \A row \in TireRow, b \in BOOLEAN :
          /\ [row EXCEPT !.inSet = b] \in TireRow
          /\ [row EXCEPT !.inSet = b].position = row.position
          /\ [row EXCEPT !.inSet = b].retired = row.retired
    /\ \A row \in TireRow :
          /\ [row EXCEPT !.retired = FALSE] \in TireRow
          /\ [row EXCEPT !.retired = FALSE].position = row.position
          /\ [row EXCEPT !.retired = FALSE].retired = FALSE
    /\ \A row \in TireRow :
          /\ [row EXCEPT !.position = None, !.retired = TRUE] \in TireRow
          /\ [row EXCEPT !.position = None, !.retired = TRUE].position = None
    /\ \A c \in Corner : c # None
<1>1. \A c \in Maybe(Corner) :
          /\ NewTire(c) \in TireRow
          /\ NewTire(c).position = c /\ NewTire(c).retired = FALSE
  BY DEF NewTire, TireRow
<1>2. \A row \in TireRow, c \in Maybe(Corner) :
          /\ [row EXCEPT !.position = c] \in TireRow
          /\ [row EXCEPT !.position = c].position = c
          /\ [row EXCEPT !.position = c].retired = row.retired
  BY DEF TireRow
<1>3. \A row \in TireRow, b \in BOOLEAN :
          /\ [row EXCEPT !.inSet = b] \in TireRow
          /\ [row EXCEPT !.inSet = b].position = row.position
          /\ [row EXCEPT !.inSet = b].retired = row.retired
  BY DEF TireRow
<1>4. \A row \in TireRow :
          /\ [row EXCEPT !.retired = FALSE] \in TireRow
          /\ [row EXCEPT !.retired = FALSE].position = row.position
          /\ [row EXCEPT !.retired = FALSE].retired = FALSE
  BY DEF TireRow
<1>5. ASSUME NEW row \in TireRow
      PROVE  /\ [row EXCEPT !.position = None, !.retired = TRUE] \in TireRow
             /\ [row EXCEPT !.position = None, !.retired = TRUE].position = None
  <2> DEFINE mid == [row EXCEPT !.position = None]
             new == [mid EXCEPT !.retired = TRUE]
  <2>1. mid \in TireRow /\ mid.position = None
    BY DEF TireRow, Maybe
  <2>2. new \in TireRow /\ new.position = mid.position
    <3> HIDE DEF mid
    <3> QED BY <2>1 DEF TireRow
  <2>3. [row EXCEPT !.position = None, !.retired = TRUE] = new
    OBVIOUS
  <2> HIDE DEF mid, new
  <2> QED BY <2>1, <2>2, <2>3
<1>6. \A c \in Corner : c # None
  BY CornerAssumption
<1> QED BY <1>1, <1>2, <1>3, <1>4, <1>5, <1>6

LEMMA UnusedRow ==
    ASSUME Good(tires, periods), NEW t \in Tire, t \notin Owned
    PROVE  /\ periods[t] = <<>> /\ periods[t] \in Seq(Period)
           /\ OpenIds(periods[t]) = {} /\ OpenCorner(periods[t]) = {}
<1>1. periods[t] = <<>>
  BY DEF Good, Shaped, Owned
<1> QED BY <1>1 DEF OpenIds, OpenCorner

LEMMA CreateKeeps ==
    ASSUME IInv, NEW t \in Tire, Create(t)
    PROVE  IInv'
<1> DEFINE row == NewTire(None)
<1>1. Good(tires, periods) /\ t \notin Owned
  BY DEF IInv, Create
<1>2. /\ row \in TireRow /\ row.position = None /\ row.retired = FALSE
  BY Rows DEF Maybe
<1>3. Good([tires EXCEPT ![t] = row], [periods EXCEPT ![t] = periods[t]])
  BY <1>1, <1>2, UnusedRow, OneTire
<1>4. [periods EXCEPT ![t] = periods[t]] = periods
  BY <1>1 DEF Good, Shaped
<1>5. Good([tires EXCEPT ![t] = row], periods)
  BY <1>3, <1>4
<1> QED BY <1>5, OneFlush DEF Create

LEMMA CreateAndMountKeeps ==
    ASSUME IInv, NEW t \in Tire, NEW c \in Corner, NEW when \in Day, NEW km \in Maybe(Km),
           CreateAndMount(t, c, when, km)
    PROVE  IInv'
<1> DEFINE row == NewTire(c)
           ps == <<Opened(c, when, km)>>
<1>1. Good(tires, periods) /\ t \notin Owned /\ At(c) = {}
  BY DEF IInv, CreateAndMount
<1>2. row \in TireRow /\ row.position = c /\ row.retired = FALSE /\ c # None
  BY Rows DEF Maybe
<1>3. ps = Append(periods[t], Opened(c, when, km))
  BY <1>1, UnusedRow
<1>4. /\ ps \in Seq(Period) /\ OpenCorner(ps) = {c}
      /\ \A i, j \in OpenIds(ps) : i = j
  <2>1. periods[t] \in Seq(Period) /\ OpenIds(periods[t]) = {}
    BY <1>1, UnusedRow
  <2>2. /\ ps \in Seq(Period) /\ OpenCorner(ps) = {c}
        /\ OpenIds(ps) = {Len(periods[t]) + 1}
    <3> HIDE DEF ps
    <3> QED BY <1>3, <2>1, OpenedHistory
  <2> HIDE DEF ps
  <2> QED BY <2>2, Zenon
<1>5. Good([tires EXCEPT ![t] = row], [periods EXCEPT ![t] = ps])
  BY <1>1, <1>2, <1>4, OneTire
<1> QED BY <1>5, OneFlush DEF CreateAndMount

LEMMA MountKeeps ==
    ASSUME IInv, NEW t \in Tire, NEW c \in Corner, NEW when \in Day, NEW km \in Maybe(Km),
           Mount(t, c, when, km)
    PROVE  IInv'
<1> DEFINE row == [tires[t] EXCEPT !.position = c]
           ps == Append(periods[t], Opened(c, when, km))
<1>1. /\ Good(tires, periods) /\ t \in Owned /\ ~tires[t].retired
      /\ tires[t].position = None /\ At(c) = {}
  BY DEF IInv, Mount, InUse
<1>2. /\ periods[t] \in Seq(Period) /\ OpenIds(periods[t]) = {}
      /\ tires[t] \in TireRow
  BY <1>1, OneRow, ClosedOnNoCorner
<1>3. row \in TireRow /\ row.position = c /\ row.retired = FALSE /\ c # None
  <2>1. tires[t].retired = FALSE
    BY <1>1, OneRow
  <2>2. c \in Maybe(Corner)
    BY DEF Maybe
  <2> QED BY <1>2, <2>1, <2>2, Rows, Zenon
<1>4. /\ ps \in Seq(Period) /\ OpenCorner(ps) = {c}
      /\ \A i, j \in OpenIds(ps) : i = j
  BY <1>2, OpenedHistory
<1>5. Good([tires EXCEPT ![t] = row], [periods EXCEPT ![t] = ps])
  BY <1>1, <1>3, <1>4, OneTire
<1> QED BY <1>5, OneFlush DEF Mount

LEMMA DismountKeeps ==
    ASSUME IInv, NEW t \in Tire, NEW when \in Day, NEW km \in Maybe(Km),
           Dismount(t, when, km)
    PROVE  IInv'
<1> DEFINE row == [tires[t] EXCEPT !.position = None]
           ps == Closed(periods[t], when, km)
<1>1. Good(tires, periods) /\ t \in Owned
  BY DEF IInv, Dismount
<1>2. /\ periods[t] \in Seq(Period) /\ tires[t] \in TireRow
      /\ \A i, j \in OpenIds(periods[t]) : i = j
  BY <1>1, OneRow
<1>3. row \in TireRow /\ row.position = None
  <2>1. None \in Maybe(Corner)
    BY DEF Maybe
  <2> QED BY <1>2, <2>1, Rows, Zenon
<1>4. ps \in Seq(Period) /\ OpenCorner(ps) = {} /\ OpenIds(ps) = {}
  BY <1>2, ClosedHistory
<1>5. Good([tires EXCEPT ![t] = row], [periods EXCEPT ![t] = ps])
  BY <1>1, <1>3, <1>4, OneTire
<1> QED BY <1>5, OneFlush DEF Dismount

LEMMA RetireKeeps ==
    ASSUME IInv, NEW t \in Tire, NEW when \in Day, NEW km \in Maybe(Km),
           Retire(t, when, km)
    PROVE  IInv'
<1> DEFINE row == [tires[t] EXCEPT !.position = None, !.retired = TRUE]
           ps == Closed(periods[t], when, km)
           ts == [tires EXCEPT ![t].position = None, ![t].retired = TRUE]
<1>1. Good(tires, periods) /\ t \in Owned
  BY DEF IInv, Retire, InUse
<1>2. /\ periods[t] \in Seq(Period) /\ tires[t] \in TireRow
      /\ \A i, j \in OpenIds(periods[t]) : i = j
      /\ tires[t].position = None => OpenCorner(periods[t]) = {}
  BY <1>1, OneRow
<1>3. row \in TireRow /\ row.position = None
  BY <1>2, Rows
<1>4. ts = [tires EXCEPT ![t] = row]
  <2>1. tires \in [Tire -> Maybe(TireRow)]
    BY <1>1 DEF Good, Shaped
  <2> QED BY <1>2, <2>1 DEF TireRow
<1>5. CASE tires[t].position # None
  <2>1. ps \in Seq(Period) /\ OpenCorner(ps) = {} /\ OpenIds(ps) = {}
    BY <1>2, ClosedHistory
  <2>2. Good(ts, [periods EXCEPT ![t] = ps])
    BY <1>1, <1>3, <1>4, <2>1, OneTire
  <2>3. [periods EXCEPT ![t] = Closed(@, when, km)] = [periods EXCEPT ![t] = ps]
    OBVIOUS
  <2> QED BY <1>5, <2>2, <2>3, OneFlush DEF Retire
<1>6. CASE tires[t].position = None
  <2>1. Good(ts, [periods EXCEPT ![t] = periods[t]])
    BY <1>1, <1>2, <1>3, <1>4, <1>6, OneTire
  <2>2. [periods EXCEPT ![t] = periods[t]] = periods
    BY <1>1 DEF Good, Shaped
  <2>3. Good(ts, periods)
    BY <2>1, <2>2
  <2> QED BY <1>6, <2>3, OneFlush DEF Retire
<1> QED BY <1>5, <1>6

LEMMA RestoreKeeps ==
    ASSUME IInv, NEW t \in Tire, Restore(t)
    PROVE  IInv'
<1> DEFINE row == [tires[t] EXCEPT !.retired = FALSE]
<1>1. Good(tires, periods) /\ t \in Owned /\ tires[t].retired
  BY DEF IInv, Restore
<1>2. /\ periods[t] \in Seq(Period) /\ tires[t] \in TireRow
      /\ \A i, j \in OpenIds(periods[t]) : i = j
      /\ tires[t].position = None /\ OpenCorner(periods[t]) = {}
  BY <1>1, OneRow
<1>3. row \in TireRow /\ row.position = None /\ row.retired = FALSE
  BY <1>2, Rows
<1>4. Good([tires EXCEPT ![t] = row], [periods EXCEPT ![t] = periods[t]])
  BY <1>1, <1>2, <1>3, OneTire
<1>5. [periods EXCEPT ![t] = periods[t]] = periods
  BY <1>1 DEF Good, Shaped
<1>6. Good([tires EXCEPT ![t] = row], periods)
  BY <1>4, <1>5
<1> QED BY <1>6, OneFlush DEF Restore

-----------------------------------------------------------------------------
\* The first flush of apply_mount_moves.
LEMMA VacatedIsGood ==
    ASSUME NEW ts, NEW pss, Good(ts, pss), NEW vacate,
           \A t \in vacate : t \in Tire /\ ts[t] # None,
           NEW when \in Day, NEW km \in Maybe(Km)
    PROVE  LET s == Vacated(State(ts, pss), vacate, when, km)
           IN  /\ s = State(s.tires, s.periods)
               /\ Good(s.tires, s.periods)
               /\ \A t \in Tire :
                    /\ ts[t] # None <=> s.tires[t] # None
                    /\ t \in vacate => s.tires[t].position = None
                    /\ t \in vacate => s.tires[t].retired = ts[t].retired
                    /\ t \notin vacate => s.tires[t] = ts[t]
<1> DEFINE s == Vacated(State(ts, pss), vacate, when, km)
           us == s.tires
           qss == s.periods
<1>1. s = State(us, qss)
  BY DEF Vacated, State
<1>2. /\ us = [t \in Tire |-> IF t \in vacate THEN [ts[t] EXCEPT !.position = None]
                              ELSE ts[t]]
      /\ qss = [t \in Tire |-> IF t \in vacate THEN Closed(pss[t], when, km)
                               ELSE pss[t]]
  BY DEF Vacated, State
<1> HIDE DEF s, us, qss
<1>3. ASSUME NEW t \in Tire
      PROVE  /\ t \in vacate => /\ us[t] = [ts[t] EXCEPT !.position = None]
                                /\ qss[t] = Closed(pss[t], when, km)
             /\ t \notin vacate => us[t] = ts[t] /\ qss[t] = pss[t]
  BY <1>2
<1>4. ASSUME NEW t \in vacate
      PROVE  /\ t \in Tire /\ ts[t] \in TireRow /\ ts[t] # None
             /\ us[t] \in TireRow /\ us[t] # None
             /\ us[t].position = None /\ us[t].retired = ts[t].retired
             /\ qss[t] \in Seq(Period)
             /\ OpenIds(qss[t]) = {} /\ OpenCorner(qss[t]) = {}
  <2>1. t \in Tire /\ ts[t] # None
    OBVIOUS
  <2>2. ts[t] \in TireRow /\ pss[t] \in Seq(Period)
    BY <2>1 DEF Good, Shaped, Maybe
  <2>3. \A i, j \in OpenIds(pss[t]) : i = j
    BY <2>1 DEF Good, Agree
  <2>4. None \in Maybe(Corner)
    BY DEF Maybe
  <2>5. /\ us[t] = [ts[t] EXCEPT !.position = None]
        /\ qss[t] = Closed(pss[t], when, km)
    BY <1>3, <2>1
  <2>6. us[t] \in TireRow /\ us[t].position = None /\ us[t].retired = ts[t].retired
    <3> DEFINE new == [ts[t] EXCEPT !.position = None]
    <3>1. /\ new \in TireRow /\ new.position = None
          /\ new.retired = ts[t].retired
      BY <2>2, <2>4, Rows, Zenon
    <3> HIDE DEF new
    <3> QED BY <2>5, <3>1 DEF new
  <2>7. us[t] # None
    BY <2>6, NoneAssumption
  <2>8. /\ qss[t] \in Seq(Period)
        /\ OpenIds(qss[t]) = {} /\ OpenCorner(qss[t]) = {}
    BY <2>2, <2>3, <2>5, ClosedHistory
  <2> QED BY <2>1, <2>2, <2>6, <2>7, <2>8
<1>5. Shaped(us, qss)
  <2>1. ASSUME NEW t \in Tire
        PROVE  /\ us[t] \in Maybe(TireRow) /\ qss[t] \in Seq(Period)
               /\ us[t] = None => qss[t] = <<>>
    BY <1>3, <1>4 DEF Good, Shaped, Maybe
  <2>2. us \in [Tire -> Maybe(TireRow)] /\ qss \in [Tire -> Seq(Period)]
    BY <1>2, <2>1
  <2> QED BY <2>1, <2>2 DEF Shaped
<1>6. Agree(us, qss)
  <2> SUFFICES ASSUME NEW t \in Tire, us[t] # None
               PROVE  /\ OpenCorner(qss[t]) = IF us[t].position = None THEN {}
                                              ELSE {us[t].position}
                      /\ \A i, j \in OpenIds(qss[t]) : i = j
                      /\ us[t].retired => us[t].position = None
    BY DEF Agree
  <2>1. CASE t \in vacate
    <3>1. /\ us[t].position = None
          /\ OpenIds(qss[t]) = {} /\ OpenCorner(qss[t]) = {}
      BY <1>4, <2>1
    <3> QED BY <3>1
  <2>2. CASE t \notin vacate
    <3>1. us[t] = ts[t] /\ qss[t] = pss[t] /\ Agree(ts, pss)
      BY <1>3, <2>2 DEF Good
    <3>2. ts[t] # None
      BY <3>1
    <3>3. /\ OpenCorner(pss[t]) = IF ts[t].position = None THEN {}
                                  ELSE {ts[t].position}
          /\ \A i, j \in OpenIds(pss[t]) : i = j
          /\ ts[t].retired => ts[t].position = None
      BY <3>1, <3>2, Zenon DEF Agree
    <3> QED BY <3>1, <3>3, Zenon
  <2> QED BY <2>1, <2>2
<1>7. CornersUnique(us)
  <2> SUFFICES ASSUME NEW t \in Tire, NEW u \in Tire, t # u,
                      us[t] # None, us[u] # None, us[t].position # None
               PROVE  us[t].position # us[u].position
    BY DEF CornersUnique
  <2>1. t \notin vacate /\ us[t] = ts[t]
    BY <1>3, <1>4
  <2>2. CASE u \in vacate
    BY <1>4, <2>1, <2>2
  <2>3. CASE u \notin vacate
    <3>1. us[u] = ts[u]
      BY <1>3, <2>3
    <3> QED BY <2>1, <3>1 DEF Good, CornersUnique
  <2> QED BY <2>2, <2>3
<1>8. \A t \in Tire :
         /\ ts[t] # None <=> us[t] # None
         /\ t \in vacate => us[t].position = None
         /\ t \in vacate => us[t].retired = ts[t].retired
         /\ t \notin vacate => us[t] = ts[t]
  BY <1>3, <1>4
<1> QED BY <1>1, <1>5, <1>6, <1>7, <1>8 DEF Good, s, us, qss

\* The second flush, onto corners nobody holds any more.
LEMMA AssignedIsGood ==
    ASSUME NEW ts, NEW pss, Good(ts, pss), NEW assign,
           \A t \in DOMAIN assign :
              /\ t \in Tire /\ ts[t] # None
              /\ ts[t].position = None /\ ts[t].retired = FALSE
              /\ assign[t] \in Corner
              /\ \A u \in Tire : ts[u] # None => ts[u].position # assign[t]
              /\ \A u \in DOMAIN assign : t # u => assign[t] # assign[u],
           NEW when \in Day, NEW km \in Maybe(Km)
    PROVE  LET s == Assigned(State(ts, pss), assign, when, km)
           IN  s = State(s.tires, s.periods) /\ Good(s.tires, s.periods)
<1> DEFINE s == Assigned(State(ts, pss), assign, when, km)
           us == s.tires
           qss == s.periods
           moved == DOMAIN assign
<1>1. s = State(us, qss)
  BY DEF Assigned, State
<1>2. /\ us = [t \in Tire |-> IF t \in moved
                              THEN [ts[t] EXCEPT !.position = assign[t]] ELSE ts[t]]
      /\ qss = [t \in Tire |-> IF t \in moved
                               THEN Append(pss[t], Opened(assign[t], when, km))
                               ELSE pss[t]]
  BY DEF Assigned, State
<1> HIDE DEF s, us, qss, moved
<1>3. ASSUME NEW t \in Tire
      PROVE  /\ t \in moved => /\ us[t] = [ts[t] EXCEPT !.position = assign[t]]
                               /\ qss[t] = Append(pss[t], Opened(assign[t], when, km))
             /\ t \notin moved => us[t] = ts[t] /\ qss[t] = pss[t]
  BY <1>2
<1>4. ASSUME NEW t \in moved
      PROVE  /\ t \in Tire
             /\ us[t] \in TireRow /\ us[t] # None
             /\ assign[t] # None
             /\ us[t].position = assign[t] /\ us[t].retired = FALSE
             /\ qss[t] \in Seq(Period)
             /\ OpenIds(qss[t]) = {Len(pss[t]) + 1}
             /\ OpenCorner(qss[t]) = {assign[t]}
  <2>1. /\ t \in Tire /\ ts[t] # None /\ assign[t] \in Corner
        /\ ts[t].position = None /\ ts[t].retired = FALSE
    BY DEF moved
  <2>2. ts[t] \in TireRow /\ pss[t] \in Seq(Period)
    BY <2>1 DEF Good, Shaped, Maybe
  <2>3. OpenCorner(pss[t]) = {}
    BY <2>1, Zenon DEF Good, Agree
  <2>4. OpenIds(pss[t]) = {}
    BY <2>2, <2>3, ClosedOnNoCorner
  <2>5. assign[t] \in Maybe(Corner) /\ assign[t] # None
    BY <2>1, CornerAssumption DEF Maybe
  <2>6. /\ us[t] = [ts[t] EXCEPT !.position = assign[t]]
        /\ qss[t] = Append(pss[t], Opened(assign[t], when, km))
    BY <1>3, <2>1
  <2>7. us[t] \in TireRow /\ us[t].position = assign[t] /\ us[t].retired = FALSE
    <3> DEFINE new == [ts[t] EXCEPT !.position = assign[t]]
    <3>1. /\ new \in TireRow /\ new.position = assign[t]
          /\ new.retired = ts[t].retired
      BY <2>2, <2>5, Rows, Zenon
    <3> HIDE DEF new
    <3> QED BY <2>1, <2>6, <3>1 DEF new
  <2>8. us[t] # None
    BY <2>7, NoneAssumption
  <2>9. /\ qss[t] \in Seq(Period)
        /\ OpenIds(qss[t]) = {Len(pss[t]) + 1}
        /\ OpenCorner(qss[t]) = {assign[t]}
    BY <2>1, <2>2, <2>4, <2>6, OpenedHistory
  <2> QED BY <2>1, <2>5, <2>7, <2>8, <2>9
<1>5. Shaped(us, qss)
  <2>1. ASSUME NEW t \in Tire
        PROVE  /\ us[t] \in Maybe(TireRow) /\ qss[t] \in Seq(Period)
               /\ us[t] = None => qss[t] = <<>>
    BY <1>3, <1>4 DEF Good, Shaped, Maybe
  <2>2. us \in [Tire -> Maybe(TireRow)] /\ qss \in [Tire -> Seq(Period)]
    BY <1>2, <2>1
  <2> QED BY <2>1, <2>2 DEF Shaped
<1>6. Agree(us, qss)
  <2> SUFFICES ASSUME NEW t \in Tire, us[t] # None
               PROVE  /\ OpenCorner(qss[t]) = IF us[t].position = None THEN {}
                                              ELSE {us[t].position}
                      /\ \A i, j \in OpenIds(qss[t]) : i = j
                      /\ us[t].retired => us[t].position = None
    BY DEF Agree
  <2>1. CASE t \in moved
    <3>1. /\ us[t].position = assign[t] /\ assign[t] # None /\ us[t].retired = FALSE
          /\ OpenIds(qss[t]) = {Len(pss[t]) + 1} /\ OpenCorner(qss[t]) = {assign[t]}
      BY <1>4, <2>1
    <3> QED BY <3>1
  <2>2. CASE t \notin moved
    <3>1. us[t] = ts[t] /\ qss[t] = pss[t] /\ Agree(ts, pss)
      BY <1>3, <2>2 DEF Good
    <3>2. ts[t] # None
      BY <3>1
    <3>3. /\ OpenCorner(pss[t]) = IF ts[t].position = None THEN {}
                                  ELSE {ts[t].position}
          /\ \A i, j \in OpenIds(pss[t]) : i = j
          /\ ts[t].retired => ts[t].position = None
      BY <3>1, <3>2, Zenon DEF Agree
    <3> QED BY <3>1, <3>3, Zenon
  <2> QED BY <2>1, <2>2
<1>7. CornersUnique(us)
  <2> SUFFICES ASSUME NEW t \in Tire, NEW u \in Tire, t # u,
                      us[t] # None, us[u] # None, us[t].position # None
               PROVE  us[t].position # us[u].position
    BY DEF CornersUnique
  <2>1. CASE t \in moved /\ u \in moved
    <3>1. assign[t] # assign[u]
      BY <2>1 DEF moved
    <3> QED BY <1>4, <2>1, <3>1
  <2>2. CASE t \in moved /\ u \notin moved
    <3>1. us[u] = ts[u] /\ us[t].position = assign[t]
      BY <1>3, <1>4, <2>2
    <3>2. ts[u].position # assign[t]
      BY <2>2, <3>1 DEF moved
    <3> QED BY <3>1, <3>2
  <2>3. CASE t \notin moved /\ u \in moved
    <3>1. us[t] = ts[t] /\ us[u].position = assign[u]
      BY <1>3, <1>4, <2>3
    <3>2. ts[t].position # assign[u]
      BY <2>3, <3>1 DEF moved
    <3> QED BY <3>1, <3>2
  <2>4. CASE t \notin moved /\ u \notin moved
    <3>1. us[t] = ts[t] /\ us[u] = ts[u]
      BY <1>3, <2>4
    <3> QED BY <3>1 DEF Good, CornersUnique
  <2> QED BY <2>1, <2>2, <2>3, <2>4
<1> QED BY <1>1, <1>5, <1>6, <1>7 DEF Good, s, us, qss

\* A transaction of moves whose targets are free once they are vacated.
LEMMA MovesKeep ==
    ASSUME IInv, NEW vacate \in SUBSET Owned, NEW assign,
           \A t \in DOMAIN assign :
              /\ t \in InUse /\ assign[t] \in Corner
              /\ tires[t].position # None => t \in vacate
              /\ At(assign[t]) \subseteq vacate
              /\ \A u \in DOMAIN assign : t # u => assign[t] # assign[u],
           NEW when \in Day, NEW km \in Maybe(Km),
           NEW touched, NEW records,
           Transact(ApplyMoves(vacate, assign, when, km), touched, records)
    PROVE  IInv'
<1> DEFINE first == Vacated(State(tires, periods), vacate, when, km)
           ts == first.tires
           pss == first.periods
           last == Assigned(first, assign, when, km)
<1>1. Good(tires, periods)
  BY DEF IInv
<1>2. \A t \in vacate : t \in Tire /\ tires[t] # None
  BY DEF Owned
<1>3. /\ first = State(ts, pss) /\ Good(ts, pss)
      /\ \A t \in Tire :
            /\ tires[t] # None <=> ts[t] # None
            /\ t \in vacate => ts[t].position = None
            /\ t \in vacate => ts[t].retired = tires[t].retired
            /\ t \notin vacate => ts[t] = tires[t]
  BY <1>1, <1>2, VacatedIsGood
<1> HIDE DEF first
<1>4. ASSUME NEW t \in DOMAIN assign
      PROVE  /\ t \in Tire /\ ts[t] # None
             /\ ts[t].position = None /\ ts[t].retired = FALSE
             /\ assign[t] \in Corner
             /\ \A u \in Tire : ts[u] # None => ts[u].position # assign[t]
             /\ \A u \in DOMAIN assign : t # u => assign[t] # assign[u]
  <2>1. t \in InUse /\ assign[t] \in Corner /\ assign[t] # None
    BY CornerAssumption
  <2>2. t \in Owned /\ t \in Tire /\ tires[t] # None /\ ~tires[t].retired
    BY <2>1 DEF InUse, Owned
  <2>3. tires[t].retired = FALSE
    BY <1>1, <2>2, OneRow
  <2>4. ts[t].position = None /\ ts[t].retired = FALSE
    BY <1>3, <2>2, <2>3
  <2>5. ASSUME NEW u \in Tire, ts[u] # None PROVE ts[u].position # assign[t]
    <3>1. CASE u \in vacate
      BY <1>3, <2>1, <3>1
    <3>2. CASE u \notin vacate
      <4>1. u \in Owned /\ ts[u] = tires[u]
        BY <1>3, <2>5, <3>2 DEF Owned
      <4>2. u \notin At(assign[t])
        BY <3>2
      <4> QED BY <4>1, <4>2 DEF At
    <3> QED BY <3>1, <3>2
  <2> QED BY <1>3, <2>1, <2>2, <2>4, <2>5
<1>5. last = State(last.tires, last.periods) /\ Good(last.tires, last.periods)
  <2>1. last = Assigned(State(ts, pss), assign, when, km)
    BY <1>3
  <2>2. Good(ts, pss)
    BY <1>3
  <2>3. LET s == Assigned(State(ts, pss), assign, when, km)
        IN  s = State(s.tires, s.periods) /\ Good(s.tires, s.periods)
    <3> HIDE DEF ts, pss
    <3> QED BY <1>4, <2>2, AssignedIsGood, Zenon
  <2> QED BY <2>1, <2>3, Zenon
<1>6. IndexesHold(first)
  BY <1>3, GoodHoldsIndexes
<1>7. ApplyMoves(vacate, assign, when, km) = <<first, State(last.tires, last.periods)>>
  BY <1>5 DEF ApplyMoves, first
<1> HIDE DEF ts, pss, last
<1> QED BY <1>5, <1>6, <1>7, TwoFlushes

LEMMA RotateKeeps ==
    ASSUME IInv, NEW moves \in Moves, NEW when \in Day, NEW km \in Maybe(Km),
           Rotate(moves, when, km)
    PROVE  IInv'
<1>1. /\ DOMAIN moves \in SUBSET InUse
      /\ \A t \in DOMAIN moves : moves[t] \in Corner
      /\ \A t, u \in DOMAIN moves : t # u => moves[t] # moves[u]
  BY DEF Moves
<1>2. DOMAIN moves \in SUBSET Owned
  BY <1>1 DEF InUse
<1>3. \A t \in DOMAIN moves :
         /\ t \in InUse /\ moves[t] \in Corner
         /\ tires[t].position # None => t \in DOMAIN moves
         /\ At(moves[t]) \subseteq DOMAIN moves
         /\ \A u \in DOMAIN moves : t # u => moves[t] # moves[u]
  BY <1>1 DEF Rotate
<1> QED BY <1>2, <1>3, MovesKeep DEF Rotate

LEMMA RememberedIsCorner ==
    ASSUME Good(tires, periods), NEW t \in Owned, Remembered(t) # None
    PROVE  Remembered(t) \in Corner
<1>1. tires[t].position \in Maybe(Corner) /\ periods[t] \in Seq(Period)
  BY OneRow
<1>2. CASE tires[t].position # None
  BY <1>1, <1>2 DEF Remembered, Maybe
<1>3. CASE tires[t].position = None
  <2>1. periods[t] # <<>> /\ Remembered(t) = periods[t][Len(periods[t])].position
    BY <1>3 DEF Remembered
  <2>2. periods[t][Len(periods[t])] \in Period
    BY <1>1, <2>1
  <2> QED BY <2>1, <2>2 DEF Period
<1> QED BY <1>2, <1>3

LEMMA MountSetKeeps ==
    ASSUME IInv, NEW when \in Day, NEW km \in Maybe(Km), MountSet(when, km)
    PROVE  IInv'
<1> DEFINE wanted == {Remembered(t) : t \in Members}
           displaced == (UNION {At(c) : c \in wanted}) \ Members
           moving == {t \in Members : tires[t].position # Remembered(t)}
           assign == [t \in moving |-> Remembered(t)]
           vacate == displaced \union {t \in moving : tires[t].position # None}
           flushed == ApplyMoves(vacate, assign, when, km)
<1>1. Good(tires, periods)
  BY DEF IInv
<1>2. Members \subseteq InUse /\ InUse \subseteq Owned /\ Owned \subseteq Tire
  BY DEF Members, InUse, Owned
<1>3. vacate \in SUBSET Owned
  BY <1>2 DEF At
<1>4. ASSUME NEW t \in DOMAIN assign
      PROVE  /\ t \in InUse /\ assign[t] \in Corner
             /\ tires[t].position # None => t \in vacate
             /\ At(assign[t]) \subseteq vacate
             /\ \A u \in DOMAIN assign : t # u => assign[t] # assign[u]
  <2>1. t \in moving /\ t \in Members /\ t \in InUse /\ t \in Owned
    BY <1>2
  <2>2. /\ assign[t] = Remembered(t) /\ Remembered(t) # None
        /\ \A u \in Members : t # u => Remembered(t) # Remembered(u)
    BY <2>1 DEF MountSet
  <2>3. assign[t] \in Corner
    BY <1>1, <2>1, <2>2, RememberedIsCorner
  <2>4. ASSUME NEW u \in At(assign[t]) PROVE u \in vacate
    <3>1. u \in Owned /\ tires[u].position = Remembered(t)
      BY <2>2 DEF At
    <3>2. CASE u \in Members
      <4>1. Remembered(u) = tires[u].position
        BY <2>2, <3>1 DEF Remembered
      <4>2. u = t
        BY <2>2, <3>1, <3>2, <4>1
      <4> QED BY <2>1, <3>1, <4>2
    <3>3. CASE u \notin Members
      BY <2>1, <2>2, <3>3
    <3> QED BY <3>2, <3>3
  <2>5. \A u \in DOMAIN assign : t # u => assign[t] # assign[u]
    BY <2>2
  <2> QED BY <2>1, <2>3, <2>4, <2>5
<1>5. Transact(flushed, TouchedBy(flushed, displaced \union moving),
               Publish(log, when, km, SetFit))
  BY Zenon DEF MountSet
<1> HIDE DEF assign, vacate
<1> QED BY <1>3, <1>4, <1>5, MovesKeep

-----------------------------------------------------------------------------
LEMMA DeleteSetKeeps ==
    ASSUME IInv, DeleteSet
    PROVE  IInv'
<1>1. Good(tires, periods)
  BY DEF IInv
<1>2. tires' = [t \in Tire |-> IF t \in Owned THEN [tires[t] EXCEPT !.inSet = FALSE]
                               ELSE None]
  BY DEF DeleteSet
<1>3. ASSUME NEW t \in Tire, tires[t] # None
      PROVE  /\ tires'[t] \in TireRow /\ tires'[t] # None
             /\ tires'[t].position = tires[t].position
             /\ tires'[t].retired = tires[t].retired
  <2> DEFINE new == [tires[t] EXCEPT !.inSet = FALSE]
  <2>1. tires[t] \in TireRow
    BY <1>1, <1>3 DEF Good, Shaped, Maybe
  <2>2. /\ new \in TireRow /\ new.position = tires[t].position
        /\ new.retired = tires[t].retired
    BY <2>1, Rows, Zenon
  <2>3. tires'[t] = new
    BY <1>2, <1>3 DEF Owned
  <2> HIDE DEF new
  <2> QED BY <2>2, <2>3, NoneAssumption
<1>4. \A t \in Tire : tires[t] = None => tires'[t] = None
  BY <1>2 DEF Owned
<1>5. Shaped(tires', periods)
  <2>1. \A t \in Tire : tires'[t] \in Maybe(TireRow)
    BY <1>3, <1>4 DEF Maybe
  <2>2. tires' \in [Tire -> Maybe(TireRow)]
    BY <1>2, <2>1
  <2> QED BY <1>1, <1>3, <1>4, <2>2 DEF Good, Shaped
<1>6. Agree(tires', periods)
  <2> SUFFICES ASSUME NEW t \in Tire, tires'[t] # None
               PROVE  /\ OpenCorner(periods[t]) = IF tires'[t].position = None THEN {}
                                                  ELSE {tires'[t].position}
                      /\ \A i, j \in OpenIds(periods[t]) : i = j
                      /\ tires'[t].retired => tires'[t].position = None
    BY DEF Agree
  <2>1. tires[t] # None /\ t \in Owned
    BY <1>4 DEF Owned
  <2>2. /\ OpenCorner(periods[t]) = IF tires[t].position = None THEN {}
                                    ELSE {tires[t].position}
        /\ \A i, j \in OpenIds(periods[t]) : i = j
        /\ tires[t].retired => tires[t].position = None
    BY <1>1, <2>1, Zenon DEF Good, Agree
  <2> QED BY <1>3, <2>1, <2>2, Zenon
<1>7. CornersUnique(tires')
  <2> SUFFICES ASSUME NEW t \in Tire, NEW u \in Tire, t # u,
                      tires'[t] # None, tires'[u] # None, tires'[t].position # None
               PROVE  tires'[t].position # tires'[u].position
    BY DEF CornersUnique
  <2> QED BY <1>1, <1>3, <1>4 DEF Good, CornersUnique
<1>8. periods' = periods /\ raised' = raised
  BY DEF DeleteSet
<1> QED BY <1>5, <1>6, <1>7, <1>8 DEF IInv, Good

LEMMA AddPastKeeps ==
    ASSUME IInv, NEW t \in Tire, NEW p \in Period, AddPast(t, p)
    PROVE  IInv'
<1> DEFINE ps == Append(periods[t], p)
<1>1. Good(tires, periods) /\ t \in Owned /\ p.off # None
  BY DEF IInv, AddPast
<1>2. p \in Period
  OBVIOUS
<1>3. /\ periods[t] \in Seq(Period) /\ tires[t] \in TireRow
      /\ OpenCorner(periods[t]) =
            IF tires[t].position = None THEN {} ELSE {tires[t].position}
      /\ \A i, j \in OpenIds(periods[t]) : i = j
      /\ tires[t].retired => tires[t].position = None
      /\ tires[t].position # None => At(tires[t].position) \subseteq {t}
  BY <1>1, OneRow
<1>4. /\ ps \in Seq(Period) /\ OpenIds(ps) = OpenIds(periods[t])
      /\ OpenCorner(ps) = OpenCorner(periods[t])
  BY <1>1, <1>2, <1>3, PastHistory
<1>5. Good([tires EXCEPT ![t] = tires[t]], [periods EXCEPT ![t] = ps])
  <2> HIDE DEF ps
  <2> QED BY <1>1, <1>3, <1>4, OneTire
<1>6. [tires EXCEPT ![t] = tires[t]] = tires
  BY <1>1 DEF Good, Shaped
<1>7. Good(tires, [periods EXCEPT ![t] = ps])
  BY <1>5, <1>6
<1> QED BY <1>7, OneFlush DEF AddPast

LEMMA EditPeriodKeeps ==
    ASSUME IInv, NEW t \in Tire, NEW i \in DOMAIN periods[t], NEW p \in Period,
           EditPeriod(t, i, p)
    PROVE  IInv'
<1> DEFINE ps == [periods[t] EXCEPT ![i] = p]
<1>1. /\ Good(tires, periods)
      /\ p.position = periods[t][i].position
      /\ p.off = None <=> periods[t][i].off = None
  BY DEF IInv, EditPeriod
<1>2. t \in Owned
  BY <1>1, UnusedRow
<1>3. p \in Period
  OBVIOUS
<1>4. /\ periods[t] \in Seq(Period) /\ tires[t] \in TireRow
      /\ OpenCorner(periods[t]) =
            IF tires[t].position = None THEN {} ELSE {tires[t].position}
      /\ \A k, j \in OpenIds(periods[t]) : k = j
      /\ tires[t].retired => tires[t].position = None
      /\ tires[t].position # None => At(tires[t].position) \subseteq {t}
  BY <1>1, <1>2, OneRow
<1>5. /\ ps \in Seq(Period) /\ OpenIds(ps) = OpenIds(periods[t])
      /\ OpenCorner(ps) = OpenCorner(periods[t])
  BY <1>1, <1>3, <1>4, EditedHistory
<1>6. Good([tires EXCEPT ![t] = tires[t]], [periods EXCEPT ![t] = ps])
  <2> HIDE DEF ps
  <2>1. /\ OpenCorner(ps) =
              IF tires[t].position = None THEN {} ELSE {tires[t].position}
        /\ \A k, j \in OpenIds(ps) : k = j
    BY <1>4, <1>5, Zenon
  <2> QED BY <1>1, <1>4, <1>5, <2>1, OneTire, Zenon
<1>7. [tires EXCEPT ![t] = tires[t]] = tires
  BY <1>1 DEF Good, Shaped
<1>8. Good(tires, [periods EXCEPT ![t] = ps])
  BY <1>6, <1>7
<1>9. [periods EXCEPT ![t][i] = p] = [periods EXCEPT ![t] = ps]
  OBVIOUS
<1> QED BY <1>8, <1>9, OneFlush DEF EditPeriod

LEMMA DeleteKeeps ==
    ASSUME IInv, NEW t \in Tire, Delete(t)
    PROVE  IInv'
<1>1. Good(tires, periods) /\ raised' = raised
  BY DEF IInv, Delete
<1>2. tires' = [tires EXCEPT ![t] = None] /\ periods' = [periods EXCEPT ![t] = <<>>]
  BY DEF Delete
<1>3. \A u \in Tire :
         /\ tires'[u] = IF u = t THEN None ELSE tires[u]
         /\ periods'[u] = IF u = t THEN <<>> ELSE periods[u]
  BY <1>1, <1>2 DEF Good, Shaped
<1>4. Shaped(tires', periods')
  <2>1. tires' \in [Tire -> Maybe(TireRow)] /\ periods' \in [Tire -> Seq(Period)]
    BY <1>1, <1>2 DEF Good, Shaped, Maybe
  <2> QED BY <1>1, <1>3, <2>1 DEF Good, Shaped
<1>5. \A u \in Tire : tires'[u] # None =>
          u # t /\ tires'[u] = tires[u] /\ periods'[u] = periods[u]
  BY <1>3
<1>6. Agree(tires', periods')
  <2> SUFFICES ASSUME NEW u \in Tire, tires'[u] # None
               PROVE  /\ OpenCorner(periods'[u]) = IF tires'[u].position = None THEN {}
                                                   ELSE {tires'[u].position}
                      /\ \A i, j \in OpenIds(periods'[u]) : i = j
                      /\ tires'[u].retired => tires'[u].position = None
    BY DEF Agree
  <2>1. tires[u] # None
    BY <1>5
  <2>2. /\ OpenCorner(periods[u]) = IF tires[u].position = None THEN {}
                                    ELSE {tires[u].position}
        /\ \A i, j \in OpenIds(periods[u]) : i = j
        /\ tires[u].retired => tires[u].position = None
    BY <1>1, <2>1, Zenon DEF Good, Agree
  <2> QED BY <1>5, <2>2, Zenon
<1>7. CornersUnique(tires')
  BY <1>1, <1>5 DEF Good, CornersUnique
<1> QED BY <1>1, <1>4, <1>6, <1>7 DEF IInv, Good

LEMMA EditKeeps ==
    ASSUME IInv, NEW t \in Tire, NEW inSet \in BOOLEAN, Edit(t, inSet)
    PROVE  IInv'
<1> DEFINE row == [tires[t] EXCEPT !.inSet = inSet]
<1>1. Good(tires, periods) /\ t \in Owned
  BY DEF IInv, Edit
<1>2. /\ periods[t] \in Seq(Period) /\ tires[t] \in TireRow
      /\ OpenCorner(periods[t]) =
            IF tires[t].position = None THEN {} ELSE {tires[t].position}
      /\ \A i, j \in OpenIds(periods[t]) : i = j
      /\ tires[t].retired => tires[t].position = None
      /\ tires[t].position # None => At(tires[t].position) \subseteq {t}
  BY <1>1, OneRow
<1>3. /\ row \in TireRow /\ row.position = tires[t].position
      /\ row.retired = tires[t].retired
  BY <1>2, Rows, Zenon
<1>4. Good([tires EXCEPT ![t] = row], [periods EXCEPT ![t] = periods[t]])
  <2> HIDE DEF row
  <2> QED BY <1>1, <1>2, <1>3, OneTire
<1>5. [periods EXCEPT ![t] = periods[t]] = periods
  BY <1>1 DEF Good, Shaped
<1>6. tires' = [tires EXCEPT ![t] = row] /\ periods' = periods /\ raised' = raised
  BY DEF Edit
<1> HIDE DEF row
<1> QED BY <1>4, <1>5, <1>6 DEF IInv

-----------------------------------------------------------------------------
\* What Init admits of old histories.
LEMMA InitIsGood == Init => IInv
<1> SUFFICES ASSUME Init PROVE IInv
  OBVIOUS
<1>1. PICK history \in [Tire -> Maybe(Legacy)] :
         /\ tires = [t \in Tire |-> IF history[t] = None THEN None
                                    ELSE LegacyRow(history[t])]
         /\ periods = [t \in Tire |-> IF history[t] = None THEN <<>> ELSE history[t]]
         /\ CornersUnique(tires) /\ raised = FALSE
  BY DEF Init
<1>2. ASSUME NEW t \in Tire, history[t] # None
      PROVE  /\ tires[t] \in TireRow /\ periods[t] \in Seq(Period)
             /\ OpenCorner(periods[t]) =
                   IF tires[t].position = None THEN {} ELSE {tires[t].position}
             /\ \A i, j \in OpenIds(periods[t]) : i = j
             /\ tires[t].retired => tires[t].position = None
  <2> DEFINE ps == history[t]
  <2>1. ps \in Legacy
    BY <1>2 DEF Maybe
  <2>2. ps \in Seq(Period) /\ \A i, j \in OpenIds(ps) : i = j
    BY <2>1, LegacyAssumption
  <2>3. tires[t] = LegacyRow(ps) /\ periods[t] = ps
    BY <1>1, <1>2
  <2> HIDE DEF ps
  <2>4. CASE OpenIds(ps) = {}
    <3>1. None \in Maybe(Corner) /\ LegacyRow(ps) = NewTire(None)
      BY <2>4 DEF Maybe, LegacyRow
    <3>2. /\ tires[t] \in TireRow /\ tires[t].position = None
          /\ tires[t].retired = FALSE
      <4>1. /\ NewTire(None) \in TireRow /\ NewTire(None).position = None
            /\ NewTire(None).retired = FALSE
        BY <3>1, Rows, Zenon
      <4> QED BY <2>3, <3>1, <4>1
    <3>3. OpenCorner(ps) = {}
      BY <2>2, <2>4, ClosedOnNoCorner
    <3> QED BY <2>2, <2>3, <3>2, <3>3
  <2>5. CASE OpenIds(ps) # {}
    <3>1. PICK i \in OpenIds(ps) : OpenIds(ps) = {i}
      BY <2>2, <2>5
    <3>2. i \in DOMAIN ps /\ i \in Nat /\ ps[i] \in Period
      BY <2>2, <3>1 DEF OpenIds
    <3>3. Max(OpenIds(ps)) = i
      BY <3>1, <3>2 DEF Max
    <3>4. /\ ps[i].position \in Maybe(Corner) /\ ps[i].position # None
          /\ LegacyRow(ps) = NewTire(ps[i].position)
      BY <2>5, <3>2, <3>3, CornerAssumption DEF Period, Maybe, LegacyRow
    <3>5. /\ tires[t] \in TireRow /\ tires[t].position = ps[i].position
          /\ tires[t].retired = FALSE
      <4> DEFINE row == NewTire(ps[i].position)
      <4>1. row \in TireRow /\ row.position = ps[i].position /\ row.retired = FALSE
        BY <3>4, Rows, Zenon
      <4> HIDE DEF row
      <4>2. tires[t] = row
        BY <2>3, <3>4 DEF row
      <4> QED BY <4>1, <4>2
    <3>6. OpenCorner(ps) = {ps[i].position}
      BY <3>1 DEF OpenCorner
    <3> QED BY <2>2, <2>3, <3>4, <3>5, <3>6
  <2> QED BY <2>4, <2>5
<1>3. \A t \in Tire : history[t] = None => tires[t] = None /\ periods[t] = <<>>
  BY <1>1
<1>4. Shaped(tires, periods)
  <2>1. ASSUME NEW t \in Tire
        PROVE  tires[t] \in Maybe(TireRow) /\ periods[t] \in Seq(Period)
    <3>1. CASE history[t] = None
      <4>1. tires[t] = None /\ periods[t] = <<>>
        BY <1>3, <3>1
      <4> QED BY <4>1 DEF Maybe
    <3>2. CASE history[t] # None
      <4>1. tires[t] \in TireRow /\ periods[t] \in Seq(Period)
        BY <1>2, <3>2
      <4> QED BY <4>1 DEF Maybe
    <3> QED BY <3>1, <3>2
  <2>2. tires \in [Tire -> Maybe(TireRow)] /\ periods \in [Tire -> Seq(Period)]
    BY <1>1, <2>1
  <2>3. \A t \in Tire : tires[t] = None => periods[t] = <<>>
    BY <1>2, <1>3, NoneAssumption
  <2> QED BY <2>2, <2>3 DEF Shaped
<1>5. Agree(tires, periods)
  BY <1>2, <1>3, Zenon DEF Agree
<1> QED BY <1>1, <1>4, <1>5 DEF IInv, Good

LEMMA StepIsGood == IInv /\ [Next]_vars => IInv'
<1> SUFFICES ASSUME IInv, [Next]_vars PROVE IInv'
  OBVIOUS
<1> DEFINE Untouched == UNCHANGED <<tires, periods, raised>>
<1>1. CASE Untouched
  BY <1>1 DEF IInv
<1>2. CASE Moved
  BY <1>2, CreateAndMountKeeps, MountKeeps, DismountKeeps, RetireKeeps, RotateKeeps,
     MountSetKeeps DEF Moved
<1>3. CASE HistoryWritten
  BY <1>3, AddPastKeeps, EditPeriodKeeps, DeleteKeeps DEF HistoryWritten
<1>4. CASE Described
  <2>1. ASSUME NEW t \in Tire, NEW inSet \in {HasSet, FALSE}, Edit(t, inSet)
        PROVE  IInv'
    BY <2>1, BoundAssumption, EditKeeps
  <2>2. (\E r \in Reading : AddReading(r)) => Untouched
    BY DEF AddReading
  <2>3. (\E k \in DOMAIN readings : DeleteReading(k)) => Untouched
    BY DEF DeleteReading
  <2> QED BY <1>1, <1>4, <2>1, <2>2, <2>3, CreateKeeps, RestoreKeeps, DeleteSetKeeps
          DEF Described
<1>5. CASE OtherWriters
  BY <1>1, <1>5 DEF OtherWriters, SaveVisit, Telemetry, DeleteVisit, NotTires
<1>6. CASE ByHand
  BY <1>1, <1>6 DEF ByHand, AddRecord, EditRecord, DeleteRecord, NotTires
<1>7. CASE UNCHANGED vars
  BY <1>1, <1>7 DEF vars
<1> QED BY <1>2, <1>3, <1>4, <1>5, <1>6, <1>7 DEF Next

THEOREM TireStateIsGood == Spec => []IInv
BY InitIsGood, StepIsGood, PTL DEF Spec

\* A tire's card names a corner exactly while one period of its history is
\* open there, and no retired tire is on a corner: through every operation of
\* tire_service.py and tire_set_service.py, refused or not.
THEOREM CardsAndHistoriesAgree == Spec => []MountedIffOpen
<1>1. IInv => MountedIffOpen
  <2> SUFFICES ASSUME IInv, NEW t \in Owned
               PROVE  /\ OpenCorner(periods[t]) =
                            IF tires[t].position = None THEN {} ELSE {tires[t].position}
                      /\ \A i, j \in OpenIds(periods[t]) : i = j
                      /\ tires[t].retired => tires[t].position = None
    BY DEF MountedIffOpen
  <2>1. Good(tires, periods)
    BY DEF IInv
  <2> QED BY <2>1, OneRow
<1> QED BY <1>1, TireStateIsGood, PTL

\* No operation's flush meets uq_tires_vin_position or
\* uq_tire_single_open_period: the guards, the vacate phase of
\* apply_mount_moves and its flush order are enough for every rotation and
\* every set.
THEOREM NoUniqueIndexIsHit == Spec => []NeverRaises
<1>1. IInv => NeverRaises
  BY DEF IInv, NeverRaises
<1> QED BY <1>1, TireStateIsGood, PTL

-----------------------------------------------------------------------------
\* Every bounded set of numbers has a first element in a total, transitive
\* order: by the least bound of a set that has none.
LEMMA FirstExists ==
    ASSUME NEW N \in Nat, NEW R, NEW S \in SUBSET (1 .. N), S # {},
           \A i, j \in S : i = j \/ <<i, j>> \in R \/ <<j, i>> \in R,
           \A i, j, k \in S : <<i, j>> \in R /\ <<j, k>> \in R => <<i, k>> \in R
    PROVE  \E i \in S : \A k \in S : k = i \/ <<i, k>> \in R
<1> DEFINE First(T) == \E i \in T : \A k \in T : k = i \/ <<i, k>> \in R
           bad == {n \in Nat : \E T \in SUBSET (S \intersect (1 .. n)) : T # {} /\ ~First(T)}
<1>1. CASE bad = {}
  <2>1. S \in SUBSET (S \intersect (1 .. N)) /\ N \notin bad
    BY <1>1
  <2> QED BY <2>1
<1>2. CASE bad # {}
  <2>1. PICK n \in bad : \A e \in bad : <<e, n>> \notin OpToRel(<, Nat)
    <3> HIDE DEF bad
    <3>1. bad \subseteq Nat
      BY DEF bad
    <3> QED BY <1>2, <3>1, NatLessThanWellFounded, WFMin, Zenon
  <2>2. n \in Nat /\ \A e \in bad : ~(e < n)
    <3>1. n \in Nat /\ \A e \in bad : e \in Nat
      OBVIOUS
    <3> HIDE DEF bad
    <3> QED BY <2>1, <3>1 DEF OpToRel
  <2>3. PICK T \in SUBSET (S \intersect (1 .. n)) : T # {} /\ ~First(T)
    <3> HIDE DEF First
    <3> QED OBVIOUS
  <2>4. n # 0
    <3> HIDE DEF First, bad
    <3>1. n = 0 => 1 .. n = {}
      OBVIOUS
    <3> QED BY <2>3, <3>1
  <2>5. n \in T /\ n \in S
    <3>1. SUFFICES n \in T
      OBVIOUS
    <3>2. SUFFICES ASSUME n \notin T PROVE FALSE
      OBVIOUS
    <3>3. T \in SUBSET (S \intersect (1 .. n - 1)) /\ n - 1 \in Nat
      <4> HIDE DEF First, bad
      <4> QED BY <2>2, <2>3, <2>4, <3>2
    <3>4. n - 1 \in bad
      <4> HIDE DEF First
      <4> QED BY <2>3, <3>3
    <3> HIDE DEF First, bad
    <3> QED BY <2>2, <3>4
  <2> DEFINE U == T \ {n}
  <2>6. CASE U = {}
    BY <2>3, <2>5, <2>6
  <2>7. CASE U # {}
    <3>1. U \in SUBSET (S \intersect (1 .. n - 1)) /\ n - 1 \in Nat
      <4> HIDE DEF First, bad
      <4> QED BY <2>2, <2>3, <2>4
    <3>2. n - 1 \notin bad
      <4> HIDE DEF First, bad
      <4> QED BY <2>2, <3>1
    <3>3. PICK i \in U : \A k \in U : k = i \/ <<i, k>> \in R
      BY <2>7, <3>1, <3>2, Zenon
    <3>4. i \in S /\ i # n /\ i \in T /\ U \subseteq S
      BY <2>5
    <3>5. CASE <<i, n>> \in R
      <4>1. \A k \in T : k = i \/ <<i, k>> \in R
        BY <3>3, <3>5
      <4> QED BY <2>3, <3>4, <4>1
    <3>6. CASE <<n, i>> \in R
      <4>1. \A k \in T : k = n \/ <<n, k>> \in R
        BY <2>5, <3>3, <3>4, <3>6
      <4> QED BY <2>3, <2>5, <4>1
    <3> QED BY <2>5, <3>4, <3>5, <3>6
  <2> QED BY <2>6, <2>7
<1> QED BY <1>1, <1>2

-----------------------------------------------------------------------------
\* What is known of a period and of the span of one.
LEMMA PeriodFigures ==
    ASSUME NEW ps \in Seq(Period), NEW i \in DOMAIN ps
    PROVE  /\ i \in Nat /\ i # None
           /\ ps[i].on \in Nat \union {None} /\ ps[i].off \in Nat \union {None}
           /\ ps[i].at \in Nat \union {None} /\ ps[i].offAt \in Nat \union {None}
           /\ i \in Spans(ps) => ps[i].at \in Nat /\ ps[i].offAt \in Nat
<1>1. ps[i] \in Period /\ i \in Nat
  OBVIOUS
<1>2. /\ ps[i].on \in Maybe(Day) /\ ps[i].off \in Maybe(Day)
      /\ ps[i].at \in Maybe(Km) /\ ps[i].offAt \in Maybe(Km)
  BY <1>1 DEF Period
<1> QED BY <1>1, <1>2, TireAssumption, FigureAssumption DEF Maybe, Spans, Known

\* The running maximum of rule 4b exists, and nothing before reaches higher.
LEMMA CoveringReaches ==
    ASSUME NEW ps \in Seq(Period), NEW j, SpansBefore(ps, j) # {}
    PROVE  /\ Covering(ps, j) \in SpansBefore(ps, j)
           /\ \A k \in SpansBefore(ps, j) : ps[k].offAt <= ps[Covering(ps, j)].offAt
<1> DEFINE S == SpansBefore(ps, j)
           Higher(i, k) == ReachesHigher(ps, i, k)
           R == {x \in S \X S : Higher(x[1], x[2])}
<1>1. S \subseteq 1 .. Len(ps) /\ Len(ps) \in Nat
  BY DEF SpansBefore, Spans
<1>2. \A i \in S : i \in Nat /\ ps[i].at \in Nat /\ ps[i].offAt \in Nat
  <2>1. S \subseteq Spans(ps) /\ Spans(ps) \subseteq DOMAIN ps
    BY DEF SpansBefore, Spans
  <2> QED BY <2>1, PeriodFigures
<1>3. \E i \in S : \A k \in S : k = i \/ <<i, k>> \in R
  <2>1. \A i, k \in S : <<i, k>> \in R <=> Higher(i, k)
    OBVIOUS
  <2>2. \A i, k \in S : i = k \/ Higher(i, k) \/ Higher(k, i)
    BY <1>2 DEF StartsLower, ReachesHigher
  <2>3. \A i, k, m \in S : Higher(i, k) /\ Higher(k, m) => Higher(i, m)
    BY <1>2 DEF StartsLower, ReachesHigher
  <2> HIDE DEF S, R, Higher
  <2>4. \A i, k \in S : i = k \/ <<i, k>> \in R \/ <<k, i>> \in R
    BY <2>1, <2>2
  <2>5. \A i, k, m \in S : <<i, k>> \in R /\ <<k, m>> \in R => <<i, m>> \in R
    BY <2>1, <2>3
  <2>6. S \in SUBSET (1 .. Len(ps)) /\ S # {}
    BY <1>1 DEF S
  <2> QED BY <1>1, <2>4, <2>5, <2>6, FirstExists, Zenon
<1>4. \E i \in SpansBefore(ps, j) :
         \A k \in SpansBefore(ps, j) : k = i \/ ReachesHigher(ps, i, k)
  BY <1>3
<1>5. /\ Covering(ps, j) \in SpansBefore(ps, j)
      /\ \A k \in SpansBefore(ps, j) :
            k = Covering(ps, j) \/ ReachesHigher(ps, Covering(ps, j), k)
  BY <1>4, Zenon DEF Covering
<1> QED BY <1>2, <1>5 DEF ReachesHigher

\* The span next in order after another, if there is one.
LEMMA NextSpan ==
    ASSUME NEW ps \in Seq(Period), NEW i \in Spans(ps), NEW j \in Spans(ps),
           StartsLower(ps, i, j)
    PROVE  \E k \in Spans(ps) :
              /\ StartsLower(ps, i, k) /\ ps[k].at <= ps[j].at
              /\ \A m \in SpansBefore(ps, k) : m = i \/ StartsLower(ps, m, i)
<1> DEFINE S == {k \in Spans(ps) : StartsLower(ps, i, k)}
           R == {x \in S \X S : StartsLower(ps, x[1], x[2])}
<1>1. S \subseteq 1 .. Len(ps) /\ Len(ps) \in Nat /\ j \in S
  BY DEF Spans
<1>2. \A k \in Spans(ps) : k \in Nat /\ ps[k].at \in Nat
  <2>1. Spans(ps) \subseteq DOMAIN ps
    BY DEF Spans
  <2> QED BY <2>1, PeriodFigures
<1>3. \E k \in S : \A m \in S : m = k \/ <<k, m>> \in R
  <2>1. \A k, m \in S : <<k, m>> \in R <=> StartsLower(ps, k, m)
    OBVIOUS
  <2>2. \A k, m \in S : k = m \/ StartsLower(ps, k, m) \/ StartsLower(ps, m, k)
    BY <1>2 DEF StartsLower
  <2>3. \A k, m, n \in S :
           StartsLower(ps, k, m) /\ StartsLower(ps, m, n) => StartsLower(ps, k, n)
    BY <1>2 DEF StartsLower
  <2> HIDE DEF S, R
  <2>4. \A k, m \in S : k = m \/ <<k, m>> \in R \/ <<m, k>> \in R
    BY <2>1, <2>2
  <2>5. \A k, m, n \in S : <<k, m>> \in R /\ <<m, n>> \in R => <<k, n>> \in R
    BY <2>1, <2>3
  <2>6. S \in SUBSET (1 .. Len(ps)) /\ S # {} /\ Len(ps) \in Nat
    BY <1>1
  <2> QED BY <2>4, <2>5, <2>6, FirstExists, Zenon
<1>4. PICK k \in S : \A m \in S : m = k \/ StartsLower(ps, k, m)
  BY <1>3
<1>5. ps[k].at <= ps[j].at
  BY <1>1, <1>2, <1>4 DEF StartsLower
<1>6. ASSUME NEW m \in SpansBefore(ps, k) PROVE m = i \/ StartsLower(ps, m, i)
  <2>1. m \in Spans(ps) /\ StartsLower(ps, m, k)
    BY DEF SpansBefore
  <2>2. m \notin S
    BY <1>2, <1>4, <2>1 DEF StartsLower
  <2> QED BY <1>2, <2>1, <2>2 DEF StartsLower
<1> QED BY <1>4, <1>5, <1>6

\* What makes a fault of two periods.
LEMMA PairFaultsAre ==
    ASSUME NEW ps \in Seq(Period)
    PROVE  /\ PairFaults(ps) = OrderFaults(ps) \union SpanFaults(ps)
           /\ \A f : f \in OrderFaults(ps) <=>
                 \E x \in DatedPairs(ps) :
                    \/ StartsInside(ps, x[1], x[2])
                         /\ f = Fault(x[2], "overlapping_dates", x[1])
                    \/ RunsBack(ps, x[1], x[2])
                         /\ f = Fault(x[2], "overlapping_odometer", x[1])
           /\ \A f : f \in SpanFaults(ps) <=>
                 \E j \in Spans(ps) :
                    /\ SpansBefore(ps, j) # {}
                    /\ Below(ps[j].at, ps[Covering(ps, j)].offAt)
                    /\ f = Fault(j, "overlapping_odometer", Covering(ps, j))
<1>1. \A f : f \in OrderFaults(ps) <=>
         \E x \in DatedPairs(ps) :
            \/ StartsInside(ps, x[1], x[2])
                 /\ f = Fault(x[2], "overlapping_dates", x[1])
            \/ RunsBack(ps, x[1], x[2])
                 /\ f = Fault(x[2], "overlapping_odometer", x[1])
  BY Zenon DEF OrderFaults
<1>2. \A f : f \in SpanFaults(ps) <=>
         \E j \in Spans(ps) :
            /\ SpansBefore(ps, j) # {}
            /\ Below(ps[j].at, ps[Covering(ps, j)].offAt)
            /\ f = Fault(j, "overlapping_odometer", Covering(ps, j))
  BY DEF SpanFaults, Fault
<1>3. \A f \in OrderFaults(ps) \union SpanFaults(ps) : f.other # None
  <2>1. \A x \in DatedPairs(ps) : x[1] \in DOMAIN ps
    BY DEF DatedPairs
  <2>2. \A j \in Spans(ps) : SpansBefore(ps, j) # {} => Covering(ps, j) \in DOMAIN ps
    BY CoveringReaches DEF SpansBefore, Spans
  <2> QED BY <1>1, <1>2, <2>1, <2>2, PeriodFigures DEF Fault
<1>4. \A f \in SelfFaults(ps) \union ReadingFaults(ps, {}) : f.other = None
  BY DEF SelfFaults, ReadingFaults, Fault
<1>5. PairFaults(ps) = OrderFaults(ps) \union SpanFaults(ps)
  BY <1>3, <1>4 DEF PairFaults, Faults
<1> QED BY <1>1, <1>2, <1>5

\* A fault of two periods names two that clash.
LEMMA FaultsAreClashes ==
    ASSUME NEW ps \in Seq(Period), NEW f \in PairFaults(ps)
    PROVE  /\ Clash(ps, f.other, f.period)
           /\ f.other \in DOMAIN ps /\ f.period \in DOMAIN ps
<1>1. CASE f \in OrderFaults(ps)
  <2>1. PICK x \in DatedPairs(ps) :
           \/ StartsInside(ps, x[1], x[2])
                /\ f = Fault(x[2], "overlapping_dates", x[1])
           \/ RunsBack(ps, x[1], x[2])
                /\ f = Fault(x[2], "overlapping_odometer", x[1])
    BY <1>1, PairFaultsAre
  <2>2. f.other = x[1] /\ f.period = x[2] /\ x[1] \in DOMAIN ps /\ x[2] \in DOMAIN ps
    BY <2>1 DEF Fault, DatedPairs
  <2>3. MountedBefore(ps, x[1], x[2])
    BY DEF DatedPairs
  <2> QED BY <2>1, <2>2, <2>3 DEF Clash
<1>2. CASE f \in SpanFaults(ps)
  <2>1. PICK j \in Spans(ps) :
           /\ SpansBefore(ps, j) # {}
           /\ Below(ps[j].at, ps[Covering(ps, j)].offAt)
           /\ f = Fault(j, "overlapping_odometer", Covering(ps, j))
    BY <1>2, PairFaultsAre
  <2>2. Covering(ps, j) \in SpansBefore(ps, j)
    BY <2>1, CoveringReaches
  <2>3. f.other = Covering(ps, j) /\ f.period = j
    BY <2>1 DEF Fault
  <2> QED BY <2>1, <2>2, <2>3 DEF SpansBefore, Spans, Clash
<1> QED BY <1>1, <1>2, PairFaultsAre

\* The fault rules leave no clash unreported and report nothing else.  When
\* rule 4b does not name the lower of two spans that overlap, either that one
\* is itself an intruder or the span next in order is reported against it.
LEMMA EveryClashReported ==
    ASSUME NEW ps \in Seq(Period)
    PROVE  AllReported(ps)
<1> DEFINE Pf == PairFaults(ps)
<1>1. \A f \in Pf : Clash(ps, f.other, f.period) /\ f.other \in DOMAIN ps
  BY FaultsAreClashes
<1>2. ASSUME NEW i \in DOMAIN ps, NEW j \in DOMAIN ps, Clash(ps, i, j)
      PROVE  \E f \in Pf : f.period = j
  <2>1. CASE MountedBefore(ps, i, j) /\ (StartsInside(ps, i, j) \/ RunsBack(ps, i, j))
    <3>1. <<i, j>> \in DatedPairs(ps)
      BY <2>1 DEF DatedPairs
    <3>2. CASE StartsInside(ps, i, j)
      <4>1. Fault(j, "overlapping_dates", i) \in Pf
        BY <3>1, <3>2, PairFaultsAre
      <4> QED BY <4>1 DEF Fault
    <3>3. CASE RunsBack(ps, i, j)
      <4>1. Fault(j, "overlapping_odometer", i) \in Pf
        BY <3>1, <3>3, PairFaultsAre
      <4> QED BY <4>1 DEF Fault
    <3> QED BY <2>1, <3>2, <3>3
  <2>2. CASE /\ i \in Spans(ps) /\ j \in Spans(ps) /\ StartsLower(ps, i, j)
             /\ Below(ps[j].at, ps[i].offAt)
    <3>1. i \in SpansBefore(ps, j)
      BY <2>2 DEF SpansBefore
    <3>2. /\ Covering(ps, j) \in SpansBefore(ps, j)
          /\ ps[i].offAt <= ps[Covering(ps, j)].offAt
      BY <3>1, CoveringReaches
    <3>3. Below(ps[j].at, ps[Covering(ps, j)].offAt)
      <4>1. Covering(ps, j) \in Spans(ps) /\ Covering(ps, j) \in DOMAIN ps
        BY <3>2 DEF SpansBefore, Spans
      <4>2. /\ ps[j].at \in Nat /\ ps[i].offAt \in Nat
            /\ ps[Covering(ps, j)].offAt \in Nat
        BY <2>2, <4>1, PeriodFigures
      <4> QED BY <2>2, <3>2, <4>2, FigureAssumption DEF Below
    <3>4. Fault(j, "overlapping_odometer", Covering(ps, j)) \in Pf
      BY <2>2, <3>1, <3>3, PairFaultsAre
    <3> QED BY <3>4 DEF Fault
  <2> QED BY <1>2, <2>1, <2>2 DEF Clash
<1>3. ASSUME NEW i \in DOMAIN ps, NEW j \in DOMAIN ps, Clash(ps, i, j)
      PROVE  \E f \in Pf : i \in Participants(f)
  <2>1. i # None
    BY PeriodFigures
  <2>2. CASE MountedBefore(ps, i, j) /\ (StartsInside(ps, i, j) \/ RunsBack(ps, i, j))
    <3>1. <<i, j>> \in DatedPairs(ps)
      BY <2>2 DEF DatedPairs
    <3>2. \/ Fault(j, "overlapping_dates", i) \in Pf
          \/ Fault(j, "overlapping_odometer", i) \in Pf
      BY <2>2, <3>1, PairFaultsAre
    <3> QED BY <2>1, <3>2 DEF Fault, Participants
  <2>3. CASE \E m \in DOMAIN ps : Clash(ps, m, i)
    <3>1. PICK f \in Pf : f.period = i
      BY <1>2, <2>3
    <3> QED BY <2>1, <3>1 DEF Participants
  <2>4. CASE /\ i \in Spans(ps) /\ j \in Spans(ps) /\ StartsLower(ps, i, j)
             /\ Below(ps[j].at, ps[i].offAt)
             /\ ~\E m \in DOMAIN ps : Clash(ps, m, i)
    <3>1. PICK k \in Spans(ps) :
             /\ StartsLower(ps, i, k) /\ ps[k].at <= ps[j].at
             /\ \A m \in SpansBefore(ps, k) : m = i \/ StartsLower(ps, m, i)
      BY <2>4, NextSpan
    <3> DEFINE c == Covering(ps, k)
    <3>2. i \in SpansBefore(ps, k)
      BY <2>4, <3>1 DEF SpansBefore
    <3>3. c \in SpansBefore(ps, k) /\ ps[i].offAt <= ps[c].offAt
      BY <3>2, CoveringReaches
    <3>4. c \in Spans(ps) /\ c \in DOMAIN ps /\ k \in DOMAIN ps
      BY <3>3 DEF SpansBefore, Spans
    <3> HIDE DEF c
    <3>5. /\ ps[i].at \in Nat /\ ps[i].offAt \in Nat /\ ps[j].at \in Nat
          /\ ps[c].offAt \in Nat /\ ps[k].at \in Nat /\ Tol \in Nat
      BY <2>4, <3>4, PeriodFigures, FigureAssumption
    <3>6. c = i
      <4>1. SUFFICES ASSUME StartsLower(ps, c, i) PROVE FALSE
        BY <3>1, <3>3
      <4>2. ~Below(ps[i].at, ps[c].offAt)
        BY <2>4, <3>4, <4>1 DEF Clash
      <4>3. ps[i].at <= ps[j].at
        BY <2>4, <3>5 DEF StartsLower
      <4> QED BY <2>4, <3>3, <3>5, <4>2, <4>3 DEF Below
    <3>7. Below(ps[k].at, ps[i].offAt)
      BY <2>4, <3>1, <3>5 DEF Below
    <3>8. Fault(k, "overlapping_odometer", i) \in Pf
      BY <3>2, <3>6, <3>7, PairFaultsAre DEF c
    <3> QED BY <2>1, <3>8 DEF Fault, Participants
  <2> QED BY <1>3, <2>2, <2>3, <2>4 DEF Clash
<1> HIDE DEF Pf
<1>4. \A i \in DOMAIN ps :
         /\ (\E f \in Pf : f.period = i) <=> \E j \in DOMAIN ps : Clash(ps, j, i)
         /\ (\E j \in DOMAIN ps : Clash(ps, i, j))
               => \E f \in Pf : i \in Participants(f)
  BY <1>1, <1>2, <1>3
<1> QED BY <1>4 DEF AllReported, Pf

LEMMA NoClashNoFault ==
    ASSUME NEW ps \in Seq(Period)
    PROVE  Clashes(ps) = {} <=> PairFaults(ps) = {}
<1>1. ASSUME NEW f \in PairFaults(ps) PROVE <<f.other, f.period>> \in Clashes(ps)
  BY FaultsAreClashes DEF Clashes
<1>2. ASSUME NEW x \in Clashes(ps) PROVE PairFaults(ps) # {}
  <2>1. x[1] \in DOMAIN ps /\ x[2] \in DOMAIN ps /\ Clash(ps, x[1], x[2])
    BY DEF Clashes
  <2> QED BY <2>1, EveryClashReported DEF AllReported
<1> QED BY <1>1, <1>2

-----------------------------------------------------------------------------
\* What a write that is not refused does to one history, when every period it
\* changed or added is one it is judged by.
LEMMA JudgedWrite ==
    ASSUME NEW ps \in Seq(Period), NEW qs \in Seq(Period), NEW rs, NEW touched,
           \A i \in DOMAIN qs \ touched : i \in DOMAIN ps /\ qs[i] = ps[i],
           ~Refused(Faults(ps, rs), Faults(qs, rs), touched)
    PROVE  /\ \/ Clashes(qs) \subseteq Clashes(ps)
              \/ Faults(qs, rs) \subseteq Faults(ps, rs) /\ Faults(qs, rs) # Faults(ps, rs)
           /\ Coherent(ps) => Coherent(qs)
<1> DEFINE before == Faults(ps, rs)
           after == Faults(qs, rs)
<1>1. /\ \A f \in PairFaults(ps) : f \in before /\ f.other # None
      /\ \A f \in PairFaults(qs) : f \in after /\ f.other # None
      /\ SelfFaults(ps) \subseteq before /\ SelfFaults(qs) \subseteq after
      /\ before = SelfFaults(ps) \union PairFaults(ps) \union ReadingFaults(ps, rs)
  <2>1. \A f \in PairFaults(ps) \union PairFaults(qs) : f.other # None
    BY DEF PairFaults
  <2> QED BY <2>1, PairFaultsAre DEF Faults
<1>2. \/ \A f \in after : /\ ~Introduced(before, f)
                         /\ Participants(f) \intersect touched = {}
      \/ after \subseteq before /\ after # before
  <2> HIDE DEF before, after
  <2> QED BY DEF Refused, before, after
<1>3. CASE after \subseteq before /\ after # before
  <2>1. ASSUME Coherent(ps) PROVE Coherent(qs)
    <3>1. SelfFaults(ps) = {} /\ PairFaults(ps) = {}
      BY <2>1, NoClashNoFault DEF Coherent
    <3>2. \A f \in before : f.code = "contradicts_reading" /\ f.other = None
      BY <1>1, <3>1 DEF ReadingFaults, Fault
    <3>3. SelfFaults(qs) = {} /\ PairFaults(qs) = {}
      BY <1>1, <1>3, <3>2 DEF SelfFaults, Fault
    <3> QED BY <3>3, NoClashNoFault DEF Coherent
  <2> QED BY <1>3, <2>1
<1>4. CASE \A f \in after : /\ ~Introduced(before, f)
                          /\ Participants(f) \intersect touched = {}
  <2>1. Clashes(qs) \subseteq Clashes(ps)
    <3> SUFFICES ASSUME NEW i \in DOMAIN qs, NEW j \in DOMAIN qs, Clash(qs, i, j)
                 PROVE  <<i, j>> \in Clashes(ps)
      BY DEF Clashes
    <3>1. PICK f \in PairFaults(qs) : i \in Participants(f)
      BY EveryClashReported DEF AllReported
    <3>2. PICK g \in PairFaults(qs) : g.period = j
      BY EveryClashReported DEF AllReported
    <3>3. j \in Participants(g)
      BY <3>2, PeriodFigures DEF Participants
    <3>4. i \notin touched /\ j \notin touched
      BY <1>1, <1>4, <3>1, <3>2, <3>3
    <3>5. i \in DOMAIN ps /\ j \in DOMAIN ps /\ qs[i] = ps[i] /\ qs[j] = ps[j]
      BY <3>4
    <3>6. Clash(ps, i, j)
      BY <3>5 DEF Clash, MountedBefore, StartsInside, RunsBack, Spans, StartsLower
    <3> QED BY <3>5, <3>6 DEF Clashes
  <2>2. ASSUME Coherent(ps) PROVE Coherent(qs)
    <3>1. Clashes(qs) = {}
      BY <2>1, <2>2 DEF Coherent
    <3>2. before = ReadingFaults(ps, rs)
      BY <1>1, <2>2, NoClashNoFault DEF Coherent
    <3>3. SelfFaults(qs) = {}
      <4> SUFFICES ASSUME NEW f \in SelfFaults(qs) PROVE FALSE
        OBVIOUS
      <4>1. f.code \in {"reversed_dates", "reversed_odometer"}
        BY DEF SelfFaults, Fault
      <4>2. \A g \in before : g.code = "contradicts_reading"
        BY <3>2 DEF ReadingFaults, Fault
      <4>3. Introduced(before, f)
        BY <4>1, <4>2 DEF Introduced
      <4> QED BY <1>1, <1>4, <4>3
    <3> QED BY <3>1, <3>3 DEF Coherent
  <2> QED BY <2>1, <2>2
<1> QED BY <1>2, <1>3, <1>4

-----------------------------------------------------------------------------
\* Every period a write changed or added is one it is judged by.
Traced(ps, qs, touched) ==
    \A i \in DOMAIN qs \ touched : i \in DOMAIN ps /\ qs[i] = ps[i]

\* What CoherenceKept and OnlyRepairsClash say of one tire.
Judged(t) ==
    /\ Coherent(periods[t]) => Coherent(periods'[t])
    /\ \/ Clashes(periods'[t]) \subseteq Clashes(periods[t])
       \/ FaultsNow(t)' \subseteq FaultsNow(t) /\ FaultsNow(t)' # FaultsNow(t)

LEMMA UnwrittenIsJudged ==
    ASSUME NEW t \in Tire, periods'[t] = periods[t] \/ periods'[t] = <<>>
    PROVE  Judged(t)
<1>1. CASE periods'[t] = periods[t]
  BY <1>1 DEF Judged
<1>2. CASE periods'[t] = <<>>
  <2>1. Clashes(periods'[t]) = {} /\ SelfFaults(periods'[t]) = {}
    BY <1>2 DEF Clashes, SelfFaults
  <2> QED BY <2>1 DEF Judged, Coherent
<1> QED BY <1>1, <1>2

LEMMA TransactIsJudged ==
    ASSUME IInv, IInv', NEW flushed, NEW pss, flushed[Len(flushed)].periods = pss,
           NEW touched, NEW records,
           Transact(flushed, touched, records),
           \A t \in Tire : IF t \in DOMAIN touched
                          THEN Traced(periods[t], pss[t], touched[t])
                          ELSE pss[t] = periods[t],
           NEW t \in Tire
    PROVE  Judged(t)
<1>1. periods[t] \in Seq(Period) /\ periods'[t] \in Seq(Period)
  <2>1. periods \in [Tire -> Seq(Period)] /\ periods' \in [Tire -> Seq(Period)]
    BY DEF IInv, Good, Shaped
  <2> QED BY <2>1
<1>2. CASE periods' = periods
  BY <1>2, UnwrittenIsJudged
<1>3. CASE /\ \A u \in DOMAIN touched :
                 ~Refused(Faults(periods[u], ReadingsOf(u)),
                          Faults(pss[u], ReadingsOf(u)), touched[u])
           /\ periods' = pss /\ readings' = readings
  <2>1. CASE t \notin DOMAIN touched
    BY <1>3, <2>1, UnwrittenIsJudged
  <2>2. CASE t \in DOMAIN touched
    <3>1. /\ Traced(periods[t], periods'[t], touched[t])
          /\ ~Refused(Faults(periods[t], ReadingsOf(t)),
                      Faults(periods'[t], ReadingsOf(t)), touched[t])
      BY <1>3, <2>2
    <3>2. /\ \/ Clashes(periods'[t]) \subseteq Clashes(periods[t])
             \/ /\ Faults(periods'[t], ReadingsOf(t)) \subseteq Faults(periods[t], ReadingsOf(t))
                /\ Faults(periods'[t], ReadingsOf(t)) # Faults(periods[t], ReadingsOf(t))
          /\ Coherent(periods[t]) => Coherent(periods'[t])
      BY <1>1, <3>1, JudgedWrite DEF Traced
    <3>3. FaultsNow(t)' = Faults(periods'[t], ReadingsOf(t))
      BY <1>3 DEF FaultsNow, ReadingsOf
    <3> QED BY <3>2, <3>3 DEF Judged, FaultsNow
  <2> QED BY <2>1, <2>2
<1> QED BY <1>2, <1>3 DEF Transact

\* What closing and opening leave of a history.
LEMMA ClosingTraced ==
    ASSUME NEW ps \in Seq(Period), NEW when, NEW km
    PROVE  /\ DOMAIN Closed(ps, when, km) = DOMAIN ps
           /\ \A i \in DOMAIN ps \ OpenIds(ps) : Closed(ps, when, km)[i] = ps[i]
           /\ Traced(ps, Closed(ps, when, km), OpenIds(ps))
BY DEF Closed, Traced

\* No tire, of whatever row, has two open periods.
LEMMA OneOpen ==
    ASSUME IInv, NEW t \in Tire
    PROVE  periods[t] \in Seq(Period) /\ \A i, j \in OpenIds(periods[t]) : i = j
<1>1. Good(tires, periods)
  BY DEF IInv
<1>2. CASE t \in Owned
  BY <1>1, <1>2, OneRow
<1>3. CASE t \notin Owned
  BY <1>1, <1>3, UnusedRow
<1> QED BY <1>2, <1>3

LEMMA AppendTraced ==
    ASSUME NEW ps \in Seq(Period), NEW p
    PROVE  Traced(ps, Append(ps, p), {Len(ps) + 1})
BY DEF Traced

\* A transaction of moves.
LEMMA MovesAreJudged ==
    ASSUME IInv, IInv', NEW vacate, NEW assign, NEW moved,
           moved = vacate \union DOMAIN assign,
           NEW when \in Day, NEW km \in Maybe(Km),
           NEW flushed, flushed = ApplyMoves(vacate, assign, when, km),
           NEW records,
           Transact(flushed, TouchedBy(flushed, moved), records),
           NEW t \in Tire
    PROVE  Judged(t)
<1> DEFINE first == Vacated(State(tires, periods), vacate, when, km)
           last == Assigned(first, assign, when, km)
           pss == last.periods
<1>1. flushed = <<first, last>> /\ Len(flushed) = 2 /\ flushed[Len(flushed)] = last
  BY DEF ApplyMoves
<1>2. ASSUME NEW u \in Tire
      PROVE  IF u \in DOMAIN TouchedBy(flushed, moved)
             THEN Traced(periods[u], pss[u], TouchedBy(flushed, moved)[u])
             ELSE pss[u] = periods[u]
  <2> DEFINE closed == IF u \in vacate THEN Closed(periods[u], when, km) ELSE periods[u]
             final == IF u \in DOMAIN assign
                      THEN Append(closed, Opened(assign[u], when, km)) ELSE closed
  <2>1. pss[u] = final
    BY DEF Vacated, Assigned, State
  <2>2. CASE u \notin moved
    BY <2>1, <2>2 DEF TouchedBy
  <2>3. CASE u \in moved
    <3>1. /\ u \in DOMAIN TouchedBy(flushed, moved)
          /\ TouchedBy(flushed, moved)[u] = OpenIds(periods[u]) \union OpenIds(pss[u])
      BY <1>1, <2>3 DEF TouchedBy
    <3>2. periods[u] \in Seq(Period)
      BY DEF IInv, Good, Shaped
    <3> HIDE DEF pss
    <3>3. /\ DOMAIN closed = DOMAIN periods[u]
          /\ \A i \in DOMAIN periods[u] \ OpenIds(periods[u]) : closed[i] = periods[u][i]
      BY <3>2, ClosingTraced
    <3>4. ASSUME NEW i \in DOMAIN final, i \notin OpenIds(periods[u]), i \notin OpenIds(final)
          PROVE  i \in DOMAIN periods[u] /\ final[i] = periods[u][i]
      <4>1. CASE u \notin DOMAIN assign
        BY <3>3, <3>4, <4>1
      <4>2. CASE u \in DOMAIN assign
        <5> DEFINE p == Opened(assign[u], when, km)
        <5>1. closed \in Seq(Period) /\ final = Append(closed, p) /\ p.off = None
          <6>1. closed \in Seq(Period)
            BY ClosedHistory, OneOpen
          <6> QED BY <4>2, <6>1 DEF Opened
        <5> HIDE DEF closed, p, final
        <5>2. i # Len(closed) + 1
          BY <3>4, <5>1 DEF OpenIds
        <5>3. i \in DOMAIN closed /\ final[i] = closed[i]
          BY <5>1, <5>2
        <5> QED BY <3>3, <3>4, <5>3
      <4> QED BY <4>1, <4>2
    <3> HIDE DEF final
    <3> QED BY <2>1, <3>1, <3>4 DEF Traced
  <2> QED BY <2>2, <2>3
<1> HIDE DEF pss, last, first
<1>3. flushed[Len(flushed)].periods = pss
  BY <1>1 DEF pss
<1> DEFINE touched == TouchedBy(flushed, moved)
<1> HIDE DEF touched
<1>4. \A u \in Tire : IF u \in DOMAIN touched
                     THEN Traced(periods[u], pss[u], touched[u])
                     ELSE pss[u] = periods[u]
  BY <1>2 DEF touched
<1>5. Transact(flushed, touched, records)
  BY DEF touched
<1> QED BY <1>3, <1>4, <1>5, TransactIsJudged

\* A transaction that writes the history of one tire.
LEMMA OneIsJudged ==
    ASSUME IInv, IInv', NEW t \in Tire, NEW ts, NEW qs, NEW T,
           NEW records,
           Transact(<<State(ts, [periods EXCEPT ![t] = qs])>>, OfTire(t, T), records),
           Traced(periods[t], qs, T),
           NEW u \in Tire
    PROVE  Judged(u)
<1> DEFINE pss == [periods EXCEPT ![t] = qs]
           flushed == <<State(ts, pss)>>
           touched == OfTire(t, T)
<1>1. flushed[Len(flushed)].periods = pss
  BY DEF State
<1>2. \A v \in Tire : pss[v] = IF v = t THEN qs ELSE periods[v]
  BY DEF IInv, Good, Shaped
<1>3. DOMAIN touched = {t} /\ touched[t] = T
  BY DEF OfTire
<1> HIDE DEF pss, touched
<1>4. \A v \in Tire : IF v \in DOMAIN touched
                     THEN Traced(periods[v], pss[v], touched[v])
                     ELSE pss[v] = periods[v]
  BY <1>2, <1>3
<1>5. Transact(flushed, touched, records)
  BY DEF pss, touched
<1> HIDE DEF flushed
<1> QED BY <1>1, <1>4, <1>5, TransactIsJudged

\* A transaction that writes no history.
LEMMA NoneIsJudged ==
    ASSUME NEW ts, NEW records,
           Transact(<<State(ts, periods)>>, <<>>, records),
           NEW u \in Tire
    PROVE  Judged(u)
<1>1. <<State(ts, periods)>>[Len(<<State(ts, periods)>>)].periods = periods
  BY DEF State
<1>2. periods' = periods
  BY <1>1 DEF Transact
<1> QED BY <1>2, UnwrittenIsJudged

LEMMA CreateAndMountJudged ==
    ASSUME IInv, IInv', NEW t \in Tire, NEW c \in Corner, NEW when \in Day, NEW km \in Maybe(Km),
           CreateAndMount(t, c, when, km), NEW u \in Tire
    PROVE  Judged(u)
<1>1. Traced(periods[t], <<Opened(c, when, km)>>, {1})
  BY DEF Traced
<1> QED BY <1>1, OneIsJudged DEF CreateAndMount

LEMMA MountJudged ==
    ASSUME IInv, IInv', NEW t \in Tire, NEW c \in Corner, NEW when \in Day, NEW km \in Maybe(Km),
           Mount(t, c, when, km), NEW u \in Tire
    PROVE  Judged(u)
<1>1. Traced(periods[t], Append(periods[t], Opened(c, when, km)), {Len(periods[t]) + 1})
  BY OneOpen, AppendTraced
<1> QED BY <1>1, OneIsJudged DEF Mount

LEMMA DismountJudged ==
    ASSUME IInv, IInv', NEW t \in Tire, NEW when \in Day, NEW km \in Maybe(Km),
           Dismount(t, when, km), NEW u \in Tire
    PROVE  Judged(u)
<1>1. Traced(periods[t], Closed(periods[t], when, km), OpenIds(periods[t]))
  BY OneOpen, ClosingTraced
<1> QED BY <1>1, OneIsJudged DEF Dismount

LEMMA RetireJudged ==
    ASSUME IInv, IInv', NEW t \in Tire, NEW when \in Day, NEW km \in Maybe(Km),
           Retire(t, when, km), NEW u \in Tire
    PROVE  Judged(u)
<1>1. periods[t] \in Seq(Period) /\ periods \in [Tire -> Seq(Period)]
  BY OneOpen DEF IInv, Good, Shaped
<1>2. CASE tires[t].position # None
  <2>1. Traced(periods[t], Closed(periods[t], when, km), OpenIds(periods[t]))
    BY <1>1, ClosingTraced
  <2> QED BY <1>2, <2>1, OneIsJudged DEF Retire
<1>3. CASE tires[t].position = None
  <2>1. Traced(periods[t], periods[t], {}) /\ [periods EXCEPT ![t] = periods[t]] = periods
    BY <1>1 DEF Traced
  <2> QED BY <1>3, <2>1, OneIsJudged DEF Retire
<1> QED BY <1>2, <1>3

LEMMA RotateJudged ==
    ASSUME IInv, IInv', NEW moves \in Moves, NEW when \in Day, NEW km \in Maybe(Km),
           Rotate(moves, when, km), NEW u \in Tire
    PROVE  Judged(u)
<1> DEFINE flushed == ApplyMoves(DOMAIN moves, moves, when, km)
<1>1. \E records :
         Transact(flushed, TouchedBy(flushed, DOMAIN moves), records)
  BY DEF Rotate
<1>2. DOMAIN moves = DOMAIN moves \union DOMAIN moves
  OBVIOUS
<1> QED BY <1>1, <1>2, MovesAreJudged

LEMMA MountSetJudged ==
    ASSUME IInv, IInv', NEW when \in Day, NEW km \in Maybe(Km), MountSet(when, km),
           NEW u \in Tire
    PROVE  Judged(u)
<1> DEFINE wanted == {Remembered(t) : t \in Members}
           displaced == (UNION {At(c) : c \in wanted}) \ Members
           moving == {t \in Members : tires[t].position # Remembered(t)}
           assign == [t \in moving |-> Remembered(t)]
           vacate == displaced \union {t \in moving : tires[t].position # None}
           moved == displaced \union moving
           flushed == ApplyMoves(vacate, assign, when, km)
<1>1. Transact(flushed, TouchedBy(flushed, moved),
               Publish(log, when, km, SetFit))
  BY Zenon DEF MountSet
<1>2. moved = vacate \union DOMAIN assign
  OBVIOUS
<1> HIDE DEF assign, vacate, moved
<1> QED BY <1>1, <1>2, MovesAreJudged

LEMMA AddPastJudged ==
    ASSUME IInv, IInv', NEW t \in Tire, NEW p \in Period, AddPast(t, p), NEW u \in Tire
    PROVE  Judged(u)
<1>1. Traced(periods[t], Append(periods[t], p), {Len(periods[t]) + 1})
  BY OneOpen, AppendTraced
<1> QED BY <1>1, OneIsJudged DEF AddPast

LEMMA EditPeriodJudged ==
    ASSUME IInv, IInv', NEW t \in Tire, NEW i \in DOMAIN periods[t], NEW p \in Period,
           EditPeriod(t, i, p), NEW u \in Tire
    PROVE  Judged(u)
<1> DEFINE qs == [periods[t] EXCEPT ![i] = p]
<1>1. Traced(periods[t], qs, {i})
  BY OneOpen DEF Traced
<1>2. [periods EXCEPT ![t][i] = p] = [periods EXCEPT ![t] = qs]
  OBVIOUS
<1> HIDE DEF qs
<1>3. \E records :
         Transact(<<State(tires, [periods EXCEPT ![t] = qs])>>, OfTire(t, {i}), records)
  BY <1>2 DEF EditPeriod
<1> QED BY <1>1, <1>3, OneIsJudged

LEMMA DeleteJudged ==
    ASSUME IInv, NEW t \in Tire, Delete(t), NEW u \in Tire
    PROVE  Judged(u)
<1>1. periods' = [periods EXCEPT ![t] = <<>>] /\ periods \in [Tire -> Seq(Period)]
  BY DEF Delete, IInv, Good, Shaped
<1>2. periods'[u] = IF u = t THEN <<>> ELSE periods[u]
  BY <1>1
<1> QED BY <1>2, UnwrittenIsJudged

LEMMA StepIsJudged ==
    ASSUME IInv, IInv', [Next]_vars
    PROVE  \A u \in Tire : Judged(u)
<1> SUFFICES ASSUME NEW u \in Tire PROVE Judged(u)
  OBVIOUS
<1>1. CASE UNCHANGED periods
  BY <1>1, UnwrittenIsJudged
<1>2. CASE Moved
  BY <1>2, CreateAndMountJudged, MountJudged, DismountJudged, RetireJudged, RotateJudged,
     MountSetJudged DEF Moved
<1>3. CASE HistoryWritten
  BY <1>3, AddPastJudged, EditPeriodJudged, DeleteJudged DEF HistoryWritten
<1>4. CASE Described
  <2>1. ASSUME NEW t \in Tire, Create(t) PROVE Judged(u)
    BY <2>1, NoneIsJudged DEF Create
  <2>2. ASSUME NEW t \in Tire, Restore(t) PROVE Judged(u)
    BY <2>2, NoneIsJudged DEF Restore
  <2> QED BY <1>1, <1>4, <2>1, <2>2
          DEF Described, Edit, DeleteSet, AddReading, DeleteReading
<1>5. CASE OtherWriters
  BY <1>1, <1>5 DEF OtherWriters, SaveVisit, Telemetry, DeleteVisit, NotTires
<1>6. CASE ByHand
  BY <1>1, <1>6 DEF ByHand, AddRecord, EditRecord, DeleteRecord, NotTires
<1>7. CASE UNCHANGED vars
  BY <1>1, <1>7 DEF vars
<1> QED BY <1>2, <1>3, <1>4, <1>5, <1>6, <1>7 DEF Next

-----------------------------------------------------------------------------
\* Whatever the periods of a tire, the fault rules leave no clash unreported
\* and report nothing else: a clash hidden behind the running maximum of rule
\* 4b shows on both its periods under another counterpart.
THEOREM EveryHistoryIsReported == Spec => []NothingUnreported
<1>1. IInv => NothingUnreported
  BY OneOpen, EveryClashReported DEF NothingUnreported
<1> QED BY <1>1, TireStateIsGood, PTL

\* No operation of the tire services lets a coherent history end in a clash or
\* a reversal: new_or_touched_faults refuses it, whatever was there before.
THEOREM CoherentStaysCoherent == Spec => CoherenceKept
<1>1. IInv /\ IInv' /\ [Next]_vars =>
         [\A t \in Tire : Coherent(periods[t]) => Coherent(periods'[t])]_vars
  BY StepIsJudged DEF Judged
<1> QED BY <1>1, TireStateIsGood, PTL DEF Spec, CoherenceKept

\* A new clash enters a history only with a write that resolves a fault and
\* adds none: the strict improvement new_or_touched_faults lets through.
THEOREM ClashesEnterWithRepairs == Spec => OnlyRepairsClash
<1>1. IInv /\ IInv' /\ [Next]_vars =>
         [\A t \in Tire :
             \/ Clashes(periods'[t]) \subseteq Clashes(periods[t])
             \/ FaultsNow(t)' \subseteq FaultsNow(t) /\ FaultsNow(t)' # FaultsNow(t)]_vars
  BY StepIsJudged DEF Judged
<1> QED BY <1>1, TireStateIsGood, PTL DEF Spec, OnlyRepairsClash
=============================================================================
