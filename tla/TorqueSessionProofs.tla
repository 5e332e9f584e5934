------------------------- MODULE TorqueSessionProofs -------------------------
(* Proofs about TorqueSession: the invariants and the action properties of  *)
(* Spec, for any set of trips, any timeout and any clock skew.              *)
EXTENDS TorqueSession, TLAPS

\* The open trip began before the phone was last heard from, so the timeout,
\* which closes it at last_seen, closes it after its start.
OpenBeganBeforeSeen ==
    \A t \in Trip : IsOpen(t) => rows[t].started_at <= last_seen

IInv ==
    /\ TypeOK /\ OpenIsCurrent /\ EndsAfterStart /\ OpenBeganBeforeSeen
    /\ job = None

\* The clamp keeps a reading's time between zero and now.
LEMMA StampedIsPast ==
    ASSUME now \in Nat, NEW candidate \in Int, candidate >= 0
    PROVE  Stamped(candidate) \in Past
BY DEF Stamped, Past

LEMMA InitInv == Init => IInv
BY TripAssumption
   DEF Init, IInv, TypeOK, Past, Row, IsOpen, OpenIsCurrent, EndsAfterStart,
       OpenBeganBeforeSeen

\* What the pointer says about the rows.
LEMMA CurrentIsOpen ==
    ASSUME IInv, current # None
    PROVE  /\ current \in Trip /\ rows[current] \in Row
           /\ rows[current].ended_at = None
           /\ rows[current].started_at <= last_seen
<1>1. current \in Trip BY DEF IInv, TypeOK
<1>2. IsOpen(current) BY <1>1 DEF IInv, OpenIsCurrent
<1> QED BY <1>1, <1>2, TripAssumption DEF IInv, TypeOK, IsOpen, OpenBeganBeforeSeen

LEMMA StragglerKeeps ==
    ASSUME IInv, NEW t \in Trip, NEW at \in Past, UploadStraggler(t, at),
           SeenNow(at), UNCHANGED <<now, job>>
    PROVE  IInv'
<1> USE DEF IInv, UploadStraggler, SeenNow
<1>1. now \in Nat /\ at \in Nat /\ at <= now BY DEF TypeOK, Past
<1>2. \A u \in Trip : rows'[u] = IF u = t THEN [started_at |-> at, ended_at |-> at]
                                 ELSE rows[u]
    BY DEF TypeOK
<1>3. TypeOK' BY <1>1, <1>2, TripAssumption DEF TypeOK, Past, Row
<1>4. \A u \in Trip : IsOpen(u)' <=> IsOpen(u)
    BY <1>1, <1>2, TripAssumption DEF IsOpen, Past
<1>5. OpenIsCurrent' BY <1>4 DEF OpenIsCurrent
<1>6. EndsAfterStart' BY <1>1, <1>2 DEF EndsAfterStart
<1>7. OpenBeganBeforeSeen'
    BY <1>1, <1>2, <1>4 DEF OpenBeganBeforeSeen, IsOpen, TypeOK, Row, Past
<1> QED BY <1>3, <1>5, <1>6, <1>7

LEMMA NewestKeeps ==
    ASSUME IInv, NEW t \in Trip, NEW at \in Past, UploadNewest(t, at),
           SeenNow(at), UNCHANGED <<now, job>>
    PROVE  IInv'
<1> USE DEF IInv, UploadNewest, SeenNow
<1>1. now \in Nat /\ at \in Nat /\ at <= now BY DEF TypeOK, Past
<1>3. current # t
    BY CurrentIsOpen, TripAssumption DEF Row, TypeOK, OpenIsCurrent, IsOpen
<1>2. /\ rows'[t] = [started_at |-> at, ended_at |-> None]
      /\ current # None => rows'[current] = [rows[current] EXCEPT !.ended_at = now]
      /\ \A u \in Trip : u # t /\ u # current => rows'[u] = rows[u]
    BY <1>3 DEF TypeOK
<1>4. current # None => /\ current \in Trip
                        /\ rows[current] \in Row
                        /\ rows[current].started_at <= now
    BY CurrentIsOpen DEF Row, Past
<1>5. Row' = Row BY DEF Row, Past
<1>6. TypeOK'
    <2>1. rows'[t] \in Row BY <1>1, <1>2 DEF Row
    <2>2. current # None => rows'[current] \in Row BY <1>1, <1>2, <1>4 DEF Row, Past
    <2>3. \A u \in Trip : rows'[u] \in Row \union {None}
        BY <2>1, <2>2, <1>2, TripAssumption DEF TypeOK
    <2>4. DOMAIN rows' = Trip /\ rows' = [u \in Trip |-> rows'[u]] OBVIOUS
    <2> QED BY <1>1, <1>5, <2>3, <2>4 DEF TypeOK, Past
<1>7. \A u \in Trip : IsOpen(u)' <=> u = t
    <2> TAKE u \in Trip
    <2>1. CASE u = t
        <3>1. rows'[t] \in [started_at : Nat, ended_at : Nat \union {None}]
            BY <1>1, <1>2
        <3> QED BY <2>1, <3>1, <1>2, TripAssumption DEF IsOpen
    <2>2. CASE u # t /\ u = current
        BY <2>2, <1>1, <1>2, <1>4, TripAssumption DEF IsOpen, Row
    <2>3. CASE u # t /\ u # current
        BY <2>3, <1>2, TripAssumption DEF IsOpen, OpenIsCurrent
    <2> QED BY <2>1, <2>2, <2>3
<1>8. OpenIsCurrent' BY <1>7 DEF OpenIsCurrent
<1>9. EndsAfterStart'
    <2> SUFFICES ASSUME NEW u \in Trip, rows'[u] # None, rows'[u].ended_at # None
                 PROVE  rows'[u].started_at <= rows'[u].ended_at
        BY DEF EndsAfterStart
    <2>1. u # t BY <1>2
    <2>2. CASE u = current
        <3>1. rows'[u] = [rows[u] EXCEPT !.ended_at = now]
            BY <2>2, <1>2, TripAssumption
        <3> QED BY <2>2, <3>1, <1>4, TripAssumption DEF Row
    <2>3. CASE u # current BY <2>1, <2>3, <1>2 DEF EndsAfterStart
    <2> QED BY <2>2, <2>3
<1>10. OpenBeganBeforeSeen' BY <1>1, <1>2, <1>7 DEF OpenBeganBeforeSeen
<1> QED BY <1>6, <1>8, <1>9, <1>10

LEMMA KnownKeeps ==
    ASSUME IInv, NEW at \in Past, UNCHANGED <<current, rows>>,
           SeenNow(at), UNCHANGED <<now, job>>
    PROVE  IInv'
BY DEF IInv, SeenNow, TypeOK, Past, Row, OpenIsCurrent, EndsAfterStart,
       OpenBeganBeforeSeen, IsOpen

LEMMA UploadsKeep == ASSUME IInv, Uploads PROVE IInv'
<1>1. PICK t \in Trip \union {None}, candidate \in 0..(now + Ahead) :
          Upload(t, candidate)
    BY DEF Uploads
<1> DEFINE at == Stamped(candidate)
<1>2. at \in Past
    BY StampedIsPast, SettingAssumption DEF IInv, TypeOK
<1>3. SeenNow(at) /\ UNCHANGED <<now, job>> BY <1>1 DEF Upload
<1>4. CASE UploadKnown(t, at) BY <1>2, <1>3, <1>4, KnownKeeps DEF UploadKnown
<1>5. CASE UploadStraggler(t, at)
    BY <1>2, <1>3, <1>5, StragglerKeeps DEF UploadStraggler
<1>6. CASE UploadNewest(t, at)
    BY <1>2, <1>3, <1>6, NewestKeeps DEF UploadNewest
<1> QED BY <1>1, <1>4, <1>5, <1>6 DEF Upload

LEMMA TimeoutKeeps == ASSUME IInv, Timeout PROVE IInv'
<1> USE DEF IInv, Timeout, EndSession
<1>1. /\ current # None /\ current \in Trip /\ rows[current] \in Row
      /\ rows[current].started_at <= last_seen
    BY CurrentIsOpen DEF Silent
<1>2. \A u \in Trip : rows'[u] = IF u = current
                                 THEN [rows[u] EXCEPT !.ended_at = last_seen]
                                 ELSE rows[u]
    BY DEF TypeOK
<1>3. now \in Nat /\ last_seen \in Nat /\ last_seen <= now BY DEF TypeOK, Past
<1>4. TypeOK' BY <1>1, <1>2, <1>3 DEF TypeOK, Past, Row
<1>5. \A u \in Trip : ~IsOpen(u)'
    <2> TAKE u \in Trip
    <2>1. CASE u = current BY <2>1, <1>1, <1>2, <1>3, TripAssumption DEF IsOpen, Row
    <2>2. CASE u # current BY <2>2, <1>2 DEF IsOpen, OpenIsCurrent
    <2> QED BY <2>1, <2>2
<1>6. OpenIsCurrent' BY <1>5, TripAssumption DEF OpenIsCurrent
<1>7. EndsAfterStart' BY <1>1, <1>2 DEF EndsAfterStart, Row
<1>8. OpenBeganBeforeSeen' BY <1>5 DEF OpenBeganBeforeSeen
<1> QED BY <1>4, <1>6, <1>7, <1>8

LEMMA TickKeeps == ASSUME IInv, Tick PROVE IInv'
BY DEF IInv, Tick, TypeOK, Past, Row, OpenIsCurrent, EndsAfterStart,
       OpenBeganBeforeSeen, IsOpen

LEMMA StutterKeeps == ASSUME IInv, UNCHANGED vars PROVE IInv'
BY DEF IInv, vars, TypeOK, Past, Row, OpenIsCurrent, EndsAfterStart,
       OpenBeganBeforeSeen, IsOpen

LEMMA Invariance == Spec => []IInv
<1>1. IInv /\ [Next]_vars => IInv'
    BY UploadsKeep, TimeoutKeeps, TickKeeps, StutterKeeps DEF Next
<1> QED BY InitInv, <1>1, PTL DEF Spec

\* The rows and the device row keep their types, and hold no future time.
THEOREM TorqueTypes == Spec => []TypeOK
BY Invariance, PTL DEF IInv

\* resolve_torque_session leaks no open row: the open rows are the current one.
THEOREM NoTripLeaksOpen == Spec => []OpenIsCurrent
BY Invariance, PTL DEF IInv

\* No trip has a negative duration, for any skew of the phone's clock.
THEOREM DurationsAreNotNegative == Spec => []EndsAfterStart
BY Invariance, PTL DEF IInv

\* What a step does to an open or a closed row.
LEMMA StepIsSafe ==
    ASSUME IInv, [Next]_vars, NEW t \in Trip, rows[t] # None
    PROVE  /\ ~IsOpen(t) => rows'[t] = rows[t]
           /\ IsOpen(t) /\ ~IsOpen(t)' =>
                  \/ now - last_seen > Contact
                  \/ /\ current' # None
                     /\ rows'[current'].started_at >= rows[t].started_at
<1>1. CASE Uploads
    <2>1. PICK u \in Trip \union {None}, candidate \in 0..(now + Ahead) :
              Upload(u, candidate)
        BY <1>1 DEF Uploads
    <2> DEFINE at == Stamped(candidate)
    <2>2. CASE UploadKnown(u, at) BY <2>2 DEF UploadKnown, IsOpen
    <2>3. CASE UploadStraggler(u, at)
        BY <2>3 DEF UploadStraggler, IsOpen, IInv, TypeOK
    <2>4. CASE UploadNewest(u, at)
        <3>1. u \in Trip /\ u # t /\ u # None BY <2>4 DEF UploadNewest
        <3>2. t # current => rows'[t] = rows[t]
            BY <2>4, <3>1 DEF UploadNewest
        <3>3. current' = u /\ rows'[u] = [started_at |-> at, ended_at |-> None]
            <4>1. u # current
                BY <2>4, <3>1 DEF UploadNewest, IInv, OpenIsCurrent, IsOpen
            <4> QED BY <2>4, <3>1, <4>1 DEF UploadNewest
        <3>4. t = current => at >= rows[t].started_at
            BY <2>4, TripAssumption DEF UploadNewest, IsNewer
        <3>5. t = current => IsOpen(t) BY DEF IInv, OpenIsCurrent
        <3>6. t # current => ~IsOpen(t) BY DEF IInv, OpenIsCurrent
        <3> QED BY <3>1, <3>2, <3>3, <3>4, <3>5, <3>6
    <2> QED BY <2>1, <2>2, <2>3, <2>4 DEF Upload
<1>2. CASE Timeout
    <2>1. last_seen \in Int /\ now \in Int BY DEF IInv, TypeOK, Past
    <2>2. now - last_seen > Contact
        BY <1>2, <2>1, SettingAssumption DEF Timeout, Silent
    <2>3. t # current => rows'[t] = rows[t]
        BY <1>2 DEF Timeout, EndSession, IInv, TypeOK
    <2>4. t = current => IsOpen(t) BY DEF IInv, OpenIsCurrent
    <2> QED BY <2>2, <2>3, <2>4
<1>3. CASE Tick BY <1>3 DEF Tick, IsOpen
<1>4. CASE UNCHANGED vars BY <1>4 DEF vars, IsOpen
<1> QED BY <1>1, <1>2, <1>3, <1>4 DEF Next

\* A late packet never ends the active trip.
THEOREM LatePacketsAreHarmless == Spec => ActiveTripIsSafe
<1>1. IInv /\ [Next]_vars =>
      [\A t \in Trip : IsOpen(t) /\ ~IsOpen(t)' =>
          \/ now - last_seen > Contact
          \/ /\ current' # None
             /\ rows'[current'].started_at >= rows[t].started_at]_vars
    BY StepIsSafe DEF IsOpen
<1> QED BY <1>1, Invariance, PTL DEF Spec, ActiveTripIsSafe

\* No upload and no tick of the job changes the row of a closed trip.
THEOREM HistoryIsFrozen == Spec => ClosedIsFinal
<1>1. IInv /\ [Next]_vars =>
      [\A t \in Trip : rows[t] # None /\ ~IsOpen(t) => rows'[t] = rows[t]]_vars
    BY StepIsSafe
<1> QED BY <1>1, Invariance, PTL DEF Spec, ClosedIsFinal
=============================================================================
