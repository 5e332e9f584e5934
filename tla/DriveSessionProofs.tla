------------------------ MODULE DriveSessionProofs --------------------------
(***************************************************************************)
(* Theorems about DriveSession, for every vehicle, batch, setting and      *)
(* bound.  Handlers are operators on st = [dev, ses], so each has a lemma: *)
(* it keeps a well-typed st well typed, and it keeps the invariant.  The   *)
(* theorems put the lemmas together.                                       *)
(***************************************************************************)
EXTENDS DriveSession, NaturalsInduction, WellFoundedInduction, TLAPS

\* A device row and its sessions, well typed, the pointer naming a row.
Shaped(st) ==
    /\ st \in [dev : DeviceRow, ses : Seq(SessionRow)]
    /\ st.dev.current_session_id \in OrNone(DOMAIN st.ses)
    /\ sessions \in Seq(SessionRow)

-----------------------------------------------------------------------------
(* Max and Min over sets of times *)

\* Max of a nonempty set of times is one of them, and the latest.
LEMMA MaxOfTimes ==
    ASSUME NEW S \in SUBSET Time, S # {}
    PROVE  Max(S) \in S /\ \A t \in S : Max(S) >= t
<1> USE BoundAssumption DEF Time
<1> DEFINE D == {MaxTime - t : t \in S}
<1>1. D # {}
    OBVIOUS
<1>2. D \subseteq Nat
    OBVIOUS
<1>3. PICK d \in D : \A e \in D : <<e, d>> \notin OpToRel(<, Nat)
  <2> HIDE DEF D
  <2> QED BY <1>1, <1>2, NatLessThanWellFounded, WFMin, Zenon
<1>4. PICK m \in S : d = MaxTime - m
    OBVIOUS
<1>5. \A t \in S : m >= t
  <2> SUFFICES ASSUME NEW t \in S PROVE m >= t
      OBVIOUS
  <2>1. MaxTime - t \in D
      OBVIOUS
  <2>2. ~(MaxTime - t < d)
      BY <2>1, <1>2, <1>3 DEF OpToRel
  <2> QED BY <2>2, <1>4
<1>6. \E x \in S : \A t \in S : x >= t
    BY <1>5
<1> QED
    BY <1>6, Zenon DEF Max

\* Min of a nonempty set of times is one of them, and the earliest.
LEMMA MinOfTimes ==
    ASSUME NEW S \in SUBSET Time, S # {}
    PROVE  Min(S) \in S /\ \A t \in S : Min(S) <= t
<1>1. S \subseteq Nat
    BY BoundAssumption DEF Time
<1>2. PICK m \in S : \A e \in S : <<e, m>> \notin OpToRel(<, Nat)
    BY <1>1, NatLessThanWellFounded, WFMin, Zenon
<1>3. \A t \in S : m <= t
  <2> SUFFICES ASSUME NEW t \in S PROVE m <= t
      OBVIOUS
  <2>1. <<t, m>> \notin OpToRel(<, Nat)
      BY <1>2
  <2>2. ~(t < m)
      BY <2>1, <1>1 DEF OpToRel
  <2> QED BY <2>2, <1>1
<1>4. \E x \in S : \A t \in S : x <= t
    BY <1>3
<1> QED
    BY <1>4, Zenon DEF Min

-----------------------------------------------------------------------------
(* Rows *)

\* Replacing a row keeps the table well typed and its ids.
LEMMA RowReplaced ==
    ASSUME NEW ses \in Seq(SessionRow), NEW p \in DOMAIN ses, NEW row \in SessionRow
    PROVE  /\ [ses EXCEPT ![p] = row] \in Seq(SessionRow)
           /\ DOMAIN [ses EXCEPT ![p] = row] = DOMAIN ses
OBVIOUS

\* So does setting a row's end.
LEMMA RowEnded ==
    ASSUME NEW ses \in Seq(SessionRow), NEW p \in DOMAIN ses, NEW at \in OrNone(Time)
    PROVE  /\ [ses EXCEPT ![p].ended_at = at] \in Seq(SessionRow)
           /\ DOMAIN [ses EXCEPT ![p].ended_at = at] = DOMAIN ses
<1> DEFINE row == [ses[p] EXCEPT !.ended_at = at]
<1>1. ses[p] \in SessionRow
    OBVIOUS
<1>2. row \in SessionRow
    BY <1>1 DEF SessionRow
<1>3. [ses EXCEPT ![p].ended_at = at] = [ses EXCEPT ![p] = row]
    OBVIOUS
<1> QED
    BY <1>2, <1>3, RowReplaced

\* The fields of a device row and of a session row.
LEMMA ShapedFields ==
    ASSUME NEW st, Shaped(st)
    PROVE  /\ st.dev \in DeviceRow
           /\ st.ses \in Seq(SessionRow)
           /\ st = [dev |-> st.dev, ses |-> st.ses]
           /\ st.dev.current_session_id \in OrNone(DOMAIN st.ses)
           /\ \A i \in DOMAIN st.ses : st.ses[i] \in SessionRow
           /\ sessions \in Seq(SessionRow)
BY DEF Shaped

\* Rebuilding a pair from well-typed parts.
LEMMA ShapedPair ==
    ASSUME NEW dev \in DeviceRow, NEW ses \in Seq(SessionRow),
           dev.current_session_id \in OrNone(DOMAIN ses), sessions \in Seq(SessionRow)
    PROVE  Shaped([dev |-> dev, ses |-> ses])
BY DEF Shaped

\* Replacing the device row, the pointer kept or dropped.
LEMMA ShapedDevice ==
    ASSUME NEW st, Shaped(st), NEW dev \in DeviceRow,
           dev.current_session_id \in {None, st.dev.current_session_id}
    PROVE  Shaped([st EXCEPT !.dev = dev])
BY DEF Shaped, OrNone

-----------------------------------------------------------------------------
(* Typing: every operation keeps st well typed *)

\* Clearing the evidence keeps a device row well typed.
LEMMA ClearMovementTyped ==
    ASSUME NEW dev \in DeviceRow
    PROVE  /\ ClearMovement(dev) \in DeviceRow
           /\ ClearMovement(dev).current_session_id = dev.current_session_id
BY DEF ClearMovement, DeviceRow, OrNone

\* end_session keeps the types, and the row it closes exists.
LEMMA EndSessionShaped ==
    ASSUME NEW st, Shaped(st), NEW at \in Time, NEW r \in BOOLEAN
    PROVE  Shaped(EndSession(st, at, r))
<1> DEFINE p == st.dev.current_session_id
           ses == [st.ses EXCEPT ![p].ended_at = at]
           dev == IF r THEN st.dev ELSE [st.dev EXCEPT !.current_session_id = None]
<1>1. CASE p = None
    BY <1>1 DEF EndSession
<1>2. CASE p # None
  <2>1. p \in DOMAIN st.ses
      BY <1>2, ShapedFields DEF OrNone
  <2>2. ses \in Seq(SessionRow) /\ DOMAIN ses = DOMAIN st.ses
      BY <2>1, ShapedFields, RowEnded DEF OrNone
  <2>3. dev \in DeviceRow /\ dev.current_session_id \in {None, p}
      BY ShapedFields DEF DeviceRow, OrNone
  <2>4. EndSession(st, at, r) = [dev |-> dev, ses |-> ses]
      BY <1>2 DEF EndSession
  <2> HIDE DEF dev, ses
  <2> QED
      BY <2>1, <2>2, <2>3, <2>4, ShapedFields, ShapedPair DEF OrNone
<1> QED BY <1>1, <1>2

\* The inserted row gets the next id and the pointer names it.
LEMMA AddSessionShaped ==
    ASSUME NEW st, Shaped(st), NEW row \in SessionRow
    PROVE  Shaped(AddSession(st, row))
<1> DEFINE ses == Append(st.ses, row)
           dev == [st.dev EXCEPT !.current_session_id = Len(st.ses) + 1]
<1>1. ses \in Seq(SessionRow) /\ Len(st.ses) + 1 \in DOMAIN ses
    BY ShapedFields
<1>2. dev \in DeviceRow /\ dev.current_session_id = Len(st.ses) + 1
    BY ShapedFields DEF DeviceRow, OrNone
<1>3. AddSession(st, row) = [dev |-> dev, ses |-> ses]
    BY DEF AddSession
<1> HIDE DEF dev, ses
<1> QED
    BY <1>1, <1>2, <1>3, ShapedFields, ShapedPair DEF OrNone

\* The columns a handler writes together, with well-typed values.
LEMMA LinkColumns ==
    ASSUME NEW dev \in DeviceRow, NEW v \in OrNone(Vin), NEW e \in BOOLEAN
    PROVE  /\ [dev EXCEPT !.vin = v] \in DeviceRow
           /\ [dev EXCEPT !.enabled = e] \in DeviceRow
           /\ [dev EXCEPT !.vin = None, !.current_session_id = None] \in DeviceRow
           /\ [dev EXCEPT !.current_session_id = None] \in DeviceRow
<1>1. [dev EXCEPT !.vin = v] \in DeviceRow
    BY DEF DeviceRow
<1>2. [dev EXCEPT !.enabled = e] \in DeviceRow
    BY DEF DeviceRow
<1>3. [dev EXCEPT !.vin = None, !.current_session_id = None] \in DeviceRow
    BY DEF DeviceRow, OrNone
<1>4. [dev EXCEPT !.current_session_id = None] \in DeviceRow
    BY DEF DeviceRow, OrNone
<1> QED BY <1>1, <1>2, <1>3, <1>4

\* The columns update_device_status and set_device_offline write.
LEMMA StatusColumns ==
    ASSUME NEW dev \in DeviceRow, NEW t \in Time, NEW ecu \in EcuStatus, NEW m \in OrNone(Time)
    PROVE  /\ [dev EXCEPT !.device_status = "online", !.last_seen = t,
                          !.ecu_status = ecu] \in DeviceRow
           /\ SetOffline(dev) \in DeviceRow
           /\ [dev EXCEPT !.pending_offline_at = m] \in DeviceRow
<1>1. [dev EXCEPT !.device_status = "online", !.last_seen = t,
                  !.ecu_status = ecu] \in DeviceRow
    BY DEF DeviceRow
<1>2. SetOffline(dev) \in DeviceRow
    BY DEF DeviceRow, EcuStatus, SetOffline
<1>3. [dev EXCEPT !.pending_offline_at = m] \in DeviceRow
    BY DEF DeviceRow
<1> QED BY <1>1, <1>2, <1>3

\* The evidence columns the movement observer writes.
LEMMA EvidenceColumns ==
    ASSUME NEW dev \in DeviceRow, NEW c \in OrNone(Time), NEW k \in OrNone(Odometer),
           NEW s \in OrNone(Time)
    PROVE  [dev EXCEPT !.movement_candidate_at = c, !.movement_baseline_km = k,
                       !.pending_since = s] \in DeviceRow
BY DEF DeviceRow

\* The columns a confirmed movement writes.
LEMMA MovedColumns ==
    ASSUME NEW dev \in DeviceRow, NEW k \in OrNone(Odometer), NEW m \in OrNone(Time)
    PROVE  [dev EXCEPT !.movement_baseline_km = k, !.last_movement_at = m,
                       !.pending_since = None, !.movement_candidate_at = None] \in DeviceRow
BY DEF DeviceRow, OrNone

\* Recording unconfirmed evidence keeps a device row well typed.
LEMMA NoteEvidenceTyped ==
    ASSUME NEW dev \in DeviceRow, NEW at \in Time, NEW b \in MovementSignals
    PROVE  /\ NoteEvidence(dev, b, at) \in DeviceRow
           /\ NoteEvidence(dev, b, at).current_session_id = dev.current_session_id
<1> DEFINE first == b.above \/ (~b.above /\ b.odometer # None
                                /\ dev.movement_baseline_km = None)
           both  == b.odometer # None /\ first
           cand  == IF b.above \/ (first /\ dev.movement_candidate_at = None)
                    THEN at ELSE dev.movement_candidate_at
           base  == IF both THEN b.odometer ELSE dev.movement_baseline_km
           since == IF b.engine /\ dev.pending_since = None THEN at ELSE dev.pending_since
           F == NoteEvidence(dev, b, at)
<1>1. cand \in OrNone(Time) /\ base \in OrNone(Odometer) /\ since \in OrNone(Time)
    BY NoneAssumption DEF MovementSignals, DeviceRow, OrNone
<1>2. F = [dev EXCEPT !.movement_candidate_at = cand, !.movement_baseline_km = base,
                      !.pending_since = since]
    BY DEF NoteEvidence, DeviceRow
<1>3. F.current_session_id = dev.current_session_id
    BY DEF NoteEvidence, DeviceRow
<1> HIDE DEF cand, base, since
<1>4. [dev EXCEPT !.movement_candidate_at = cand, !.movement_baseline_km = base,
                  !.pending_since = since] \in DeviceRow
    BY <1>1, EvidenceColumns
<1> QED
    BY <1>2, <1>3, <1>4

\* Dropping stale evidence keeps a device row well typed.
LEMMA ExpireEvidenceTyped ==
    ASSUME NEW dev \in DeviceRow, NEW at \in Time
    PROVE  /\ ExpireEvidence(dev, at) \in DeviceRow
           /\ ExpireEvidence(dev, at).current_session_id = dev.current_session_id
<1> DEFINE F == [dev EXCEPT !.movement_candidate_at = None, !.movement_baseline_km = None]
<1>1. F \in DeviceRow /\ F.current_session_id = dev.current_session_id
    BY DEF DeviceRow, OrNone
<1>2. ExpireEvidence(dev, at) \in {dev, ClearMovement(dev), F}
    BY DEF ExpireEvidence
<1> QED
    BY <1>1, <1>2, ClearMovementTyped
\* Reopening, or letting go of, the awaiting row keeps the types.
LEMMA ReopenShaped ==
    ASSUME NEW st, Shaped(st), NEW at \in Time
    PROVE  Shaped(ReopenAwaiting(st, at))
<1> DEFINE p == st.dev.current_session_id
           gone == [st EXCEPT !.dev.current_session_id = None]
           ses == [st.ses EXCEPT ![p].ended_at = None]
           reopened == [dev |-> st.dev, ses |-> ses]
<1>1. Shaped(gone)
  <2>1. gone = [st EXCEPT !.dev = [st.dev EXCEPT !.current_session_id = None]]
     OBVIOUS
  <2>2. [st.dev EXCEPT !.current_session_id = None] \in DeviceRow
      /\ [st.dev EXCEPT !.current_session_id = None].current_session_id = None
     BY ShapedFields DEF DeviceRow, OrNone
  <2> QED BY <2>1, <2>2, ShapedDevice
<1>2. ASSUME p # None PROVE Shaped(reopened)
  <2>1. p \in DOMAIN st.ses
      BY <1>2, ShapedFields DEF OrNone
  <2>2. ses \in Seq(SessionRow) /\ DOMAIN ses = DOMAIN st.ses
      BY <2>1, ShapedFields, RowEnded DEF OrNone
  <2> HIDE DEF ses
  <2> QED BY <2>1, <2>2, ShapedFields, ShapedPair DEF OrNone
<1>3. ReopenAwaiting(st, at) \in {st, gone, reopened} /\ (p = None => ReopenAwaiting(st, at) = st)
    BY DEF ReopenAwaiting
<1> QED
    BY <1>1, <1>2, <1>3

\* Row ids are positive numbers, never None.
LEMMA RowIds ==
    ASSUME NEW ses \in Seq(SessionRow), NEW i \in DOMAIN ses
    PROVE  i \in Nat /\ i # None /\ 1 <= i /\ i <= Len(ses)
BY NoneAssumption

\* max(ended_at) is a time no closed row ends after.
LEMMA PreviousEndTyped ==
    ASSUME NEW ses \in Seq(SessionRow)
    PROVE  /\ PreviousEnd(ses) \in Time
           /\ \A i \in DOMAIN ses : ses[i].ended_at # None => ses[i].ended_at <= PreviousEnd(ses)
<1> DEFINE ends == {ses[i].ended_at : i \in DOMAIN ses} \ {None}
<1>1. ends \in SUBSET Time
  <2> SUFFICES ASSUME NEW i \in DOMAIN ses PROVE ses[i].ended_at \in OrNone(Time)
      BY DEF OrNone
  <2>1. ses[i] \in SessionRow
      OBVIOUS
  <2> QED BY <2>1 DEF SessionRow
<1>2. \A i \in DOMAIN ses : ses[i].ended_at # None => ses[i].ended_at \in ends
    OBVIOUS
<1>3. PreviousEnd(ses) = IF ends = {} THEN 0 ELSE Max(ends)
    BY DEF PreviousEnd
<1> HIDE DEF ends
<1>4. CASE ends = {}
    BY <1>2, <1>3, <1>4, BoundAssumption DEF Time
<1>5. CASE ends # {}
    BY <1>1, <1>2, <1>3, <1>5, MaxOfTimes
<1> QED BY <1>4, <1>5

\* The window a new session opens with.
LEMMA OpeningWindow ==
    ASSUME NEW dev \in DeviceRow, NEW ses \in Seq(SessionRow), NEW at \in Time
    PROVE  LET evidence == {dev.pending_since, dev.movement_candidate_at, at} \ {None}
               started  == Max({Min(evidence), PreviousEnd(ses)})
               moved    == Max({Or(dev.movement_candidate_at, at), started})
           IN  /\ started \in Time /\ moved \in Time
               /\ PreviousEnd(ses) <= started
               /\ started <= moved
<1> DEFINE evidence == {dev.pending_since, dev.movement_candidate_at, at} \ {None}
           cand     == Or(dev.movement_candidate_at, at)
           started  == Max({Min(evidence), PreviousEnd(ses)})
           moved    == Max({cand, started})
<1>1. at # None /\ at \in Time
    BY NoneAssumption, BoundAssumption DEF Time
<1>2. evidence \in SUBSET Time /\ evidence # {}
    BY <1>1 DEF DeviceRow, OrNone
<1>3. cand \in Time
    BY <1>1 DEF DeviceRow, OrNone, Or
<1>4. Min(evidence) \in Time
    BY <1>2, MinOfTimes
<1>5. PreviousEnd(ses) \in Time
    BY PreviousEndTyped
<1> HIDE DEF evidence, cand
<1>6. started \in Time /\ PreviousEnd(ses) <= started
  <2> DEFINE S == {Min(evidence), PreviousEnd(ses)}
  <2>1. S \in SUBSET Time /\ S # {} /\ PreviousEnd(ses) \in S
      BY <1>4, <1>5
  <2>2. Max(S) \in S /\ Max(S) >= PreviousEnd(ses)
    <3> HIDE DEF S
    <3> QED BY <2>1, MaxOfTimes
  <2> QED BY <2>1, <2>2, <1>5, BoundAssumption DEF Time
<1> HIDE DEF started
<1>7. moved \in Time /\ started <= moved
  <2> DEFINE S == {cand, started}
  <2>1. S \in SUBSET Time /\ S # {} /\ started \in S
      BY <1>3, <1>6
  <2>2. Max(S) \in S /\ Max(S) >= started
    <3> HIDE DEF S
    <3> QED BY <2>1, MaxOfTimes
  <2> QED BY <2>1, <2>2, <1>6, BoundAssumption DEF Time
<1> QED
    BY <1>6, <1>7 DEF started, cand, evidence

\* The opened or adopted row is the one the pointer names.
LEMMA OpenForMovementShaped ==
    ASSUME NEW st, Shaped(st), NEW at \in Time, st.dev.vin # None
    PROVE  /\ Shaped(OpenForMovement(st, at))
           /\ OpenForMovement(st, at).dev.current_session_id # None
<1> DEFINE evidence == {st.dev.pending_since, st.dev.movement_candidate_at, at} \ {None}
           started  == Max({Min(evidence), PreviousEnd(sessions)})
           moved    == Max({Or(st.dev.movement_candidate_at, at), started})
           row      == [vin |-> st.dev.vin, started_at |-> started, ended_at |-> None,
                        movement_started_at |-> moved, movement_ended_at |-> at,
                        version |-> 1]
           pick     == CHOOSE i \in OpenIds(st.ses) : TRUE
           dev      == [st.dev EXCEPT !.current_session_id = pick]
<1>1. CASE OpenIds(st.ses) # {}
  <2>1. pick \in DOMAIN st.ses
      BY <1>1 DEF OpenIds
  <2> HIDE DEF pick
  <2>2. pick \in Nat /\ pick # None
      BY <2>1, ShapedFields, RowIds
  <2>3. dev \in DeviceRow /\ dev.current_session_id = pick
      BY <2>2, ShapedFields DEF DeviceRow, OrNone
  <2>4. OpenForMovement(st, at) = [dev |-> dev, ses |-> st.ses]
    <3>1. st = [dev |-> st.dev, ses |-> st.ses]
        BY ShapedFields
    <3>2. OpenForMovement(st, at) = [st EXCEPT !.dev = dev]
        BY <1>1 DEF OpenForMovement, pick
    <3> QED BY <3>1, <3>2
  <2> HIDE DEF dev
  <2> QED
      BY <2>1, <2>2, <2>3, <2>4, ShapedFields, ShapedPair DEF OrNone
<1>2. CASE OpenIds(st.ses) = {}
  <2>1. started \in Time /\ moved \in Time
      BY OpeningWindow, ShapedFields
  <2>2. OpenForMovement(st, at) = AddSession(st, row)
      BY <1>2 DEF OpenForMovement
  <2> HIDE DEF started, moved
  <2>3. row \in SessionRow
      BY <2>1, ShapedFields DEF SessionRow, DeviceRow, OrNone
  <2>4. AddSession(st, row).dev.current_session_id # None
      BY ShapedFields, NoneAssumption DEF AddSession, DeviceRow
  <2> QED
      BY <2>2, <2>3, <2>4, AddSessionShaped
<1> QED BY <1>1, <1>2

\* start_session keeps the types.
LEMMA StartSessionShaped ==
    ASSUME NEW st, Shaped(st), NEW at \in Time, st.dev.vin # None
    PROVE  Shaped(StartSession(st, at))
<1> DEFINE row == [vin |-> st.dev.vin, started_at |-> at, ended_at |-> None,
                   movement_started_at |-> None, movement_ended_at |-> None, version |-> 0]
<1>1. row \in SessionRow
    BY ShapedFields DEF SessionRow, DeviceRow, OrNone
<1>2. Shaped(EndSession(st, at, FALSE))
    BY EndSessionShaped
<1> HIDE DEF row
<1>3. Shaped(AddSession(EndSession(st, at, FALSE), row))
    BY <1>1, <1>2, AddSessionShaped
<1> QED
    BY <1>3 DEF StartSession, row

\* handle_ecu_status_change keeps the types.
LEMMA EcuStatusChangeShaped ==
    ASSUME NEW st, Shaped(st), NEW ecu, NEW at \in Time
    PROVE  Shaped(EcuStatusChange(st, ecu, at))
BY StartSessionShaped, EndSessionShaped DEF EcuStatusChange

\* Movement is recorded on the device and on the row the pointer names.
LEMMA MarkMovedShaped ==
    ASSUME NEW st, Shaped(st), st.dev.current_session_id # None,
           NEW b \in MovementSignals, NEW at \in Time, NEW live \in BOOLEAN
    PROVE  Shaped(MarkMoved(st, b, at, live))
<1> DEFINE p    == st.dev.current_session_id
           k    == Or(b.odometer, st.dev.movement_baseline_km)
           m    == IF live THEN at ELSE st.dev.last_movement_at
           dev  == [st.dev EXCEPT !.movement_baseline_km = k, !.last_movement_at = m,
                                  !.pending_since = None, !.movement_candidate_at = None]
           s    == Or(st.ses[p].movement_started_at, at)
           row  == [st.ses[p] EXCEPT !.movement_started_at = s, !.movement_ended_at = at]
           ses  == [st.ses EXCEPT ![p] = row]
<1>1. p \in DOMAIN st.ses
    BY ShapedFields DEF OrNone
<1>2. k \in OrNone(Odometer) /\ m \in OrNone(Time)
    BY ShapedFields, NoneAssumption DEF MovementSignals, DeviceRow, OrNone, Or
<1>3. st.ses[p] \in SessionRow
    BY <1>1, ShapedFields
<1>4. s \in OrNone(Time)
    BY <1>3 DEF SessionRow, OrNone, Or
<1>5. MarkMoved(st, b, at, live) = [dev |-> dev, ses |-> ses]
  <2>1. [st.ses EXCEPT ![p].movement_started_at = s, ![p].movement_ended_at = at] = ses
      BY <1>1, <1>3
  <2> QED
      BY <2>1 DEF MarkMoved, DeviceRow
<1>6. dev \in DeviceRow
  <2> HIDE DEF k, m
  <2> QED BY <1>2, ShapedFields, MovedColumns
<1>7. row \in SessionRow
  <2> HIDE DEF s
  <2> QED BY <1>3, <1>4 DEF SessionRow, OrNone
<1>8. dev.current_session_id = p
    BY ShapedFields DEF DeviceRow
<1> HIDE DEF dev, row
<1>9. ses \in Seq(SessionRow) /\ DOMAIN ses = DOMAIN st.ses
    BY <1>1, <1>7, ShapedFields, RowReplaced
<1> HIDE DEF ses
<1> QED
    BY <1>1, <1>5, <1>6, <1>8, <1>9, ShapedFields, ShapedPair DEF OrNone

\* A live session is the one the pointer names.
LEMMA LiveSessionPointed ==
    ASSUME NEW st
    PROVE  LiveSession(st) # None => /\ LiveSession(st) = st.dev.current_session_id
                                     /\ st.dev.current_session_id # None
BY DEF LiveSession

\* Letting go of or reopening the awaiting session changes no other column.
LEMMA ReopenKeepsVin ==
    ASSUME NEW st, Shaped(st), NEW at
    PROVE  ReopenAwaiting(st, at).dev.vin = st.dev.vin
BY ShapedFields DEF ReopenAwaiting, DeviceRow

\* Confirmed movement keeps the types.
LEMMA PromoteShaped ==
    ASSUME NEW st, Shaped(st), st.dev.vin # None,
           NEW b \in MovementSignals, NEW at \in Time, NEW live \in BOOLEAN
    PROVE  Shaped(PromoteToDriving(st, b, at, live))
<1> DEFINE reopened == IF LiveSession(st) = None THEN ReopenAwaiting(st, at) ELSE st
           opened   == IF LiveSession(reopened) = None
                       THEN OpenForMovement(reopened, at) ELSE reopened
<1>1. Shaped(reopened) /\ reopened.dev.vin # None
    BY ReopenShaped, ReopenKeepsVin
<1> HIDE DEF reopened
<1>2. Shaped(opened) /\ opened.dev.current_session_id # None
    BY <1>1, OpenForMovementShaped, LiveSessionPointed
<1> HIDE DEF opened
<1>3. Shaped(MarkMoved(opened, b, at, live))
    BY <1>2, MarkMovedShaped
<1> QED
    BY <1>3 DEF PromoteToDriving, opened, reopened

\* observe_telemetry keeps the types.
LEMMA ObserveShaped ==
    ASSUME NEW st, Shaped(st), NEW b \in MovementSignals, NEW at \in Time, NEW live \in BOOLEAN
    PROVE  Shaped(ObserveTelemetry(st, b, at, live))
<1> DEFINE driving == LiveSession(st) # None
           fresh   == IF driving THEN st.dev ELSE ExpireEvidence(st.dev, at)
           st1     == [st EXCEPT !.dev = fresh]
           noted   == [st EXCEPT !.dev = NoteEvidence(fresh, b, at)]
<1>1. fresh \in DeviceRow /\ fresh.current_session_id = st.dev.current_session_id
    BY ShapedFields, ExpireEvidenceTyped
<1>2. fresh.vin = st.dev.vin
    BY ShapedFields DEF ExpireEvidence, ClearMovement, DeviceRow
<1> HIDE DEF fresh
<1>3. Shaped(st1) /\ st1.dev.vin = st.dev.vin
    BY <1>1, <1>2, ShapedDevice, ShapedFields
<1>4. Shaped(noted)
    BY <1>1, NoteEvidenceTyped, ShapedDevice
<1> HIDE DEF st1, noted
<1>5. st.dev.vin # None => Shaped(PromoteToDriving(st1, b, at, live))
    BY <1>3, PromoteShaped
<1>6. ObserveTelemetry(st, b, at, live) \in {st, noted}
      \/ (st.dev.vin # None
          /\ ObserveTelemetry(st, b, at, live) = PromoteToDriving(st1, b, at, live))
    BY DEF ObserveTelemetry, fresh, st1, noted
<1> QED
    BY <1>4, <1>5, <1>6

\* Discovery keeps the types.
LEMMA DiscoverShaped ==
    ASSUME NEW st, Shaped(st), now \in Time
    PROVE  Shaped(Discover(st))
<1>1. FreshDevice(now) \in DeviceRow /\ FreshDevice(now).current_session_id = None
    BY DEF FreshDevice, DeviceRow, OrNone, EcuStatus
<1> QED
    BY <1>1, ShapedDevice DEF Discover

\* update_device_status keeps the types.
LEMMA UpdateStatusShaped ==
    ASSUME NEW st, Shaped(st), NEW ecu \in OrNone(EcuStatus), now \in Time
    PROVE  Shaped(UpdateStatus(st, ecu))
<1> DEFINE e   == Or(ecu, st.dev.ecu_status)
           dev == [st.dev EXCEPT !.device_status = "online", !.last_seen = now,
                                 !.ecu_status = e]
<1>1. e \in EcuStatus
    BY ShapedFields DEF DeviceRow, OrNone, Or
<1>2. UpdateStatus(st, ecu) = [st EXCEPT !.dev = dev]
    BY ShapedFields DEF UpdateStatus, DeviceRow
<1>3. dev.current_session_id = st.dev.current_session_id
    BY ShapedFields DEF DeviceRow
<1>4. dev \in DeviceRow
  <2> HIDE DEF e
  <2> QED BY <1>1, ShapedFields, StatusColumns DEF OrNone
<1> HIDE DEF dev
<1> QED
    BY <1>2, <1>3, <1>4, ShapedDevice

\* Setting or clearing pending_offline_at keeps the types.
LEMMA PendingOfflineShaped ==
    ASSUME NEW st, Shaped(st), NEW m \in OrNone(Time)
    PROVE  Shaped([st EXCEPT !.dev.pending_offline_at = m])
<1> DEFINE dev == [st.dev EXCEPT !.pending_offline_at = m]
<1>1. dev \in DeviceRow
    BY ShapedFields DEF DeviceRow
<1>2. dev.current_session_id = st.dev.current_session_id
    BY ShapedFields DEF DeviceRow
<1>3. [st EXCEPT !.dev.pending_offline_at = m] = [st EXCEPT !.dev = dev]
    OBVIOUS
<1> HIDE DEF dev
<1> QED
    BY <1>1, <1>2, <1>3, ShapedDevice

\* An explicit ECU status keeps the types.
LEMMA EcuReportShaped ==
    ASSUME NEW st, Shaped(st), NEW ecu \in EcuStatus, now \in Time
    PROVE  Shaped(EcuReport(st, ecu))
<1>1. Shaped(ClearPendingOffline(st))
    BY PendingOfflineShaped DEF ClearPendingOffline, OrNone
<1>2. Shaped([st EXCEPT !.dev.pending_offline_at = now])
    BY PendingOfflineShaped DEF OrNone
<1>3. Shaped(EcuStatusChange(st, "online", now)) /\ Shaped(EcuStatusChange(st, "offline", now))
    BY EcuStatusChangeShaped
<1> QED
    BY <1>1, <1>2, <1>3 DEF EcuReport

\* store_telemetry keeps the types.
LEMMA StoreTelemetryShaped ==
    ASSUME NEW st, Shaped(st), NEW b \in MovementSignals, NEW at \in Time
    PROVE  Shaped(StoreTelemetry(st, b, at))
<1>1. (at - now \in -LiveTolerance..LiveTolerance) \in BOOLEAN
    OBVIOUS
<1> QED
    BY <1>1, ObserveShaped DEF StoreTelemetry

\* The MQTT status handler keeps the types.
LEMMA StatusMessageShaped ==
    ASSUME NEW st, Shaped(st), NEW ecu \in EcuStatus, now \in Time
    PROVE  Shaped(StatusMessage(st, ecu))
BY DiscoverShaped, EcuReportShaped, UpdateStatusShaped DEF StatusMessage, OrNone

\* The MQTT battery handler keeps the types.
LEMMA BatteryMessageShaped ==
    ASSUME NEW st, Shaped(st), now \in Time
    PROVE  Shaped(BatteryMessage(st))
<1>1. Shaped(UpdateStatus(Discover(st), None))
    BY DiscoverShaped, UpdateStatusShaped DEF OrNone
<1>2. EmptyBatch \in MovementSignals
    BY DEF EmptyBatch, MovementSignals
<1>3. Shaped(StoreTelemetry(UpdateStatus(Discover(st), None), EmptyBatch, now))
    BY <1>1, <1>2, StoreTelemetryShaped
<1> QED
    BY <1>1, <1>3 DEF BatteryMessage

\* The MQTT telemetry handler keeps the types.
LEMMA TelemetryMessageShaped ==
    ASSUME NEW st, Shaped(st), NEW b \in MovementSignals, now \in Time
    PROVE  Shaped(TelemetryMessage(st, b))
<1> DEFINE recovered == ClearPendingOffline(st)
           awake     == IF st.dev.ecu_status = "online" THEN recovered
                        ELSE EcuStatusChange(recovered, "online", now)
<1>1. Shaped(recovered)
    BY PendingOfflineShaped DEF ClearPendingOffline, OrNone
<1>2. Shaped(awake)
    BY <1>1, EcuStatusChangeShaped
<1> HIDE DEF awake
<1>3. Shaped(UpdateStatus(awake, "online"))
    BY <1>2, UpdateStatusShaped DEF OrNone, EcuStatus
<1>4. Shaped(StoreTelemetry(UpdateStatus(awake, "online"), b, now))
    BY <1>3, StoreTelemetryShaped
<1>5. Shaped(Discover(st))
    BY DiscoverShaped
<1> QED
    BY <1>4, <1>5 DEF TelemetryMessage, awake

\* The HTTPS route keeps the types.
LEMMA HttpsMessageShaped ==
    ASSUME NEW st, Shaped(st), NEW ecu \in OrNone(EcuStatus),
           NEW b \in OrNone(MovementSignals), NEW at \in Time, now \in Time
    PROVE  Shaped(HttpsMessage(st, ecu, b, at))
<1> DEFINE seen == IF ecu = None THEN UpdateStatus(st, None) ELSE StatusMessage(st, ecu)
<1>1. Shaped(seen)
    BY UpdateStatusShaped, StatusMessageShaped DEF OrNone
<1> HIDE DEF seen
<1>2. b # None => Shaped(StoreTelemetry(seen, b, at))
    BY <1>1, StoreTelemetryShaped DEF OrNone
<1> QED
    BY <1>1, <1>2 DEF HttpsMessage, seen

\* Both closing clocks keep the types.
LEMMA CloseOnClocksShaped ==
    ASSUME NEW st, Shaped(st)
    PROVE  Shaped(CloseOnClocks(st))
<1> DEFINE p     == LiveSession(st)
           moved == Or(st.dev.last_movement_at,
                       Or(st.ses[p].movement_ended_at,
                          Or(st.ses[p].movement_started_at, st.ses[p].started_at)))
<1>1. CASE p = None
    BY <1>1 DEF CloseOnClocks
<1>2. CASE p # None
  <2>1. st.ses[p] \in SessionRow
      BY <1>2, ShapedFields, LiveSessionPointed DEF OrNone
  <2>2. moved \in Time /\ st.dev.last_seen \in Time
      BY <2>1, ShapedFields DEF DeviceRow, SessionRow, OrNone, Or
  <2> HIDE DEF p, moved
  <2>3. /\ Shaped(EndSession(st, moved, FALSE))
        /\ Shaped(EndSession(st, moved, TRUE))
        /\ Shaped(EndSession(st, st.dev.last_seen, FALSE))
      BY <2>2, EndSessionShaped
  <2> QED
      BY <2>3 DEF CloseOnClocks, p, moved
<1> QED BY <1>1, <1>2

\* The housekeeping sweep keeps the types.
LEMMA ExpireStaleShaped ==
    ASSUME NEW st, Shaped(st)
    PROVE  Shaped(ExpireStaleMovement(st))
<1> DEFINE forgotten(d) == [d EXCEPT !.current_session_id = None]
<1>1. \A d \in DeviceRow : /\ forgotten(d) \in DeviceRow
                           /\ forgotten(d).current_session_id = None
    BY DEF DeviceRow, OrNone
<1>2. /\ ClearMovement(st.dev) \in DeviceRow
      /\ ClearMovement(st.dev).current_session_id = st.dev.current_session_id
    BY ShapedFields, ClearMovementTyped
<1>3. PICK d \in {st.dev, ClearMovement(st.dev)} :
          ExpireStaleMovement(st) \in {[st EXCEPT !.dev = d],
                                       [st EXCEPT !.dev = forgotten(d)]}
    BY DEF ExpireStaleMovement
<1>4. d \in DeviceRow /\ d.current_session_id = st.dev.current_session_id
    BY <1>2, ShapedFields
<1> HIDE DEF forgotten
<1>5. Shaped([st EXCEPT !.dev = d]) /\ Shaped([st EXCEPT !.dev = forgotten(d)])
    BY <1>1, <1>4, ShapedDevice
<1> QED
    BY <1>3, <1>5

\* finalize_offline keeps the types.
LEMMA CloseOfflineShaped ==
    ASSUME NEW st, Shaped(st), now \in Time
    PROVE  Shaped(CloseOffline(st))
<1> DEFINE p      == LiveSession(st)
           endAt  == Or(st.ses[p].movement_ended_at,
                        Or(st.ses[p].movement_started_at, st.ses[p].started_at))
           closed == IF p = None THEN st ELSE EndSession(st, Min({endAt, now}), FALSE)
           idle   == [closed.dev EXCEPT !.pending_offline_at = None]
<1>1. Shaped(closed)
  <2>1. CASE p = None
      BY <2>1
  <2>2. CASE p # None
    <3>1. st.ses[p] \in SessionRow
        BY <2>2, ShapedFields, LiveSessionPointed DEF OrNone
    <3>2. endAt \in Time
        BY <3>1 DEF SessionRow, OrNone, Or
    <3> HIDE DEF endAt, p
    <3>3. {endAt, now} \in SUBSET Time /\ {endAt, now} # {}
        BY <3>2
    <3>4. Min({endAt, now}) \in Time
        BY <3>3, MinOfTimes
    <3> QED
        BY <2>2, <3>4, EndSessionShaped
  <2> QED BY <2>1, <2>2
<1> HIDE DEF closed
<1>2. idle \in DeviceRow /\ idle.current_session_id = closed.dev.current_session_id
    BY <1>1, ShapedFields DEF DeviceRow, OrNone
<1>3. CloseOffline(st) = [closed EXCEPT !.dev = ClearMovement(idle)]
    BY DEF CloseOffline, closed
<1> HIDE DEF idle
<1> QED
    BY <1>1, <1>2, <1>3, ClearMovementTyped, ShapedDevice

-----------------------------------------------------------------------------
(* Type correctness of the whole specification *)

\* The stored rows are well typed when TypeOK holds.
LEMMA StateShaped == TypeOK => Shaped(State)
BY ShapedPair DEF TypeOK, State

\* Committing a well-typed result restores the type invariant.
LEMMA CommitTyped ==
    ASSUME TypeOK, NEW st, Shaped(st), Commit(st)
    PROVE  TypeOK'
BY ShapedFields DEF Commit, TypeOK

\* set_device_offline keeps a device row well typed.
LEMMA SetOfflineTyped ==
    ASSUME NEW st, Shaped(st)
    PROVE  Shaped([st EXCEPT !.dev = SetOffline(st.dev)])
<1>1. SetOffline(st.dev) \in DeviceRow
    BY ShapedFields DEF SetOffline, DeviceRow, EcuStatus
<1>2. SetOffline(st.dev).current_session_id = st.dev.current_session_id
    BY ShapedFields DEF SetOffline, DeviceRow
<1> QED
    BY <1>1, <1>2, ShapedDevice

\* The initial device is well typed.
LEMMA InitTyped == Init => TypeOK
<1> SUFFICES ASSUME Init PROVE TypeOK
    OBVIOUS
<1>1. now \in Time
    BY BoundAssumption DEF Init, Time
<1>2. mode \in {"movement", "contact"}
    BY ModeAssumption DEF Init
<1>3. sessions \in Seq(SessionRow)
    BY DEF Init
<1>4. device \in DeviceRow /\ device.current_session_id = None
  <2>1. PICK v \in Vin : device = [FreshDevice(0) EXCEPT !.vin = v]
      BY DEF Init
  <2>2. 0 \in Time
      BY BoundAssumption DEF Time
  <2> QED
      BY <2>1, <2>2 DEF FreshDevice, DeviceRow, OrNone, EcuStatus
<1> QED
    BY <1>1, <1>2, <1>3, <1>4 DEF TypeOK, OrNone

\* One step per action: the handler's lemma, then the commit.
LEMMA NextTyped == TypeOK /\ [Next]_vars => TypeOK'
<1> SUFFICES ASSUME TypeOK, [Next]_vars
             PROVE  TypeOK'
    OBVIOUS
<1> USE StateShaped
<1>0. now \in Time
    BY DEF TypeOK
<1>1. ASSUME NEW ecu \in EcuStatus, MqttStatus(ecu) PROVE TypeOK'
    BY <1>0, <1>1, StatusMessageShaped, CommitTyped DEF MqttStatus
<1>2. CASE MqttBattery
    BY <1>0, <1>2, BatteryMessageShaped, CommitTyped DEF MqttBattery
<1>3. ASSUME NEW b \in Batch, MqttTelemetry(b) PROVE TypeOK'
    BY <1>0, <1>3, BatchAssumption, TelemetryMessageShaped, CommitTyped DEF MqttTelemetry
<1>4. ASSUME NEW ecu \in OrNone(EcuStatus), NEW b \in OrNone(Batch), NEW skew \in Skew,
             HttpsPayload(ecu, b, skew)
      PROVE  TypeOK'
  <2>1. b \in OrNone(MovementSignals)
      BY BatchAssumption DEF OrNone
  <2>2. Shaped(HttpsMessage(State, ecu, b, now + skew))
      BY <1>0, <1>4, <2>1, HttpsMessageShaped DEF HttpsPayload
  <2> QED
      BY <1>4, <2>2, CommitTyped DEF HttpsPayload
<1>5. CASE SessionTimeouts
    BY <1>5, CloseOnClocksShaped, ExpireStaleShaped, CommitTyped DEF SessionTimeouts
<1>6. CASE FinalizeOffline
  <2>1. Shaped(CloseOffline(State))
      BY <1>0, CloseOfflineShaped
  <2> QED
      BY <1>6, <2>1, SetOfflineTyped, CommitTyped DEF FinalizeOffline
<1>7. CASE MarkDeviceOffline
    BY <1>7, SetOfflineTyped, CommitTyped DEF MarkDeviceOffline
<1>8. ASSUME NEW v \in OrNone(Vin), LinkDevice(v) PROVE TypeOK'
  <2> DEFINE dev == [device EXCEPT !.vin = v]
  <2>1. dev \in DeviceRow /\ dev.current_session_id = device.current_session_id
      BY DEF TypeOK, DeviceRow
  <2> QED
      BY <1>8, <2>1 DEF LinkDevice, Commit, TypeOK, State
<1>9. CASE UnlinkDevice
  <2> DEFINE dev == [device EXCEPT !.vin = None, !.current_session_id = None]
  <2>1. dev \in DeviceRow /\ dev.current_session_id = None
      BY DEF TypeOK, DeviceRow, OrNone
  <2> QED
      BY <1>9, <2>1 DEF UnlinkDevice, Commit, TypeOK, State, OrNone
<1>10. CASE DeleteDevice
  <2> DEFINE dev == [FreshDevice(now) EXCEPT !.exists = FALSE]
  <2>1. dev \in DeviceRow /\ dev.current_session_id = None
      BY <1>0 DEF FreshDevice, DeviceRow, OrNone, EcuStatus
  <2> QED
      BY <1>10, <2>1 DEF DeleteDevice, Commit, TypeOK, State, OrNone
<1>11. ASSUME NEW e \in BOOLEAN, SetEnabled(e) PROVE TypeOK'
  <2> DEFINE dev == [device EXCEPT !.enabled = e]
  <2>1. dev \in DeviceRow /\ dev.current_session_id = device.current_session_id
      BY DEF TypeOK, DeviceRow
  <2> QED
      BY <1>11, <2>1 DEF SetEnabled, Commit, TypeOK, State
<1>12. ASSUME NEW m \in Modes, SetBoundaryMode(m) PROVE TypeOK'
    BY <1>12, ModeAssumption DEF SetBoundaryMode, TypeOK
<1>13. CASE Tick
    BY <1>13, BoundAssumption DEF Tick, TypeOK, Time
<1>14. CASE UNCHANGED vars
    BY <1>14 DEF vars, TypeOK
<1> QED
    BY <1>1, <1>2, <1>3, <1>4, <1>5, <1>6, <1>7, <1>8, <1>9, <1>10, <1>11, <1>12, <1>13,
       <1>14 DEF Next, SteadyNext, Mqtt, Https, Jobs, Relink, Settings

\* Type correctness: every row and column keeps its type and the pointer
\* always names a row, through every handler, job and administrator action.
THEOREM TypeCorrect == Spec => []TypeOK
<1>1. Init => TypeOK
    BY InitTyped
<1>2. TypeOK /\ [Next]_vars => TypeOK'
    BY NextTyped
<1> QED
    BY <1>1, <1>2, PTL DEF Spec

-----------------------------------------------------------------------------
(* The inductive invariant of a device that stays linked *)

\* Where the clamp of a backdated start sees every earlier close: an offline
\* report then never closes a session in the transaction that opens the next.
Clamped == mode = "movement" /\ Grace > 0

\* Only the last session may be pointed at or open, an open one is pointed
\* at, and on clamped boundaries the sessions before it end in turn.
Tidy(st) ==
    /\ st.dev.exists
    /\ \A i \in OpenIds(st.ses) : st.dev.current_session_id = i
    /\ st.dev.current_session_id # None => st.dev.current_session_id = Len(st.ses)
    /\ Clamped =>
         \A i, j \in DOMAIN st.ses : i < j => st.ses[i].ended_at <= st.ses[j].started_at

\* A change that keeps the pointer and every row's window.
LEMMA TidySame ==
    ASSUME NEW st, Tidy(st), Shaped(st), NEW st2, Shaped(st2),
           st2.dev.current_session_id = st.dev.current_session_id, st2.dev.exists,
           DOMAIN st2.ses = DOMAIN st.ses,
           \A i \in DOMAIN st.ses : /\ st2.ses[i].started_at = st.ses[i].started_at
                                    /\ st2.ses[i].ended_at = st.ses[i].ended_at
    PROVE  Tidy(st2)
<1>1. OpenIds(st2.ses) = OpenIds(st.ses)
    BY DEF OpenIds, IsOpen
<1>2. Len(st2.ses) = Len(st.ses)
    BY ShapedFields
<1> QED
    BY <1>1, <1>2 DEF Tidy

\* A change to the device row alone.
LEMMA TidyDevice ==
    ASSUME NEW st, Tidy(st), Shaped(st), NEW dev \in DeviceRow,
           dev.current_session_id = st.dev.current_session_id, dev.exists
    PROVE  Tidy([st EXCEPT !.dev = dev])
<1>1. Shaped([st EXCEPT !.dev = dev])
    BY ShapedDevice
<1>2. /\ [st EXCEPT !.dev = dev].ses = st.ses
      /\ [st EXCEPT !.dev = dev].dev = dev
    BY ShapedFields
<1> QED
    BY <1>1, <1>2, TidySame

\* Without a live session nothing is open at all.
LEMMA IdleNothingOpen ==
    ASSUME NEW st, Tidy(st), Shaped(st), LiveSession(st) = None
    PROVE  OpenIds(st.ses) = {}
BY ShapedFields, RowIds DEF Tidy, LiveSession, OpenIds

\* So the pointer may be dropped.
LEMMA TidyLetGo ==
    ASSUME NEW st, Tidy(st), Shaped(st), OpenIds(st.ses) = {}, NEW dev \in DeviceRow,
           dev.current_session_id = None, dev.exists
    PROVE  Tidy([st EXCEPT !.dev = dev])
<1>1. /\ [st EXCEPT !.dev = dev].ses = st.ses
      /\ [st EXCEPT !.dev = dev].dev = dev
    BY ShapedFields
<1> QED
    BY <1>1 DEF Tidy

\* end_session, whatever end it writes, leaves nothing open: the row it closes
\* is the last one.
LEMMA EndSessionTidy ==
    ASSUME NEW st, Tidy(st), Shaped(st), NEW at \in Time, NEW r \in BOOLEAN
    PROVE  Tidy(EndSession(st, at, r)) /\ OpenIds(EndSession(st, at, r).ses) = {}
<1> DEFINE p == st.dev.current_session_id
           ses == [st.ses EXCEPT ![p].ended_at = at]
           dev == IF r THEN st.dev ELSE [st.dev EXCEPT !.current_session_id = None]
<1>1. CASE p = None
  <2>1. EndSession(st, at, r) = st
      BY <1>1 DEF EndSession
  <2>2. OpenIds(st.ses) = {}
      BY <1>1, IdleNothingOpen DEF LiveSession
  <2> QED BY <2>1, <2>2
<1>2. CASE p # None
  <2>1. p \in DOMAIN st.ses /\ p = Len(st.ses)
      BY <1>2, ShapedFields DEF OrNone, Tidy
  <2>2. ses \in Seq(SessionRow) /\ DOMAIN ses = DOMAIN st.ses /\ Len(ses) = Len(st.ses)
      BY <2>1, ShapedFields, RowEnded DEF OrNone
  <2>3. \A i \in DOMAIN st.ses : i # p => ses[i] = st.ses[i]
      OBVIOUS
  <2>4. ses[p].ended_at = at
      BY <2>1, ShapedFields DEF SessionRow
  <2>5. dev.current_session_id \in {None, p} /\ dev.exists
      BY ShapedFields DEF DeviceRow, Tidy
  <2>6. EndSession(st, at, r) = [dev |-> dev, ses |-> ses]
      BY <1>2 DEF EndSession
  <2>7. ses[p].started_at = st.ses[p].started_at
      BY <2>1, ShapedFields DEF SessionRow
  <2> HIDE DEF dev, ses
  <2>8. at # None
      BY NoneAssumption, BoundAssumption DEF Time
  <2>9. OpenIds(ses) = {}
    <3> SUFFICES ASSUME NEW i \in OpenIds(ses) PROVE FALSE
        OBVIOUS
    <3>1. i \in DOMAIN st.ses /\ i # p
        BY <2>2, <2>4, <2>8 DEF OpenIds, IsOpen
    <3>2. i \in OpenIds(st.ses)
        BY <2>3, <3>1 DEF OpenIds, IsOpen
    <3> QED BY <3>1, <3>2 DEF Tidy
  <2>10. Clamped =>
           \A i, j \in DOMAIN ses : i < j => ses[i].ended_at <= ses[j].started_at
    <3> SUFFICES ASSUME Clamped, NEW i \in DOMAIN ses, NEW j \in DOMAIN ses, i < j
                 PROVE  ses[i].ended_at <= ses[j].started_at
        OBVIOUS
    <3>1. i # p
        BY <2>1, <2>2, ShapedFields, RowIds
    <3>2. st.ses[i].ended_at <= st.ses[j].started_at
        BY <2>2 DEF Tidy
    <3> QED BY <2>2, <2>3, <2>7, <3>1, <3>2
  <2> QED
      BY <2>1, <2>2, <2>5, <2>6, <2>9, <2>10 DEF Tidy
<1> QED BY <1>1, <1>2

\* A session is added only when none is open, after every earlier end.
LEMMA AddSessionTidy ==
    ASSUME NEW st, Tidy(st), Shaped(st), OpenIds(st.ses) = {}, NEW row \in SessionRow,
           Clamped => \A i \in DOMAIN st.ses : st.ses[i].ended_at <= row.started_at
    PROVE  Tidy(AddSession(st, row))
<1> DEFINE ses == Append(st.ses, row)
           dev == [st.dev EXCEPT !.current_session_id = Len(st.ses) + 1]
           n   == Len(st.ses) + 1
<1>1. AddSession(st, row) = [dev |-> dev, ses |-> ses] /\ dev.current_session_id = n /\ dev.exists
    BY ShapedFields DEF AddSession, DeviceRow, Tidy
<1>2. /\ DOMAIN ses = DOMAIN st.ses \cup {n} /\ Len(ses) = n /\ ses[n] = row
      /\ \A i \in DOMAIN st.ses : ses[i] = st.ses[i] /\ i < n
    BY ShapedFields
<1> HIDE DEF dev, ses
<1>3. \A i \in OpenIds(ses) : i = n
    BY <1>2 DEF OpenIds, IsOpen
<1>4. Clamped =>
        \A i, j \in DOMAIN ses : i < j => ses[i].ended_at <= ses[j].started_at
  <2> SUFFICES ASSUME Clamped, NEW i \in DOMAIN ses, NEW j \in DOMAIN ses, i < j
               PROVE  ses[i].ended_at <= ses[j].started_at
      OBVIOUS
  <2>1. n \in Nat /\ i \in Nat /\ j \in Nat
      BY <1>2, ShapedFields
  <2>2. i \in DOMAIN st.ses
      BY <1>2, <2>1
  <2>3. CASE j = n
      BY <1>2, <2>2, <2>3
  <2>4. CASE j \in DOMAIN st.ses
      BY <1>2, <2>2, <2>4 DEF Tidy
  <2> QED BY <1>2, <2>3, <2>4
<1> QED
    BY <1>1, <1>2, <1>3, <1>4 DEF Tidy

\* start_session ends the pointed row before it opens the next.
LEMMA StartSessionTidy ==
    ASSUME NEW st, Tidy(st), Shaped(st), NEW at \in Time, st.dev.vin # None, mode = "contact"
    PROVE  Tidy(StartSession(st, at))
<1> DEFINE row == [vin |-> st.dev.vin, started_at |-> at, ended_at |-> None,
                   movement_started_at |-> None, movement_ended_at |-> None, version |-> 0]
           ended == EndSession(st, at, FALSE)
<1>1. row \in SessionRow
    BY ShapedFields DEF SessionRow, DeviceRow, OrNone
<1>2. Shaped(ended) /\ Tidy(ended) /\ OpenIds(ended.ses) = {}
    BY EndSessionShaped, EndSessionTidy
<1> HIDE DEF row, ended
<1>3. Tidy(AddSession(ended, row))
    BY <1>1, <1>2, AddSessionTidy DEF Clamped
<1> QED
    BY <1>3 DEF StartSession, row, ended

\* An ECU edge keeps the invariant.
LEMMA EcuStatusChangeTidy ==
    ASSUME NEW st, Tidy(st), Shaped(st), NEW ecu, NEW at \in Time
    PROVE  Tidy(EcuStatusChange(st, ecu, at))
BY StartSessionTidy, EndSessionTidy DEF EcuStatusChange

\* Only the pointed row is reopened, and it is the last.
LEMMA ReopenTidy ==
    ASSUME NEW st, Tidy(st), Shaped(st), LiveSession(st) = None, NEW at \in Time
    PROVE  Tidy(ReopenAwaiting(st, at))
<1> DEFINE p    == st.dev.current_session_id
           dev  == [st.dev EXCEPT !.current_session_id = None]
           ses  == [st.ses EXCEPT ![p].ended_at = None]
           gone == [st EXCEPT !.dev = dev]
<1>0. OpenIds(st.ses) = {}
    BY IdleNothingOpen
<1>1. Tidy(gone)
  <2>1. dev \in DeviceRow /\ dev.current_session_id = None
      BY ShapedFields DEF DeviceRow, OrNone
  <2>2. dev.exists
      BY ShapedFields DEF DeviceRow, Tidy
  <2> HIDE DEF dev
  <2> QED BY <2>1, <2>2, <1>0, TidyLetGo
<1>2. ASSUME p # None PROVE Tidy([dev |-> st.dev, ses |-> ses])
  <2>1. p \in DOMAIN st.ses /\ p = Len(st.ses)
      BY <1>2, ShapedFields DEF OrNone, Tidy
  <2>0. st.ses \in Seq(SessionRow) /\ None \in OrNone(Time)
      BY ShapedFields DEF OrNone
  <2>2. ses \in Seq(SessionRow) /\ DOMAIN ses = DOMAIN st.ses /\ Len(ses) = Len(st.ses)
      BY <2>0, <2>1, RowEnded
  <2>3. \A i \in DOMAIN st.ses : i # p => ses[i] = st.ses[i]
      OBVIOUS
  <2>4. ses[p].started_at = st.ses[p].started_at
      BY <2>1, ShapedFields DEF SessionRow
  <2> HIDE DEF ses
  <2>5. \A i \in OpenIds(ses) : i = p
      BY <1>0, <2>2, <2>3 DEF OpenIds, IsOpen
  <2>6. Clamped =>
           \A i, j \in DOMAIN ses : i < j => ses[i].ended_at <= ses[j].started_at
    <3> SUFFICES ASSUME Clamped, NEW i \in DOMAIN ses, NEW j \in DOMAIN ses, i < j
                 PROVE  ses[i].ended_at <= ses[j].started_at
        OBVIOUS
    <3>1. i # p
        BY <2>1, <2>2, ShapedFields, RowIds
    <3>2. st.ses[i].ended_at <= st.ses[j].started_at
        BY <2>2 DEF Tidy
    <3> QED BY <2>2, <2>3, <2>4, <3>1, <3>2
  <2> QED
      BY <2>1, <2>2, <2>5, <2>6 DEF Tidy
<1>3. ReopenAwaiting(st, at) \in {st, gone, [dev |-> st.dev, ses |-> ses]}
      /\ (p = None => ReopenAwaiting(st, at) = st)
    BY DEF ReopenAwaiting
<1> QED
    BY <1>1, <1>2, <1>3

\* Where there is nothing to reopen, no row changes.
LEMMA ReopenOrSame ==
    ASSUME NEW st, Shaped(st), NEW at, LiveSession(ReopenAwaiting(st, at)) = None
    PROVE  ReopenAwaiting(st, at).ses = st.ses
<1> DEFINE p    == st.dev.current_session_id
           ses  == [st.ses EXCEPT ![p].ended_at = None]
           open == [dev |-> st.dev, ses |-> ses]
<1>1. ASSUME p # None PROVE LiveSession(open) # None
  <2>1. p \in DOMAIN st.ses /\ st.ses[p] \in SessionRow
      BY <1>1, ShapedFields DEF OrNone
  <2>2. ses[p].ended_at = None
      BY <2>1 DEF SessionRow
  <2> HIDE DEF ses
  <2> QED BY <1>1, <2>2 DEF LiveSession, IsOpen
<1>2. \/ ReopenAwaiting(st, at).ses = st.ses
      \/ p # None /\ ReopenAwaiting(st, at) = open
    BY ShapedFields DEF ReopenAwaiting
<1> QED
    BY <1>1, <1>2

\* With nothing open, the new row starts at or after every recorded end.
LEMMA OpenForMovementTidy ==
    ASSUME NEW st, Tidy(st), Shaped(st), LiveSession(st) = None, NEW at \in Time,
           st.dev.vin # None, Clamped => st.ses = sessions
    PROVE  Tidy(OpenForMovement(st, at))
<1> DEFINE evidence == {st.dev.pending_since, st.dev.movement_candidate_at, at} \ {None}
           started  == Max({Min(evidence), PreviousEnd(sessions)})
           moved    == Max({Or(st.dev.movement_candidate_at, at), started})
           row      == [vin |-> st.dev.vin, started_at |-> started, ended_at |-> None,
                        movement_started_at |-> moved, movement_ended_at |-> at,
                        version |-> 1]
<1>1. OpenIds(st.ses) = {}
    BY IdleNothingOpen
<1>2. OpenForMovement(st, at) = AddSession(st, row)
    BY <1>1 DEF OpenForMovement
<1>3. started \in Time /\ moved \in Time /\ PreviousEnd(sessions) <= started
    BY OpeningWindow, ShapedFields
<1>4. row.started_at = started
    OBVIOUS
<1> HIDE DEF started, moved
<1>5. row \in SessionRow
    BY <1>3, ShapedFields DEF SessionRow, DeviceRow, OrNone
<1> HIDE DEF row
<1>6. Clamped => \A i \in DOMAIN st.ses : st.ses[i].ended_at <= row.started_at
  <2> SUFFICES ASSUME Clamped, NEW i \in DOMAIN st.ses PROVE st.ses[i].ended_at <= row.started_at
      OBVIOUS
  <2>1. st.ses[i].ended_at # None /\ st.ses[i].ended_at \in OrNone(Time)
      BY <1>1, ShapedFields DEF OpenIds, IsOpen, SessionRow
  <2>2. st.ses[i].ended_at <= PreviousEnd(sessions) /\ PreviousEnd(sessions) \in Time
      BY <2>1, ShapedFields, PreviousEndTyped
  <2> QED
      BY <2>1, <2>2, <1>3, <1>4, BoundAssumption DEF Time, OrNone
<1> QED
    BY <1>1, <1>2, <1>5, <1>6, AddSessionTidy

\* Extending the live row disturbs no other.
LEMMA MarkMovedTidy ==
    ASSUME NEW st, Tidy(st), Shaped(st), st.dev.current_session_id # None,
           NEW b \in MovementSignals, NEW at \in Time, NEW live \in BOOLEAN
    PROVE  Tidy(MarkMoved(st, b, at, live))
<1> DEFINE p  == st.dev.current_session_id
           s  == Or(st.ses[p].movement_started_at, at)
           mm == MarkMoved(st, b, at, live)
<1>1. p \in DOMAIN st.ses
    BY ShapedFields DEF OrNone
<1>2. Shaped(mm)
    BY MarkMovedShaped
<1>3. mm.dev.current_session_id = p /\ mm.dev.exists
    BY ShapedFields DEF MarkMoved, DeviceRow, Tidy
<1>4. mm.ses = [st.ses EXCEPT ![p].movement_started_at = s, ![p].movement_ended_at = at]
    BY ShapedFields DEF MarkMoved
<1>5. mm.ses = [st.ses EXCEPT ![p] = [st.ses[p] EXCEPT !.movement_started_at = s,
                                                       !.movement_ended_at = at]]
    BY <1>1, <1>4, ShapedFields
<1>6. st.ses[p] \in SessionRow
    BY <1>1, ShapedFields
<1>7. DOMAIN mm.ses = DOMAIN st.ses
    BY <1>5
<1>8. \A i \in DOMAIN st.ses : /\ mm.ses[i].started_at = st.ses[i].started_at
                               /\ mm.ses[i].ended_at = st.ses[i].ended_at
    BY <1>5, <1>6 DEF SessionRow
<1> HIDE DEF mm
<1>9. Tidy(mm)
    BY <1>2, <1>3, <1>7, <1>8, TidySame
<1> QED BY <1>9 DEF mm

\* Confirmed movement keeps the invariant, whatever the sample's time.
LEMMA PromoteTidy ==
    ASSUME NEW st, Tidy(st), Shaped(st), st.dev.vin # None, Clamped => st.ses = sessions,
           NEW b \in MovementSignals, NEW at \in Time, NEW live \in BOOLEAN
    PROVE  Tidy(PromoteToDriving(st, b, at, live))
<1> DEFINE reopened == IF LiveSession(st) = None THEN ReopenAwaiting(st, at) ELSE st
           opened   == IF LiveSession(reopened) = None
                       THEN OpenForMovement(reopened, at) ELSE reopened
<1>1. Shaped(reopened) /\ Tidy(reopened) /\ reopened.dev.vin # None
    BY ReopenShaped, ReopenTidy, ReopenKeepsVin
<1>0. LiveSession(reopened) = None /\ Clamped => reopened.ses = sessions
    BY ReopenOrSame
<1> HIDE DEF reopened
<1>2. Shaped(opened) /\ Tidy(opened) /\ opened.dev.current_session_id # None
    BY <1>0, <1>1, OpenForMovementShaped, OpenForMovementTidy, LiveSessionPointed
<1> HIDE DEF opened
<1>3. Tidy(MarkMoved(opened, b, at, live))
    BY <1>2, MarkMovedTidy
<1> QED
    BY <1>3 DEF PromoteToDriving, opened, reopened

\* So does the movement observer,
LEMMA ObserveTidy ==
    ASSUME NEW st, Tidy(st), Shaped(st), Clamped => st.ses = sessions,
           NEW b \in MovementSignals, NEW at \in Time, NEW live \in BOOLEAN
    PROVE  Tidy(ObserveTelemetry(st, b, at, live))
<1> DEFINE driving == LiveSession(st) # None
           fresh   == IF driving THEN st.dev ELSE ExpireEvidence(st.dev, at)
           st1     == [st EXCEPT !.dev = fresh]
           note    == NoteEvidence(fresh, b, at)
           noted   == [st EXCEPT !.dev = note]
<1>1. fresh \in DeviceRow /\ fresh.current_session_id = st.dev.current_session_id
    BY ShapedFields, ExpireEvidenceTyped
<1>2. fresh.vin = st.dev.vin /\ fresh.exists
    BY ShapedFields DEF ExpireEvidence, ClearMovement, DeviceRow, Tidy
<1> HIDE DEF fresh
<1>3. Shaped(st1) /\ Tidy(st1) /\ st1.dev.vin = st.dev.vin /\ st1.ses = st.ses
    BY <1>1, <1>2, ShapedDevice, TidyDevice, ShapedFields
<1>4. note.exists
    BY <1>1, <1>2 DEF NoteEvidence, DeviceRow
<1>5. note \in DeviceRow /\ note.current_session_id = st.dev.current_session_id
    BY <1>1, NoteEvidenceTyped
<1> HIDE DEF note
<1>6. Tidy(noted)
    BY <1>4, <1>5, TidyDevice
<1> HIDE DEF st1, noted
<1>7. st.dev.vin # None => Tidy(PromoteToDriving(st1, b, at, live))
    BY <1>3, PromoteTidy
<1>8. ObserveTelemetry(st, b, at, live) \in {st, noted}
      \/ (st.dev.vin # None
          /\ ObserveTelemetry(st, b, at, live) = PromoteToDriving(st1, b, at, live))
    BY DEF ObserveTelemetry, fresh, st1, note, noted
<1> QED
    BY <1>6, <1>7, <1>8

\* discovery,
LEMMA DiscoverTidy ==
    ASSUME NEW st, Tidy(st)
    PROVE  Discover(st) = st
BY DEF Discover, Tidy

\* a contact,
LEMMA UpdateStatusTidy ==
    ASSUME NEW st, Tidy(st), Shaped(st), NEW ecu \in OrNone(EcuStatus), now \in Time
    PROVE  Tidy(UpdateStatus(st, ecu))
<1> DEFINE st2 == UpdateStatus(st, ecu)
<1>1. Shaped(st2)
    BY UpdateStatusShaped
<1>2. st2.ses = st.ses /\ st2.dev.current_session_id = st.dev.current_session_id
      /\ st2.dev.exists
    BY ShapedFields DEF UpdateStatus, DeviceRow, Tidy
<1> HIDE DEF st2
<1>3. Tidy(st2)
    BY <1>1, <1>2, TidySame
<1> QED BY <1>3 DEF st2

\* setting or clearing the provisional offline,
LEMMA PendingOfflineTidy ==
    ASSUME NEW st, Tidy(st), Shaped(st), NEW m \in OrNone(Time)
    PROVE  Tidy([st EXCEPT !.dev.pending_offline_at = m])
<1> DEFINE st2 == [st EXCEPT !.dev.pending_offline_at = m]
<1>1. Shaped(st2)
    BY PendingOfflineShaped
<1>2. st2.ses = st.ses /\ st2.dev.current_session_id = st.dev.current_session_id
      /\ st2.dev.exists
    BY ShapedFields DEF DeviceRow, Tidy
<1> HIDE DEF st2
<1>3. Tidy(st2)
    BY <1>1, <1>2, TidySame
<1> QED BY <1>3 DEF st2

\* an explicit ECU status,
LEMMA EcuReportTidy ==
    ASSUME NEW st, Tidy(st), Shaped(st), NEW ecu \in EcuStatus, now \in Time
    PROVE  Tidy(EcuReport(st, ecu))
<1>1. Tidy(ClearPendingOffline(st))
    BY PendingOfflineTidy DEF ClearPendingOffline, OrNone
<1>2. Tidy([st EXCEPT !.dev.pending_offline_at = now])
    BY PendingOfflineTidy DEF OrNone
<1>3. Tidy(EcuStatusChange(st, "online", now)) /\ Tidy(EcuStatusChange(st, "offline", now))
    BY EcuStatusChangeTidy
<1> QED
    BY <1>1, <1>2, <1>3 DEF EcuReport

\* and storing telemetry.
LEMMA StoreTelemetryTidy ==
    ASSUME NEW st, Tidy(st), Shaped(st), Clamped => st.ses = sessions, NEW b \in MovementSignals, NEW at \in Time
    PROVE  Tidy(StoreTelemetry(st, b, at))
<1>1. (at - now \in -LiveTolerance..LiveTolerance) \in BOOLEAN
    OBVIOUS
<1> QED
    BY <1>1, ObserveTidy DEF StoreTelemetry

\* On clamped boundaries an ECU report never closes or opens a session itself.
LEMMA EcuReportSame ==
    ASSUME NEW st, Shaped(st), NEW ecu, Clamped
    PROVE  EcuReport(st, ecu).ses = st.ses
BY ShapedFields, SettingAssumption
   DEF EcuReport, EcuStatusChange, ClearPendingOffline, Clamped

\* Nor, then, does a status message change a row.
LEMMA StatusMessageSame ==
    ASSUME NEW st, Tidy(st), Shaped(st), NEW ecu \in EcuStatus, now \in Time, Clamped
    PROVE  StatusMessage(st, ecu).ses = st.ses
<1>1. Shaped(EcuReport(st, ecu))
    BY EcuReportShaped
<1> QED
    BY <1>1, DiscoverTidy, EcuReportSame, ShapedFields DEF StatusMessage, UpdateStatus

\* The handlers keep the invariant: MQTT status,
LEMMA StatusMessageTidy ==
    ASSUME NEW st, Tidy(st), Shaped(st), NEW ecu \in EcuStatus, now \in Time
    PROVE  Tidy(StatusMessage(st, ecu))
BY DiscoverTidy, EcuReportShaped, EcuReportTidy, UpdateStatusTidy DEF StatusMessage, OrNone

\* MQTT battery,
LEMMA BatteryMessageTidy ==
    ASSUME NEW st, Tidy(st), Shaped(st), st.ses = sessions, now \in Time
    PROVE  Tidy(BatteryMessage(st))
<1> DEFINE seen == UpdateStatus(Discover(st), None)
<1>0. seen.ses = st.ses
    BY DiscoverTidy, ShapedFields DEF UpdateStatus
<1>1. Shaped(seen) /\ Tidy(seen)
    BY DiscoverTidy, UpdateStatusShaped, UpdateStatusTidy DEF OrNone
<1>2. EmptyBatch \in MovementSignals
    BY DEF EmptyBatch, MovementSignals
<1> HIDE DEF seen
<1>3. Tidy(StoreTelemetry(seen, EmptyBatch, now))
    BY <1>0, <1>1, <1>2, StoreTelemetryTidy
<1> QED
    BY <1>1, <1>3 DEF BatteryMessage, seen

\* MQTT telemetry,
LEMMA TelemetryMessageTidy ==
    ASSUME NEW st, Tidy(st), Shaped(st), st.ses = sessions, NEW b \in MovementSignals, now \in Time
    PROVE  Tidy(TelemetryMessage(st, b))
<1> DEFINE recovered == ClearPendingOffline(st)
           awake     == IF st.dev.ecu_status = "online" THEN recovered
                        ELSE EcuStatusChange(recovered, "online", now)
           seen      == UpdateStatus(awake, "online")
<1>0. recovered.ses = st.ses
    BY ShapedFields DEF ClearPendingOffline
<1>1. Shaped(recovered) /\ Tidy(recovered)
    BY PendingOfflineShaped, PendingOfflineTidy DEF ClearPendingOffline, OrNone
<1>2. Shaped(awake) /\ Tidy(awake)
    BY <1>1, EcuStatusChangeShaped, EcuStatusChangeTidy
<1>3. Clamped => awake.ses = st.ses
    BY <1>0 DEF EcuStatusChange, Clamped
<1> HIDE DEF awake
<1>4. Clamped => seen.ses = st.ses
    BY <1>2, <1>3, ShapedFields DEF UpdateStatus
<1>5. Shaped(seen) /\ Tidy(seen)
    BY <1>2, UpdateStatusShaped, UpdateStatusTidy DEF OrNone, EcuStatus
<1> HIDE DEF seen
<1>6. Tidy(StoreTelemetry(seen, b, now))
    BY <1>4, <1>5, StoreTelemetryTidy
<1> QED
    BY <1>6 DEF TelemetryMessage, seen, awake, Tidy

\* and the HTTPS payload.
LEMMA HttpsMessageTidy ==
    ASSUME NEW st, Tidy(st), Shaped(st), st.ses = sessions, NEW ecu \in OrNone(EcuStatus),
           NEW b \in OrNone(MovementSignals), NEW at \in Time, now \in Time
    PROVE  Tidy(HttpsMessage(st, ecu, b, at))
<1> DEFINE seen == IF ecu = None THEN UpdateStatus(st, None) ELSE StatusMessage(st, ecu)
<1>1. Shaped(seen) /\ Tidy(seen)
    BY UpdateStatusShaped, UpdateStatusTidy, StatusMessageShaped, StatusMessageTidy DEF OrNone
<1>0. Clamped => seen.ses = st.ses
    BY StatusMessageSame, ShapedFields DEF OrNone, UpdateStatus
<1> HIDE DEF seen
<1>2. b # None => Tidy(StoreTelemetry(seen, b, at))
    BY <1>0, <1>1, StoreTelemetryTidy DEF OrNone
<1> QED
    BY <1>1, <1>2 DEF HttpsMessage, seen

\* Dropping the pointer of an awaiting session, or none at all.
LEMMA ExpireStaleTidy ==
    ASSUME NEW st, Tidy(st), Shaped(st)
    PROVE  Tidy(ExpireStaleMovement(st))
<1> DEFINE p            == st.dev.current_session_id
           forgotten(d) == [d EXCEPT !.current_session_id = None]
           letGo        == /\ p # None
                           /\ ~IsOpen(st.ses[p])
                           /\ now - Or(st.ses[p].movement_ended_at, st.ses[p].ended_at) > Gap
           d == IF st.dev.pending_since # None /\ now - st.dev.pending_since > Gap
                THEN ClearMovement(st.dev) ELSE st.dev
<1>1. d \in DeviceRow /\ d.current_session_id = p
    BY ShapedFields, ClearMovementTyped
<1>2. d.exists
    BY ShapedFields DEF ClearMovement, DeviceRow, Tidy
<1> HIDE DEF d
<1>3. /\ forgotten(d) \in DeviceRow
      /\ forgotten(d).current_session_id = None
      /\ forgotten(d).exists
    BY <1>1, <1>2 DEF DeviceRow, OrNone
<1>4. ExpireStaleMovement(st)
        = IF letGo THEN [st EXCEPT !.dev = forgotten(d)] ELSE [st EXCEPT !.dev = d]
    BY DEF ExpireStaleMovement, d
<1> HIDE DEF forgotten
<1>5. letGo => Tidy([st EXCEPT !.dev = forgotten(d)])
    BY <1>3, IdleNothingOpen, TidyLetGo DEF LiveSession
<1>6. Tidy([st EXCEPT !.dev = d])
    BY <1>1, <1>2, TidyDevice
<1> QED
    BY <1>4, <1>5, <1>6

\* So do the jobs: both clocks,
LEMMA CloseOnClocksTidy ==
    ASSUME NEW st, Tidy(st), Shaped(st)
    PROVE  Tidy(CloseOnClocks(st))
<1> DEFINE p     == LiveSession(st)
           moved == Or(st.dev.last_movement_at,
                       Or(st.ses[p].movement_ended_at,
                          Or(st.ses[p].movement_started_at, st.ses[p].started_at)))
<1>1. CASE p = None
    BY <1>1 DEF CloseOnClocks
<1>2. CASE p # None
  <2>1. st.ses[p] \in SessionRow
      BY <1>2, ShapedFields, LiveSessionPointed DEF OrNone
  <2>2. moved \in Time /\ st.dev.last_seen \in Time
      BY <2>1, ShapedFields DEF DeviceRow, SessionRow, OrNone, Or
  <2> HIDE DEF p, moved
  <2>3. /\ Tidy(EndSession(st, moved, FALSE))
        /\ Tidy(EndSession(st, moved, TRUE))
        /\ Tidy(EndSession(st, st.dev.last_seen, FALSE))
      BY <2>2, EndSessionTidy
  <2> QED
      BY <2>3 DEF CloseOnClocks, p, moved
<1> QED BY <1>1, <1>2

\* the finalizer,
LEMMA CloseOfflineTidy ==
    ASSUME NEW st, Tidy(st), Shaped(st), now \in Time
    PROVE  Tidy(CloseOffline(st))
<1> DEFINE p      == LiveSession(st)
           endAt  == Or(st.ses[p].movement_ended_at,
                        Or(st.ses[p].movement_started_at, st.ses[p].started_at))
           closed == IF p = None THEN st ELSE EndSession(st, Min({endAt, now}), FALSE)
           idle   == ClearMovement([closed.dev EXCEPT !.pending_offline_at = None])
<1>1. Shaped(closed) /\ Tidy(closed)
  <2>1. CASE p = None
      BY <2>1
  <2>2. CASE p # None
    <3>1. st.ses[p] \in SessionRow
        BY <2>2, ShapedFields, LiveSessionPointed DEF OrNone
    <3>2. endAt \in Time
        BY <3>1 DEF SessionRow, OrNone, Or
    <3> HIDE DEF endAt, p
    <3>3. {endAt, now} \in SUBSET Time /\ {endAt, now} # {}
        BY <3>2
    <3>4. Min({endAt, now}) \in Time
        BY <3>3, MinOfTimes
    <3> QED
        BY <2>2, <3>4, EndSessionShaped, EndSessionTidy
  <2> QED BY <2>1, <2>2
<1> HIDE DEF closed
<1>2. [closed.dev EXCEPT !.pending_offline_at = None] \in DeviceRow
    BY <1>1, ShapedFields DEF DeviceRow, OrNone
<1>3. idle \in DeviceRow
    BY <1>2, ClearMovementTyped
<1>4. idle.current_session_id = closed.dev.current_session_id /\ idle.exists
    BY <1>1, ShapedFields DEF ClearMovement, DeviceRow, Tidy
<1>5. CloseOffline(st) = [closed EXCEPT !.dev = idle]
    BY DEF CloseOffline, closed
<1> HIDE DEF idle
<1> QED
    BY <1>1, <1>3, <1>4, <1>5, TidyDevice

\* and marking the device offline.
LEMMA SetOfflineTidy ==
    ASSUME NEW st, Tidy(st), Shaped(st)
    PROVE  Tidy([st EXCEPT !.dev = SetOffline(st.dev)])
<1>1. SetOffline(st.dev) \in DeviceRow
    BY ShapedFields DEF SetOffline, DeviceRow, EcuStatus
<1>2. /\ SetOffline(st.dev).current_session_id = st.dev.current_session_id
      /\ SetOffline(st.dev).exists
    BY ShapedFields DEF SetOffline, DeviceRow, Tidy
<1> QED
    BY <1>1, <1>2, TidyDevice

-----------------------------------------------------------------------------
(* The invariant of SteadySpec, and what follows from it *)

SteadyInv == TypeOK /\ Tidy(State)

\* Committing a tidy result restores the invariant.
LEMMA CommitTidy ==
    ASSUME NEW st, Shaped(st), Tidy(st), Commit(st)
    PROVE  Tidy(State)'
<1>1. State' = st /\ mode' = mode
    BY ShapedFields DEF Commit, State
<1> QED
    BY <1>1 DEF Tidy, Clamped, OpenIds, IsOpen

\* The invariant holds initially,
LEMMA SteadyInit == Init => SteadyInv
<1> SUFFICES ASSUME Init PROVE Tidy(State)
    BY InitTyped DEF SteadyInv
<1>1. sessions = <<>> /\ device.current_session_id = None /\ device.exists
    BY DEF Init, FreshDevice
<1> QED
    BY <1>1 DEF Tidy, State, OpenIds

\* is kept by every step of a device that stays linked,
LEMMA SteadyStep == SteadyInv /\ [SteadyNext]_vars => SteadyInv'
<1> SUFFICES ASSUME SteadyInv, [SteadyNext]_vars
             PROVE  Tidy(State)'
    BY NextTyped DEF SteadyInv, Next
<1>0. Shaped(State) /\ Tidy(State) /\ State.ses = sessions /\ now \in Time
    BY StateShaped DEF SteadyInv, TypeOK, State
<1>1. ASSUME NEW ecu \in EcuStatus, MqttStatus(ecu) PROVE Tidy(State)'
    BY <1>0, <1>1, StatusMessageShaped, StatusMessageTidy, CommitTidy DEF MqttStatus
<1>2. CASE MqttBattery
    BY <1>0, <1>2, BatteryMessageShaped, BatteryMessageTidy, CommitTidy DEF MqttBattery
<1>3. ASSUME NEW b \in Batch, MqttTelemetry(b) PROVE Tidy(State)'
    BY <1>0, <1>3, BatchAssumption, TelemetryMessageShaped, TelemetryMessageTidy, CommitTidy
       DEF MqttTelemetry
<1>4. ASSUME NEW ecu \in OrNone(EcuStatus), NEW b \in OrNone(Batch), NEW skew \in Skew,
             HttpsPayload(ecu, b, skew)
      PROVE  Tidy(State)'
  <2>1. b \in OrNone(MovementSignals)
      BY BatchAssumption DEF OrNone
  <2>2. /\ Shaped(HttpsMessage(State, ecu, b, now + skew))
        /\ Tidy(HttpsMessage(State, ecu, b, now + skew))
      BY <1>0, <1>4, <2>1, HttpsMessageShaped, HttpsMessageTidy DEF HttpsPayload
  <2> QED
      BY <1>4, <2>2, CommitTidy DEF HttpsPayload
<1>5. CASE SessionTimeouts
    BY <1>0, <1>5, CloseOnClocksShaped, CloseOnClocksTidy, ExpireStaleShaped, ExpireStaleTidy,
       CommitTidy DEF SessionTimeouts
<1>6. CASE FinalizeOffline
  <2>1. Shaped(CloseOffline(State)) /\ Tidy(CloseOffline(State))
      BY <1>0, CloseOfflineShaped, CloseOfflineTidy
  <2> QED
      BY <1>6, <2>1, SetOfflineTyped, SetOfflineTidy, CommitTidy DEF FinalizeOffline
<1>7. CASE MarkDeviceOffline
    BY <1>0, <1>7, SetOfflineTyped, SetOfflineTidy, CommitTidy DEF MarkDeviceOffline
<1>8. CASE Tick \/ UNCHANGED vars
    BY <1>0, <1>8 DEF Tick, vars, Tidy, Clamped, State, OpenIds, IsOpen
<1> QED
    BY <1>1, <1>2, <1>3, <1>4, <1>5, <1>6, <1>7, <1>8 DEF SteadyNext, Mqtt, Https, Jobs

\* and so always holds.
LEMMA SteadyInvariant == SteadySpec => []SteadyInv
BY SteadyInit, SteadyStep, PTL DEF SteadySpec

\* At most one open row: the pointed one.
LEMMA TidyUnique ==
    ASSUME NEW st, Tidy(st)
    PROVE  UniqueOpen(st.ses)
BY DEF Tidy, UniqueOpen

\* No orphans: while the device stays linked, an open session is always the
\* one the pointer names, so some closing clock can still reach it.
THEOREM NoOrphanEver == SteadySpec => []NoOrphan
<1>1. SteadyInv => NoOrphan
    BY DEF SteadyInv, Tidy, NoOrphan, State
<1> QED
    BY <1>1, SteadyInvariant, PTL

\* The unique index never costs the device a message or a payload: the rows
\* that any of the four handlers would leave, in any reachable state and for
\* any blocks and sample time, have at most one open.
THEOREM IndexNeverRejectsEver == SteadySpec => []IndexNeverRejects
<1>1. SteadyInv => IndexNeverRejects
  <2> SUFFICES ASSUME SteadyInv PROVE IndexNeverRejects
      OBVIOUS
  <2>0. Shaped(State) /\ Tidy(State) /\ State.ses = sessions /\ now \in Time
      BY StateShaped DEF SteadyInv, TypeOK, State
  <2>1. ASSUME NEW ecu \in EcuStatus PROVE UniqueOpen(StatusMessage(State, ecu).ses)
      BY <2>0, StatusMessageTidy, TidyUnique
  <2>2. ASSUME NEW b \in Batch PROVE UniqueOpen(TelemetryMessage(State, b).ses)
      BY <2>0, BatchAssumption, TelemetryMessageTidy, TidyUnique
  <2>3. UniqueOpen(BatteryMessage(State).ses)
      BY <2>0, BatteryMessageTidy, TidyUnique
  <2>4. ASSUME NEW ecu \in OrNone(EcuStatus), NEW b \in OrNone(Batch), NEW skew \in Skew,
               now + skew \in Time
        PROVE  UniqueOpen(HttpsMessage(State, ecu, b, now + skew).ses)
    <3>1. b \in OrNone(MovementSignals)
        BY BatchAssumption DEF OrNone
    <3> QED
        BY <2>0, <2>4, <3>1, HttpsMessageTidy, TidyUnique
  <2> QED
      BY <2>1, <2>2, <2>3, <2>4 DEF IndexNeverRejects
<1> QED
    BY <1>1, SteadyInvariant, PTL

-----------------------------------------------------------------------------
(* On contact boundaries nothing needs a clamp: a session begins at the    *)
(* time of a contact and ends at that of one, or at its own start, and     *)
(* none of these is later than the clock.                                  *)

Dated(st) ==
    /\ st.dev.last_seen <= now
    /\ \A i \in DOMAIN st.ses : /\ st.ses[i].version = 0
                                /\ st.ses[i].started_at <= now
                                /\ ~IsOpen(st.ses[i]) => st.ses[i].ended_at <= now
    /\ \A i, j \in DOMAIN st.ses : i < j => st.ses[i].ended_at <= st.ses[j].started_at

Punctual(st) == Shaped(st) /\ Tidy(st) /\ Dated(st)

\* A change to the device row alone,
LEMMA PunctualDevice ==
    ASSUME NEW st, Punctual(st), NEW dev, dev.last_seen <= now,
           Shaped([st EXCEPT !.dev = dev]), Tidy([st EXCEPT !.dev = dev])
    PROVE  Punctual([st EXCEPT !.dev = dev])
<1>1. /\ [st EXCEPT !.dev = dev].ses = st.ses
      /\ [st EXCEPT !.dev = dev].dev = dev
    BY ShapedFields DEF Punctual
<1> QED BY <1>1 DEF Punctual, Dated

\* the end of the pointed session,
LEMMA EndSessionPunctual ==
    ASSUME NEW st, Punctual(st), NEW at \in Time, at <= now, NEW r \in BOOLEAN
    PROVE  Punctual(EndSession(st, at, r))
<1> DEFINE p   == st.dev.current_session_id
           ses == [st.ses EXCEPT ![p].ended_at = at]
           dev == IF r THEN st.dev ELSE [st.dev EXCEPT !.current_session_id = None]
<1>0. Shaped(st) /\ Tidy(st) /\ Dated(st)
    BY DEF Punctual
<1>1. Shaped(EndSession(st, at, r)) /\ Tidy(EndSession(st, at, r))
    BY <1>0, EndSessionShaped, EndSessionTidy
<1>2. CASE p = None
    BY <1>2 DEF EndSession
<1>3. CASE p # None
  <2>1. p \in DOMAIN st.ses /\ p = Len(st.ses)
      BY <1>0, <1>3, ShapedFields DEF OrNone, Tidy
  <2>2. DOMAIN ses = DOMAIN st.ses /\ \A i \in DOMAIN st.ses : i # p => ses[i] = st.ses[i]
      OBVIOUS
  <2>3. ses[p] = [st.ses[p] EXCEPT !.ended_at = at] /\ st.ses[p] \in SessionRow
      BY <1>0, <2>1, ShapedFields
  <2>4. /\ ses[p].ended_at = at /\ ses[p].started_at = st.ses[p].started_at
        /\ ses[p].version = st.ses[p].version
      BY <2>3 DEF SessionRow
  <2>5. dev.last_seen = st.dev.last_seen
      BY <1>0, ShapedFields DEF DeviceRow
  <2>6. EndSession(st, at, r) = [dev |-> dev, ses |-> ses]
      BY <1>3 DEF EndSession
  <2> HIDE DEF dev, ses
  <2>7. \A i \in DOMAIN ses : /\ ses[i].version = 0 /\ ses[i].started_at <= now
                              /\ ~IsOpen(ses[i]) => ses[i].ended_at <= now
      BY <1>0, <2>2, <2>4 DEF Dated
  <2>8. ASSUME NEW i \in DOMAIN ses, NEW j \in DOMAIN ses, i < j
        PROVE  ses[i].ended_at <= ses[j].started_at
    <3>1. i # p
        BY <1>0, <2>1, <2>2, <2>8, ShapedFields, RowIds
    <3>2. st.ses[i].ended_at <= st.ses[j].started_at
        BY <1>0, <2>2, <2>8 DEF Dated
    <3> QED BY <2>2, <2>4, <3>1, <3>2
  <2>9. dev.last_seen <= now
      BY <1>0, <2>5 DEF Dated
  <2> QED BY <1>1, <2>6, <2>7, <2>8, <2>9 DEF Punctual, Dated
<1> QED BY <1>2, <1>3

\* and the start of the next one, now.
LEMMA StartSessionPunctual ==
    ASSUME NEW st, Punctual(st), now \in Time, st.dev.vin # None, mode = "contact"
    PROVE  Punctual(StartSession(st, now))
<1> DEFINE row == [vin |-> st.dev.vin, started_at |-> now, ended_at |-> None,
                   movement_started_at |-> None, movement_ended_at |-> None, version |-> 0]
           mid == EndSession(st, now, FALSE)
           n   == Len(mid.ses) + 1
           ses == Append(mid.ses, row)
           dev == [mid.dev EXCEPT !.current_session_id = n]
<1>1. Shaped(st) /\ Tidy(st)
    BY DEF Punctual
<1>2. Shaped(StartSession(st, now)) /\ Tidy(StartSession(st, now))
    BY <1>1, StartSessionShaped, StartSessionTidy
<1>3. Punctual(mid) /\ OpenIds(mid.ses) = {}
  <2>1. now <= now
      BY DEF Time
  <2>2. Punctual(mid)
      BY <2>1, EndSessionPunctual
  <2>3. OpenIds(mid.ses) = {}
      BY <1>1, EndSessionTidy
  <2> QED BY <2>2, <2>3
<1>4. row.version = 0 /\ row.started_at = now /\ row.ended_at = None
    OBVIOUS
<1>5. StartSession(st, now) = [dev |-> dev, ses |-> ses]
    BY DEF StartSession, AddSession
<1> HIDE DEF mid, row
<1>6. dev.last_seen = mid.dev.last_seen
    BY <1>3, ShapedFields DEF DeviceRow, Punctual
<1>7. /\ DOMAIN ses = DOMAIN mid.ses \cup {n} /\ ses[n] = row
      /\ \A i \in DOMAIN mid.ses : ses[i] = mid.ses[i] /\ i < n
      /\ n \in Nat /\ DOMAIN ses \subseteq Nat
    BY <1>3, ShapedFields DEF Punctual
<1> HIDE DEF dev, ses, n
<1>8. \A i \in DOMAIN mid.ses : mid.ses[i].ended_at <= now
    BY <1>3 DEF Punctual, Dated, OpenIds
<1>9. now <= now
    BY DEF Time
<1>10. \A i \in DOMAIN ses : /\ ses[i].version = 0 /\ ses[i].started_at <= now
                             /\ ~IsOpen(ses[i]) => ses[i].ended_at <= now
    BY <1>3, <1>4, <1>7, <1>9 DEF Punctual, Dated, IsOpen
<1>11. ASSUME NEW i \in DOMAIN ses, NEW j \in DOMAIN ses, i < j
       PROVE  ses[i].ended_at <= ses[j].started_at
  <2>1. i \in DOMAIN mid.ses
      BY <1>7, <1>11
  <2>2. CASE j = n
      BY <1>4, <1>7, <1>8, <2>1, <2>2
  <2>3. CASE j \in DOMAIN mid.ses
      BY <1>3, <1>7, <1>11, <2>1, <2>3 DEF Punctual, Dated
  <2> QED BY <1>7, <2>2, <2>3
<1>12. dev.last_seen <= now
    BY <1>3, <1>6 DEF Punctual, Dated
<1> QED BY <1>2, <1>5, <1>10, <1>11, <1>12 DEF Punctual, Dated

LEMMA EcuStatusChangePunctual ==
    ASSUME NEW st, Punctual(st), NEW ecu, now \in Time, mode = "contact"
    PROVE  Punctual(EcuStatusChange(st, ecu, now))
<1>1. now <= now
    BY DEF Time
<1> QED BY <1>1, StartSessionPunctual, EndSessionPunctual DEF EcuStatusChange

LEMMA UpdateStatusPunctual ==
    ASSUME NEW st, Punctual(st), NEW ecu \in OrNone(EcuStatus), now \in Time
    PROVE  Punctual(UpdateStatus(st, ecu))
<1> DEFINE dev == [st.dev EXCEPT !.device_status = "online", !.last_seen = now,
                                 !.ecu_status = Or(ecu, @)]
<1>1. Shaped(st) /\ Tidy(st)
    BY DEF Punctual
<1>2. Shaped(UpdateStatus(st, ecu)) /\ Tidy(UpdateStatus(st, ecu))
    BY <1>1, UpdateStatusShaped, UpdateStatusTidy
<1>3. UpdateStatus(st, ecu) = [st EXCEPT !.dev = dev]
    BY <1>1, ShapedFields DEF UpdateStatus
<1>4. dev.last_seen = now
    BY <1>1, ShapedFields DEF DeviceRow
<1>5. now <= now
    BY DEF Time
<1> HIDE DEF dev
<1> QED BY <1>2, <1>3, <1>4, <1>5, PunctualDevice

LEMMA PendingOfflinePunctual ==
    ASSUME NEW st, Punctual(st), NEW m \in OrNone(Time)
    PROVE  Punctual([st EXCEPT !.dev.pending_offline_at = m])
<1> DEFINE dev == [st.dev EXCEPT !.pending_offline_at = m]
           res == [st EXCEPT !.dev.pending_offline_at = m]
<1>1. Shaped(st) /\ Tidy(st) /\ Dated(st)
    BY DEF Punctual
<1>2. Shaped(res) /\ Tidy(res)
    BY <1>1, PendingOfflineShaped, PendingOfflineTidy
<1>3. res = [st EXCEPT !.dev = dev]
    BY <1>1, ShapedFields
<1>4. dev.last_seen <= now
    BY <1>1, ShapedFields DEF DeviceRow, Dated
<1> HIDE DEF dev, res
<1> QED BY <1>2, <1>3, <1>4, PunctualDevice DEF res

LEMMA EcuReportPunctual ==
    ASSUME NEW st, Punctual(st), NEW ecu \in EcuStatus, now \in Time, mode = "contact"
    PROVE  Punctual(EcuReport(st, ecu))
BY PendingOfflinePunctual, EcuStatusChangePunctual
   DEF EcuReport, ClearPendingOffline, OrNone

LEMMA StatusMessagePunctual ==
    ASSUME NEW st, Punctual(st), NEW ecu \in EcuStatus, now \in Time, mode = "contact"
    PROVE  Punctual(StatusMessage(st, ecu))
<1>1. Discover(st) = st
    BY DiscoverTidy DEF Punctual
<1> QED BY <1>1, EcuReportPunctual, UpdateStatusPunctual DEF StatusMessage, OrNone

\* Telemetry moves no session.
LEMMA StoreTelemetryNothing ==
    ASSUME NEW st, NEW b, NEW at, mode = "contact"
    PROVE  StoreTelemetry(st, b, at) = st
BY DEF StoreTelemetry, ObserveTelemetry

LEMMA BatteryMessagePunctual ==
    ASSUME NEW st, Punctual(st), now \in Time, mode = "contact"
    PROVE  Punctual(BatteryMessage(st))
<1>1. Discover(st) = st
    BY DiscoverTidy DEF Punctual
<1> QED BY <1>1, UpdateStatusPunctual, StoreTelemetryNothing DEF BatteryMessage, OrNone

LEMMA TelemetryMessagePunctual ==
    ASSUME NEW st, Punctual(st), NEW b, now \in Time, mode = "contact"
    PROVE  Punctual(TelemetryMessage(st, b))
<1> DEFINE recovered == ClearPendingOffline(st)
           awake     == IF st.dev.ecu_status = "online" THEN recovered
                        ELSE EcuStatusChange(recovered, "online", now)
           seen      == UpdateStatus(awake, "online")
<1>1. Discover(st) = st
    BY DiscoverTidy DEF Punctual
<1>2. Punctual(recovered)
    BY PendingOfflinePunctual DEF ClearPendingOffline, OrNone
<1>3. Punctual(awake)
    BY <1>2, EcuStatusChangePunctual
<1> HIDE DEF awake
<1>4. Punctual(seen)
    BY <1>3, UpdateStatusPunctual DEF OrNone, EcuStatus
<1>5. TelemetryMessage(st, b) \in {Discover(st), st, StoreTelemetry(seen, b, now)}
    BY DEF TelemetryMessage, awake
<1> HIDE DEF seen
<1> QED BY <1>1, <1>4, <1>5, StoreTelemetryNothing

LEMMA HttpsMessagePunctual ==
    ASSUME NEW st, Punctual(st), NEW ecu \in OrNone(EcuStatus), NEW b, NEW at,
           now \in Time, mode = "contact"
    PROVE  Punctual(HttpsMessage(st, ecu, b, at))
<1> DEFINE seen == IF ecu = None THEN UpdateStatus(st, None) ELSE StatusMessage(st, ecu)
<1>1. Punctual(seen)
    BY UpdateStatusPunctual, StatusMessagePunctual DEF OrNone
<1>2. HttpsMessage(st, ecu, b, at) \in {st, seen, StoreTelemetry(seen, b, at)}
    BY DEF HttpsMessage
<1> HIDE DEF seen
<1> QED BY <1>1, <1>2, StoreTelemetryNothing

\* A silent session ends at the last contact,
LEMMA CloseOnClocksPunctual ==
    ASSUME NEW st, Punctual(st)
    PROVE  Punctual(CloseOnClocks(st))
<1> DEFINE p == LiveSession(st)
<1>0. Shaped(st) /\ Dated(st)
    BY DEF Punctual
<1>1. CASE p = None
    BY <1>1 DEF CloseOnClocks
<1>2. CASE p # None
  <2>1. p \in DOMAIN st.ses
      BY <1>0, <1>2, ShapedFields, LiveSessionPointed DEF OrNone
  <2>2. st.ses[p].version < 1
      BY <1>0, <2>1 DEF Dated
  <2>3. st.dev.last_seen \in Time /\ st.dev.last_seen <= now
      BY <1>0, ShapedFields DEF DeviceRow, Dated
  <2>4. Punctual(EndSession(st, st.dev.last_seen, FALSE))
      BY <2>3, EndSessionPunctual
  <2>5. CloseOnClocks(st) \in {st, EndSession(st, st.dev.last_seen, FALSE)}
      BY <1>2, <2>2 DEF CloseOnClocks
  <2> QED BY <2>4, <2>5
<1> QED BY <1>1, <1>2

LEMMA ExpireStalePunctual ==
    ASSUME NEW st, Punctual(st)
    PROVE  Punctual(ExpireStaleMovement(st))
<1> DEFINE res == ExpireStaleMovement(st)
<1>0. Shaped(st) /\ Tidy(st) /\ Dated(st)
    BY DEF Punctual
<1>1. Shaped(res) /\ Tidy(res)
    BY <1>0, ExpireStaleShaped, ExpireStaleTidy
<1>2. res.dev.last_seen = st.dev.last_seen /\ res = [st EXCEPT !.dev = res.dev]
    BY <1>0, ShapedFields DEF ExpireStaleMovement, ClearMovement, DeviceRow
<1> HIDE DEF res
<1>3. res.dev.last_seen <= now
    BY <1>0, <1>2 DEF Dated
<1> QED BY <1>1, <1>2, <1>3, PunctualDevice DEF res

\* one cut off by the finalizer at its start.
LEMMA CloseOfflinePunctual ==
    ASSUME NEW st, Punctual(st), now \in Time
    PROVE  Punctual(CloseOffline(st))
<1> DEFINE p      == LiveSession(st)
           endAt  == Or(st.ses[p].movement_ended_at,
                        Or(st.ses[p].movement_started_at, st.ses[p].started_at))
           closed == IF p = None THEN st ELSE EndSession(st, Min({endAt, now}), FALSE)
           idle   == ClearMovement([closed.dev EXCEPT !.pending_offline_at = None])
           res    == CloseOffline(st)
<1>0. Shaped(st) /\ Tidy(st)
    BY DEF Punctual
<1>1. Punctual(closed)
  <2>1. CASE p = None
      BY <2>1
  <2>2. CASE p # None
    <3>1. st.ses[p] \in SessionRow
        BY <1>0, <2>2, ShapedFields, LiveSessionPointed DEF OrNone
    <3>2. endAt \in Time
        BY <3>1 DEF SessionRow, OrNone, Or
    <3> HIDE DEF endAt, p
    <3>3. {endAt, now} \in SUBSET Time /\ {endAt, now} # {}
        BY <3>2
    <3>4. Min({endAt, now}) \in Time /\ Min({endAt, now}) <= now
        BY <3>3, MinOfTimes
    <3> QED
        BY <2>2, <3>4, EndSessionPunctual
  <2> QED BY <2>1, <2>2
<1>2. Shaped(res) /\ Tidy(res)
    BY <1>0, CloseOfflineShaped, CloseOfflineTidy
<1>3. Shaped(closed) /\ Dated(closed)
    BY <1>1 DEF Punctual
<1>4. res = [closed EXCEPT !.dev = idle]
    BY DEF CloseOffline
<1> HIDE DEF closed
<1>5. idle.last_seen = closed.dev.last_seen
    BY <1>3, ShapedFields DEF ClearMovement, DeviceRow
<1>6. idle.last_seen <= now
    BY <1>3, <1>5 DEF Dated
<1> HIDE DEF idle, res
<1> QED BY <1>1, <1>2, <1>4, <1>6, PunctualDevice DEF res

LEMMA SetOfflinePunctual ==
    ASSUME NEW st, Punctual(st)
    PROVE  Punctual([st EXCEPT !.dev = SetOffline(st.dev)])
<1>1. Shaped(st) /\ Tidy(st) /\ Dated(st)
    BY DEF Punctual
<1>2. SetOffline(st.dev).last_seen <= now
    BY <1>1, ShapedFields DEF SetOffline, DeviceRow, Dated
<1> QED BY <1>1, <1>2, SetOfflineTyped, SetOfflineTidy, PunctualDevice

LEMMA CommitDated ==
    ASSUME NEW st, Punctual(st), Commit(st)
    PROVE  Dated(State)'
<1>1. State' = st /\ now' = now
    BY ShapedFields DEF Commit, State, Punctual
<1> QED BY <1>1 DEF Punctual, Dated, IsOpen

LEMMA DatedInit == Init => Dated(State)
<1> SUFFICES ASSUME Init PROVE Dated(State)
    OBVIOUS
<1>1. State.ses = <<>> /\ State.dev.last_seen = 0 /\ now = 0
    BY DEF Init, FreshDevice, State
<1> QED BY <1>1 DEF Dated

LEMMA DatedStep ==
    SteadyInv /\ mode = "contact" /\ Dated(State) /\ [SteadyNext]_vars => Dated(State)'
<1> SUFFICES ASSUME SteadyInv, mode = "contact", Dated(State), [SteadyNext]_vars
             PROVE  Dated(State)'
    OBVIOUS
<1>0. Punctual(State) /\ now \in Time
    BY StateShaped DEF SteadyInv, TypeOK, Punctual
<1>1. ASSUME NEW ecu \in EcuStatus, MqttStatus(ecu) PROVE Dated(State)'
    BY <1>0, <1>1, StatusMessagePunctual, CommitDated DEF MqttStatus
<1>2. CASE MqttBattery
    BY <1>0, <1>2, BatteryMessagePunctual, CommitDated DEF MqttBattery
<1>3. ASSUME NEW b \in Batch, MqttTelemetry(b) PROVE Dated(State)'
    BY <1>0, <1>3, TelemetryMessagePunctual, CommitDated DEF MqttTelemetry
<1>4. ASSUME NEW ecu \in OrNone(EcuStatus), NEW b \in OrNone(Batch), NEW skew \in Skew,
             HttpsPayload(ecu, b, skew)
      PROVE  Dated(State)'
    BY <1>0, <1>4, HttpsMessagePunctual, CommitDated DEF HttpsPayload
<1>5. CASE SessionTimeouts
    BY <1>0, <1>5, CloseOnClocksPunctual, ExpireStalePunctual, CommitDated DEF SessionTimeouts
<1>6. CASE FinalizeOffline
  <2>1. Punctual(CloseOffline(State))
      BY <1>0, CloseOfflinePunctual
  <2> QED BY <1>6, <2>1, SetOfflinePunctual, CommitDated DEF FinalizeOffline
<1>7. CASE MarkDeviceOffline
    BY <1>0, <1>7, SetOfflinePunctual, CommitDated DEF MarkDeviceOffline
<1>8. CASE Tick
  <2>1. State' = State /\ now' = now + 1
      BY <1>8 DEF Tick, State
  <2>2. \A t \in Time : t <= now => t <= now'
      BY <1>0, <2>1 DEF Time
  <2>3. Shaped(State) /\ Dated(State)
      BY <1>0 DEF Punctual
  <2>4. State.dev.last_seen <= now'
      BY <2>2, <2>3, ShapedFields DEF Dated, DeviceRow
  <2>5. ASSUME NEW i \in DOMAIN State.ses
        PROVE  /\ State.ses[i].started_at <= now'
               /\ ~IsOpen(State.ses[i]) => State.ses[i].ended_at <= now'
      BY <2>2, <2>3, ShapedFields DEF Dated, SessionRow, IsOpen, OrNone
  <2> QED BY <2>1, <2>3, <2>4, <2>5 DEF Dated, IsOpen
<1>9. CASE UNCHANGED vars
    BY <1>9 DEF vars, Dated, State, IsOpen
<1> QED
    BY <1>1, <1>2, <1>3, <1>4, <1>5, <1>6, <1>7, <1>8, <1>9 DEF SteadyNext, Mqtt, Https, Jobs

\* The windows lie in order, on either boundaries.
InOrder ==
    \A i, j \in DOMAIN sessions : i < j => sessions[i].ended_at <= sessions[j].started_at

\* With a grace period, unless no boundary is cut on movement.
Graced == Grace > 0 \/ "movement" \notin Modes

LEMMA WindowsInOrder ==
    ASSUME Graced
    PROVE  SteadySpec => []InOrder
<1> DEFINE Contacts == mode \in Modes /\ (mode = "contact" => Dated(State))
<1>1. Init => Contacts
    BY DatedInit DEF Init
<1>2. SteadyInv /\ Contacts /\ [SteadyNext]_vars => Contacts'
  <2> SUFFICES ASSUME SteadyInv, Contacts, [SteadyNext]_vars PROVE Contacts'
      OBVIOUS
  <2>1. mode' = mode
      BY DEF SteadyNext, Mqtt, Https, Jobs, MqttStatus, MqttBattery, MqttTelemetry,
             HttpsPayload, SessionTimeouts, FinalizeOffline, MarkDeviceOffline, Commit, Tick, vars
  <2>2. mode = "contact" => Dated(State)'
      BY DatedStep
  <2> QED BY <2>1, <2>2
<1>3. SteadyInv /\ Contacts => InOrder
  <2> SUFFICES ASSUME SteadyInv, Contacts PROVE InOrder
      OBVIOUS
  <2>1. State.ses = sessions /\ Tidy(State) /\ mode \in {"movement", "contact"}
      BY DEF SteadyInv, TypeOK, State
  <2>2. CASE mode = "contact"
      BY <2>1, <2>2 DEF Dated, InOrder
  <2>3. CASE mode = "movement"
      BY <2>1, <2>3 DEF Tidy, Clamped, InOrder, Graced
  <2> QED BY <2>1, <2>2, <2>3
<1> HIDE DEF Contacts
<1>4. SteadySpec => []Contacts
    BY <1>1, <1>2, SteadyInvariant, PTL DEF SteadySpec
<1> QED BY <1>3, <1>4, SteadyInvariant, PTL

\* No sample belongs to two sessions: the windows of the device's sessions are
\* disjoint and in id order, on either boundaries and whatever timestamps the
\* payloads carry.
THEOREM NoOverlapEver ==
    ASSUME Graced
    PROVE  SteadySpec => []NoOverlap
<1>1. SteadyInv /\ InOrder => NoOverlap
  <2> SUFFICES ASSUME SteadyInv, InOrder,
                      NEW i \in DOMAIN sessions, NEW j \in DOMAIN sessions, i < j
               PROVE  ~IsOpen(sessions[i]) /\ sessions[i].ended_at <= sessions[j].started_at
      BY DEF NoOverlap
  <2>1. sessions \in Seq(SessionRow) /\ State.ses = sessions /\ State.dev = device
      BY DEF SteadyInv, TypeOK, State
  <2>2. i # Len(sessions) /\ i \in Nat /\ i # None
      BY <2>1, RowIds
  <2>3. i \notin OpenIds(sessions)
      BY <2>1, <2>2 DEF SteadyInv, Tidy
  <2> QED
      BY <2>1, <2>3 DEF InOrder, OpenIds
<1> QED
    BY <1>1, WindowsInOrder, SteadyInvariant, PTL

-----------------------------------------------------------------------------
(***************************************************************************)
(* Where a drive of an MQTT device begins and ends.  Every sample is live, *)
(* so no time in a row is later than the clock, and the device's last      *)
(* movement is that of the session its pointer names: that is why a clock  *)
(* that reads the one closes the other where it should.                    *)
(*                                                                         *)
(* Movement boundaries and a grace period are assumed: without the grace   *)
(* period an offline closes at its own time.                               *)
(***************************************************************************)
RowOnTime(row) ==
    /\ row.version = 1
    /\ row.movement_started_at # None /\ row.movement_ended_at # None
    /\ row.started_at <= row.movement_started_at
    /\ row.movement_started_at <= row.movement_ended_at
    /\ row.movement_ended_at <= now
    /\ ~IsOpen(row) => row.ended_at = row.movement_ended_at

Past(t) == t # None => t <= now

DeviceOnTime(dev) ==
    /\ Past(dev.pending_since) /\ Past(dev.movement_candidate_at)
    /\ Past(dev.last_movement_at)
    /\ dev.pending_offline_at # None /\ dev.last_movement_at # None =>
           dev.last_movement_at <= dev.pending_offline_at

\* What holds also between the calls of a handler.
Half(st) ==
    /\ \A i \in DOMAIN st.ses : RowOnTime(st.ses[i])
    /\ DeviceOnTime(st.dev)

\* The pointed session's last movement is the device's.
OnTime(st) ==
    /\ Half(st)
    /\ st.dev.current_session_id # None =>
           st.dev.last_movement_at = st.ses[st.dev.current_session_id].movement_ended_at

-----------------------------------------------------------------------------
\* A call that writes other columns of the device row, the pointer kept or
\* dropped.
LEMMA OnTimeDevice ==
    ASSUME NEW st, Shaped(st), OnTime(st), NEW dev, DeviceOnTime(dev),
           dev.current_session_id \in {None, st.dev.current_session_id},
           dev.last_movement_at = st.dev.last_movement_at
    PROVE  OnTime([st EXCEPT !.dev = dev])
<1>1. [st EXCEPT !.dev = dev].ses = st.ses /\ [st EXCEPT !.dev = dev].dev = dev
    BY ShapedFields
<1> QED BY <1>1 DEF OnTime, Half

\* max(ended_at) is not in the future.
LEMMA PreviousEndIsPast ==
    ASSUME NEW ses \in Seq(SessionRow), now \in Time,
           \A i \in DOMAIN ses : RowOnTime(ses[i])
    PROVE  PreviousEnd(ses) <= now
<1> DEFINE ends == {ses[i].ended_at : i \in DOMAIN ses} \ {None}
<1>1. ends \in SUBSET Time /\ \A t \in ends : t <= now
  <2> SUFFICES ASSUME NEW i \in DOMAIN ses, ses[i].ended_at # None
               PROVE  ses[i].ended_at \in Time /\ ses[i].ended_at <= now
      OBVIOUS
  <2>1. ses[i] \in SessionRow
      OBVIOUS
  <2> QED BY <2>1 DEF SessionRow, OrNone, RowOnTime, IsOpen
<1>2. PreviousEnd(ses) = IF ends = {} THEN 0 ELSE Max(ends)
    BY DEF PreviousEnd
<1> HIDE DEF ends
<1>3. CASE ends = {}
    BY <1>2, <1>3, BoundAssumption DEF Time
<1>4. CASE ends # {}
  <2>1. Max(ends) \in ends
      BY <1>1, <1>4, MaxOfTimes
  <2> QED BY <1>1, <1>2, <1>4, <2>1
<1> QED BY <1>3, <1>4

\* A close at the pointed session's last movement.
LEMMA EndAtMovement ==
    ASSUME NEW st, Shaped(st), OnTime(st), st.dev.current_session_id # None,
           NEW r \in BOOLEAN
    PROVE  OnTime(EndSession(st, st.ses[st.dev.current_session_id].movement_ended_at, r))
<1> DEFINE p   == st.dev.current_session_id
           at  == st.ses[p].movement_ended_at
           dev == IF r THEN st.dev ELSE [st.dev EXCEPT !.current_session_id = None]
           row == [st.ses[p] EXCEPT !.ended_at = at]
           ses == [st.ses EXCEPT ![p] = row]
<1>1. p \in DOMAIN st.ses /\ st.ses[p] \in SessionRow
    BY ShapedFields DEF OrNone
<1>2. RowOnTime(row) /\ row.movement_ended_at = at
    BY <1>1 DEF OnTime, Half, RowOnTime, SessionRow
<1>3. /\ dev.current_session_id \in {None, p}
      /\ dev.last_movement_at = st.dev.last_movement_at
      /\ DeviceOnTime(dev)
    BY ShapedFields DEF OnTime, Half, DeviceOnTime, DeviceRow
<1>4. EndSession(st, at, r) = [dev |-> dev, ses |-> ses]
    BY DEF EndSession
<1> HIDE DEF row, dev
<1>5. DOMAIN ses = DOMAIN st.ses /\ ses[p] = row /\ \A i \in DOMAIN st.ses : i # p => ses[i] = st.ses[i]
    BY <1>1, ShapedFields
<1> HIDE DEF ses
<1>6. \A i \in DOMAIN ses : RowOnTime(ses[i])
    BY <1>2, <1>5 DEF OnTime, Half
<1> QED BY <1>1, <1>2, <1>3, <1>4, <1>5, <1>6 DEF OnTime, Half

\* Reopening, or letting go of, the awaiting session.
LEMMA ReopenHalf ==
    ASSUME NEW st, Shaped(st), Half(st), NEW at
    PROVE  /\ Half(ReopenAwaiting(st, at))
           /\ ReopenAwaiting(st, at).dev.pending_offline_at = st.dev.pending_offline_at
<1> DEFINE p        == st.dev.current_session_id
           row      == [st.ses[p] EXCEPT !.ended_at = None]
           ses      == [st.ses EXCEPT ![p] = row]
           dev      == [st.dev EXCEPT !.current_session_id = None]
           gone     == [st EXCEPT !.dev = dev]
           reopened == [dev |-> st.dev, ses |-> ses]
<1>1. ReopenAwaiting(st, at) \in {st, gone, reopened} /\ (p = None => ReopenAwaiting(st, at) = st)
    BY DEF ReopenAwaiting
<1>2. DeviceOnTime(dev) /\ dev.pending_offline_at = st.dev.pending_offline_at
    BY ShapedFields DEF Half, DeviceOnTime, DeviceRow
<1> HIDE DEF dev
<1>3. Half(gone) /\ gone.dev = dev
    BY <1>2, ShapedFields DEF Half
<1>4. ASSUME p # None PROVE Half(reopened)
  <2>1. p \in DOMAIN st.ses /\ st.ses[p] \in SessionRow
      BY <1>4, ShapedFields DEF OrNone
  <2>2. RowOnTime(row)
      BY <2>1 DEF Half, RowOnTime, SessionRow, IsOpen
  <2> HIDE DEF row
  <2>3. \A i \in DOMAIN ses : i \in DOMAIN st.ses /\ ses[i] \in {row, st.ses[i]}
      BY <2>1, ShapedFields
  <2> HIDE DEF ses
  <2> QED BY <2>2, <2>3 DEF Half
<1> HIDE DEF gone, ses
<1> QED BY <1>1, <1>2, <1>3, <1>4

\* A new session's window ends now.
LEMMA OpenHalf ==
    ASSUME NEW st, Shaped(st), Half(st), now \in Time, st.dev.vin # None,
           PreviousEnd(sessions) <= now
    PROVE  LET res == OpenForMovement(st, now)
           IN  /\ Half(res)
               /\ LiveSession(res) # None
               /\ res.dev.pending_offline_at = st.dev.pending_offline_at
<1> DEFINE evidence == {st.dev.pending_since, st.dev.movement_candidate_at, now} \ {None}
           started  == Max({Min(evidence), PreviousEnd(sessions)})
           moved    == Max({Or(st.dev.movement_candidate_at, now), started})
           row      == [vin |-> st.dev.vin, started_at |-> started, ended_at |-> None,
                        movement_started_at |-> moved, movement_ended_at |-> now,
                        version |-> 1]
           pick     == CHOOSE i \in OpenIds(st.ses) : TRUE
           res      == [st EXCEPT !.dev.current_session_id = pick]
<1>1. CASE OpenIds(st.ses) # {}
  <2>1. pick \in OpenIds(st.ses)
      BY <1>1
  <2> HIDE DEF pick
  <2>2. /\ res.ses = st.ses /\ res.dev.current_session_id = pick
        /\ DeviceOnTime(res.dev)
        /\ res.dev.pending_offline_at = st.dev.pending_offline_at
      BY ShapedFields DEF DeviceRow, Half, DeviceOnTime
  <2>3. OpenForMovement(st, now) = res
      BY <1>1 DEF OpenForMovement, pick
  <2>4. pick # None /\ IsOpen(st.ses[pick])
      BY <2>1, ShapedFields, RowIds DEF OpenIds
  <2> HIDE DEF res
  <2> QED BY <2>2, <2>3, <2>4 DEF Half, LiveSession
<1>2. CASE OpenIds(st.ses) = {}
  <2>1. started \in Time /\ moved \in Time /\ started <= moved
      BY OpeningWindow, ShapedFields
  <2>2. evidence \in SUBSET Time /\ evidence # {} /\ \A t \in evidence : t <= now
    <3>1. now # None
        BY NoneAssumption DEF Time
    <3> QED BY <3>1, ShapedFields DEF DeviceRow, OrNone, Half, DeviceOnTime, Past, Time
  <2>3. Or(st.dev.movement_candidate_at, now) \in Time /\ Or(st.dev.movement_candidate_at, now) <= now
      BY ShapedFields DEF DeviceRow, OrNone, Half, DeviceOnTime, Past, Or, Time
  <2> HIDE DEF evidence
  <2>4. started <= now
    <3>1. Min(evidence) \in Time /\ Min(evidence) <= now
        BY <2>2, MinOfTimes
    <3>2. PreviousEnd(sessions) \in Time
        BY ShapedFields, PreviousEndTyped
    <3>3. {Min(evidence), PreviousEnd(sessions)} \in SUBSET Time
        BY <3>1, <3>2
    <3>4. started \in {Min(evidence), PreviousEnd(sessions)}
        BY <3>3, MaxOfTimes
    <3> QED BY <3>1, <3>4
  <2> HIDE DEF started
  <2>5. moved <= now
    <3>1. {Or(st.dev.movement_candidate_at, now), started} \in SUBSET Time
        BY <2>1, <2>3
    <3>2. moved \in {Or(st.dev.movement_candidate_at, now), started}
        BY <3>1, MaxOfTimes
    <3> QED BY <2>3, <2>4, <3>2
  <2>6. OpenForMovement(st, now) = AddSession(st, row)
      BY <1>2 DEF OpenForMovement, started, evidence
  <2> HIDE DEF moved
  <2>7. RowOnTime(row) /\ IsOpen(row)
      BY <2>1, <2>5, NoneAssumption DEF RowOnTime, IsOpen, Time
  <2> HIDE DEF row
  <2> DEFINE n    == Len(st.ses) + 1
             dev  == [st.dev EXCEPT !.current_session_id = n]
             rows == Append(st.ses, row)
  <2>8. AddSession(st, row) = [dev |-> dev, ses |-> rows]
      BY DEF AddSession
  <2>9. /\ dev.current_session_id = n /\ n # None /\ DeviceOnTime(dev)
        /\ dev.pending_offline_at = st.dev.pending_offline_at
      BY ShapedFields, NoneAssumption DEF DeviceRow, Half, DeviceOnTime
  <2>10. rows[n] = row /\ \A i \in DOMAIN rows : i = n \/ (i \in DOMAIN st.ses /\ rows[i] = st.ses[i])
      BY ShapedFields
  <2> HIDE DEF dev, rows, n
  <2> QED BY <2>6, <2>7, <2>8, <2>9, <2>10 DEF Half, LiveSession
<1> QED BY <1>1, <1>2

\* A live movement is written to the open session and to the device.
LEMMA MarkMovedOnTime ==
    ASSUME NEW st, Shaped(st), Half(st), now \in Time, LiveSession(st) # None,
           st.dev.pending_offline_at = None, NEW b
    PROVE  OnTime(MarkMoved(st, b, now, TRUE))
<1> DEFINE p   == st.dev.current_session_id
           dev == [st.dev EXCEPT !.movement_baseline_km = Or(b.odometer, @),
                                 !.last_movement_at = now,
                                 !.pending_since = None, !.movement_candidate_at = None]
           row == [st.ses[p] EXCEPT !.movement_started_at = Or(@, now),
                                    !.movement_ended_at = now]
           ses == [st.ses EXCEPT ![p] = row]
<1>1. p # None /\ IsOpen(st.ses[p]) /\ p \in DOMAIN st.ses /\ st.ses[p] \in SessionRow
    BY ShapedFields DEF OrNone, LiveSession
<1>2. MarkMoved(st, b, now, TRUE) = [dev |-> dev, ses |-> ses]
  <2>1. [st.ses EXCEPT ![p].movement_started_at = Or(@, now), ![p].movement_ended_at = now]
            = ses
      BY <1>1
  <2>2. MarkMoved(st, b, now, TRUE).dev = dev
      BY DEF MarkMoved
  <2> QED BY <2>1, <2>2 DEF MarkMoved
<1>3. /\ dev.current_session_id = p /\ dev.last_movement_at = now
      /\ DeviceOnTime(dev)
    BY ShapedFields DEF DeviceRow, DeviceOnTime, Past, Time
<1>4. row.movement_ended_at = now /\ RowOnTime(row)
  <2> DEFINE s == Or(st.ses[p].movement_started_at, now)
  <2>1. RowOnTime(st.ses[p])
      BY <1>1 DEF Half
  <2>2. s = st.ses[p].movement_started_at
      BY <2>1 DEF RowOnTime, Or
  <2>3. /\ row.version = st.ses[p].version /\ row.started_at = st.ses[p].started_at
        /\ row.movement_started_at = s /\ row.movement_ended_at = now
        /\ row.ended_at = st.ses[p].ended_at
      BY <1>1 DEF SessionRow
  <2>4. s \in Time /\ now # None /\ now <= now
      BY <1>1, <2>1, <2>2, NoneAssumption DEF RowOnTime, SessionRow, OrNone, Time
  <2>5. st.ses[p].movement_ended_at \in Time
      BY <1>1, <2>1 DEF RowOnTime, SessionRow, OrNone
  <2>6. s <= now /\ st.ses[p].started_at <= s /\ st.ses[p].version = 1
      BY <2>1, <2>2, <2>4, <2>5 DEF RowOnTime, Time
  <2> HIDE DEF s, row
  <2>7. IsOpen(row) /\ s # None
      BY <1>1, <2>1, <2>2, <2>3 DEF IsOpen, RowOnTime
  <2> QED BY <2>3, <2>4, <2>6, <2>7 DEF RowOnTime
<1> HIDE DEF dev, row
<1>5. ses[p] = row /\ \A i \in DOMAIN ses : i \in DOMAIN st.ses /\ ses[i] \in {row, st.ses[i]}
    BY <1>1, ShapedFields
<1> HIDE DEF ses
<1>6. \A i \in DOMAIN ses : RowOnTime(ses[i])
    BY <1>4, <1>5 DEF Half
<1>7. ses[dev.current_session_id].movement_ended_at = dev.last_movement_at
    BY <1>3, <1>4, <1>5
<1>8. OnTime([dev |-> dev, ses |-> ses])
    BY <1>3, <1>6, <1>7 DEF OnTime, Half
<1> QED BY <1>2, <1>8

LEMMA PromoteOnTime ==
    ASSUME NEW st, Shaped(st), OnTime(st), now \in Time, st.dev.vin # None,
           st.dev.pending_offline_at = None, PreviousEnd(sessions) <= now,
           NEW b \in MovementSignals
    PROVE  OnTime(PromoteToDriving(st, b, now, TRUE))
<1> DEFINE reopened == IF LiveSession(st) = None THEN ReopenAwaiting(st, now) ELSE st
           opened   == IF LiveSession(reopened) = None
                       THEN OpenForMovement(reopened, now) ELSE reopened
<1>1. /\ Shaped(reopened) /\ Half(reopened) /\ reopened.dev.vin # None
      /\ reopened.dev.pending_offline_at = None
    BY ReopenShaped, ReopenKeepsVin, ReopenHalf DEF OnTime
<1> HIDE DEF reopened
<1>2. /\ Shaped(opened) /\ Half(opened) /\ LiveSession(opened) # None
      /\ opened.dev.pending_offline_at = None
    BY <1>1, OpenForMovementShaped, OpenHalf
<1> HIDE DEF opened
<1>3. OnTime(MarkMoved(opened, b, now, TRUE))
    BY <1>2, MarkMovedOnTime
<1> QED BY <1>3 DEF PromoteToDriving, opened, reopened

\* A sample that moves comes with no offline pending; the others confirm
\* nothing.
LEMMA StoreOnTime ==
    ASSUME NEW st, Shaped(st), OnTime(st), now \in Time, PreviousEnd(sessions) <= now,
           NEW b \in MovementSignals,
           st.dev.pending_offline_at = None \/ (~b.above /\ b.odometer = None)
    PROVE  OnTime(StoreTelemetry(st, b, now))
<1> DEFINE driving == LiveSession(st) # None
           fresh   == IF driving THEN st.dev ELSE ExpireEvidence(st.dev, now)
           st1     == [st EXCEPT !.dev = fresh]
           noted   == [st EXCEPT !.dev = NoteEvidence(fresh, b, now)]
<1>1. /\ fresh \in DeviceRow /\ fresh.current_session_id = st.dev.current_session_id
      /\ fresh.vin = st.dev.vin /\ fresh.last_movement_at = st.dev.last_movement_at
      /\ fresh.pending_offline_at = st.dev.pending_offline_at
  <2>1. fresh \in DeviceRow /\ fresh.current_session_id = st.dev.current_session_id
      BY ShapedFields, ExpireEvidenceTyped
  <2> QED BY <2>1, ShapedFields DEF ExpireEvidence, ClearMovement, DeviceRow
<1>2. DeviceOnTime(fresh)
  <2>1. DeviceOnTime(st.dev) /\ st.dev \in DeviceRow
      BY ShapedFields DEF OnTime, Half
  <2> QED BY <2>1 DEF DeviceOnTime, ExpireEvidence, ClearMovement, DeviceRow, Past
<1> HIDE DEF fresh
<1>3. /\ Shaped(st1) /\ OnTime(st1) /\ st1.dev = fresh
    BY <1>1, <1>2, ShapedDevice, ShapedFields, OnTimeDevice
<1>4. OnTime(noted)
  <2>1. NoteEvidence(fresh, b, now).last_movement_at = fresh.last_movement_at
        /\ NoteEvidence(fresh, b, now).current_session_id = fresh.current_session_id
      BY <1>1 DEF NoteEvidence, DeviceRow
  <2>2. DeviceOnTime(NoteEvidence(fresh, b, now))
      BY <1>1, <1>2 DEF NoteEvidence, DeviceRow, DeviceOnTime, Past, Time
  <2> QED BY <1>1, <2>1, <2>2, OnTimeDevice
<1>5. Confirmed(fresh, b, driving) => st.dev.pending_offline_at = None
    BY DEF Confirmed, OdometerRose
<1>6. now - now \in -LiveTolerance..LiveTolerance
    BY ToleranceAssumption DEF Time
<1>7. \/ StoreTelemetry(st, b, now) \in {st, noted}
      \/ /\ st.dev.vin # None /\ Confirmed(fresh, b, driving)
         /\ StoreTelemetry(st, b, now) = PromoteToDriving(st1, b, now, TRUE)
    BY <1>6 DEF StoreTelemetry, ObserveTelemetry, fresh, st1, noted
<1> HIDE DEF st1, noted
<1>8. st.dev.vin # None /\ Confirmed(fresh, b, driving)
          => OnTime(PromoteToDriving(st1, b, now, TRUE))
    BY <1>1, <1>3, <1>5, PromoteOnTime
<1> QED BY <1>4, <1>7, <1>8

-----------------------------------------------------------------------------
(* The handlers of a device on MQTT: with movement boundaries and a grace   *)
(* period an ECU report touches pending_offline_at only.                    *)

LEMMA DiscoverOnTime ==
    ASSUME NEW st, Shaped(st), OnTime(st)
    PROVE  OnTime(Discover(st))
<1> DEFINE res == [st EXCEPT !.dev = FreshDevice(now)]
<1>1. res.ses = st.ses /\ res.dev = FreshDevice(now)
    BY ShapedFields
<1>2. DeviceOnTime(FreshDevice(now)) /\ FreshDevice(now).current_session_id = None
    BY DEF FreshDevice, DeviceOnTime, Past
<1> HIDE DEF res
<1>3. OnTime(res)
    BY <1>1, <1>2 DEF OnTime, Half
<1> QED BY <1>3 DEF Discover, res

LEMMA UpdateStatusOnTime ==
    ASSUME NEW st, Shaped(st), OnTime(st), NEW ecu
    PROVE  /\ OnTime(UpdateStatus(st, ecu))
           /\ UpdateStatus(st, ecu).dev.pending_offline_at = st.dev.pending_offline_at
<1> DEFINE dev == [st.dev EXCEPT !.device_status = "online", !.last_seen = now,
                                 !.ecu_status = Or(ecu, @)]
<1>1. UpdateStatus(st, ecu) = [st EXCEPT !.dev = dev]
    BY ShapedFields DEF UpdateStatus, DeviceRow
<1>2. /\ dev.current_session_id = st.dev.current_session_id
      /\ dev.last_movement_at = st.dev.last_movement_at
      /\ dev.pending_offline_at = st.dev.pending_offline_at
      /\ DeviceOnTime(dev)
    BY ShapedFields DEF DeviceRow, OnTime, Half, DeviceOnTime
<1> HIDE DEF dev
<1>3. [st EXCEPT !.dev = dev].dev = dev
    BY ShapedFields
<1> QED BY <1>1, <1>2, <1>3, OnTimeDevice

\* The grace period starts no earlier than the last movement.
LEMMA PendingOnTime ==
    ASSUME NEW st, Shaped(st), OnTime(st), NEW m \in {None, now}
    PROVE  /\ OnTime([st EXCEPT !.dev.pending_offline_at = m])
           /\ [st EXCEPT !.dev.pending_offline_at = m].dev.pending_offline_at = m
<1> DEFINE dev == [st.dev EXCEPT !.pending_offline_at = m]
<1>1. [st EXCEPT !.dev.pending_offline_at = m] = [st EXCEPT !.dev = dev]
    OBVIOUS
<1>2. /\ dev.current_session_id = st.dev.current_session_id
      /\ dev.last_movement_at = st.dev.last_movement_at
      /\ dev.pending_offline_at = m
      /\ DeviceOnTime(dev)
    BY ShapedFields DEF DeviceRow, OnTime, Half, DeviceOnTime, Past
<1> HIDE DEF dev
<1>3. [st EXCEPT !.dev = dev].dev = dev
    BY ShapedFields
<1> QED BY <1>1, <1>2, <1>3, OnTimeDevice

LEMMA EcuReportOnTime ==
    ASSUME NEW st, Shaped(st), OnTime(st), NEW ecu, mode = "movement", Grace > 0
    PROVE  OnTime(EcuReport(st, ecu))
<1>1. EcuStatusChange(st, "online", now) = st
    BY DEF EcuStatusChange
<1>2. OnTime(ClearPendingOffline(st)) /\ OnTime([st EXCEPT !.dev.pending_offline_at = now])
    BY PendingOnTime DEF ClearPendingOffline
<1> QED BY <1>1, <1>2 DEF EcuReport

LEMMA StatusMessageOnTime ==
    ASSUME NEW st, Shaped(st), OnTime(st), NEW ecu \in EcuStatus, now \in Time,
           mode = "movement", Grace > 0
    PROVE  OnTime(StatusMessage(st, ecu))
BY DiscoverShaped, DiscoverOnTime, EcuReportShaped, EcuReportOnTime, UpdateStatusOnTime
   DEF StatusMessage

\* A battery report carries no movement, so an offline may be pending.
LEMMA BatteryMessageOnTime ==
    ASSUME NEW st, Shaped(st), OnTime(st), now \in Time, PreviousEnd(sessions) <= now
    PROVE  OnTime(BatteryMessage(st))
<1> DEFINE seen == UpdateStatus(Discover(st), None)
<1>1. Shaped(seen) /\ OnTime(seen)
    BY DiscoverShaped, DiscoverOnTime, UpdateStatusShaped, UpdateStatusOnTime DEF OrNone
<1> HIDE DEF seen
<1>2. EmptyBatch \in MovementSignals /\ ~EmptyBatch.above /\ EmptyBatch.odometer = None
    BY DEF EmptyBatch, MovementSignals
<1>3. OnTime(StoreTelemetry(seen, EmptyBatch, now))
    BY <1>1, <1>2, StoreOnTime
<1> QED BY <1>1, <1>3 DEF BatteryMessage, seen

\* Telemetry withdraws a pending offline before it is read for movement.
LEMMA TelemetryMessageOnTime ==
    ASSUME NEW st, Shaped(st), OnTime(st), NEW b \in MovementSignals, now \in Time,
           PreviousEnd(sessions) <= now, mode = "movement"
    PROVE  OnTime(TelemetryMessage(st, b))
<1> DEFINE recovered == ClearPendingOffline(st)
           seen      == UpdateStatus(recovered, "online")
<1>1. Shaped(recovered) /\ OnTime(recovered) /\ recovered.dev.pending_offline_at = None
    BY PendingOfflineShaped, PendingOnTime DEF ClearPendingOffline, OrNone
<1>2. EcuStatusChange(recovered, "online", now) = recovered
    BY DEF EcuStatusChange
<1>3. TelemetryMessage(st, b) \in {Discover(st), st, StoreTelemetry(seen, b, now)}
    BY <1>2 DEF TelemetryMessage
<1> HIDE DEF recovered
<1>4. Shaped(seen) /\ OnTime(seen) /\ seen.dev.pending_offline_at = None
    BY <1>1, UpdateStatusShaped, UpdateStatusOnTime DEF OrNone, EcuStatus
<1> HIDE DEF seen
<1>5. OnTime(StoreTelemetry(seen, b, now))
    BY <1>4, StoreOnTime
<1> QED BY <1>3, <1>5, DiscoverOnTime

\* Both clocks close at the device's last movement, the session's own.
LEMMA CloseOnClocksOnTime ==
    ASSUME NEW st, Shaped(st), OnTime(st)
    PROVE  OnTime(CloseOnClocks(st))
<1> DEFINE p     == LiveSession(st)
           moved == Or(st.dev.last_movement_at,
                       Or(st.ses[p].movement_ended_at,
                          Or(st.ses[p].movement_started_at, st.ses[p].started_at)))
<1>1. CASE p = None
    BY <1>1 DEF CloseOnClocks
<1>2. CASE p # None
  <2>1. p = st.dev.current_session_id /\ st.dev.current_session_id # None /\ p \in DOMAIN st.ses
      BY <1>2, LiveSessionPointed, ShapedFields DEF OrNone
  <2>2. moved = st.ses[p].movement_ended_at /\ st.ses[p].version = 1
      BY <2>1 DEF OnTime, Half, RowOnTime, Or
  <2>3. OnTime(EndSession(st, moved, FALSE)) /\ OnTime(EndSession(st, moved, TRUE))
      BY <2>1, <2>2, EndAtMovement
  <2>4. CloseOnClocks(st) \in {st, EndSession(st, moved, FALSE), EndSession(st, moved, TRUE)}
      BY <1>2, <2>2 DEF CloseOnClocks
  <2> QED BY <2>3, <2>4
<1> QED BY <1>1, <1>2

LEMMA ExpireStaleOnTime ==
    ASSUME NEW st, Shaped(st), OnTime(st)
    PROVE  OnTime(ExpireStaleMovement(st))
<1> DEFINE forgotten(d) == [d EXCEPT !.current_session_id = None]
<1>1. PICK d \in {st.dev, ClearMovement(st.dev)} :
          ExpireStaleMovement(st) \in {[st EXCEPT !.dev = d],
                                       [st EXCEPT !.dev = forgotten(d)]}
    BY DEF ExpireStaleMovement
<1>2. /\ d \in DeviceRow /\ d.current_session_id = st.dev.current_session_id
      /\ d.last_movement_at = st.dev.last_movement_at /\ DeviceOnTime(d)
  <2>1. d \in DeviceRow /\ d.current_session_id = st.dev.current_session_id
      BY ShapedFields, ClearMovementTyped
  <2> QED BY <2>1, ShapedFields DEF ClearMovement, DeviceRow, OnTime, Half, DeviceOnTime, Past
<1>3. /\ forgotten(d).current_session_id = None
      /\ forgotten(d).last_movement_at = st.dev.last_movement_at
      /\ DeviceOnTime(forgotten(d))
    BY <1>2 DEF DeviceRow, DeviceOnTime
<1> HIDE DEF forgotten
<1>4. OnTime([st EXCEPT !.dev = d]) /\ OnTime([st EXCEPT !.dev = forgotten(d)])
    BY <1>2, <1>3, OnTimeDevice
<1> QED BY <1>1, <1>4

\* The end of the grace period closes at the session's last movement.
LEMMA CloseOfflineOnTime ==
    ASSUME NEW st, Shaped(st), OnTime(st), now \in Time
    PROVE  OnTime(CloseOffline(st))
<1> DEFINE p      == LiveSession(st)
           endAt  == Or(st.ses[p].movement_ended_at,
                        Or(st.ses[p].movement_started_at, st.ses[p].started_at))
           closed == IF p = None THEN st ELSE EndSession(st, Min({endAt, now}), FALSE)
           dev    == ClearMovement([closed.dev EXCEPT !.pending_offline_at = None])
<1>1. Shaped(closed) /\ OnTime(closed)
  <2>1. CASE p = None
      BY <2>1
  <2>2. CASE p # None
    <3>1. p = st.dev.current_session_id /\ st.dev.current_session_id # None
          /\ p \in DOMAIN st.ses /\ st.ses[p] \in SessionRow
        BY <2>2, LiveSessionPointed, ShapedFields DEF OrNone
    <3>2. RowOnTime(st.ses[p])
        BY <3>1 DEF OnTime, Half
    <3>3. endAt = st.ses[p].movement_ended_at /\ endAt \in Time /\ endAt <= now
        BY <3>1, <3>2 DEF SessionRow, OrNone, RowOnTime, Or
    <3> HIDE DEF endAt
    <3>4. Min({endAt, now}) = endAt
      <4>1. {endAt, now} \in SUBSET Time /\ {endAt, now} # {}
          BY <3>3
      <4>2. Min({endAt, now}) \in {endAt, now} /\ Min({endAt, now}) <= endAt
          BY <4>1, MinOfTimes
      <4> QED BY <4>2, <3>3 DEF Time
    <3>5. closed = EndSession(st, st.ses[p].movement_ended_at, FALSE)
        BY <2>2, <3>3, <3>4 DEF endAt
    <3>6. st.ses[p].movement_ended_at \in Time
        BY <3>3
    <3> HIDE DEF closed
    <3> QED BY <3>1, <3>5, <3>6, EndSessionShaped, EndAtMovement
  <2> QED BY <2>1, <2>2
<1> HIDE DEF closed
<1>2. closed.dev \in DeviceRow /\ DeviceOnTime(closed.dev)
    BY <1>1, ShapedFields DEF OnTime, Half
<1>3. /\ dev.current_session_id = closed.dev.current_session_id
      /\ dev.last_movement_at = closed.dev.last_movement_at
      /\ DeviceOnTime(dev)
    BY <1>2 DEF ClearMovement, DeviceRow, DeviceOnTime, Past
<1>4. CloseOffline(st) = [closed EXCEPT !.dev = dev]
    BY DEF CloseOffline, closed
<1> HIDE DEF dev
<1> QED BY <1>1, <1>3, <1>4, OnTimeDevice

LEMMA SetOfflineOnTime ==
    ASSUME NEW st, Shaped(st), OnTime(st)
    PROVE  OnTime([st EXCEPT !.dev = SetOffline(st.dev)])
<1>1. /\ SetOffline(st.dev).current_session_id = st.dev.current_session_id
      /\ SetOffline(st.dev).last_movement_at = st.dev.last_movement_at
      /\ DeviceOnTime(SetOffline(st.dev))
    BY ShapedFields DEF SetOffline, DeviceRow, OnTime, Half, DeviceOnTime
<1> QED BY <1>1, OnTimeDevice

-----------------------------------------------------------------------------
\* The inductive invariant.
LiveInv == TypeOK /\ mode = "movement" /\ OnTime(State)

LEMMA CommitOnTime ==
    ASSUME LiveInv, NEW st, Shaped(st), OnTime(st), Commit(st)
    PROVE  LiveInv'
<1>1. TypeOK'
    BY CommitTyped DEF LiveInv
<1>2. mode' = mode /\ now' = now /\ device' = st.dev /\ sessions' = st.ses
    BY DEF Commit
<1>3. OnTime(State)'
    BY <1>2 DEF OnTime, Half, RowOnTime, DeviceOnTime, Past, IsOpen, State
<1> QED BY <1>1, <1>2, <1>3 DEF LiveInv

LEMMA LiveInit ==
    ASSUME Init, Modes = {"movement"}
    PROVE  LiveInv
<1>1. TypeOK
    BY InitTyped
<1>2. sessions = <<>> /\ mode = "movement"
    BY DEF Init
<1>3. PICK v \in Vin : device = [FreshDevice(0) EXCEPT !.vin = v]
    BY DEF Init
<1>4. DeviceOnTime(device) /\ device.current_session_id = None
    BY <1>3 DEF FreshDevice, DeviceOnTime, Past
<1> QED BY <1>1, <1>2, <1>4 DEF LiveInv, OnTime, Half, State

LEMMA LiveStep ==
    ASSUME LiveInv, [LiveNext]_vars, Grace > 0
    PROVE  LiveInv'
<1>0. Shaped(State) /\ OnTime(State) /\ mode = "movement" /\ now \in Time
    BY StateShaped DEF LiveInv, TypeOK
<1>1. PreviousEnd(sessions) <= now
    BY <1>0, PreviousEndIsPast DEF LiveInv, TypeOK, OnTime, Half, State
<1>2. ASSUME NEW ecu \in EcuStatus, MqttStatus(ecu) PROVE LiveInv'
    BY <1>0, <1>2, StatusMessageShaped, StatusMessageOnTime, CommitOnTime DEF MqttStatus
<1>3. CASE MqttBattery
    BY <1>0, <1>1, <1>3, BatteryMessageShaped, BatteryMessageOnTime, CommitOnTime DEF MqttBattery
<1>4. ASSUME NEW b \in Batch, MqttTelemetry(b) PROVE LiveInv'
    BY <1>0, <1>1, <1>4, BatchAssumption, TelemetryMessageShaped, TelemetryMessageOnTime,
       CommitOnTime DEF MqttTelemetry
<1>5. CASE SessionTimeouts
    BY <1>0, <1>5, CloseOnClocksShaped, CloseOnClocksOnTime, ExpireStaleShaped,
       ExpireStaleOnTime, CommitOnTime DEF SessionTimeouts
<1>6. CASE FinalizeOffline
  <2>1. Shaped(CloseOffline(State)) /\ OnTime(CloseOffline(State))
      BY <1>0, CloseOfflineShaped, CloseOfflineOnTime
  <2>2. LET res == [CloseOffline(State) EXCEPT !.dev = SetOffline(CloseOffline(State).dev)]
        IN  Shaped(res) /\ OnTime(res)
      BY <2>1, SetOfflineTyped, SetOfflineOnTime
  <2> QED BY <1>6, <2>2, CommitOnTime DEF FinalizeOffline
<1>7. CASE MarkDeviceOffline
    BY <1>0, <1>7, SetOfflineTyped, SetOfflineOnTime, CommitOnTime DEF MarkDeviceOffline
<1>8. CASE Tick
  <2>1. now' = now + 1 /\ UNCHANGED <<device, sessions, mode>>
      BY <1>8 DEF Tick
  <2>2. TypeOK'
      BY <1>8, NextTyped DEF LiveInv, Next, SteadyNext
  <2>3. \A row \in SessionRow : RowOnTime(row) => RowOnTime(row)'
      BY <1>0, <2>1 DEF RowOnTime, SessionRow, OrNone, IsOpen, Time
  <2>4. \A dev \in DeviceRow : DeviceOnTime(dev) => DeviceOnTime(dev)'
      BY <1>0, <2>1 DEF DeviceOnTime, DeviceRow, OrNone, Past, Time
  <2>5. State' = State /\ State.dev \in DeviceRow
        /\ \A i \in DOMAIN State.ses : State.ses[i] \in SessionRow
      BY <1>0, <2>1, ShapedFields DEF State
  <2>6. OnTime(State)'
      BY <1>0, <2>1, <2>3, <2>4, <2>5 DEF OnTime, Half
  <2> QED BY <1>0, <2>1, <2>2, <2>6 DEF LiveInv
<1>9. CASE UNCHANGED vars
    BY <1>9 DEF vars, LiveInv, TypeOK, OnTime, Half, RowOnTime, DeviceOnTime, Past, IsOpen, State
<1> QED
    BY <1>2, <1>3, <1>4, <1>5, <1>6, <1>7, <1>8, <1>9 DEF LiveNext, Mqtt, Jobs

LEMMA LiveInvariant ==
    ASSUME Modes = {"movement"}, Grace > 0
    PROVE  LiveSpec => []LiveInv
<1>1. Init => LiveInv
    BY LiveInit
<1>2. LiveInv /\ [LiveNext]_vars => LiveInv'
    BY LiveStep
<1> QED BY <1>1, <1>2, PTL DEF LiveSpec

\* A session of an MQTT device starts at or before its first movement, which
\* is at or before its last, and it ends no earlier: whatever evidence its
\* start was traced back to (_open_session_for_movement).
THEOREM WindowsAreOrdered ==
    ASSUME Modes = {"movement"}, Grace > 0
    PROVE  LiveSpec => []WindowOrdered
<1>1. LiveInv => WindowOrdered
  <2> SUFFICES ASSUME LiveInv, NEW i \in DOMAIN sessions
               PROVE  LET row == sessions[i]
                      IN  /\ row.started_at <= row.movement_started_at
                          /\ row.movement_started_at <= row.movement_ended_at
                          /\ ~IsOpen(row) => row.started_at <= row.ended_at
      BY DEF WindowOrdered
  <2>1. RowOnTime(sessions[i]) /\ sessions[i] \in SessionRow
      BY DEF LiveInv, TypeOK, OnTime, Half, State
  <2> QED BY <2>1 DEF RowOnTime, SessionRow, OrNone, Time
<1> QED BY <1>1, LiveInvariant, PTL

\* Whichever clock closes a session of an MQTT device, it closes at the
\* session's own last movement (check_session_timeouts, finalize_offline).
THEOREM ClocksPadNothing ==
    ASSUME Modes = {"movement"}, Grace > 0
    PROVE  LiveSpec => []ClosesAtMovement
<1>1. LiveInv => ClosesAtMovement
    BY DEF LiveInv, OnTime, Half, State, RowOnTime, ClosesAtMovement
<1> QED BY <1>1, LiveInvariant, PTL

\* Nothing moves while an ECU-offline of an MQTT device is provisional, so the
\* end of the grace period cuts no drive.
THEOREM OfflineCutsNoDrive ==
    ASSUME Modes = {"movement"}, Grace > 0
    PROVE  LiveSpec => []NoMovementWhilePending
<1>1. LiveInv => NoMovementWhilePending
    BY DEF LiveInv, OnTime, Half, State, DeviceOnTime, NoMovementWhilePending
<1> QED BY <1>1, LiveInvariant, PTL
=============================================================================
