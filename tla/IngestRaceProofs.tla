-------------------------- MODULE IngestRaceProofs --------------------------
(***************************************************************************)
(* The ingest transactions taken apart, MQTT and HTTPS in one another's    *)
(* way, on movement boundaries with a grace period and samples of the      *)
(* moment: neither is rejected by the unique index, no session is          *)
(* orphaned, and what is committed is a trip log.                          *)
(*                                                                         *)
(* A transaction works on the device row as it loaded it.  The pointer in  *)
(* it is that of the row now (then the lemmas of DriveSessionProofs apply, *)
(* for they are about any device row), or it trails it: since the load the *)
(* other transaction has let go of a session past its gap and opened the   *)
(* next (Trails).  Then the result lets go of that session too and adopts  *)
(* the open one (PromoteOvertaken).  What the columns that are written     *)
(* back make of the two rows is CommitRaces.                               *)
(***************************************************************************)
EXTENDS IngestRace, DriveHistoryProofs

Ptr(st) == st.dev.current_session_id

Moved(row) == Or(row.movement_ended_at, row.ended_at)

\* The same rows and the same pointer.
SameTrip(st, res) ==
    /\ Shaped(res) /\ res.ses = st.ses /\ Ptr(res) = Ptr(st)
    /\ res.dev.exists

\* The pointer p, read earlier in this instant, and the st of now.
Trails(p, st) ==
    \/ p = Ptr(st)
    \/ /\ LiveSession(st) # None
       /\ p # None => /\ p \in DOMAIN st.ses /\ ~IsOpen(st.ses[p])
                      /\ now - Moved(st.ses[p]) > Gap

\* What an ingest does to the pointer: it moves on only from a session past
\* the gap, to one that is open, and leaves none that is open.
Moves(st, res) ==
    \/ Ptr(res) = Ptr(st) /\ (LiveSession(st) # None => LiveSession(res) # None)
    \/ /\ LiveSession(st) = None /\ LiveSession(res) # None
       /\ Ptr(st) # None => /\ Ptr(st) \in DOMAIN res.ses
                            /\ res.ses[Ptr(st)] = st.ses[Ptr(st)]
                            /\ now - Moved(st.ses[Ptr(st)]) > Gap

\* From st, whose only open row q the pointer does not name: q may be
\* extended, and the pointer moves to q or stays.
Overtaken(st, res, q) ==
    /\ Shaped(res) /\ res.dev.exists
    /\ Ptr(res) \in {Ptr(st), q}
    /\ DOMAIN res.ses = DOMAIN st.ses
    /\ \A i \in DOMAIN st.ses : /\ res.ses[i].started_at = st.ses[i].started_at
                                /\ res.ses[i].ended_at = st.ses[i].ended_at
                                /\ i # q => res.ses[i] = st.ses[i]

-----------------------------------------------------------------------------
(* The calls before the telemetry change neither rows nor pointer *)

LEMMA SameTripDevice ==
    ASSUME NEW st, Shaped(st), NEW dev \in DeviceRow,
           dev.current_session_id = Ptr(st), dev.exists
    PROVE  SameTrip(st, [st EXCEPT !.dev = dev])
BY ShapedDevice, ShapedFields DEF SameTrip, Ptr

LEMMA SameTripBoth ==
    ASSUME NEW st, NEW mid, NEW res, SameTrip(st, mid), SameTrip(mid, res)
    PROVE  SameTrip(st, res)
BY DEF SameTrip

LEMMA UpdateStatusSameTrip ==
    ASSUME NEW st, Shaped(st), st.dev.exists, NEW ecu \in OrNone(EcuStatus), now \in Time
    PROVE  SameTrip(st, UpdateStatus(st, ecu))
<1>1. Shaped(UpdateStatus(st, ecu))
    BY UpdateStatusShaped
<1>2. /\ UpdateStatus(st, ecu).ses = st.ses
      /\ UpdateStatus(st, ecu).dev.current_session_id = st.dev.current_session_id
      /\ UpdateStatus(st, ecu).dev.exists
    BY ShapedFields DEF UpdateStatus, DeviceRow
<1> QED BY <1>1, <1>2 DEF SameTrip, Ptr

LEMMA PendingOfflineSameTrip ==
    ASSUME NEW st, Shaped(st), st.dev.exists, NEW m \in OrNone(Time)
    PROVE  SameTrip(st, [st EXCEPT !.dev.pending_offline_at = m])
<1> DEFINE res == [st EXCEPT !.dev.pending_offline_at = m]
<1>1. Shaped(res)
    BY PendingOfflineShaped
<1>2. /\ res.ses = st.ses
      /\ res.dev.current_session_id = st.dev.current_session_id
      /\ res.dev.exists
    BY ShapedFields DEF DeviceRow
<1> QED BY <1>1, <1>2 DEF SameTrip, Ptr

LEMMA EcuReportSameTrip ==
    ASSUME NEW st, Shaped(st), st.dev.exists, NEW ecu \in EcuStatus, now \in Time, Clamped
    PROVE  SameTrip(st, EcuReport(st, ecu))
<1>1. SameTrip(st, st)
    BY DEF SameTrip
<1>2. SameTrip(st, ClearPendingOffline(st))
    BY PendingOfflineSameTrip DEF ClearPendingOffline, OrNone
<1>3. SameTrip(st, [st EXCEPT !.dev.pending_offline_at = now])
    BY PendingOfflineSameTrip DEF OrNone
<1>4. EcuStatusChange(st, "online", now) = st
    BY DEF EcuStatusChange, Clamped
<1> QED BY <1>1, <1>2, <1>3, <1>4 DEF EcuReport, Clamped

LEMMA StatusMessageSameTrip ==
    ASSUME NEW st, Shaped(st), st.dev.exists, NEW ecu \in EcuStatus, now \in Time, Clamped
    PROVE  SameTrip(st, StatusMessage(st, ecu))
<1>1. Discover(st) = st
    BY DEF Discover
<1>2. SameTrip(st, EcuReport(st, ecu))
    BY EcuReportSameTrip
<1>3. SameTrip(EcuReport(st, ecu), UpdateStatus(EcuReport(st, ecu), ecu))
    BY <1>2, UpdateStatusSameTrip DEF SameTrip, OrNone
<1> QED BY <1>1, <1>2, <1>3, SameTripBoth DEF StatusMessage

-----------------------------------------------------------------------------
(* A payload is the telemetry it stores, or less. *)

LEMMA TelemetryIsStored ==
    ASSUME NEW st, Shaped(st), st.dev.exists, NEW b, now \in Time, Clamped
    PROVE  \E mid : /\ SameTrip(st, mid)
                    /\ TelemetryMessage(st, b) \in {mid, StoreTelemetry(mid, b, now)}
<1> DEFINE recovered == ClearPendingOffline(st)
           awake     == IF st.dev.ecu_status = "online" THEN recovered
                        ELSE EcuStatusChange(recovered, "online", now)
           seen      == UpdateStatus(awake, "online")
<1>1. SameTrip(st, st)
    BY DEF SameTrip
<1>2. SameTrip(st, recovered)
    BY PendingOfflineSameTrip DEF ClearPendingOffline, OrNone
<1>3. awake = recovered
    BY DEF EcuStatusChange, Clamped
<1> HIDE DEF recovered, awake
<1>4. SameTrip(st, seen)
    BY <1>2, <1>3, UpdateStatusSameTrip, SameTripBoth DEF SameTrip, OrNone, EcuStatus
<1>5. TelemetryMessage(st, b) = IF st.dev.vin = None \/ ~st.dev.enabled THEN st
                                ELSE StoreTelemetry(seen, b, now)
    BY DEF TelemetryMessage, recovered, awake
<1> HIDE DEF seen
<1> QED BY <1>1, <1>4, <1>5

LEMMA PayloadIsStored ==
    ASSUME NEW st, Shaped(st), st.dev.exists, NEW ecu \in OrNone(EcuStatus), NEW b, NEW at,
           now \in Time, Clamped
    PROVE  \E mid : /\ SameTrip(st, mid)
                    /\ HttpsMessage(st, ecu, b, at) \in {mid, StoreTelemetry(mid, b, at)}
<1> DEFINE seen == IF ecu = None THEN UpdateStatus(st, None) ELSE StatusMessage(st, ecu)
<1>1. SameTrip(st, seen)
    BY UpdateStatusSameTrip, StatusMessageSameTrip DEF OrNone
<1>2. HttpsMessage(st, ecu, b, at) \in {seen, StoreTelemetry(seen, b, at)}
    BY DEF HttpsMessage
<1> HIDE DEF seen
<1> QED BY <1>1, <1>2

LEMMA ObservedIsPromoted ==
    ASSUME NEW st, Shaped(st), st.dev.exists, NEW b \in MovementSignals, NEW at \in Time,
           NEW live \in BOOLEAN
    PROVE  LET res == ObserveTelemetry(st, b, at, live)
           IN  \E mid : /\ SameTrip(st, mid)
                        /\ \/ res = mid
                           \/ mid.dev.vin # None /\ res = PromoteToDriving(mid, b, at, live)
<1> DEFINE driving == LiveSession(st) # None
           fresh   == IF driving THEN st.dev ELSE ExpireEvidence(st.dev, at)
           st1     == [st EXCEPT !.dev = fresh]
           note    == NoteEvidence(fresh, b, at)
           noted   == [st EXCEPT !.dev = note]
<1>1. fresh \in DeviceRow /\ fresh.current_session_id = Ptr(st)
    BY ShapedFields, ExpireEvidenceTyped DEF Ptr
<1>2. fresh.vin = st.dev.vin /\ fresh.exists
    BY ShapedFields DEF ExpireEvidence, ClearMovement, DeviceRow
<1> HIDE DEF fresh
<1>3. SameTrip(st, st1) /\ st1.dev.vin = st.dev.vin
    BY <1>1, <1>2, SameTripDevice, ShapedFields
<1>4. note \in DeviceRow /\ note.current_session_id = Ptr(st)
    BY <1>1, NoteEvidenceTyped
<1>5. note.exists
    BY <1>1, <1>2 DEF NoteEvidence, DeviceRow
<1> HIDE DEF note
<1>6. SameTrip(st, noted) /\ SameTrip(st, st)
    BY <1>4, <1>5, SameTripDevice DEF SameTrip
<1> HIDE DEF st1, noted
<1>7. ObserveTelemetry(st, b, at, live) \in {st, noted}
      \/ (st.dev.vin # None
          /\ ObserveTelemetry(st, b, at, live) = PromoteToDriving(st1, b, at, live))
    BY DEF ObserveTelemetry, fresh, st1, note, noted
<1> QED
    BY <1>3, <1>6, <1>7

\* So either payload leaves the rows it found, or promotes to driving.
Promotes(st, res, b, at) ==
    \E mid : /\ SameTrip(st, mid)
             /\ \/ res = mid
                \/ /\ mid.dev.vin # None
                   /\ \E live \in BOOLEAN : res = PromoteToDriving(mid, b, at, live)

LEMMA StoredIsPromoted ==
    ASSUME NEW st, NEW mid, SameTrip(st, mid), NEW b \in MovementSignals, NEW at \in Time,
           NEW res, res \in {mid, StoreTelemetry(mid, b, at)}
    PROVE  Promotes(st, res, b, at)
<1>1. CASE res = mid
    BY <1>1 DEF Promotes
<1>2. CASE res = StoreTelemetry(mid, b, at)
  <2> DEFINE live == at - now \in -LiveTolerance..LiveTolerance
  <2>1. live \in BOOLEAN /\ res = ObserveTelemetry(mid, b, at, live)
      BY <1>2 DEF StoreTelemetry
  <2> HIDE DEF live
  <2>2. Shaped(mid) /\ mid.dev.exists
      BY DEF SameTrip
  <2>3. PICK end : /\ SameTrip(mid, end)
                   /\ \/ res = end
                      \/ end.dev.vin # None /\ res = PromoteToDriving(end, b, at, live)
      BY <2>1, <2>2, ObservedIsPromoted
  <2>4. SameTrip(st, end)
      BY <2>3, SameTripBoth
  <2> QED BY <2>1, <2>3, <2>4 DEF Promotes
<1> QED BY <1>1, <1>2

-----------------------------------------------------------------------------
(* Promotion from the pointer of now *)

\* A movement session is open, and the pointer names it.
LEMMA OpensOrAdopts ==
    ASSUME NEW st, Shaped(st), NEW at \in Time, st.dev.vin # None
    PROVE  LiveSession(OpenForMovement(st, at)) # None
<1> DEFINE res  == OpenForMovement(st, at)
           pick == CHOOSE i \in OpenIds(st.ses) : TRUE
           n    == Len(st.ses) + 1
<1>1. CASE OpenIds(st.ses) # {}
  <2>1. pick \in OpenIds(st.ses)
      BY <1>1
  <2>2. res = [st EXCEPT !.dev.current_session_id = pick]
      BY <1>1 DEF OpenForMovement
  <2> HIDE DEF pick
  <2>3. res.dev.current_session_id = pick /\ res.ses = st.ses
      BY <2>2, ShapedFields DEF DeviceRow
  <2>4. pick # None
      BY <2>1, ShapedFields, RowIds DEF OpenIds
  <2> QED BY <2>1, <2>3, <2>4 DEF LiveSession, OpenIds
<1>2. CASE OpenIds(st.ses) = {}
  <2> DEFINE evidence == {st.dev.pending_since, st.dev.movement_candidate_at, at} \ {None}
             started  == Max({Min(evidence), PreviousEnd(sessions)})
             row      == [vin |-> st.dev.vin, started_at |-> started, ended_at |-> None,
                          movement_started_at |->
                              Max({Or(st.dev.movement_candidate_at, at), started}),
                          movement_ended_at |-> at, version |-> 1]
  <2>1. row.ended_at = None /\ res = AddSession(st, row)
      BY <1>2 DEF OpenForMovement
  <2> HIDE DEF row
  <2>2. /\ res.dev.current_session_id = n /\ res.ses = Append(st.ses, row)
      BY <2>1, ShapedFields DEF AddSession, DeviceRow
  <2>3. res.ses[n] = row /\ n \in Int
      BY <2>2, ShapedFields
  <2> HIDE DEF res, n
  <2>4. LiveSession(res) # None
      BY <2>1, <2>2, <2>3, NoneAssumption DEF LiveSession, IsOpen
  <2> QED BY <2>4 DEF res
<1> QED BY <1>1, <1>2

LEMMA MarkMovedPtr ==
    ASSUME NEW st, Shaped(st), st.dev.exists, NEW b \in MovementSignals, NEW at \in Time,
           NEW live \in BOOLEAN, LiveSession(st) # None
    PROVE  LET res == MarkMoved(st, b, at, live)
           IN  /\ Shaped(res) /\ res.dev.exists /\ Ptr(res) = Ptr(st) /\ LiveSession(res) # None
               /\ DOMAIN res.ses = DOMAIN st.ses
               /\ \A i \in DOMAIN st.ses :
                     /\ res.ses[i].started_at = st.ses[i].started_at
                     /\ res.ses[i].ended_at = st.ses[i].ended_at
                     /\ i # Ptr(st) => res.ses[i] = st.ses[i]
<1> DEFINE p  == st.dev.current_session_id
           s  == Or(st.ses[p].movement_started_at, at)
           mm == MarkMoved(st, b, at, live)
<1>1. p # None /\ p \in DOMAIN st.ses /\ IsOpen(st.ses[p])
    BY ShapedFields, LiveSessionPointed DEF OrNone, LiveSession
<1>2. Shaped(mm)
    BY <1>1, MarkMovedShaped
<1>3. mm.dev.current_session_id = p /\ mm.dev.exists
    BY ShapedFields DEF MarkMoved, DeviceRow
<1>4. mm.ses = [st.ses EXCEPT ![p].movement_started_at = s, ![p].movement_ended_at = at]
    BY ShapedFields DEF MarkMoved
<1>5. mm.ses = [st.ses EXCEPT ![p] = [st.ses[p] EXCEPT !.movement_started_at = s,
                                                       !.movement_ended_at = at]]
    BY <1>1, <1>4, ShapedFields
<1>6. st.ses[p] \in SessionRow
    BY <1>1, ShapedFields
<1>7. DOMAIN mm.ses = DOMAIN st.ses
    BY <1>5
<1>8. \A i \in DOMAIN st.ses : /\ mm.ses[i].started_at = st.ses[i].started_at
                               /\ mm.ses[i].ended_at = st.ses[i].ended_at
                               /\ i # p => mm.ses[i] = st.ses[i]
    BY <1>5, <1>6 DEF SessionRow
<1> HIDE DEF mm
<1>9. LiveSession(mm) # None
    BY <1>1, <1>3, <1>8 DEF LiveSession, IsOpen
<1> QED BY <1>2, <1>3, <1>7, <1>8, <1>9 DEF mm, Ptr

LEMMA OpenKeepsDevice ==
    ASSUME NEW st, Shaped(st), st.dev.exists, NEW at
    PROVE  OpenForMovement(st, at).dev.exists
<1>1. ASSUME NEW i, NEW row
      PROVE  /\ [st EXCEPT !.dev.current_session_id = i].dev.exists
             /\ AddSession(st, row).dev.exists
    BY ShapedFields DEF AddSession, DeviceRow
<1> QED BY <1>1 DEF OpenForMovement

\* Confirmed movement of this instant: the pointer moves on as Moves says.
LEMMA PromoteMoves ==
    ASSUME NEW st, Shaped(st), st.dev.exists, st.dev.vin # None, now \in Time,
           NEW b \in MovementSignals, NEW live \in BOOLEAN
    PROVE  Moves(st, PromoteToDriving(st, b, now, live))
<1> DEFINE p        == Ptr(st)
           gone     == [st EXCEPT !.dev.current_session_id = None]
           again    == [dev |-> st.dev, ses |-> [st.ses EXCEPT ![p].ended_at = None]]
           reopened == IF LiveSession(st) = None THEN ReopenAwaiting(st, now) ELSE st
           opened   == IF LiveSession(reopened) = None
                       THEN OpenForMovement(reopened, now) ELSE reopened
           res      == MarkMoved(opened, b, now, live)
<1>1. Shaped(reopened) /\ reopened.dev.vin # None
    BY ReopenShaped, ReopenKeepsVin
<1>2. \/ reopened = st /\ LiveSession(st) # None
      \/ reopened = st /\ LiveSession(st) = None /\ p = None
      \/ /\ LiveSession(st) = None /\ p # None
         /\ \/ reopened = gone /\ now - Moved(st.ses[p]) > Gap
            \/ reopened = again
    BY DEF ReopenAwaiting, Ptr, Moved
<1>3. /\ gone.ses = st.ses /\ gone.dev.exists /\ Ptr(gone) = None
      /\ LiveSession(gone) = None
    BY ShapedFields DEF DeviceRow, LiveSession, Ptr
<1>4. again.dev = st.dev
    OBVIOUS
<1>5. p # None => p \in DOMAIN st.ses
    BY ShapedFields DEF Ptr, OrNone
<1>6. p # None => LiveSession(again) # None
  <2> SUFFICES ASSUME p # None PROVE LiveSession(again) # None
      OBVIOUS
  <2>1. again.ses[p].ended_at = None
      BY <1>5, ShapedFields DEF SessionRow
  <2> QED BY <2>1 DEF LiveSession, IsOpen, Ptr
<1> HIDE DEF again, gone
<1>7. reopened.dev.exists
    BY <1>2, <1>3, <1>4
<1> HIDE DEF reopened
<1>8. Shaped(opened) /\ opened.dev.exists /\ LiveSession(opened) # None
    BY <1>1, <1>7, OpenForMovementShaped, OpensOrAdopts, OpenKeepsDevice
<1>9. LiveSession(reopened) # None => opened = reopened
    OBVIOUS
<1>10. \A i \in DOMAIN reopened.ses : i \in DOMAIN opened.ses /\ opened.ses[i] = reopened.ses[i]
    BY <1>1, OpenOpensNone
<1> HIDE DEF opened
<1>11. /\ Ptr(res) = Ptr(opened) /\ LiveSession(res) # None
       /\ DOMAIN res.ses = DOMAIN opened.ses
       /\ \A i \in DOMAIN opened.ses : i # Ptr(opened) => res.ses[i] = opened.ses[i]
    BY <1>8, MarkMovedPtr
<1>12. PromoteToDriving(st, b, now, live) = res
    BY DEF PromoteToDriving, opened, reopened
<1> HIDE DEF res
<1>13. CASE reopened = st /\ LiveSession(st) # None
    BY <1>9, <1>11, <1>12, <1>13 DEF Moves
<1>14. CASE reopened = st /\ LiveSession(st) = None /\ p = None
    BY <1>11, <1>12, <1>14 DEF Moves
<1>15. CASE LiveSession(st) = None /\ p # None /\ reopened = again
  <2>1. Ptr(res) = Ptr(st)
      BY <1>4, <1>6, <1>9, <1>11, <1>15 DEF Ptr
  <2> QED BY <2>1, <1>12, <1>15 DEF Moves
<1>16. CASE LiveSession(st) = None /\ p # None /\ reopened = gone
            /\ now - Moved(st.ses[p]) > Gap
  <2>1. p \in DOMAIN opened.ses /\ opened.ses[p] = st.ses[p] /\ ~IsOpen(st.ses[p])
      BY <1>3, <1>5, <1>10, <1>16 DEF LiveSession, Ptr
  <2>2. IsOpen(opened.ses[Ptr(opened)])
      BY <1>8 DEF LiveSession, Ptr
  <2>3. res.ses[p] = st.ses[p] /\ p \in DOMAIN res.ses
      BY <1>11, <2>1, <2>2
  <2> QED BY <2>3, <1>11, <1>12, <1>16 DEF Moves
<1> QED BY <1>2, <1>13, <1>14, <1>15, <1>16

\* From a pointer that trails: the session it names is let go of again, and
\* the open one is adopted.
LEMMA PromoteOvertaken ==
    ASSUME NEW st, Shaped(st), st.dev.exists, st.dev.vin # None, now \in Time,
           NEW b \in MovementSignals, NEW live \in BOOLEAN,
           NEW q \in DOMAIN st.ses, OpenIds(st.ses) = {q},
           Ptr(st) # None => ~IsOpen(st.ses[Ptr(st)]) /\ now - Moved(st.ses[Ptr(st)]) > Gap
    PROVE  Overtaken(st, PromoteToDriving(st, b, now, live), q)
<1> DEFINE p        == Ptr(st)
           gone     == [st EXCEPT !.dev.current_session_id = None]
           opened   == [gone EXCEPT !.dev.current_session_id = q]
           res      == MarkMoved(opened, b, now, live)
<1>1. LiveSession(st) = None
    BY DEF LiveSession, Ptr
<1>2. ReopenAwaiting(st, now) = gone
  <2>1. CASE p # None
      BY <2>1 DEF ReopenAwaiting, Ptr, Moved
  <2>2. CASE p = None
    <3>1. [st.dev EXCEPT !.current_session_id = None] = st.dev
        BY <2>2, ShapedFields DEF Ptr, DeviceRow
    <3>2. gone = st
        BY <3>1, ShapedFields
    <3> QED BY <2>2, <3>2 DEF ReopenAwaiting, Ptr
  <2> QED BY <2>1, <2>2
<1>3. Shaped(gone) /\ gone.ses = st.ses /\ gone.dev.exists /\ gone.dev.current_session_id = None
  <2>1. Shaped(gone)
    <3>1. Shaped(ReopenAwaiting(st, now))
        BY ReopenShaped
    <3> HIDE DEF gone
    <3> QED BY <1>2, <3>1
  <2>2. gone.ses = st.ses /\ gone.dev.exists /\ gone.dev.current_session_id = None
      BY ShapedFields DEF DeviceRow
  <2> QED BY <2>1, <2>2
<1>4. LiveSession(gone) = None
    BY <1>3 DEF LiveSession
<1>5. OpenForMovement(gone, now) = opened
  <2>1. (CHOOSE i \in OpenIds(st.ses) : TRUE) = q
      BY Zenon
  <2> HIDE DEF gone
  <2> QED BY <1>3, <2>1 DEF OpenForMovement
<1>6. Shaped(opened) /\ opened.ses = st.ses /\ opened.dev.exists /\ Ptr(opened) = q
  <2>1. gone.dev.vin # None
      BY ShapedFields DEF DeviceRow
  <2> HIDE DEF gone
  <2>2. Shaped(opened)
      BY <1>3, <1>5, <2>1, OpenForMovementShaped
  <2> QED BY <1>3, <2>2, ShapedFields DEF DeviceRow, Ptr
<1>7. PromoteToDriving(st, b, now, live) = res
  <2> HIDE DEF gone, opened
  <2> QED BY <1>1, <1>2, <1>4, <1>5 DEF PromoteToDriving
<1> HIDE DEF gone, opened
<1>8. LiveSession(opened) # None
  <2>1. q # None /\ IsOpen(st.ses[q])
      BY ShapedFields, RowIds DEF OpenIds
  <2> QED BY <1>6, <2>1 DEF LiveSession, Ptr
<1>9. /\ Shaped(res) /\ res.dev.exists /\ Ptr(res) = q
      /\ DOMAIN res.ses = DOMAIN st.ses
      /\ \A i \in DOMAIN st.ses :
             /\ res.ses[i].started_at = st.ses[i].started_at
             /\ res.ses[i].ended_at = st.ses[i].ended_at
             /\ i # q => res.ses[i] = st.ses[i]
    BY <1>6, <1>8, MarkMovedPtr
<1> HIDE DEF res
<1> QED BY <1>7, <1>9 DEF Overtaken

-----------------------------------------------------------------------------
(* What is written back *)

\* The columns come from one row or the other.
LEMMA DirtyTyped ==
    ASSUME NEW loaded \in DeviceRow, NEW result \in DeviceRow, NEW stored \in DeviceRow,
           NEW forced, "current_session_id" \notin forced
    PROVE  LET row == Dirty(loaded, result, stored, forced)
           IN  /\ row \in DeviceRow
               /\ row.current_session_id =
                     IF result.current_session_id # loaded.current_session_id
                     THEN result.current_session_id ELSE stored.current_session_id
               /\ result.exists /\ stored.exists => row.exists
<1> DEFINE row == Dirty(loaded, result, stored, forced)
<1>1. DOMAIN row = DOMAIN stored
    BY DEF Dirty
<1>2. DOMAIN stored =
        {"exists", "vin", "enabled", "ecu_status", "device_status", "last_seen",
         "pending_offline_at", "current_session_id", "pending_since",
         "movement_candidate_at", "movement_baseline_km", "last_movement_at"}
    BY DEF DeviceRow
<1>3. row = [c \in DOMAIN stored |-> row[c]]
    BY DEF Dirty
<1>4. \A c \in DOMAIN stored : row[c] = result[c] \/ row[c] = stored[c]
    BY DEF Dirty
<1>5. row.current_session_id =
          IF result.current_session_id # loaded.current_session_id
          THEN result.current_session_id ELSE stored.current_session_id
    BY <1>2 DEF Dirty
<1> HIDE DEF row
<1>6. row \in DeviceRow
    BY <1>1, <1>2, <1>3, <1>4 DEF DeviceRow
<1>7. result.exists /\ stored.exists => row.exists
    BY <1>2, <1>4
<1> QED BY <1>5, <1>6, <1>7 DEF row

-----------------------------------------------------------------------------
(* The commit of an ingest transaction *)

\* What a transaction has loaded: a device row of this instant, and an input.
Snapshot(t) ==
    /\ t.dev \in DeviceRow /\ t.dev.exists
    /\ t.input.ecu \in OrNone(EcuStatus)
    /\ t.input.batch \in MovementSignals
    /\ t.input.at = now
    /\ Trails(t.dev.current_session_id, State)

Calm == SteadyInv /\ mode = "movement"

RaceInv ==
    /\ Calm
    /\ tx = [r \in Racer |-> tx[r]]
    /\ \A r \in Racer : Loaded(r) => Snapshot(tx[r])

LEMMA LockedShaped ==
    ASSUME Calm, Grace > 0, NEW r, Snapshot(tx[r])
    PROVE  /\ Shaped(UnderLock(r)) /\ UnderLock(r).dev.exists
           /\ UnderLock(r).ses = sessions
           /\ Ptr(UnderLock(r)) = tx[r].dev.current_session_id
           /\ now \in Time /\ Clamped
<1>1. /\ UnderLock(r).dev = tx[r].dev /\ UnderLock(r).ses = sessions
      /\ UnderLock(r).dev.current_session_id = tx[r].dev.current_session_id
    BY DEF UnderLock
<1>2. now \in Time /\ Clamped /\ sessions \in Seq(SessionRow) /\ State.ses = sessions
      /\ device.current_session_id \in OrNone(DOMAIN sessions)
      /\ State.dev = device
    BY DEF Calm, SteadyInv, TypeOK, Clamped, State
<1>3. tx[r].dev.current_session_id \in OrNone(DOMAIN sessions)
    BY <1>2 DEF Snapshot, Trails, Ptr, OrNone
<1>4. Shaped(UnderLock(r))
    BY <1>2, <1>3, ShapedPair DEF UnderLock, Snapshot
<1> QED BY <1>1, <1>2, <1>4 DEF Snapshot, Ptr

LEMMA OutcomePromotes ==
    ASSUME Calm, Grace > 0, NEW r \in {"mqtt", "https"}, Snapshot(tx[r])
    PROVE  /\ Promotes(UnderLock(r), Outcome(r), tx[r].input.batch, now)
           /\ Shaped(Outcome(r))
<1> DEFINE st == UnderLock(r)
           in == tx[r].input
<1>1. Shaped(st) /\ st.dev.exists /\ now \in Time /\ Clamped
    BY LockedShaped
<1>2. in.batch \in MovementSignals /\ in.ecu \in OrNone(EcuStatus) /\ in.at = now
    BY DEF Snapshot
<1>3. Outcome(r) \in {TelemetryMessage(st, in.batch), HttpsMessage(st, in.ecu, in.batch, now)}
    BY <1>2 DEF Outcome
<1> HIDE DEF st, in
<1>4. \E mid : SameTrip(st, mid) /\ Outcome(r) \in {mid, StoreTelemetry(mid, in.batch, now)}
    BY <1>1, <1>2, <1>3, TelemetryIsStored, PayloadIsStored
<1>5. Promotes(st, Outcome(r), in.batch, now)
    BY <1>1, <1>2, <1>4, StoredIsPromoted
<1>6. Shaped(TelemetryMessage(st, in.batch))
    BY <1>1, <1>2, TelemetryMessageShaped
<1>7. Shaped(HttpsMessage(st, in.ecu, in.batch, now))
    BY <1>1, <1>2, HttpsMessageShaped DEF OrNone
<1> QED BY <1>3, <1>5, <1>6, <1>7 DEF st, in

\* From the pointer of now, whatever else the loaded row holds: an ingest like
\* any other.
LEMMA InTime ==
    ASSUME Calm, Grace > 0, NEW r \in {"mqtt", "https"}, Snapshot(tx[r]),
           tx[r].dev.current_session_id = device.current_session_id
    PROVE  /\ Tidy(Outcome(r))
           /\ OneMore(UnderLock(r), Outcome(r))
           /\ Keeps(UnderLock(r), Outcome(r))
           /\ Moves(UnderLock(r), Outcome(r))
<1> DEFINE st  == UnderLock(r)
           in  == tx[r].input
           out == Outcome(r)
<1>1. /\ Shaped(st) /\ st.dev.exists /\ now \in Time /\ Clamped
      /\ st.ses = sessions /\ Ptr(st) = device.current_session_id
    BY LockedShaped
<1>2. in.batch \in MovementSignals /\ in.ecu \in OrNone(EcuStatus) /\ in.at = now
    BY DEF Snapshot
<1>3. out \in {TelemetryMessage(st, in.batch), HttpsMessage(st, in.ecu, in.batch, now)}
    BY <1>2 DEF Outcome
<1>4. Promotes(st, out, in.batch, now)
    BY OutcomePromotes
<1>5. /\ State.ses = sessions /\ State.dev.current_session_id = device.current_session_id
      /\ Tidy(State) /\ Shaped(State)
    BY StateShaped DEF State, Calm, SteadyInv
<1> HIDE DEF st, in, out
<1>6. Tidy(st)
    BY <1>1, <1>5, TidySame DEF Ptr
<1>7. mode = "movement" /\ in.batch \in OrNone(MovementSignals)
    BY <1>2 DEF Calm, OrNone
<1>8. Tidy(out)
    BY <1>1, <1>2, <1>3, <1>6, <1>7, TelemetryMessageTidy, HttpsMessageTidy
<1>9. OneMore(st, out)
    BY <1>1, <1>2, <1>3, <1>7, TelemetryMessageOneMore, HttpsMessageOneMore
<1>10. Keeps(st, out)
    BY <1>1, <1>2, <1>3, <1>7, TelemetryMessageKeeps, HttpsMessageKeeps
<1>11. Moves(st, out)
  <2>1. PICK mid : /\ SameTrip(st, mid)
                   /\ \/ out = mid
                      \/ /\ mid.dev.vin # None
                         /\ \E live \in BOOLEAN :
                                out = PromoteToDriving(mid, in.batch, now, live)
      BY <1>4 DEF Promotes
  <2>2. Shaped(mid) /\ mid.dev.exists /\ mid.ses = st.ses /\ Ptr(mid) = Ptr(st)
      BY <2>1 DEF SameTrip
  <2>3. LiveSession(mid) = LiveSession(st)
      BY <2>2 DEF LiveSession, Ptr
  <2>4. CASE out = mid
      BY <2>2, <2>3, <2>4 DEF Moves
  <2>5. CASE out # mid
    <3>1. Moves(mid, out)
        BY <1>1, <1>2, <2>1, <2>2, <2>5, PromoteMoves
    <3> QED BY <2>2, <2>3, <3>1 DEF Moves
  <2> QED BY <2>4, <2>5
<1> QED BY <1>8, <1>9, <1>10, <1>11 DEF st, out

\* From a pointer that trails: the one open session is left the only one.
LEMMA TooLate ==
    ASSUME Calm, Grace > 0, NEW r \in {"mqtt", "https"}, Snapshot(tx[r]),
           tx[r].dev.current_session_id # device.current_session_id
    PROVE  /\ OpenIds(sessions) = {device.current_session_id}
           /\ Overtaken(UnderLock(r), Outcome(r), device.current_session_id)
<1> DEFINE st  == UnderLock(r)
           out == Outcome(r)
           q   == device.current_session_id
           b   == tx[r].input.batch
<1>1. /\ Shaped(st) /\ st.dev.exists /\ now \in Time
      /\ st.ses = sessions /\ Ptr(st) = tx[r].dev.current_session_id
    BY LockedShaped
<1>2. Promotes(st, out, b, now) /\ b \in MovementSignals
    BY OutcomePromotes DEF Snapshot
<1>3. /\ State.ses = sessions /\ State.dev.current_session_id = q
      /\ Tidy(State) /\ Shaped(State)
    BY StateShaped DEF State, Calm, SteadyInv
<1>4. /\ LiveSession(State) # None
      /\ Ptr(st) # None => ~IsOpen(st.ses[Ptr(st)]) /\ now - Moved(st.ses[Ptr(st)]) > Gap
    BY <1>1, <1>3 DEF Snapshot, Trails, Ptr
<1> HIDE DEF st, out, q, b
<1>5. q # None /\ q \in DOMAIN sessions /\ IsOpen(sessions[q])
    BY <1>3, <1>4, ShapedFields, LiveSessionPointed DEF LiveSession, OrNone
<1>6. OpenIds(sessions) = {q}
    BY <1>3, <1>5 DEF Tidy, OpenIds
<1>7. PICK mid : /\ SameTrip(st, mid)
                 /\ \/ out = mid
                    \/ /\ mid.dev.vin # None
                       /\ \E live \in BOOLEAN : out = PromoteToDriving(mid, b, now, live)
    BY <1>2 DEF Promotes
<1>8. Shaped(mid) /\ mid.dev.exists /\ mid.ses = st.ses /\ Ptr(mid) = Ptr(st)
    BY <1>7 DEF SameTrip
<1>9. ASSUME out = mid PROVE Overtaken(st, out, q)
    BY <1>8, <1>9 DEF Overtaken
<1>10. ASSUME out # mid PROVE Overtaken(st, out, q)
  <2>1. Overtaken(mid, out, q)
      BY <1>1, <1>2, <1>4, <1>5, <1>6, <1>7, <1>8, <1>10, PromoteOvertaken
  <2> QED BY <1>8, <2>1 DEF Overtaken
<1> QED BY <1>6, <1>9, <1>10 DEF st, out, q

\* So the index rejects neither.
LEMMA OutcomeUnique ==
    ASSUME Calm, Grace > 0, NEW r \in {"mqtt", "https"}, Snapshot(tx[r])
    PROVE  UniqueOpen(Outcome(r).ses)
<1>1. CASE tx[r].dev.current_session_id = device.current_session_id
    BY <1>1, InTime, TidyUnique
<1>2. CASE tx[r].dev.current_session_id # device.current_session_id
  <2> DEFINE out == Outcome(r)
  <2>1. /\ OpenIds(sessions) = {device.current_session_id}
        /\ Overtaken(UnderLock(r), out, device.current_session_id)
      BY <1>2, TooLate
  <2>2. UnderLock(r).ses = sessions
      BY LockedShaped
  <2> HIDE DEF out
  <2>3. OpenIds(out.ses) = OpenIds(sessions)
      BY <2>1, <2>2 DEF Overtaken, OpenIds, IsOpen
  <2> QED BY <2>1, <2>3 DEF UniqueOpen, out
<1> QED BY <1>1, <1>2

\* A step to the rows res.
Leads(res) == State' = res /\ now' = now /\ mode' = mode

LEMMA LeadsSteady ==
    ASSUME SteadyInv, NEW res, Shaped(res), Tidy(res), Leads(res)
    PROVE  SteadyInv'
<1>1. State' = res /\ mode' = mode /\ now' = now
    BY DEF Leads
<1>2. device' = res.dev /\ sessions' = res.ses
    BY <1>1 DEF State
<1>3. TypeOK'
    BY <1>1, <1>2, ShapedFields DEF TypeOK, SteadyInv
<1>4. Tidy(State)'
    BY <1>1 DEF Tidy, Clamped, OpenIds, IsOpen
<1> QED BY <1>3, <1>4 DEF SteadyInv

\* The commit of a racing payload: a step like those of the specification in
\* which nothing is taken apart.
LEMMA CommitRaces ==
    ASSUME Calm, Grace > 0, NEW r \in {"mqtt", "https"}, Snapshot(tx[r]), IngestCommit(r)
    PROVE  SteadyInv' /\ Advance /\ Moves(State, State')
<1> DEFINE st  == UnderLock(r)
           out == Outcome(r)
           dev == Dirty(tx[r].dev, out.dev, device, Forced(r))
           res == [dev |-> dev, ses |-> out.ses]
<1>1. /\ Shaped(st) /\ st.ses = sessions /\ now \in Time
      /\ Ptr(st) = tx[r].dev.current_session_id
    BY LockedShaped
<1>2. Shaped(out) /\ UniqueOpen(out.ses)
    BY OutcomePromotes, OutcomeUnique
<1>3. device' = dev /\ sessions' = out.ses /\ now' = now /\ mode' = mode
    BY <1>2 DEF IngestCommit, End
<1>4. /\ State.ses = sessions /\ State.dev = device
      /\ Tidy(State) /\ Shaped(State) /\ device.exists /\ SteadyInv
    BY StateShaped DEF State, Calm, SteadyInv, Tidy
<1>5. tx[r].dev \in DeviceRow /\ device \in DeviceRow /\ out.dev \in DeviceRow
    BY <1>2, <1>4, ShapedFields DEF Snapshot
<1>6. "current_session_id" \notin Forced(r)
    BY DEF Forced
<1>7. /\ dev \in DeviceRow
      /\ dev.current_session_id =
            IF out.dev.current_session_id # tx[r].dev.current_session_id
            THEN out.dev.current_session_id ELSE device.current_session_id
      /\ out.dev.exists => dev.exists
    BY <1>4, <1>5, <1>6, DirtyTyped
<1>8. res.dev = dev /\ res.ses = out.ses /\ Leads(res)
    BY <1>3 DEF Leads, State
<1>9. DOMAIN out.ses = 1..Len(out.ses) /\ DOMAIN sessions = 1..Len(sessions)
      /\ Len(out.ses) \in Nat /\ Len(sessions) \in Nat
    BY <1>1, <1>2, ShapedFields
<1> HIDE DEF st, out, dev, res
<1>10. CASE tx[r].dev.current_session_id = device.current_session_id
  <2>1. Tidy(out) /\ OneMore(st, out) /\ Keeps(st, out) /\ Moves(st, out)
      BY <1>10, InTime DEF st, out
  <2>2. dev.current_session_id = out.dev.current_session_id
      BY <1>7, <1>10
  <2>3. Shaped(res)
      BY <1>2, <1>7, <1>8, <2>2, ShapedFields, ShapedPair DEF res
  <2>4. Tidy(res)
      BY <1>2, <1>7, <1>8, <2>1, <2>2, <2>3, TidySame DEF Tidy
  <2>5. Ptr(st) = Ptr(State) /\ Ptr(out) = Ptr(res)
      BY <1>1, <1>4, <1>8, <1>10, <2>2 DEF Ptr
  <2>6. LiveSession(st) = LiveSession(State) /\ LiveSession(out) = LiveSession(res)
      BY <1>1, <1>4, <1>8, <2>5 DEF Ptr, LiveSession
  <2>7. OneMore(State, res) /\ Moves(State, res)
      BY <1>1, <1>4, <1>8, <2>1, <2>5, <2>6 DEF OneMore, Moves
  <2>8. Keeps(State, res)
      BY <1>1, <1>4, <1>8, <2>1, <2>5 DEF Keeps, LetGo, Ptr
  <2> QED BY <1>4, <1>8, <2>3, <2>4, <2>7, <2>8, LeadsSteady DEF Leads, Advance
<1>11. CASE tx[r].dev.current_session_id # device.current_session_id
  <2> DEFINE q == device.current_session_id
  <2>1. OpenIds(sessions) = {q} /\ Overtaken(st, out, q)
      BY <1>11, TooLate DEF st, out
  <2> HIDE DEF q
  <2>2. dev.current_session_id = q
      BY <1>1, <1>7, <2>1 DEF Overtaken, Ptr, q
  <2>3. out.dev.exists /\ DOMAIN out.ses = DOMAIN sessions
      BY <1>1, <2>1 DEF Overtaken
  <2>4. \A i \in DOMAIN sessions : /\ out.ses[i].started_at = sessions[i].started_at
                                   /\ out.ses[i].ended_at = sessions[i].ended_at
                                   /\ i # q => out.ses[i] = sessions[i]
      BY <1>1, <2>1 DEF Overtaken
  <2>5. q \in DOMAIN sessions /\ q \in OrNone(DOMAIN out.ses)
      BY <2>1, <2>3 DEF OpenIds, OrNone
  <2>6. Shaped(res)
      BY <1>2, <1>7, <2>2, <2>5, ShapedFields, ShapedPair DEF res
  <2>7. Tidy(res)
      BY <1>4, <1>7, <1>8, <2>2, <2>3, <2>4, <2>6, TidySame DEF q
  <2>8. Ptr(State) = q /\ Ptr(res) = q
      BY <1>4, <1>8, <2>2 DEF Ptr, q
  <2>9. OneMore(State, res)
      BY <1>4, <1>8, <1>9, <2>3, <2>4 DEF OneMore
  <2>10. Keeps(State, res)
      BY <1>4, <1>8, <2>1, <2>3, <2>4, <2>8 DEF Keeps, LetGo, Ptr, OpenIds
  <2>11. Moves(State, res)
      BY <1>4, <1>8, <2>3, <2>4, <2>5, <2>8 DEF Moves, LiveSession, IsOpen, Ptr
  <2> QED BY <1>4, <1>8, <2>6, <2>7, <2>9, <2>10, <2>11, LeadsSteady DEF Leads, Advance
<1> QED BY <1>10, <1>11

\* A pointer that was that of the row, or trailed it, does so after such a step.
LEMMA TrailsOn ==
    ASSUME Calm, NEW p, Trails(p, State), Keeps(State, State'), Moves(State, State'),
           now' = now
    PROVE  Trails(p, State)'
<1> DEFINE st == State
           to == State'
<1>1. Shaped(st) /\ Tidy(st)
    BY StateShaped DEF Calm, SteadyInv
<1>2. SUFFICES \/ p = Ptr(to)
               \/ /\ LiveSession(to) # None
                  /\ p # None => /\ p \in DOMAIN to.ses /\ ~IsOpen(to.ses[p])
                                 /\ now - Moved(to.ses[p]) > Gap
    BY DEF Trails, LiveSession, Ptr, Moved, Or, IsOpen
<1>3. Keeps(st, to) /\ Moves(st, to) /\ Trails(p, st)
    OBVIOUS
<1>4. Ptr(st) # None => Ptr(st) \in DOMAIN st.ses
    BY <1>1, ShapedFields DEF Ptr, OrNone
<1>5. LiveSession(st) # None => IsOpen(st.ses[Ptr(st)]) /\ Ptr(st) # None
    BY DEF LiveSession, Ptr
<1>6. LiveSession(st) = None /\ Ptr(st) # None => ~IsOpen(st.ses[Ptr(st)])
    BY DEF LiveSession, Ptr
<1> HIDE DEF st, to
<1>7. CASE p = Ptr(st)
  <2>1. CASE Ptr(to) = Ptr(st)
      BY <1>7, <2>1
  <2>2. CASE Ptr(to) # Ptr(st)
      BY <1>3, <1>6, <1>7, <2>2 DEF Moves
  <2> QED BY <2>1, <2>2
<1>8. CASE p # Ptr(st)
  <2>1. LiveSession(st) # None
      BY <1>3, <1>8 DEF Trails
  <2>2. LiveSession(to) # None
      BY <1>3, <2>1 DEF Moves
  <2>3. ASSUME p # None
        PROVE  p \in DOMAIN st.ses /\ ~IsOpen(st.ses[p]) /\ now - Moved(st.ses[p]) > Gap
      BY <1>3, <1>8, <2>3 DEF Trails
  <2>4. ASSUME p # None PROVE p \in DOMAIN to.ses /\ to.ses[p] = st.ses[p]
      BY <1>3, <1>8, <2>3, <2>4 DEF Keeps, LetGo, Ptr
  <2> QED BY <2>2, <2>3, <2>4
<1> QED BY <1>7, <1>8

-----------------------------------------------------------------------------
(* The invariant *)

\* Settings and clock of the theorems: movement boundaries, a grace period,
\* samples of the moment, and only the two ingests taken apart.
Ingests ==
    /\ Modes = {"movement"} /\ Grace > 0 /\ Skew = {0}
    /\ Racer \subseteq {"mqtt", "https"}

LEMMA RaceStart == Ingests /\ RaceInit => RaceInv
<1> SUFFICES ASSUME Ingests, RaceInit PROVE RaceInv
    OBVIOUS
<1>1. Calm
    BY SteadyInit DEF RaceInit, Init, Ingests, Calm
<1>2. tx = [r \in Racer |-> Idle]
    BY DEF RaceInit
<1> QED BY <1>1, <1>2 DEF RaceInv, Loaded

\* What every step does to the rows, and to what is loaded.
Races ==
    /\ SteadyInv' /\ mode' = mode /\ Advance
    /\ \/ \A r \in Racer : tx'[r] = Idle
       \/ now' = now /\ Moves(State, State')

\* A step in which nothing is taken apart, from which on nothing is loaded.
LEMMA WholeRaces ==
    ASSUME Ingests, RaceInv, AllIdle, UNCHANGED tx, Tick \/ Jobs
    PROVE  Races
<1>1. [SteadyNext]_vars
    BY DEF SteadyNext
<1>2. SteadyInv' /\ Advance
    BY <1>1, SteadyStep, StepAdvances DEF RaceInv, Calm
<1>3. mode' = mode
    BY DEF Jobs, SessionTimeouts, FinalizeOffline, MarkDeviceOffline, Commit, Tick
<1> QED BY <1>2, <1>3 DEF Races, AllIdle

\* Loading changes no row.
LEMMA BeginRaces ==
    ASSUME Calm, UNCHANGED vars
    PROVE  Races
<1>1. State' = State /\ now' = now /\ mode' = mode
    BY DEF vars, State
<1>2. SteadyInv' /\ Advance
    BY SteadyStep, StepAdvances DEF Calm
<1>3. Moves(State, State')
    BY <1>1 DEF Moves
<1> QED BY <1>1, <1>2, <1>3 DEF Races

LEMMA StatusRaces ==
    ASSUME Calm, Grace > 0, NEW ecu \in EcuStatus, MqttStatus(ecu)
    PROVE  Races
<1> DEFINE res == StatusMessage(State, ecu)
<1>1. [SteadyNext]_vars
    BY DEF SteadyNext, Mqtt
<1>2. SteadyInv' /\ Advance
    BY <1>1, SteadyStep, StepAdvances DEF Calm
<1>3. Shaped(State) /\ State.dev.exists /\ now \in Time /\ Clamped
    BY StateShaped DEF Calm, SteadyInv, Tidy, TypeOK, Clamped
<1>4. SameTrip(State, res)
    BY <1>3, StatusMessageSameTrip
<1>5. device' = res.dev /\ sessions' = res.ses /\ now' = now /\ mode' = mode
    BY DEF MqttStatus, Commit
<1> HIDE DEF res
<1>6. State'.ses = State.ses /\ Ptr(State') = Ptr(State)
    BY <1>4, <1>5 DEF SameTrip, State, Ptr
<1>7. Moves(State, State')
    BY <1>6 DEF Moves, LiveSession, Ptr
<1> QED BY <1>2, <1>5, <1>7 DEF Races

LEMMA IngestRaces ==
    ASSUME Ingests, RaceInv, NEW r \in Racer, IngestCommit(r)
    PROVE  Races
<1>1. Calm /\ Grace > 0 /\ r \in {"mqtt", "https"} /\ Snapshot(tx[r])
    BY DEF RaceInv, Ingests, IngestCommit
<1>2. SteadyInv' /\ Advance /\ Moves(State, State')
    BY <1>1, CommitRaces
<1>3. now' = now /\ mode' = mode
    BY DEF IngestCommit, End
<1> QED BY <1>2, <1>3 DEF Races

\* A load takes the device row and an input; a commit leaves nothing loaded.
Loads(r) ==
    \/ tx' = [tx EXCEPT ![r] = Idle]
    \/ \E ses, in : /\ UNCHANGED vars
                    /\ tx' = [tx EXCEPT ![r] = [phase |-> "loaded", dev |-> device,
                                                ses |-> ses, input |-> in]]
                    /\ in.ecu \in OrNone(EcuStatus) /\ in.batch \in MovementSignals
                    /\ in.at = now

LEMMA StepRaces ==
    ASSUME Ingests, RaceInv, [RaceNext]_raceVars
    PROVE  Races /\ (UNCHANGED tx \/ \E r \in Racer : Loads(r))
<1>0. Calm /\ Grace > 0
    BY DEF RaceInv, Ingests
<1>1. CASE RaceTick
    BY <1>1, WholeRaces DEF RaceTick
<1>2. CASE WholeJob
    BY <1>2, WholeRaces DEF WholeJob, Jobs
<1>3. ASSUME NEW b \in Batch, "mqtt" \in Racer, MqttBegin(b)
      PROVE  Races /\ Loads("mqtt")
  <2> DEFINE in == [ecu |-> "online", batch |-> b, at |-> now]
  <2>1. /\ UNCHANGED vars
        /\ tx' = [tx EXCEPT !["mqtt"] = [phase |-> "loaded", dev |-> device,
                                         ses |-> <<>>, input |-> in]]
      BY <1>3 DEF MqttBegin, Begin
  <2>2. in.ecu \in OrNone(EcuStatus) /\ in.batch \in MovementSignals /\ in.at = now
      BY BatchAssumption DEF OrNone, EcuStatus
  <2> HIDE DEF in
  <2>3. Loads("mqtt")
      BY <2>1, <2>2 DEF Loads
  <2> QED BY <1>0, <2>1, <2>3, BeginRaces
<1>4. ASSUME NEW ecu \in Report, NEW b \in Batch, NEW skew \in Skew, "https" \in Racer,
             HttpsBegin(ecu, b, skew)
      PROVE  Races /\ Loads("https")
  <2> DEFINE in == [ecu |-> ecu, batch |-> b, at |-> now + skew]
  <2>1. /\ UNCHANGED vars
        /\ tx' = [tx EXCEPT !["https"] = [phase |-> "loaded", dev |-> device,
                                          ses |-> <<>>, input |-> in]]
      BY <1>4 DEF HttpsBegin, Begin
  <2>2. now + skew = now
      BY <1>0 DEF Ingests, Calm, SteadyInv, TypeOK, Time
  <2>3. in.ecu \in OrNone(EcuStatus) /\ in.batch \in MovementSignals /\ in.at = now
      BY <2>2, BatchAssumption, ReportAssumption
  <2> HIDE DEF in
  <2>4. Loads("https")
      BY <2>1, <2>3 DEF Loads
  <2> QED BY <1>0, <2>1, <2>4, BeginRaces
<1>5. ASSUME NEW r \in Racer, IngestCommit(r) PROVE Races /\ Loads(r)
  <2>1. Races
      BY <1>5, IngestRaces
  <2>2. tx' = [tx EXCEPT ![r] = Idle]
      BY <1>5 DEF IngestCommit, End
  <2> QED BY <2>1, <2>2 DEF Loads
<1>6. ASSUME NEW ecu \in EcuStatus, MqttStatus(ecu) PROVE Races
    BY <1>0, <1>6, StatusRaces
<1>7. CASE UNCHANGED raceVars
    BY <1>0, <1>7, BeginRaces DEF raceVars, vars
<1>8. ~JobOfRacers
    BY DEF JobOfRacers, JobRacer, Ingests
<1>9. CASE MqttRacer
    BY <1>3, <1>5, <1>6, <1>9 DEF MqttRacer
<1>10. CASE HttpsRacer
    BY <1>4, <1>5, <1>10 DEF HttpsRacer
<1> QED BY <1>1, <1>2, <1>7, <1>8, <1>9, <1>10 DEF RaceNext

LEMMA RaceStep ==
    Ingests /\ RaceInv /\ [RaceNext]_raceVars => RaceInv' /\ Races
<1> SUFFICES ASSUME Ingests, RaceInv, [RaceNext]_raceVars PROVE RaceInv' /\ Races
    OBVIOUS
<1>1. Races /\ (UNCHANGED tx \/ \E r \in Racer : Loads(r))
    BY StepRaces
<1>2. Calm'
    BY <1>1 DEF Races, RaceInv, Calm
<1>3. tx = [r \in Racer |-> tx[r]]
    BY DEF RaceInv
<1>4. tx' = [r \in Racer |-> tx'[r]]
    BY <1>1, <1>3 DEF Loads
<1>5. ASSUME NEW r \in Racer, tx'[r] # Idle PROVE Snapshot(tx[r])'
  <2>1. now' = now /\ Moves(State, State') /\ Keeps(State, State') /\ Calm
      BY <1>1, <1>5 DEF Races, Advance, RaceInv
  <2>2. CASE tx'[r] = tx[r]
    <3>1. Snapshot(tx[r])
        BY <1>5, <2>2 DEF RaceInv, Loaded
    <3>2. Trails(tx[r].dev.current_session_id, State)'
      <4> DEFINE p == tx[r].dev.current_session_id
      <4>1. Trails(p, State)
          BY <3>1 DEF Snapshot
      <4>2. p' = p
          BY <2>2
      <4> HIDE DEF p
      <4>3. Trails(p, State)' 
          BY <2>1, <4>1, <4>2, TrailsOn
      <4> QED BY <4>3 DEF p
    <3> QED BY <2>1, <2>2, <3>1, <3>2 DEF Snapshot
  <2>3. CASE tx'[r] # tx[r]
    <3>1. PICK ses, in : /\ UNCHANGED vars
                         /\ tx'[r] = [phase |-> "loaded", dev |-> device,
                                      ses |-> ses, input |-> in]
                         /\ in.ecu \in OrNone(EcuStatus) /\ in.batch \in MovementSignals
                         /\ in.at = now
        BY <1>1, <1>3, <1>5, <2>3 DEF Loads
    <3>2. tx'[r].dev = device /\ tx'[r].input = in /\ device' = device
        BY <3>1 DEF vars
    <3>3. Trails(device.current_session_id, State)'
        BY DEF Trails, Ptr, State
    <3>4. device \in DeviceRow /\ device.exists
        BY <2>1 DEF Calm, SteadyInv, TypeOK, Tidy, State
    <3> QED BY <2>1, <3>1, <3>2, <3>3, <3>4 DEF Snapshot
  <2> QED BY <2>2, <2>3
<1> QED BY <1>1, <1>2, <1>4, <1>5 DEF RaceInv, Loaded

LEMMA RaceInvariant ==
    ASSUME Ingests
    PROVE  RaceSpec => []RaceInv
BY RaceStart, RaceStep, PTL DEF RaceSpec

-----------------------------------------------------------------------------

\* Whatever an MQTT frame and an HTTPS payload commit between each other's load
\* and commit, the unique index rejects neither: the later one lets go of the
\* session the earlier one has let go of and adopts the one it has opened
\* (_create_session_for_movement's retry).
THEOREM NeitherRaisesEver ==
    ASSUME Ingests
    PROVE  RaceSpec => []NeitherRaises
<1>1. RaceInv => NeitherRaises
  <2> SUFFICES ASSUME RaceInv, NEW r \in Racer \ JobRacer, Loaded(r)
               PROVE  UniqueOpen(Outcome(r).ses)
      BY DEF NeitherRaises
  <2>1. Calm /\ Grace > 0 /\ r \in {"mqtt", "https"} /\ Snapshot(tx[r])
      BY DEF RaceInv, Ingests
  <2> QED BY <2>1, OutcomeUnique
<1> QED BY <1>1, RaceInvariant, PTL

\* Nor does the pointer a transaction writes back from a row it loaded earlier
\* leave an open session that no pointer names.
THEOREM RaceNoOrphan ==
    ASSUME Ingests
    PROVE  RaceSpec => []NoOrphan
<1>1. RaceInv => NoOrphan
    BY DEF RaceInv, Calm, SteadyInv, Tidy, NoOrphan, State
<1> QED BY <1>1, RaceInvariant, PTL

\* And what the two commit between them is a trip log still: no lost update
\* revives a session that was let go of, or moves one before another.
THEOREM RacesWriteATripLog ==
    ASSUME Ingests
    PROVE  RaceSpec => IsTripLog
<1>1. RaceInit => Trips!TripsInit
  <2> SUFFICES ASSUME RaceInit PROVE Log = <<>>
      BY DEF Trips!TripsInit, Log
  <2>1. sessions = <<>>
      BY DEF RaceInit, Init
  <2> QED BY <2>1 DEF Log
<1>2. RaceInv /\ [RaceNext]_raceVars => [Trips!TripsNext]_Log
  <2> SUFFICES ASSUME RaceInv, [RaceNext]_raceVars
               PROVE  Trips!TripsNext \/ Log' = Log
      OBVIOUS
  <2>1. Races /\ RaceInv /\ Grace > 0
      BY RaceStep DEF Ingests
  <2>2. SteadyInv /\ SteadyInv' /\ InOrder /\ InOrder' /\ Advance
      BY <2>1 DEF Races, RaceInv, Calm, SteadyInv, Tidy, Clamped, InOrder, State
  <2> QED BY <2>2, LogAdvances
<1>3. RaceSpec => Trips!TripsInit /\ [][Trips!TripsNext]_Log
    BY <1>1, <1>2, RaceInvariant, PTL DEF RaceSpec
<1> QED BY <1>3, PTL DEF IsTripLog, Trips!TripsSpec, Log
=============================================================================
