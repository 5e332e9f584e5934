------------------------- MODULE DriveHistoryProofs -------------------------
(***************************************************************************)
(* What may happen to a session afterwards.  No handler, job or            *)
(* administrator touches a closed one once the pointer has let go of it,   *)
(* and while the pointer names it only movement inside the gap reopens it. *)
(* And the sessions of a device implement the trip log: rows are only ever *)
(* added at the end, one to a transaction, each begins at or after the end *)
(* of the one before it, and only the last is ever anything but final.     *)
(*                                                                         *)
(* As in DriveSessionProofs, every operator on st has a lemma, and the     *)
(* lemma of a handler follows from those of its calls.                     *)
(***************************************************************************)
EXTENDS DriveSessionProofs, SequenceTheorems

\* A closed row the pointer does not name.
LetGo(st, i) == ~IsOpen(st.ses[i]) /\ st.dev.current_session_id # i

\* From st to res no row is lost, and the rows let go of stay as they are.
Keeps(st, res) ==
    \A i \in DOMAIN st.ses :
        /\ i \in DOMAIN res.ses
        /\ LetGo(st, i) => res.ses[i] = st.ses[i] /\ LetGo(res, i)

\* What two calls keep, their composition keeps.
LEMMA KeepsBoth ==
    ASSUME NEW st, NEW mid, NEW res, Keeps(st, mid), Keeps(mid, res)
    PROVE  Keeps(st, res)
BY DEF Keeps, LetGo

LEMMA KeepsSame == ASSUME NEW st PROVE Keeps(st, st)
BY DEF Keeps

\* A call that writes the device row only, the pointer kept or dropped.
LEMMA KeepsDevice ==
    ASSUME NEW st, Shaped(st), NEW dev,
           dev.current_session_id \in {None, st.dev.current_session_id}
    PROVE  Keeps(st, [st EXCEPT !.dev = dev])
<1> DEFINE res == [st EXCEPT !.dev = dev]
<1>1. res.ses = st.ses /\ res.dev = dev
    BY ShapedFields
<1>2. \A i \in DOMAIN st.ses : i # None
    BY ShapedFields, RowIds
<1> HIDE DEF res
<1> QED BY <1>1, <1>2 DEF Keeps, LetGo

\* A call that writes the pointed row, the pointer kept or dropped.
LEMMA KeepsPointed ==
    ASSUME NEW st, Shaped(st), NEW dev, NEW row, st.dev.current_session_id # None,
           dev.current_session_id \in {None, st.dev.current_session_id}
    PROVE  Keeps(st, [dev |-> dev, ses |-> [st.ses EXCEPT ![st.dev.current_session_id] = row]])
<1> DEFINE p   == st.dev.current_session_id
           ses == [st.ses EXCEPT ![p] = row]
<1>1. DOMAIN ses = DOMAIN st.ses /\ \A i \in DOMAIN st.ses : i # p => ses[i] = st.ses[i]
    BY ShapedFields
<1>2. \A i \in DOMAIN st.ses : i # None
    BY ShapedFields, RowIds
<1> HIDE DEF ses
<1> QED BY <1>1, <1>2 DEF Keeps, LetGo

\* end_session writes the pointed row.
LEMMA EndSessionKeeps ==
    ASSUME NEW st, Shaped(st), NEW at, NEW r \in BOOLEAN
    PROVE  Keeps(st, EndSession(st, at, r))
<1> DEFINE p   == st.dev.current_session_id
           dev == IF r THEN st.dev ELSE [st.dev EXCEPT !.current_session_id = None]
           row == [st.ses[p] EXCEPT !.ended_at = at]
<1>1. CASE p = None
    BY <1>1, KeepsSame DEF EndSession
<1>2. CASE p # None
  <2>1. dev.current_session_id \in {None, p}
      BY ShapedFields DEF DeviceRow
  <2>2. EndSession(st, at, r) = [dev |-> dev, ses |-> [st.ses EXCEPT ![p] = row]]
      BY <1>2 DEF EndSession
  <2> HIDE DEF dev, row
  <2> QED BY <1>2, <2>1, <2>2, KeepsPointed
<1> QED BY <1>1, <1>2

\* An inserted row gets an id of its own.
LEMMA AddSessionKeeps ==
    ASSUME NEW st, Shaped(st), NEW row \in SessionRow
    PROVE  Keeps(st, AddSession(st, row))
<1> DEFINE ses == Append(st.ses, row)
           dev == [st.dev EXCEPT !.current_session_id = Len(st.ses) + 1]
<1>1. \A i \in DOMAIN st.ses : i \in DOMAIN ses /\ ses[i] = st.ses[i] /\ i # Len(st.ses) + 1
    BY ShapedFields
<1>2. dev.current_session_id = Len(st.ses) + 1
    BY ShapedFields DEF DeviceRow
<1>3. AddSession(st, row) = [dev |-> dev, ses |-> ses]
    BY DEF AddSession
<1> HIDE DEF ses, dev
<1> QED BY <1>1, <1>2, <1>3 DEF Keeps, LetGo

LEMMA StartSessionKeeps ==
    ASSUME NEW st, Shaped(st), NEW at \in Time, st.dev.vin # None
    PROVE  Keeps(st, StartSession(st, at))
<1> DEFINE row == [vin |-> st.dev.vin, started_at |-> at, ended_at |-> None,
                   movement_started_at |-> None, movement_ended_at |-> None, version |-> 0]
           mid == EndSession(st, at, FALSE)
<1>1. row \in SessionRow
    BY ShapedFields DEF SessionRow, DeviceRow, OrNone
<1>2. Shaped(mid) /\ Keeps(st, mid)
    BY EndSessionShaped, EndSessionKeeps
<1>3. StartSession(st, at) = AddSession(mid, row)
    BY DEF StartSession
<1> HIDE DEF row, mid
<1> QED BY <1>1, <1>2, <1>3, AddSessionKeeps, KeepsBoth

LEMMA EcuStatusChangeKeeps ==
    ASSUME NEW st, Shaped(st), NEW ecu, NEW at \in Time
    PROVE  Keeps(st, EcuStatusChange(st, ecu, at))
BY StartSessionKeeps, EndSessionKeeps, KeepsSame DEF EcuStatusChange

\* Reopening writes the awaiting row, which the pointer names.
LEMMA ReopenKeeps ==
    ASSUME NEW st, Shaped(st), NEW at
    PROVE  Keeps(st, ReopenAwaiting(st, at))
<1> DEFINE p        == st.dev.current_session_id
           row      == [st.ses[p] EXCEPT !.ended_at = None]
           dev      == [st.dev EXCEPT !.current_session_id = None]
           gone     == [st EXCEPT !.dev = dev]
           reopened == [dev |-> st.dev, ses |-> [st.ses EXCEPT ![p] = row]]
<1>1. ReopenAwaiting(st, at) \in {st, gone, reopened} /\ (p = None => ReopenAwaiting(st, at) = st)
    BY DEF ReopenAwaiting
<1>2. dev.current_session_id = None
    BY ShapedFields DEF DeviceRow
<1> HIDE DEF row, dev
<1>3. Keeps(st, gone)
    BY <1>2, KeepsDevice
<1>4. p # None => Keeps(st, reopened)
    BY KeepsPointed
<1> HIDE DEF gone, reopened
<1> QED BY <1>1, <1>3, <1>4, KeepsSame

\* The row opened is new, and the row adopted is open.
LEMMA OpenForMovementKeeps ==
    ASSUME NEW st, Shaped(st), NEW at \in Time, st.dev.vin # None
    PROVE  Keeps(st, OpenForMovement(st, at))
<1> DEFINE evidence == {st.dev.pending_since, st.dev.movement_candidate_at, at} \ {None}
           started  == Max({Min(evidence), PreviousEnd(sessions)})
           moved    == Max({Or(st.dev.movement_candidate_at, at), started})
           row      == [vin |-> st.dev.vin, started_at |-> started, ended_at |-> None,
                        movement_started_at |-> moved, movement_ended_at |-> at,
                        version |-> 1]
           pick     == CHOOSE i \in OpenIds(st.ses) : TRUE
           res      == [st EXCEPT !.dev.current_session_id = pick]
<1>1. CASE OpenIds(st.ses) # {}
  <2>1. pick \in OpenIds(st.ses)
      BY <1>1
  <2> HIDE DEF pick
  <2>2. res.ses = st.ses /\ res.dev.current_session_id = pick
      BY ShapedFields DEF DeviceRow
  <2>3. OpenForMovement(st, at) = res
      BY <1>1 DEF OpenForMovement, pick
  <2> HIDE DEF res
  <2> QED BY <2>1, <2>2, <2>3 DEF Keeps, LetGo, OpenIds
<1>2. CASE OpenIds(st.ses) = {}
  <2>1. started \in Time /\ moved \in Time
      BY OpeningWindow, ShapedFields
  <2>2. OpenForMovement(st, at) = AddSession(st, row)
      BY <1>2 DEF OpenForMovement
  <2> HIDE DEF started, moved
  <2>3. row \in SessionRow
      BY <2>1, ShapedFields DEF SessionRow, DeviceRow, OrNone
  <2> QED BY <2>2, <2>3, AddSessionKeeps
<1> QED BY <1>1, <1>2

LEMMA MarkMovedKeeps ==
    ASSUME NEW st, Shaped(st), st.dev.current_session_id # None, NEW b, NEW at, NEW live
    PROVE  Keeps(st, MarkMoved(st, b, at, live))
<1> DEFINE p   == st.dev.current_session_id
           dev == [st.dev EXCEPT !.movement_baseline_km = Or(b.odometer, @),
                                 !.last_movement_at = IF live THEN at ELSE @,
                                 !.pending_since = None, !.movement_candidate_at = None]
           row == [st.ses[p] EXCEPT !.movement_started_at = Or(@, at),
                                    !.movement_ended_at = at]
<1>1. p \in DOMAIN st.ses /\ st.ses[p] \in SessionRow
    BY ShapedFields DEF OrNone
<1>2. [st.ses EXCEPT ![p].movement_started_at = Or(@, at), ![p].movement_ended_at = at]
          = [st.ses EXCEPT ![p] = row]
    BY <1>1
<1>3. MarkMoved(st, b, at, live) = [dev |-> dev, ses |-> [st.ses EXCEPT ![p] = row]]
    BY <1>2 DEF MarkMoved
<1>4. dev.current_session_id = p
    BY ShapedFields DEF DeviceRow
<1> HIDE DEF dev, row
<1> QED BY <1>3, <1>4, KeepsPointed

LEMMA PromoteKeeps ==
    ASSUME NEW st, Shaped(st), st.dev.vin # None,
           NEW b \in MovementSignals, NEW at \in Time, NEW live \in BOOLEAN
    PROVE  Keeps(st, PromoteToDriving(st, b, at, live))
<1> DEFINE reopened == IF LiveSession(st) = None THEN ReopenAwaiting(st, at) ELSE st
           opened   == IF LiveSession(reopened) = None
                       THEN OpenForMovement(reopened, at) ELSE reopened
<1>1. Shaped(reopened) /\ reopened.dev.vin # None /\ Keeps(st, reopened)
    BY ReopenShaped, ReopenKeepsVin, ReopenKeeps, KeepsSame
<1> HIDE DEF reopened
<1>2. Shaped(opened) /\ opened.dev.current_session_id # None /\ Keeps(reopened, opened)
    BY <1>1, OpenForMovementShaped, LiveSessionPointed, OpenForMovementKeeps, KeepsSame
<1> HIDE DEF opened
<1>3. Keeps(opened, MarkMoved(opened, b, at, live))
    BY <1>2, MarkMovedKeeps
<1>4. PromoteToDriving(st, b, at, live) = MarkMoved(opened, b, at, live)
    BY DEF PromoteToDriving, opened, reopened
<1> QED BY <1>1, <1>2, <1>3, <1>4, KeepsBoth

LEMMA ObserveKeeps ==
    ASSUME NEW st, Shaped(st), NEW b \in MovementSignals, NEW at \in Time, NEW live \in BOOLEAN
    PROVE  Keeps(st, ObserveTelemetry(st, b, at, live))
<1> DEFINE driving == LiveSession(st) # None
           fresh   == IF driving THEN st.dev ELSE ExpireEvidence(st.dev, at)
           st1     == [st EXCEPT !.dev = fresh]
           noted   == [st EXCEPT !.dev = NoteEvidence(fresh, b, at)]
<1>1. fresh \in DeviceRow /\ fresh.current_session_id = st.dev.current_session_id
    BY ShapedFields, ExpireEvidenceTyped
<1>2. fresh.vin = st.dev.vin
    BY ShapedFields DEF ExpireEvidence, ClearMovement, DeviceRow
<1> HIDE DEF fresh
<1>3. Shaped(st1) /\ st1.dev.vin = st.dev.vin /\ Keeps(st, st1)
    BY <1>1, <1>2, ShapedDevice, ShapedFields, KeepsDevice
<1>4. Keeps(st, noted)
    BY <1>1, NoteEvidenceTyped, KeepsDevice
<1> HIDE DEF st1, noted
<1>5. st.dev.vin # None => Keeps(st, PromoteToDriving(st1, b, at, live))
    BY <1>3, PromoteKeeps, KeepsBoth
<1>6. ObserveTelemetry(st, b, at, live) \in {st, noted}
      \/ (st.dev.vin # None
          /\ ObserveTelemetry(st, b, at, live) = PromoteToDriving(st1, b, at, live))
    BY DEF ObserveTelemetry, fresh, st1, noted
<1> QED BY <1>4, <1>5, <1>6, KeepsSame

-----------------------------------------------------------------------------
(* The handlers *)

LEMMA DiscoverKeeps ==
    ASSUME NEW st, Shaped(st)
    PROVE  Keeps(st, Discover(st))
<1>1. FreshDevice(now).current_session_id = None
    BY DEF FreshDevice
<1> QED BY <1>1, KeepsDevice, KeepsSame DEF Discover

LEMMA UpdateStatusKeeps ==
    ASSUME NEW st, Shaped(st), NEW ecu
    PROVE  Keeps(st, UpdateStatus(st, ecu))
<1> DEFINE dev == [st.dev EXCEPT !.device_status = "online", !.last_seen = now,
                                 !.ecu_status = Or(ecu, @)]
<1>1. UpdateStatus(st, ecu) = [st EXCEPT !.dev = dev]
    BY ShapedFields DEF UpdateStatus, DeviceRow
<1>2. dev.current_session_id = st.dev.current_session_id
    BY ShapedFields DEF DeviceRow
<1> HIDE DEF dev
<1> QED BY <1>1, <1>2, KeepsDevice

LEMMA PendingOfflineKeeps ==
    ASSUME NEW st, Shaped(st), NEW m
    PROVE  Keeps(st, [st EXCEPT !.dev.pending_offline_at = m])
<1> DEFINE dev == [st.dev EXCEPT !.pending_offline_at = m]
<1>1. dev.current_session_id = st.dev.current_session_id
    BY ShapedFields DEF DeviceRow
<1>2. [st EXCEPT !.dev.pending_offline_at = m] = [st EXCEPT !.dev = dev]
    OBVIOUS
<1> HIDE DEF dev
<1> QED BY <1>1, <1>2, KeepsDevice

LEMMA EcuReportKeeps ==
    ASSUME NEW st, Shaped(st), NEW ecu, now \in Time
    PROVE  Keeps(st, EcuReport(st, ecu))
<1>1. Keeps(st, ClearPendingOffline(st))
    BY PendingOfflineKeeps DEF ClearPendingOffline
<1>2. Keeps(st, [st EXCEPT !.dev.pending_offline_at = now])
    BY PendingOfflineKeeps
<1>3. Keeps(st, EcuStatusChange(st, "online", now)) /\ Keeps(st, EcuStatusChange(st, "offline", now))
    BY EcuStatusChangeKeeps
<1> QED BY <1>1, <1>2, <1>3, KeepsSame DEF EcuReport

LEMMA StoreTelemetryKeeps ==
    ASSUME NEW st, Shaped(st), NEW b \in MovementSignals, NEW at \in Time
    PROVE  Keeps(st, StoreTelemetry(st, b, at))
<1>1. (at - now \in -LiveTolerance..LiveTolerance) \in BOOLEAN
    OBVIOUS
<1> QED BY <1>1, ObserveKeeps DEF StoreTelemetry

LEMMA StatusMessageKeeps ==
    ASSUME NEW st, Shaped(st), NEW ecu \in EcuStatus, now \in Time
    PROVE  Keeps(st, StatusMessage(st, ecu))
<1> DEFINE found    == Discover(st)
           reported == EcuReport(found, ecu)
<1>1. Shaped(found) /\ Keeps(st, found)
    BY DiscoverShaped, DiscoverKeeps
<1> HIDE DEF found
<1>2. Shaped(reported) /\ Keeps(found, reported)
    BY <1>1, EcuReportShaped, EcuReportKeeps
<1> HIDE DEF reported
<1>3. Keeps(reported, UpdateStatus(reported, ecu))
    BY <1>2, UpdateStatusKeeps
<1>4. StatusMessage(st, ecu) = UpdateStatus(reported, ecu)
    BY DEF StatusMessage, reported, found
<1> QED BY <1>1, <1>2, <1>3, <1>4, KeepsBoth

LEMMA BatteryMessageKeeps ==
    ASSUME NEW st, Shaped(st), now \in Time
    PROVE  Keeps(st, BatteryMessage(st))
<1> DEFINE found == Discover(st)
           seen  == UpdateStatus(found, None)
<1>1. Shaped(found) /\ Keeps(st, found)
    BY DiscoverShaped, DiscoverKeeps
<1> HIDE DEF found
<1>2. Shaped(seen) /\ Keeps(found, seen)
    BY <1>1, UpdateStatusShaped, UpdateStatusKeeps DEF OrNone
<1> HIDE DEF seen
<1>3. EmptyBatch \in MovementSignals
    BY DEF EmptyBatch, MovementSignals
<1>4. Keeps(seen, StoreTelemetry(seen, EmptyBatch, now))
    BY <1>2, <1>3, StoreTelemetryKeeps
<1>5. BatteryMessage(st) \in {seen, StoreTelemetry(seen, EmptyBatch, now)}
    BY DEF BatteryMessage, seen, found
<1> QED BY <1>1, <1>2, <1>4, <1>5, KeepsBoth

LEMMA TelemetryMessageKeeps ==
    ASSUME NEW st, Shaped(st), NEW b \in MovementSignals, now \in Time
    PROVE  Keeps(st, TelemetryMessage(st, b))
<1> DEFINE recovered == ClearPendingOffline(st)
           awake     == IF st.dev.ecu_status = "online" THEN recovered
                        ELSE EcuStatusChange(recovered, "online", now)
           seen      == UpdateStatus(awake, "online")
<1>1. Shaped(recovered) /\ Keeps(st, recovered)
    BY PendingOfflineShaped, PendingOfflineKeeps DEF ClearPendingOffline, OrNone
<1> HIDE DEF recovered
<1>2. Shaped(awake) /\ Keeps(recovered, awake)
    BY <1>1, EcuStatusChangeShaped, EcuStatusChangeKeeps, KeepsSame
<1> HIDE DEF awake
<1>3. Shaped(seen) /\ Keeps(awake, seen)
    BY <1>2, UpdateStatusShaped, UpdateStatusKeeps DEF OrNone, EcuStatus
<1> HIDE DEF seen
<1>4. Keeps(seen, StoreTelemetry(seen, b, now))
    BY <1>3, StoreTelemetryKeeps
<1>5. TelemetryMessage(st, b) \in {Discover(st), st, StoreTelemetry(seen, b, now)}
    BY DEF TelemetryMessage, seen, awake, recovered
<1>6. Keeps(st, Discover(st))
    BY DiscoverKeeps
<1> QED BY <1>1, <1>2, <1>3, <1>4, <1>5, <1>6, KeepsBoth, KeepsSame

LEMMA HttpsMessageKeeps ==
    ASSUME NEW st, Shaped(st), NEW ecu \in OrNone(EcuStatus),
           NEW b \in OrNone(MovementSignals), NEW at \in Time, now \in Time
    PROVE  Keeps(st, HttpsMessage(st, ecu, b, at))
<1> DEFINE seen == IF ecu = None THEN UpdateStatus(st, None) ELSE StatusMessage(st, ecu)
<1>1. Shaped(seen) /\ Keeps(st, seen)
    BY UpdateStatusShaped, StatusMessageShaped, UpdateStatusKeeps, StatusMessageKeeps DEF OrNone
<1> HIDE DEF seen
<1>2. b # None => Keeps(seen, StoreTelemetry(seen, b, at))
    BY <1>1, StoreTelemetryKeeps DEF OrNone
<1>3. HttpsMessage(st, ecu, b, at) \in {st, seen}
      \/ (b # None /\ HttpsMessage(st, ecu, b, at) = StoreTelemetry(seen, b, at))
    BY DEF HttpsMessage, seen
<1> QED BY <1>1, <1>2, <1>3, KeepsBoth, KeepsSame

LEMMA CloseOnClocksKeeps ==
    ASSUME NEW st, Shaped(st)
    PROVE  Keeps(st, CloseOnClocks(st))
BY EndSessionKeeps, KeepsSame DEF CloseOnClocks

LEMMA ExpireStaleKeeps ==
    ASSUME NEW st, Shaped(st)
    PROVE  Keeps(st, ExpireStaleMovement(st))
<1> DEFINE forgotten(d) == [d EXCEPT !.current_session_id = None]
<1>1. PICK d \in {st.dev, ClearMovement(st.dev)} :
          ExpireStaleMovement(st) \in {[st EXCEPT !.dev = d],
                                       [st EXCEPT !.dev = forgotten(d)]}
    BY DEF ExpireStaleMovement
<1>2. d \in DeviceRow /\ d.current_session_id = st.dev.current_session_id
    BY ShapedFields, ClearMovementTyped
<1>3. forgotten(d).current_session_id = None
    BY <1>2 DEF DeviceRow
<1> HIDE DEF forgotten
<1>4. Keeps(st, [st EXCEPT !.dev = d]) /\ Keeps(st, [st EXCEPT !.dev = forgotten(d)])
    BY <1>2, <1>3, KeepsDevice
<1> QED BY <1>1, <1>4

LEMMA CloseOfflineKeeps ==
    ASSUME NEW st, Shaped(st), now \in Time
    PROVE  Keeps(st, CloseOffline(st))
<1> DEFINE p      == LiveSession(st)
           endAt  == Or(st.ses[p].movement_ended_at,
                        Or(st.ses[p].movement_started_at, st.ses[p].started_at))
           closed == IF p = None THEN st ELSE EndSession(st, Min({endAt, now}), FALSE)
           idle   == [closed.dev EXCEPT !.pending_offline_at = None]
<1>1. Keeps(st, closed)
    BY EndSessionKeeps, KeepsSame
<1>2. closed.dev \in DeviceRow /\ Shaped(closed)
  <2>1. CASE p = None
      BY <2>1, ShapedFields
  <2>2. CASE p # None
    <3>1. st.ses[p] \in SessionRow
        BY <2>2, ShapedFields, LiveSessionPointed DEF OrNone
    <3>2. endAt \in Time
        BY <3>1 DEF SessionRow, OrNone, Or
    <3> HIDE DEF endAt, p
    <3>3. {endAt, now} \in SUBSET Time /\ {endAt, now} # {}
        BY <3>2
    <3>4. Min({endAt, now}) \in Time
        BY <3>3, MinOfTimes
    <3> QED BY <2>2, <3>4, EndSessionShaped, ShapedFields
  <2> QED BY <2>1, <2>2
<1> HIDE DEF closed
<1>3. idle \in DeviceRow /\ idle.current_session_id = closed.dev.current_session_id
    BY <1>2 DEF DeviceRow, OrNone
<1>4. CloseOffline(st) = [closed EXCEPT !.dev = ClearMovement(idle)]
    BY DEF CloseOffline, closed
<1> HIDE DEF idle
<1>5. Keeps(closed, CloseOffline(st))
    BY <1>2, <1>3, <1>4, ClearMovementTyped, KeepsDevice
<1> QED BY <1>1, <1>5, KeepsBoth

LEMMA SetOfflineKeeps ==
    ASSUME NEW st, Shaped(st)
    PROVE  Keeps(st, [st EXCEPT !.dev = SetOffline(st.dev)])
<1>1. SetOffline(st.dev).current_session_id = st.dev.current_session_id
    BY ShapedFields DEF SetOffline, DeviceRow
<1> QED BY <1>1, KeepsDevice

-----------------------------------------------------------------------------
\* What HistoryFrozen says of one step.
Frozen ==
    \A i \in DOMAIN sessions :
        /\ i \in DOMAIN sessions'
        /\ ~IsOpen(sessions[i]) /\ device.current_session_id # i =>
              sessions'[i] = sessions[i]

LEMMA CommitKeeps ==
    ASSUME NEW st, Keeps(State, st), Commit(st)
    PROVE  Frozen
BY DEF Commit, State, Keeps, LetGo, Frozen

\* The administrator writes the device row only.
LEMMA AdminKeeps ==
    ASSUME sessions' = sessions
    PROVE  Frozen
BY DEF Frozen

\* One step per action: the handler's lemma, then the commit.
LEMMA StepIsFrozen == TypeOK /\ [Next]_vars => Frozen
<1> SUFFICES ASSUME TypeOK, [Next]_vars PROVE Frozen
    OBVIOUS
<1> USE StateShaped
<1>0. now \in Time
    BY DEF TypeOK
<1>1. ASSUME NEW ecu \in EcuStatus, MqttStatus(ecu) PROVE Frozen
    BY <1>0, <1>1, StatusMessageKeeps, CommitKeeps DEF MqttStatus
<1>2. CASE MqttBattery
    BY <1>0, <1>2, BatteryMessageKeeps, CommitKeeps DEF MqttBattery
<1>3. ASSUME NEW b \in Batch, MqttTelemetry(b) PROVE Frozen
    BY <1>0, <1>3, BatchAssumption, TelemetryMessageKeeps, CommitKeeps DEF MqttTelemetry
<1>4. ASSUME NEW ecu \in OrNone(EcuStatus), NEW b \in OrNone(Batch), NEW skew \in Skew,
             HttpsPayload(ecu, b, skew)
      PROVE  Frozen
  <2>1. b \in OrNone(MovementSignals)
      BY BatchAssumption DEF OrNone
  <2>2. Keeps(State, HttpsMessage(State, ecu, b, now + skew))
      BY <1>0, <1>4, <2>1, HttpsMessageKeeps DEF HttpsPayload
  <2> QED BY <1>4, <2>2, CommitKeeps DEF HttpsPayload
<1>5. CASE SessionTimeouts
  <2>1. Keeps(State, CloseOnClocks(State)) /\ Shaped(CloseOnClocks(State))
      BY CloseOnClocksKeeps, CloseOnClocksShaped
  <2>2. Keeps(State, ExpireStaleMovement(CloseOnClocks(State)))
      BY <2>1, ExpireStaleKeeps, KeepsBoth
  <2> QED BY <1>5, <2>2, CommitKeeps DEF SessionTimeouts
<1>6. CASE FinalizeOffline
  <2>1. Shaped(CloseOffline(State)) /\ Keeps(State, CloseOffline(State))
      BY <1>0, CloseOfflineShaped, CloseOfflineKeeps
  <2> DEFINE res == [CloseOffline(State) EXCEPT !.dev = SetOffline(CloseOffline(State).dev)]
  <2>2. Keeps(State, res)
      BY <2>1, SetOfflineKeeps, KeepsBoth
  <2> QED BY <1>6, <2>2, CommitKeeps DEF FinalizeOffline
<1>7. CASE MarkDeviceOffline
  <2>1. Keeps(State, [State EXCEPT !.dev = SetOffline(State.dev)])
      BY SetOfflineKeeps
  <2> QED BY <1>7, <2>1, CommitKeeps DEF MarkDeviceOffline
<1>8. CASE Relink \/ Settings \/ Tick \/ UNCHANGED vars
    BY <1>8, AdminKeeps DEF Relink, Settings, LinkDevice, UnlinkDevice, DeleteDevice,
       SetEnabled, SetBoundaryMode, Tick, vars, Commit, State
<1> QED
    BY <1>1, <1>2, <1>3, <1>4, <1>5, <1>6, <1>7, <1>8
       DEF Next, SteadyNext, Mqtt, Https, Jobs

\* A closed session the pointer has let go of never changes again, in either
\* mode, for any timestamps, through relinking, deletion and switched settings.
THEOREM HistoryFrozenEver == Spec => HistoryFrozen
<1>1. TypeOK /\ [Next]_vars => [Frozen]_vars
    BY StepIsFrozen
<1>2. TypeOK /\ [Next]_vars =>
      [\A i \in DOMAIN sessions :
          /\ i \in DOMAIN sessions'
          /\ ~IsOpen(sessions[i]) /\ device.current_session_id # i =>
                sessions'[i] = sessions[i]]_vars
    BY <1>1 DEF Frozen
<1> QED BY <1>2, TypeCorrect, PTL DEF Spec, HistoryFrozen

-----------------------------------------------------------------------------
(* Reopening *)

\* Nothing that was closed is open.
StaysClosed(st, res) ==
    \A i \in DOMAIN st.ses :
        i \in DOMAIN res.ses /\ (~IsOpen(st.ses[i]) => ~IsOpen(res.ses[i]))

\* How a handler that started on the stored rows stands before it looks for
\* movement: what was closed is closed, and the row it may reopen is as stored.
Unopened(st) ==
    \A i \in DOMAIN sessions : ~IsOpen(sessions[i]) =>
        /\ i \in DOMAIN st.ses /\ ~IsOpen(st.ses[i])
        /\ st.dev.current_session_id = i => st.ses[i] = sessions[i]

\* How it stands after: what was reopened moved again inside the gap.
Gapped(st) ==
    \A i \in DOMAIN sessions : ~IsOpen(sessions[i]) /\ IsOpen(st.ses[i]) =>
        st.ses[i].movement_ended_at
            - Or(sessions[i].movement_ended_at, sessions[i].ended_at) <= Gap

LEMMA UnopenedIsGapped == ASSUME NEW st, Unopened(st) PROVE Gapped(st)
BY DEF Unopened, Gapped

\* A call that writes the device row only, the pointer kept or dropped.
LEMMA UnopenedDevice ==
    ASSUME NEW st, Shaped(st), Unopened(st), NEW dev,
           dev.current_session_id \in {None, st.dev.current_session_id}
    PROVE  Unopened([st EXCEPT !.dev = dev])
<1> DEFINE res == [st EXCEPT !.dev = dev]
<1>1. res.ses = st.ses /\ res.dev = dev
    BY ShapedFields
<1>2. \A i \in DOMAIN sessions : i # None
    BY ShapedFields, RowIds
<1> HIDE DEF res
<1> QED BY <1>1, <1>2 DEF Unopened

\* end_session opens nothing, and here it drops the pointer to what it closed.
LEMMA EndSessionUnopened ==
    ASSUME NEW st, Shaped(st), Unopened(st), NEW at \in Time
    PROVE  Unopened(EndSession(st, at, FALSE))
<1> DEFINE p   == st.dev.current_session_id
           dev == [st.dev EXCEPT !.current_session_id = None]
           ses == [st.ses EXCEPT ![p].ended_at = at]
<1>1. CASE p = None
    BY <1>1 DEF EndSession
<1>2. CASE p # None
  <2>1. EndSession(st, at, FALSE) = [dev |-> dev, ses |-> ses]
      BY <1>2 DEF EndSession
  <2>2. dev.current_session_id = None
      BY ShapedFields DEF DeviceRow
  <2>3. p \in DOMAIN st.ses /\ st.ses[p] \in SessionRow /\ at # None
      BY <1>2, ShapedFields, NoneAssumption DEF OrNone, Time
  <2>4. DOMAIN ses = DOMAIN st.ses /\ ~IsOpen(ses[p])
        /\ \A i \in DOMAIN st.ses : i # p => ses[i] = st.ses[i]
      BY <2>3, ShapedFields DEF IsOpen, SessionRow
  <2>5. \A i \in DOMAIN sessions : i # None
      BY ShapedFields, RowIds
  <2> HIDE DEF dev, ses, p
  <2>6. \A i \in DOMAIN st.ses : ~IsOpen(st.ses[i]) => i \in DOMAIN ses /\ ~IsOpen(ses[i])
      BY <2>4
  <2>7. Unopened([dev |-> dev, ses |-> ses])
      BY <2>2, <2>5, <2>6 DEF Unopened
  <2> QED BY <2>1, <2>7
<1> QED BY <1>1, <1>2

LEMMA AddSessionUnopened ==
    ASSUME NEW st, Shaped(st), Unopened(st), NEW row
    PROVE  Unopened(AddSession(st, row))
<1> DEFINE ses == Append(st.ses, row)
           dev == [st.dev EXCEPT !.current_session_id = Len(st.ses) + 1]
<1>1. \A i \in DOMAIN st.ses : i \in DOMAIN ses /\ ses[i] = st.ses[i] /\ i # Len(st.ses) + 1
    BY ShapedFields
<1>2. dev.current_session_id = Len(st.ses) + 1
    BY ShapedFields DEF DeviceRow
<1>3. AddSession(st, row) = [dev |-> dev, ses |-> ses]
    BY DEF AddSession
<1> HIDE DEF ses, dev
<1> QED BY <1>1, <1>2, <1>3 DEF Unopened

LEMMA EcuStatusChangeUnopened ==
    ASSUME NEW st, Shaped(st), Unopened(st), NEW ecu, NEW at \in Time
    PROVE  Unopened(EcuStatusChange(st, ecu, at))
<1>1. Unopened(EndSession(st, at, FALSE)) /\ Shaped(EndSession(st, at, FALSE))
    BY EndSessionUnopened, EndSessionShaped
<1>2. Unopened(StartSession(st, at))
    BY <1>1, AddSessionUnopened DEF StartSession
<1> QED BY <1>1, <1>2 DEF EcuStatusChange

\* Movement is written to the pointed row, and opens or closes none.
LEMMA MarkMovedRow ==
    ASSUME NEW st, Shaped(st), st.dev.current_session_id # None, NEW b, NEW at, NEW live
    PROVE  LET res == MarkMoved(st, b, at, live)
               p   == st.dev.current_session_id
           IN  /\ DOMAIN res.ses = DOMAIN st.ses /\ p \in DOMAIN st.ses
               /\ res.ses[p].movement_ended_at = at
               /\ \A i \in DOMAIN st.ses : IsOpen(res.ses[i]) <=> IsOpen(st.ses[i])
<1> DEFINE p   == st.dev.current_session_id
           row == [st.ses[p] EXCEPT !.movement_started_at = Or(@, at),
                                    !.movement_ended_at = at]
           ses == [st.ses EXCEPT ![p] = row]
<1>1. p \in DOMAIN st.ses /\ st.ses[p] \in SessionRow
    BY ShapedFields DEF OrNone
<1>2. [st.ses EXCEPT ![p].movement_started_at = Or(@, at), ![p].movement_ended_at = at] = ses
    BY <1>1
<1>3. MarkMoved(st, b, at, live).ses = ses
    BY <1>2 DEF MarkMoved
<1>4. row.movement_ended_at = at /\ row.ended_at = st.ses[p].ended_at
    BY <1>1 DEF SessionRow
<1> HIDE DEF row
<1>5. DOMAIN ses = DOMAIN st.ses /\ ses[p] = row
      /\ \A i \in DOMAIN st.ses : i # p => ses[i] = st.ses[i]
    BY <1>1, ShapedFields
<1> HIDE DEF ses
<1>6. \A i \in DOMAIN st.ses : IsOpen(ses[i]) <=> IsOpen(st.ses[i])
    BY <1>4, <1>5 DEF IsOpen
<1> QED BY <1>1, <1>3, <1>4, <1>5, <1>6

\* Only the awaiting session may be reopened, and only inside the gap.
LEMMA ReopenRow ==
    ASSUME NEW st, Shaped(st), NEW at \in Time
    PROVE  LET res == ReopenAwaiting(st, at)
               p   == st.dev.current_session_id
           IN  /\ DOMAIN res.ses = DOMAIN st.ses
               /\ \A i \in DOMAIN st.ses : ~IsOpen(st.ses[i]) /\ IsOpen(res.ses[i]) =>
                     /\ i = p /\ res.dev.current_session_id = i
                     /\ at - Or(st.ses[p].movement_ended_at, st.ses[p].ended_at) <= Gap
<1> DEFINE p   == st.dev.current_session_id
           far == at - Or(st.ses[p].movement_ended_at, st.ses[p].ended_at) > Gap
           ses == [st.ses EXCEPT ![p].ended_at = None]
<1>1. CASE p = None
    BY <1>1 DEF ReopenAwaiting
<1>2. CASE p # None /\ far
  <2>1. ReopenAwaiting(st, at).ses = st.ses
      BY <1>2, ShapedFields DEF ReopenAwaiting
  <2> QED BY <2>1
<1>3. CASE p # None /\ ~far
  <2>1. ReopenAwaiting(st, at) = [dev |-> st.dev, ses |-> ses]
      BY <1>3 DEF ReopenAwaiting
  <2>2. DOMAIN ses = DOMAIN st.ses /\ \A i \in DOMAIN st.ses : i # p => ses[i] = st.ses[i]
      BY ShapedFields
  <2> HIDE DEF ses
  <2>3. ~IsOpen(st.ses[p]) =>
            at - Or(st.ses[p].movement_ended_at, st.ses[p].ended_at) <= Gap
    <3>1. st.ses[p] \in SessionRow
        BY <1>3, ShapedFields DEF OrNone
    <3>2. ~IsOpen(st.ses[p]) => Or(st.ses[p].movement_ended_at, st.ses[p].ended_at) \in Time
        BY <3>1 DEF SessionRow, OrNone, Or, IsOpen
    <3> QED BY <1>3, <3>2, SettingAssumption DEF Time
  <2> QED BY <2>1, <2>2, <2>3
<1> QED BY <1>1, <1>2, <1>3

\* Opening, or adopting, opens no row that is closed.
LEMMA OpenOpensNone ==
    ASSUME NEW st, Shaped(st), NEW at
    PROVE  \A i \in DOMAIN st.ses : /\ i \in DOMAIN OpenForMovement(st, at).ses
                                    /\ OpenForMovement(st, at).ses[i] = st.ses[i]
<1> DEFINE pick == CHOOSE i \in OpenIds(st.ses) : TRUE
<1>1. CASE OpenIds(st.ses) # {}
  <2>1. OpenForMovement(st, at) = [st EXCEPT !.dev.current_session_id = pick]
      BY <1>1 DEF OpenForMovement
  <2>2. [st EXCEPT !.dev.current_session_id = pick].ses = st.ses
      BY ShapedFields
  <2> QED BY <2>1, <2>2
<1>2. CASE OpenIds(st.ses) = {}
  <2>1. PICK row : OpenForMovement(st, at) = AddSession(st, row)
      BY <1>2 DEF OpenForMovement
  <2>2. \A i \in DOMAIN st.ses : i \in DOMAIN Append(st.ses, row) /\ Append(st.ses, row)[i] = st.ses[i]
      BY ShapedFields
  <2> QED BY <2>1, <2>2 DEF AddSession
<1> QED BY <1>1, <1>2

\* Movement reopens the stored row inside the gap, and no other.
LEMMA PromoteGapped ==
    ASSUME NEW st, Shaped(st), Unopened(st), st.dev.vin # None,
           NEW b \in MovementSignals, NEW at \in Time, NEW live \in BOOLEAN
    PROVE  Gapped(PromoteToDriving(st, b, at, live))
<1> DEFINE reopened == IF LiveSession(st) = None THEN ReopenAwaiting(st, at) ELSE st
           opened   == IF LiveSession(reopened) = None
                       THEN OpenForMovement(reopened, at) ELSE reopened
           res      == MarkMoved(opened, b, at, live)
<1>1. Shaped(reopened) /\ reopened.dev.vin # None
    BY ReopenShaped, ReopenKeepsVin
<1>2. \A i \in DOMAIN st.ses : i \in DOMAIN reopened.ses
          /\ (~IsOpen(st.ses[i]) /\ IsOpen(reopened.ses[i]) =>
                /\ st.dev.current_session_id = i /\ reopened.dev.current_session_id = i
                /\ at - Or(st.ses[i].movement_ended_at, st.ses[i].ended_at) <= Gap)
    BY ReopenRow
<1> HIDE DEF reopened
<1>3. Shaped(opened) /\ opened.dev.current_session_id # None
    BY <1>1, OpenForMovementShaped, LiveSessionPointed
<1>4. \A i \in DOMAIN reopened.ses : i \in DOMAIN opened.ses /\ opened.ses[i] = reopened.ses[i]
    BY <1>1, OpenOpensNone
<1>5. \A i \in DOMAIN reopened.ses :
          IsOpen(reopened.ses[i]) /\ reopened.dev.current_session_id = i =>
              opened.dev.current_session_id = i
  <2> SUFFICES ASSUME NEW i \in DOMAIN reopened.ses, IsOpen(reopened.ses[i]),
                      reopened.dev.current_session_id = i
               PROVE  LiveSession(reopened) # None
      OBVIOUS
  <2>1. i # None
      BY <1>1, ShapedFields, RowIds
  <2> QED BY <2>1 DEF LiveSession
<1> HIDE DEF opened
<1>6. \A i \in DOMAIN opened.ses :
          /\ IsOpen(res.ses[i]) <=> IsOpen(opened.ses[i])
          /\ opened.dev.current_session_id = i => res.ses[i].movement_ended_at = at
    BY <1>3, MarkMovedRow
<1>7. PromoteToDriving(st, b, at, live) = res
    BY DEF PromoteToDriving, opened, reopened
<1> HIDE DEF res
<1>8. Gapped(res)
  <2> SUFFICES ASSUME NEW i \in DOMAIN sessions, ~IsOpen(sessions[i]), IsOpen(res.ses[i])
               PROVE  res.ses[i].movement_ended_at
                          - Or(sessions[i].movement_ended_at, sessions[i].ended_at) <= Gap
      BY DEF Gapped
  <2>1. i \in DOMAIN st.ses /\ ~IsOpen(st.ses[i])
        /\ (st.dev.current_session_id = i => st.ses[i] = sessions[i])
      BY DEF Unopened
  <2>2. i \in DOMAIN opened.ses /\ IsOpen(opened.ses[i]) /\ IsOpen(reopened.ses[i])
        /\ i \in DOMAIN reopened.ses
      BY <2>1, <1>2, <1>4, <1>6
  <2>3. /\ st.ses[i] = sessions[i] /\ reopened.dev.current_session_id = i
        /\ at - Or(st.ses[i].movement_ended_at, st.ses[i].ended_at) <= Gap
      BY <2>1, <2>2, <1>2
  <2>4. res.ses[i].movement_ended_at = at
      BY <2>2, <2>3, <1>5, <1>6
  <2> QED BY <2>3, <2>4
<1> QED BY <1>7, <1>8

LEMMA StoreTelemetryGapped ==
    ASSUME NEW st, Shaped(st), Unopened(st), NEW b \in MovementSignals, NEW at \in Time
    PROVE  Gapped(StoreTelemetry(st, b, at))
<1> DEFINE live    == at - now \in -LiveTolerance..LiveTolerance
           driving == LiveSession(st) # None
           fresh   == IF driving THEN st.dev ELSE ExpireEvidence(st.dev, at)
           st1     == [st EXCEPT !.dev = fresh]
           noted   == [st EXCEPT !.dev = NoteEvidence(fresh, b, at)]
<1>1. fresh \in DeviceRow /\ fresh.current_session_id = st.dev.current_session_id
    BY ShapedFields, ExpireEvidenceTyped
<1>2. fresh.vin = st.dev.vin
    BY ShapedFields DEF ExpireEvidence, ClearMovement, DeviceRow
<1>3. live \in BOOLEAN
    OBVIOUS
<1>4. StoreTelemetry(st, b, at) \in {st, noted}
      \/ (st.dev.vin # None
          /\ StoreTelemetry(st, b, at) = PromoteToDriving(st1, b, at, live))
    BY DEF StoreTelemetry, ObserveTelemetry
<1> HIDE DEF fresh, live
<1>5. Shaped(st1) /\ st1.dev.vin = st.dev.vin /\ Unopened(st1)
    BY <1>1, <1>2, ShapedDevice, ShapedFields, UnopenedDevice
<1>6. Unopened(noted)
    BY <1>1, NoteEvidenceTyped, UnopenedDevice
<1> HIDE DEF st1, noted
<1>7. st.dev.vin # None => Gapped(PromoteToDriving(st1, b, at, live))
    BY <1>3, <1>5, PromoteGapped
<1> QED BY <1>4, <1>6, <1>7, UnopenedIsGapped

\* The stored rows are where every handler starts.
LEMMA StoredIsUnopened == Unopened(State)
BY DEF Unopened, State

LEMMA DiscoverUnopened ==
    ASSUME NEW st, Shaped(st), Unopened(st)
    PROVE  Unopened(Discover(st))
<1>1. FreshDevice(now).current_session_id = None
    BY DEF FreshDevice
<1> QED BY <1>1, UnopenedDevice DEF Discover

LEMMA UpdateStatusUnopened ==
    ASSUME NEW st, Shaped(st), Unopened(st), NEW ecu
    PROVE  Unopened(UpdateStatus(st, ecu))
<1> DEFINE dev == [st.dev EXCEPT !.device_status = "online", !.last_seen = now,
                                 !.ecu_status = Or(ecu, @)]
<1>1. UpdateStatus(st, ecu) = [st EXCEPT !.dev = dev]
    BY ShapedFields DEF UpdateStatus, DeviceRow
<1>2. dev.current_session_id = st.dev.current_session_id
    BY ShapedFields DEF DeviceRow
<1> HIDE DEF dev
<1> QED BY <1>1, <1>2, UnopenedDevice

LEMMA PendingOfflineUnopened ==
    ASSUME NEW st, Shaped(st), Unopened(st), NEW m
    PROVE  Unopened([st EXCEPT !.dev.pending_offline_at = m])
<1> DEFINE dev == [st.dev EXCEPT !.pending_offline_at = m]
<1>1. dev.current_session_id = st.dev.current_session_id
    BY ShapedFields DEF DeviceRow
<1>2. [st EXCEPT !.dev.pending_offline_at = m] = [st EXCEPT !.dev = dev]
    OBVIOUS
<1> HIDE DEF dev
<1> QED BY <1>1, <1>2, UnopenedDevice

LEMMA EcuReportUnopened ==
    ASSUME NEW st, Shaped(st), Unopened(st), NEW ecu, now \in Time
    PROVE  Unopened(EcuReport(st, ecu))
<1>1. Unopened(ClearPendingOffline(st)) /\ Unopened([st EXCEPT !.dev.pending_offline_at = now])
    BY PendingOfflineUnopened DEF ClearPendingOffline
<1>2. Unopened(EcuStatusChange(st, "online", now)) /\ Unopened(EcuStatusChange(st, "offline", now))
    BY EcuStatusChangeUnopened
<1> QED BY <1>1, <1>2 DEF EcuReport

LEMMA StatusMessageUnopened ==
    ASSUME NEW st, Shaped(st), Unopened(st), NEW ecu \in EcuStatus, now \in Time
    PROVE  Unopened(StatusMessage(st, ecu))
<1> DEFINE found    == Discover(st)
           reported == EcuReport(found, ecu)
<1>1. Shaped(found) /\ Unopened(found)
    BY DiscoverShaped, DiscoverUnopened
<1> HIDE DEF found
<1>2. Shaped(reported) /\ Unopened(reported)
    BY <1>1, EcuReportShaped, EcuReportUnopened
<1> HIDE DEF reported
<1>3. Unopened(UpdateStatus(reported, ecu))
    BY <1>2, UpdateStatusUnopened
<1> QED BY <1>3 DEF StatusMessage, reported, found

LEMMA BatteryMessageGapped ==
    ASSUME NEW st, Shaped(st), Unopened(st), now \in Time
    PROVE  Gapped(BatteryMessage(st))
<1> DEFINE seen == UpdateStatus(Discover(st), None)
<1>1. Shaped(seen) /\ Unopened(seen)
    BY DiscoverShaped, DiscoverUnopened, UpdateStatusShaped, UpdateStatusUnopened DEF OrNone
<1>2. BatteryMessage(st) \in {seen, StoreTelemetry(seen, EmptyBatch, now)}
    BY DEF BatteryMessage
<1> HIDE DEF seen
<1>3. EmptyBatch \in MovementSignals
    BY DEF EmptyBatch, MovementSignals
<1>4. Gapped(StoreTelemetry(seen, EmptyBatch, now))
    BY <1>1, <1>3, StoreTelemetryGapped
<1> QED BY <1>1, <1>2, <1>4, UnopenedIsGapped

LEMMA TelemetryMessageGapped ==
    ASSUME NEW st, Shaped(st), Unopened(st), NEW b \in MovementSignals, now \in Time
    PROVE  Gapped(TelemetryMessage(st, b))
<1> DEFINE recovered == ClearPendingOffline(st)
           awake     == IF st.dev.ecu_status = "online" THEN recovered
                        ELSE EcuStatusChange(recovered, "online", now)
           seen      == UpdateStatus(awake, "online")
<1>1. TelemetryMessage(st, b) \in {Discover(st), st, StoreTelemetry(seen, b, now)}
    BY DEF TelemetryMessage
<1>2. Shaped(recovered) /\ Unopened(recovered)
    BY PendingOfflineShaped, PendingOfflineUnopened DEF ClearPendingOffline, OrNone
<1> HIDE DEF recovered
<1>3. Shaped(awake) /\ Unopened(awake)
    BY <1>2, EcuStatusChangeShaped, EcuStatusChangeUnopened
<1> HIDE DEF awake
<1>4. Shaped(seen) /\ Unopened(seen)
    BY <1>3, UpdateStatusShaped, UpdateStatusUnopened DEF OrNone, EcuStatus
<1> HIDE DEF seen
<1>5. Gapped(StoreTelemetry(seen, b, now))
    BY <1>4, StoreTelemetryGapped
<1>6. Gapped(Discover(st)) /\ Gapped(st)
    BY DiscoverUnopened, UnopenedIsGapped
<1> QED BY <1>1, <1>5, <1>6

\* One payload may end a session and look for movement in one transaction.
LEMMA HttpsMessageGapped ==
    ASSUME NEW st, Shaped(st), Unopened(st), NEW ecu \in OrNone(EcuStatus),
           NEW b \in OrNone(MovementSignals), NEW at \in Time, now \in Time
    PROVE  Gapped(HttpsMessage(st, ecu, b, at))
<1> DEFINE seen == IF ecu = None THEN UpdateStatus(st, None) ELSE StatusMessage(st, ecu)
<1>1. Shaped(seen) /\ Unopened(seen)
    BY UpdateStatusShaped, StatusMessageShaped, UpdateStatusUnopened, StatusMessageUnopened
       DEF OrNone
<1>2. HttpsMessage(st, ecu, b, at) \in {st, seen}
      \/ (b # None /\ HttpsMessage(st, ecu, b, at) = StoreTelemetry(seen, b, at))
    BY DEF HttpsMessage
<1> HIDE DEF seen
<1>3. b # None => Gapped(StoreTelemetry(seen, b, at))
    BY <1>1, StoreTelemetryGapped DEF OrNone
<1> QED BY <1>1, <1>2, <1>3, UnopenedIsGapped

-----------------------------------------------------------------------------
(* The jobs close, and open nothing *)

LEMMA EndSessionStays ==
    ASSUME NEW st, Shaped(st), NEW at \in Time, NEW r \in BOOLEAN
    PROVE  StaysClosed(st, EndSession(st, at, r))
<1> DEFINE p   == st.dev.current_session_id
           ses == [st.ses EXCEPT ![p].ended_at = at]
<1>1. CASE p = None
    BY <1>1 DEF EndSession, StaysClosed
<1>2. CASE p # None
  <2>1. EndSession(st, at, r).ses = ses
      BY <1>2 DEF EndSession
  <2>2. p \in DOMAIN st.ses /\ st.ses[p] \in SessionRow /\ at # None
      BY <1>2, ShapedFields, NoneAssumption DEF OrNone, Time
  <2>3. DOMAIN ses = DOMAIN st.ses /\ ~IsOpen(ses[p])
        /\ \A i \in DOMAIN st.ses : i # p => ses[i] = st.ses[i]
      BY <2>2, ShapedFields DEF IsOpen, SessionRow
  <2> HIDE DEF ses, p
  <2>4. \A i \in DOMAIN st.ses : ~IsOpen(st.ses[i]) => ~IsOpen(ses[i])
      BY <2>3
  <2> QED BY <2>1, <2>3, <2>4 DEF StaysClosed
<1> QED BY <1>1, <1>2

LEMMA CloseOnClocksStays ==
    ASSUME NEW st, Shaped(st)
    PROVE  StaysClosed(st, CloseOnClocks(st))
<1> DEFINE p     == LiveSession(st)
           moved == Or(st.dev.last_movement_at,
                       Or(st.ses[p].movement_ended_at,
                          Or(st.ses[p].movement_started_at, st.ses[p].started_at)))
<1>1. StaysClosed(st, st)
    BY DEF StaysClosed
<1>2. CASE p = None
    BY <1>1, <1>2 DEF CloseOnClocks
<1>3. CASE p # None
  <2>1. st.ses[p] \in SessionRow
      BY <1>3, ShapedFields, LiveSessionPointed DEF OrNone
  <2>2. moved \in Time /\ st.dev.last_seen \in Time
      BY <2>1, ShapedFields DEF DeviceRow, SessionRow, OrNone, Or
  <2> HIDE DEF p, moved
  <2>3. /\ StaysClosed(st, EndSession(st, moved, FALSE))
        /\ StaysClosed(st, EndSession(st, moved, TRUE))
        /\ StaysClosed(st, EndSession(st, st.dev.last_seen, FALSE))
      BY <2>2, EndSessionStays
  <2> QED BY <1>1, <2>3 DEF CloseOnClocks, p, moved
<1> QED BY <1>2, <1>3

LEMMA CloseOfflineStays ==
    ASSUME NEW st, Shaped(st), now \in Time
    PROVE  StaysClosed(st, CloseOffline(st))
<1> DEFINE p      == LiveSession(st)
           endAt  == Or(st.ses[p].movement_ended_at,
                        Or(st.ses[p].movement_started_at, st.ses[p].started_at))
           closed == IF p = None THEN st ELSE EndSession(st, Min({endAt, now}), FALSE)
<1>1. CloseOffline(st).ses = closed.ses
  <2>1. closed = [dev |-> closed.dev, ses |-> closed.ses]
      BY ShapedFields DEF EndSession
  <2> HIDE DEF closed
  <2>2. CloseOffline(st) = [closed EXCEPT !.dev =
                               ClearMovement([@ EXCEPT !.pending_offline_at = None])]
      BY DEF CloseOffline, closed
  <2> QED BY <2>1, <2>2
<1>2. StaysClosed(st, closed)
  <2>1. CASE p = None
      BY <2>1 DEF StaysClosed
  <2>2. CASE p # None
    <3>1. st.ses[p] \in SessionRow
        BY <2>2, ShapedFields, LiveSessionPointed DEF OrNone
    <3>2. endAt \in Time
        BY <3>1 DEF SessionRow, OrNone, Or
    <3> HIDE DEF endAt, p
    <3>3. {endAt, now} \in SUBSET Time /\ {endAt, now} # {}
        BY <3>2
    <3>4. Min({endAt, now}) \in Time
        BY <3>3, MinOfTimes
    <3> QED BY <2>2, <3>4, EndSessionStays
  <2> QED BY <2>1, <2>2
<1> HIDE DEF closed
<1> QED BY <1>1, <1>2 DEF StaysClosed

\* What ReopensInsideGap says of one step.
InsideGap ==
    \A i \in DOMAIN sessions :
        ~IsOpen(sessions[i]) /\ IsOpen(sessions'[i]) =>
            sessions'[i].movement_ended_at
              - Or(sessions[i].movement_ended_at, sessions[i].ended_at) <= Gap

LEMMA CommitGapped ==
    ASSUME NEW st, Gapped(st), Commit(st)
    PROVE  InsideGap
BY DEF Commit, Gapped, InsideGap

\* A job, or an administrator, that changes the rows of no closed session.
LEMMA CommitStays ==
    ASSUME NEW st, StaysClosed(State, st), Commit(st)
    PROVE  InsideGap
BY DEF Commit, StaysClosed, InsideGap, State

LEMMA StepInsideGap == TypeOK /\ [Next]_vars => InsideGap
<1> SUFFICES ASSUME TypeOK, [Next]_vars PROVE InsideGap
    OBVIOUS
<1>0. Shaped(State) /\ Unopened(State) /\ now \in Time
    BY StateShaped, StoredIsUnopened DEF TypeOK
<1>1. ASSUME NEW ecu \in EcuStatus, MqttStatus(ecu) PROVE InsideGap
    BY <1>0, <1>1, StatusMessageUnopened, UnopenedIsGapped, CommitGapped DEF MqttStatus
<1>2. CASE MqttBattery
    BY <1>0, <1>2, BatteryMessageGapped, CommitGapped DEF MqttBattery
<1>3. ASSUME NEW b \in Batch, MqttTelemetry(b) PROVE InsideGap
    BY <1>0, <1>3, BatchAssumption, TelemetryMessageGapped, CommitGapped DEF MqttTelemetry
<1>4. ASSUME NEW ecu \in OrNone(EcuStatus), NEW b \in OrNone(Batch), NEW skew \in Skew,
             HttpsPayload(ecu, b, skew)
      PROVE  InsideGap
  <2>1. b \in OrNone(MovementSignals)
      BY BatchAssumption DEF OrNone
  <2>2. Gapped(HttpsMessage(State, ecu, b, now + skew))
      BY <1>0, <1>4, <2>1, HttpsMessageGapped DEF HttpsPayload
  <2> QED BY <1>4, <2>2, CommitGapped DEF HttpsPayload
<1>5. CASE SessionTimeouts
  <2>1. StaysClosed(State, CloseOnClocks(State)) /\ Shaped(CloseOnClocks(State))
      BY <1>0, CloseOnClocksStays, CloseOnClocksShaped
  <2>2. ExpireStaleMovement(CloseOnClocks(State)).ses = CloseOnClocks(State).ses
      BY <2>1, ShapedFields DEF ExpireStaleMovement
  <2>3. StaysClosed(State, ExpireStaleMovement(CloseOnClocks(State)))
      BY <2>1, <2>2 DEF StaysClosed
  <2> QED BY <1>5, <2>3, CommitStays DEF SessionTimeouts
<1>6. CASE FinalizeOffline
  <2>1. StaysClosed(State, CloseOffline(State)) /\ Shaped(CloseOffline(State))
      BY <1>0, CloseOfflineStays, CloseOfflineShaped
  <2> DEFINE res == [CloseOffline(State) EXCEPT !.dev = SetOffline(CloseOffline(State).dev)]
  <2>2. res.ses = CloseOffline(State).ses
      BY <2>1, ShapedFields
  <2>3. StaysClosed(State, res)
      BY <2>1, <2>2 DEF StaysClosed
  <2> QED BY <1>6, <2>3, CommitStays DEF FinalizeOffline
<1>7. CASE sessions' = sessions
    BY <1>7 DEF InsideGap
<1>8. ASSUME MarkDeviceOffline \/ Relink \/ Settings \/ Tick \/ UNCHANGED vars
      PROVE  sessions' = sessions
    BY <1>8 DEF MarkDeviceOffline, Relink, Settings, LinkDevice, UnlinkDevice, DeleteDevice,
       SetEnabled, SetBoundaryMode, Tick, vars, Commit, State
<1> QED
    BY <1>1, <1>2, <1>3, <1>4, <1>5, <1>6, <1>7, <1>8
       DEF Next, SteadyNext, Mqtt, Https, Jobs

\* A closed session is reopened only by movement inside the drive gap of its
\* own last movement, in whatever order timestamps come and whatever else the
\* same transaction does first: through the administrator's steps as well.
THEOREM ReopensInsideGapEver == Spec => ReopensInsideGap
<1>1. TypeOK /\ [Next]_vars =>
      [\A i \in DOMAIN sessions :
          ~IsOpen(sessions[i]) /\ IsOpen(sessions'[i]) =>
              sessions'[i].movement_ended_at
                - Or(sessions[i].movement_ended_at, sessions[i].ended_at) <= Gap]_vars
    BY StepInsideGap DEF InsideGap
<1> QED BY <1>1, TypeCorrect, PTL DEF Spec, ReopensInsideGap
-----------------------------------------------------------------------------
(* The trip log: where the windows lie is DriveSessionProofs', what is     *)
(* added to the above is that a transaction adds at most one row, open,    *)
(* and moves no start.                                                     *)

\* The same rows, with the starts they had.
SameRows(st, res) ==
    /\ Len(res.ses) = Len(st.ses)
    /\ \A i \in 1..Len(st.ses) : res.ses[i].started_at = st.ses[i].started_at

\* At most one row more, which is open.
OneMore(st, res) ==
    /\ \A i \in 1..Len(st.ses) : res.ses[i].started_at = st.ses[i].started_at
    /\ \/ Len(res.ses) = Len(st.ses)
       \/ /\ Len(res.ses) = Len(st.ses) + 1
          /\ IsOpen(res.ses[Len(st.ses) + 1])

LEMMA SameRowsSelf == ASSUME NEW st PROVE SameRows(st, st)
BY DEF SameRows

LEMMA SameRowsBoth ==
    ASSUME NEW st, NEW mid, NEW res, SameRows(st, mid), SameRows(mid, res)
    PROVE  SameRows(st, res)
BY DEF SameRows

LEMMA SameIsOneMore ==
    ASSUME NEW st, NEW res, SameRows(st, res)
    PROVE  OneMore(st, res)
BY DEF SameRows, OneMore

LEMMA SameThenOneMore ==
    ASSUME NEW st, NEW mid, NEW res, SameRows(st, mid), OneMore(mid, res)
    PROVE  OneMore(st, res)
BY DEF SameRows, OneMore

-----------------------------------------------------------------------------
(* The calls *)

LEMMA SameRowsDevice ==
    ASSUME NEW st, Shaped(st), NEW dev
    PROVE  SameRows(st, [st EXCEPT !.dev = dev])
<1>1. [st EXCEPT !.dev = dev].ses = st.ses
    BY ShapedFields
<1> QED BY <1>1 DEF SameRows

\* A row is replaced by one of the same start.
LEMMA SameRowsReplaced ==
    ASSUME NEW st, Shaped(st), NEW dev, NEW p, NEW row,
           row.started_at = st.ses[p].started_at
    PROVE  SameRows(st, [dev |-> dev, ses |-> [st.ses EXCEPT ![p] = row]])
<1> DEFINE ses == [st.ses EXCEPT ![p] = row]
<1>1. st.ses \in Seq(SessionRow)
    BY ShapedFields
<1>2. DOMAIN st.ses = 1..Len(st.ses) /\ Len(st.ses) \in Nat
    BY <1>1
<1>3. DOMAIN ses = DOMAIN st.ses
      /\ \A i \in DOMAIN st.ses : ses[i] = IF i = p THEN row ELSE st.ses[i]
    BY <1>1
<1>4. Len(ses) = Len(st.ses)
    BY <1>1, <1>2, <1>3
<1> HIDE DEF ses
<1> QED BY <1>2, <1>3, <1>4 DEF SameRows

LEMMA EndSessionSame ==
    ASSUME NEW st, Shaped(st), NEW at, NEW r
    PROVE  SameRows(st, EndSession(st, at, r))
<1> DEFINE p   == st.dev.current_session_id
           row == [st.ses[p] EXCEPT !.ended_at = at]
           dev == IF r THEN st.dev ELSE [st.dev EXCEPT !.current_session_id = None]
<1>1. CASE p = None
    BY <1>1, SameRowsSelf DEF EndSession
<1>2. CASE p # None
  <2>1. EndSession(st, at, r) = [dev |-> dev, ses |-> [st.ses EXCEPT ![p] = row]]
      BY <1>2 DEF EndSession
  <2>2. st.ses[p] \in SessionRow
      BY <1>2, ShapedFields DEF OrNone
  <2>3. row.started_at = st.ses[p].started_at
      BY <2>2 DEF SessionRow
  <2> HIDE DEF dev, row, p
  <2> QED BY <2>1, <2>3, SameRowsReplaced
<1> QED BY <1>1, <1>2

LEMMA ReopenSame ==
    ASSUME NEW st, Shaped(st), NEW at
    PROVE  SameRows(st, ReopenAwaiting(st, at))
<1> DEFINE p    == st.dev.current_session_id
           row  == [st.ses[p] EXCEPT !.ended_at = None]
           gone == [st EXCEPT !.dev = [st.dev EXCEPT !.current_session_id = None]]
<1>1. CASE p = None
    BY <1>1, SameRowsSelf DEF ReopenAwaiting
<1>2. CASE p # None
  <2>1. ReopenAwaiting(st, at) \in {gone, [dev |-> st.dev, ses |-> [st.ses EXCEPT ![p] = row]]}
      BY <1>2 DEF ReopenAwaiting
  <2>2. st.ses[p] \in SessionRow
      BY <1>2, ShapedFields DEF OrNone
  <2>3. row.started_at = st.ses[p].started_at
      BY <2>2 DEF SessionRow
  <2>4. SameRows(st, gone)
      BY SameRowsDevice
  <2> HIDE DEF row, p, gone
  <2> QED BY <2>1, <2>3, <2>4, SameRowsReplaced
<1> QED BY <1>1, <1>2

\* On movement boundaries an ECU report opens nothing.
LEMMA EcuStatusChangeSame ==
    ASSUME NEW st, Shaped(st), mode # "contact", NEW ecu, NEW at
    PROVE  SameRows(st, EcuStatusChange(st, ecu, at))
<1>1. EcuStatusChange(st, ecu, at) \in {st, EndSession(st, at, FALSE)}
    BY DEF EcuStatusChange
<1> QED BY <1>1, EndSessionSame, SameRowsSelf

LEMMA AddSessionOneMore ==
    ASSUME NEW st, Shaped(st), NEW row, IsOpen(row)
    PROVE  OneMore(st, AddSession(st, row))
<1>1. /\ Len(Append(st.ses, row)) = Len(st.ses) + 1
      /\ Append(st.ses, row)[Len(st.ses) + 1] = row
      /\ \A i \in 1..Len(st.ses) : Append(st.ses, row)[i] = st.ses[i]
    BY ShapedFields
<1> QED BY <1>1 DEF AddSession, OneMore

\* start_session, which ends the pointed row first.
LEMMA StartSessionOneMore ==
    ASSUME NEW st, Shaped(st), NEW at \in Time
    PROVE  OneMore(st, StartSession(st, at))
<1> DEFINE ended == EndSession(st, at, FALSE)
           row   == [vin |-> st.dev.vin, started_at |-> at, ended_at |-> None,
                     movement_started_at |-> None, movement_ended_at |-> None, version |-> 0]
<1>1. Shaped(ended) /\ SameRows(st, ended)
    BY EndSessionShaped, EndSessionSame
<1>2. StartSession(st, at) = AddSession(ended, row)
    BY DEF StartSession
<1>3. IsOpen(row)
    BY DEF IsOpen
<1> HIDE DEF ended, row
<1> QED BY <1>1, <1>2, <1>3, AddSessionOneMore, SameThenOneMore

LEMMA EcuStatusChangeOneMore ==
    ASSUME NEW st, Shaped(st), NEW ecu, NEW at \in Time
    PROVE  OneMore(st, EcuStatusChange(st, ecu, at))
<1>1. EcuStatusChange(st, ecu, at) \in {st, StartSession(st, at), EndSession(st, at, FALSE)}
    BY DEF EcuStatusChange
<1> QED BY <1>1, StartSessionOneMore, EndSessionSame, SameRowsSelf, SameIsOneMore

LEMMA OpenForMovementOneMore ==
    ASSUME NEW st, Shaped(st), NEW at
    PROVE  OneMore(st, OpenForMovement(st, at))
<1>1. CASE OpenIds(st.ses) # {}
  <2> DEFINE pick == CHOOSE i \in OpenIds(st.ses) : TRUE
  <2>1. OpenForMovement(st, at) = [st EXCEPT !.dev.current_session_id = pick]
      BY <1>1 DEF OpenForMovement
  <2>2. [st EXCEPT !.dev.current_session_id = pick].ses = st.ses
      BY ShapedFields
  <2> QED BY <2>1, <2>2 DEF OneMore
<1>2. CASE OpenIds(st.ses) = {}
  <2>1. PICK row : OpenForMovement(st, at) = AddSession(st, row) /\ IsOpen(row)
      BY <1>2 DEF OpenForMovement, IsOpen
  <2> QED BY <2>1, AddSessionOneMore
<1> QED BY <1>1, <1>2

LEMMA MarkMovedSame ==
    ASSUME NEW st, Shaped(st), st.dev.current_session_id # None, NEW b, NEW at, NEW live
    PROVE  SameRows(st, MarkMoved(st, b, at, live))
<1> DEFINE p   == st.dev.current_session_id
           row == [st.ses[p] EXCEPT !.movement_started_at = Or(@, at),
                                    !.movement_ended_at = at]
<1>1. p \in DOMAIN st.ses /\ st.ses[p] \in SessionRow
    BY ShapedFields DEF OrNone
<1>2. [st.ses EXCEPT ![p].movement_started_at = Or(@, at), ![p].movement_ended_at = at]
          = [st.ses EXCEPT ![p] = row]
    BY <1>1
<1>3. PICK dev : MarkMoved(st, b, at, live) = [dev |-> dev, ses |-> [st.ses EXCEPT ![p] = row]]
    BY <1>2 DEF MarkMoved
<1>4. row.started_at = st.ses[p].started_at
    BY <1>1 DEF SessionRow
<1> HIDE DEF row, p
<1> QED BY <1>3, <1>4, SameRowsReplaced

\* The row opened is then marked as moving, and stays open.
LEMMA PromoteOneMore ==
    ASSUME NEW st, Shaped(st), st.dev.vin # None,
           NEW b \in MovementSignals, NEW at \in Time, NEW live \in BOOLEAN
    PROVE  OneMore(st, PromoteToDriving(st, b, at, live))
<1> DEFINE reopened == IF LiveSession(st) = None THEN ReopenAwaiting(st, at) ELSE st
           opened   == IF LiveSession(reopened) = None
                       THEN OpenForMovement(reopened, at) ELSE reopened
           res      == MarkMoved(opened, b, at, live)
<1>1. Shaped(reopened) /\ reopened.dev.vin # None /\ SameRows(st, reopened)
    BY ReopenShaped, ReopenKeepsVin, ReopenSame, SameRowsSelf
<1> HIDE DEF reopened
<1>2. /\ Shaped(opened) /\ opened.dev.current_session_id # None
      /\ OneMore(reopened, opened)
    BY <1>1, OpenForMovementShaped, LiveSessionPointed, OpenForMovementOneMore,
       SameRowsSelf, SameIsOneMore
<1> HIDE DEF opened
<1>3. /\ SameRows(opened, res)
      /\ \A i \in DOMAIN opened.ses : IsOpen(res.ses[i]) <=> IsOpen(opened.ses[i])
    BY <1>2, MarkMovedSame, MarkMovedRow
<1>4. PromoteToDriving(st, b, at, live) = res
    BY DEF PromoteToDriving, opened, reopened
<1> HIDE DEF res
<1>5. DOMAIN opened.ses = 1..Len(opened.ses) /\ Len(opened.ses) \in Nat /\ Len(reopened.ses) \in Nat
    BY <1>1, <1>2, ShapedFields
<1>6. OneMore(reopened, res)
    BY <1>2, <1>3, <1>5 DEF OneMore, SameRows
<1> QED BY <1>1, <1>4, <1>6, SameThenOneMore

LEMMA StoreTelemetryOneMore ==
    ASSUME NEW st, Shaped(st), NEW b \in MovementSignals, NEW at \in Time
    PROVE  OneMore(st, StoreTelemetry(st, b, at))
<1> DEFINE live    == at - now \in -LiveTolerance..LiveTolerance
           driving == LiveSession(st) # None
           fresh   == IF driving THEN st.dev ELSE ExpireEvidence(st.dev, at)
           st1     == [st EXCEPT !.dev = fresh]
           noted   == [st EXCEPT !.dev = NoteEvidence(fresh, b, at)]
<1>1. fresh \in DeviceRow /\ fresh.current_session_id = st.dev.current_session_id
    BY ShapedFields, ExpireEvidenceTyped
<1>2. fresh.vin = st.dev.vin
    BY ShapedFields DEF ExpireEvidence, ClearMovement, DeviceRow
<1>3. live \in BOOLEAN
    OBVIOUS
<1>4. StoreTelemetry(st, b, at) \in {st, noted}
      \/ (st.dev.vin # None
          /\ StoreTelemetry(st, b, at) = PromoteToDriving(st1, b, at, live))
    BY DEF StoreTelemetry, ObserveTelemetry
<1> HIDE DEF fresh, live
<1>5. Shaped(st1) /\ st1.dev.vin = st.dev.vin
    BY <1>1, <1>2, ShapedDevice, ShapedFields
<1>7. SameRows(st, st1) /\ SameRows(st, noted)
    BY SameRowsDevice, Zenon
<1> HIDE DEF st1, noted
<1>6. st.dev.vin # None => OneMore(st, PromoteToDriving(st1, b, at, live))
    BY <1>3, <1>5, <1>7, PromoteOneMore, SameThenOneMore
<1> QED BY <1>4, <1>6, <1>7, SameRowsSelf, SameIsOneMore

-----------------------------------------------------------------------------
(* The handlers *)

LEMMA DiscoverSame ==
    ASSUME NEW st, Shaped(st)
    PROVE  SameRows(st, Discover(st))
BY SameRowsDevice, SameRowsSelf DEF Discover

LEMMA UpdateStatusSame ==
    ASSUME NEW st, Shaped(st), NEW ecu
    PROVE  SameRows(st, UpdateStatus(st, ecu))
<1>1. UpdateStatus(st, ecu).ses = st.ses
    BY ShapedFields DEF UpdateStatus
<1> QED BY <1>1 DEF SameRows

LEMMA PendingOfflineSame ==
    ASSUME NEW st, Shaped(st), NEW m
    PROVE  SameRows(st, [st EXCEPT !.dev.pending_offline_at = m])
<1>1. [st EXCEPT !.dev.pending_offline_at = m].ses = st.ses
    BY ShapedFields
<1> QED BY <1>1 DEF SameRows

LEMMA EcuReportSameRows ==
    ASSUME NEW st, Shaped(st), mode # "contact", NEW ecu
    PROVE  SameRows(st, EcuReport(st, ecu))
<1>1. SameRows(st, ClearPendingOffline(st))
    BY PendingOfflineSame DEF ClearPendingOffline
<1>2. SameRows(st, [st EXCEPT !.dev.pending_offline_at = now])
    BY PendingOfflineSame
<1>3. SameRows(st, EcuStatusChange(st, "online", now))
      /\ SameRows(st, EcuStatusChange(st, "offline", now))
    BY EcuStatusChangeSame
<1> QED BY <1>1, <1>2, <1>3, SameRowsSelf DEF EcuReport

LEMMA StatusMessageSameRows ==
    ASSUME NEW st, Shaped(st), mode # "contact", NEW ecu \in EcuStatus, now \in Time
    PROVE  SameRows(st, StatusMessage(st, ecu))
<1> DEFINE found    == Discover(st)
           reported == EcuReport(found, ecu)
<1>1. Shaped(found) /\ SameRows(st, found)
    BY DiscoverShaped, DiscoverSame
<1> HIDE DEF found
<1>2. Shaped(reported) /\ SameRows(found, reported)
    BY <1>1, EcuReportShaped, EcuReportSameRows
<1> HIDE DEF reported
<1>3. SameRows(reported, UpdateStatus(reported, ecu))
    BY <1>2, UpdateStatusSame
<1>4. StatusMessage(st, ecu) = UpdateStatus(reported, ecu)
    BY DEF StatusMessage, reported, found
<1> QED BY <1>1, <1>2, <1>3, <1>4, SameRowsBoth

\* On contact boundaries a status message may open a session,
LEMMA StatusMessageOneMore ==
    ASSUME NEW st, Shaped(st), NEW ecu \in EcuStatus, now \in Time
    PROVE  OneMore(st, StatusMessage(st, ecu))
<1> DEFINE found    == Discover(st)
           reported == EcuReport(found, ecu)
<1>1. Shaped(found) /\ SameRows(st, found)
    BY DiscoverShaped, DiscoverSame
<1> HIDE DEF found
<1>2. OneMore(found, ClearPendingOffline(found))
    BY <1>1, PendingOfflineSame, SameIsOneMore DEF ClearPendingOffline
<1>3. OneMore(found, [found EXCEPT !.dev.pending_offline_at = now])
    BY <1>1, PendingOfflineSame, SameIsOneMore
<1>4. OneMore(found, EcuStatusChange(found, "online", now))
      /\ OneMore(found, EcuStatusChange(found, "offline", now))
    BY <1>1, EcuStatusChangeOneMore
<1>5. OneMore(found, reported)
    BY <1>2, <1>3, <1>4, SameRowsSelf, SameIsOneMore DEF EcuReport
<1>6. Shaped(reported)
    BY <1>1, EcuReportShaped
<1> HIDE DEF reported
<1>7. UpdateStatus(reported, ecu).ses = reported.ses
    BY <1>6, ShapedFields DEF UpdateStatus
<1>8. StatusMessage(st, ecu) = UpdateStatus(reported, ecu)
    BY DEF StatusMessage, reported, found
<1>9. OneMore(found, StatusMessage(st, ecu))
    BY <1>5, <1>7, <1>8 DEF OneMore
<1> QED BY <1>1, <1>9, SameThenOneMore

LEMMA BatteryMessageOneMore ==
    ASSUME NEW st, Shaped(st), now \in Time
    PROVE  OneMore(st, BatteryMessage(st))
<1> DEFINE found == Discover(st)
           seen  == UpdateStatus(found, None)
<1>1. Shaped(found) /\ SameRows(st, found)
    BY DiscoverShaped, DiscoverSame
<1> HIDE DEF found
<1>2. Shaped(seen) /\ SameRows(st, seen)
    BY <1>1, UpdateStatusShaped, UpdateStatusSame, SameRowsBoth DEF OrNone
<1>3. EmptyBatch \in MovementSignals
    BY DEF EmptyBatch, MovementSignals
<1>4. BatteryMessage(st) \in {seen, StoreTelemetry(seen, EmptyBatch, now)}
    BY DEF BatteryMessage, found
<1> HIDE DEF seen
<1>5. OneMore(st, StoreTelemetry(seen, EmptyBatch, now))
    BY <1>2, <1>3, StoreTelemetryOneMore, SameThenOneMore
<1> QED BY <1>2, <1>4, <1>5, SameIsOneMore

\* and so may telemetry, which then moves no session itself.
LEMMA TelemetryMessageOneMore ==
    ASSUME NEW st, Shaped(st), NEW b \in MovementSignals, now \in Time
    PROVE  OneMore(st, TelemetryMessage(st, b))
<1> DEFINE recovered == ClearPendingOffline(st)
           awake     == IF st.dev.ecu_status = "online" THEN recovered
                        ELSE EcuStatusChange(recovered, "online", now)
           seen      == UpdateStatus(awake, "online")
<1>1. TelemetryMessage(st, b) \in {Discover(st), st, StoreTelemetry(seen, b, now)}
    BY DEF TelemetryMessage
<1>2. Shaped(recovered) /\ SameRows(st, recovered)
    BY PendingOfflineShaped, PendingOfflineSame DEF ClearPendingOffline, OrNone
<1> HIDE DEF recovered
<1>3. /\ Shaped(awake) /\ OneMore(st, awake)
      /\ mode # "contact" => SameRows(st, awake)
    BY <1>2, EcuStatusChangeShaped, EcuStatusChangeSame, EcuStatusChangeOneMore, SameRowsBoth,
       SameIsOneMore, SameThenOneMore
<1> HIDE DEF awake
<1>4. Shaped(seen) /\ SameRows(awake, seen) /\ seen.ses = awake.ses
  <2>1. Shaped(seen) /\ SameRows(awake, seen)
      BY <1>3, UpdateStatusShaped, UpdateStatusSame DEF OrNone, EcuStatus
  <2>2. seen.ses = awake.ses
      BY <1>3, ShapedFields DEF UpdateStatus
  <2> QED BY <2>1, <2>2
<1> HIDE DEF seen
<1>5. OneMore(st, StoreTelemetry(seen, b, now))
  <2>1. CASE mode = "contact"
    <3>1. OneMore(st, seen)
        BY <1>3, <1>4 DEF OneMore
    <3> QED BY <2>1, <3>1, StoreTelemetryNothing
  <2>2. CASE mode # "contact"
      BY <1>3, <1>4, <2>2, SameRowsBoth, StoreTelemetryOneMore, SameThenOneMore
  <2> QED BY <2>1, <2>2
<1> QED BY <1>1, <1>5, DiscoverSame, SameRowsSelf, SameIsOneMore

\* Either the status block of a payload opens a session or its telemetry does.
LEMMA HttpsMessageOneMore ==
    ASSUME NEW st, Shaped(st), NEW ecu \in OrNone(EcuStatus),
           NEW b \in OrNone(MovementSignals), NEW at \in Time, now \in Time
    PROVE  OneMore(st, HttpsMessage(st, ecu, b, at))
<1> DEFINE seen == IF ecu = None THEN UpdateStatus(st, None) ELSE StatusMessage(st, ecu)
<1>1. /\ Shaped(seen) /\ OneMore(st, seen)
      /\ mode # "contact" => SameRows(st, seen)
    BY UpdateStatusShaped, StatusMessageShaped, UpdateStatusSame, StatusMessageSameRows,
       StatusMessageOneMore, SameIsOneMore DEF OrNone
<1>2. HttpsMessage(st, ecu, b, at) \in {st, seen}
      \/ (b # None /\ HttpsMessage(st, ecu, b, at) = StoreTelemetry(seen, b, at))
    BY DEF HttpsMessage
<1> HIDE DEF seen
<1>3. b # None => OneMore(st, StoreTelemetry(seen, b, at))
    BY <1>1, StoreTelemetryOneMore, StoreTelemetryNothing, SameThenOneMore DEF OrNone
<1> QED BY <1>1, <1>2, <1>3, SameRowsSelf, SameIsOneMore

LEMMA CloseOnClocksSame ==
    ASSUME NEW st, Shaped(st)
    PROVE  SameRows(st, CloseOnClocks(st))
BY EndSessionSame, SameRowsSelf DEF CloseOnClocks

LEMMA CloseOfflineSame ==
    ASSUME NEW st, Shaped(st)
    PROVE  SameRows(st, CloseOffline(st))
<1> DEFINE p      == LiveSession(st)
           endAt  == Or(st.ses[p].movement_ended_at,
                        Or(st.ses[p].movement_started_at, st.ses[p].started_at))
           closed == IF p = None THEN st ELSE EndSession(st, Min({endAt, now}), FALSE)
<1>1. SameRows(st, closed)
    BY EndSessionSame, SameRowsSelf
<1>2. closed = [dev |-> closed.dev, ses |-> closed.ses]
    BY ShapedFields DEF EndSession
<1> HIDE DEF closed
<1>3. CloseOffline(st) = [closed EXCEPT !.dev =
                             ClearMovement([@ EXCEPT !.pending_offline_at = None])]
    BY DEF CloseOffline, closed
<1>4. CloseOffline(st).ses = closed.ses
    BY <1>2, <1>3
<1> QED BY <1>1, <1>4 DEF SameRows

\* A step makes stored rows of stored rows in the two ways that matter here.
Advance == OneMore(State, State') /\ Keeps(State, State')

LEMMA CommitAdvances ==
    ASSUME NEW st, Shaped(st), OneMore(State, st), Keeps(State, st), Commit(st)
    PROVE  Advance
<1>1. State' = st
    BY ShapedFields DEF Commit, State
<1> QED BY <1>1 DEF Advance

LEMMA StepAdvances ==
    ASSUME SteadyInv, [SteadyNext]_vars
    PROVE  Advance
<1>0. Shaped(State) /\ now \in Time
    BY StateShaped DEF SteadyInv, TypeOK
<1>1. ASSUME NEW ecu \in EcuStatus, MqttStatus(ecu) PROVE Advance
    BY <1>0, <1>1, StatusMessageShaped, StatusMessageOneMore,
       StatusMessageKeeps, CommitAdvances DEF MqttStatus
<1>2. CASE MqttBattery
    BY <1>0, <1>2, BatteryMessageShaped, BatteryMessageOneMore, BatteryMessageKeeps,
       CommitAdvances DEF MqttBattery
<1>3. ASSUME NEW b \in Batch, MqttTelemetry(b) PROVE Advance
    BY <1>0, <1>3, BatchAssumption, TelemetryMessageShaped, TelemetryMessageOneMore,
       TelemetryMessageKeeps, CommitAdvances DEF MqttTelemetry
<1>4. ASSUME NEW ecu \in OrNone(EcuStatus), NEW b \in OrNone(Batch), NEW skew \in Skew,
             HttpsPayload(ecu, b, skew)
      PROVE  Advance
  <2>1. b \in OrNone(MovementSignals)
      BY BatchAssumption DEF OrNone
  <2> DEFINE res == HttpsMessage(State, ecu, b, now + skew)
  <2>2. Shaped(res) /\ OneMore(State, res) /\ Keeps(State, res)
      BY <1>0, <1>4, <2>1, HttpsMessageShaped, HttpsMessageOneMore, HttpsMessageKeeps
         DEF HttpsPayload
  <2>3. Commit(res)
      BY <1>4 DEF HttpsPayload
  <2> HIDE DEF res
  <2> QED BY <2>2, <2>3, CommitAdvances
<1>5. CASE SessionTimeouts
  <2> DEFINE closed == CloseOnClocks(State)
             res    == ExpireStaleMovement(closed)
  <2>1. Shaped(closed) /\ SameRows(State, closed) /\ Keeps(State, closed)
      BY <1>0, CloseOnClocksShaped, CloseOnClocksSame, CloseOnClocksKeeps
  <2>2. Commit(res)
      BY <1>5 DEF SessionTimeouts
  <2> HIDE DEF closed
  <2>3. Shaped(res) /\ Keeps(closed, res)
      BY <2>1, ExpireStaleShaped, ExpireStaleKeeps
  <2>4. res.ses = closed.ses
      BY <2>1, ShapedFields DEF ExpireStaleMovement
  <2> HIDE DEF res
  <2>5. SameRows(closed, res)
      BY <2>4 DEF SameRows
  <2> QED BY <2>1, <2>2, <2>3, <2>5, SameRowsBoth, SameIsOneMore, KeepsBoth, CommitAdvances
<1>6. CASE FinalizeOffline
  <2> DEFINE closed == CloseOffline(State)
             res    == [closed EXCEPT !.dev = SetOffline(closed.dev)]
  <2>1. Shaped(closed) /\ SameRows(State, closed) /\ Keeps(State, closed)
      BY <1>0, CloseOfflineShaped, CloseOfflineSame, CloseOfflineKeeps
  <2>2. Commit(res)
      BY <1>6 DEF FinalizeOffline
  <2> HIDE DEF closed
  <2>3. Shaped(res) /\ Keeps(closed, res) /\ SameRows(closed, res)
      BY <2>1, SetOfflineTyped, SetOfflineKeeps, SameRowsDevice
  <2> HIDE DEF res
  <2> QED BY <2>1, <2>2, <2>3, SameRowsBoth, SameIsOneMore, KeepsBoth, CommitAdvances
<1>7. CASE MarkDeviceOffline
  <2> DEFINE res == [State EXCEPT !.dev = SetOffline(State.dev)]
  <2>1. Shaped(res) /\ Keeps(State, res) /\ SameRows(State, res)
      BY <1>0, SetOfflineTyped, SetOfflineKeeps, SameRowsDevice
  <2>2. Commit(res)
      BY <1>7 DEF MarkDeviceOffline
  <2> HIDE DEF res
  <2> QED BY <2>1, <2>2, SameIsOneMore, CommitAdvances
<1>8. CASE Tick \/ UNCHANGED vars
  <2>1. State' = State
      BY <1>8 DEF Tick, vars, State
  <2> QED BY <2>1, SameRowsSelf, SameIsOneMore, KeepsSame DEF Advance
<1> QED
    BY <1>1, <1>2, <1>3, <1>4, <1>5, <1>6, <1>7, <1>8 DEF SteadyNext, Mqtt, Https, Jobs

-----------------------------------------------------------------------------
(* The log *)

Log == [i \in DOMAIN sessions |-> TripOf(i)]

TripRecord(phase, started, ended) == [phase |-> phase, started |-> started, ended |-> ended]

LEMMA TripFields ==
    ASSUME NEW p, NEW s, NEW e
    PROVE  /\ TripRecord(p, s, e).phase = p
           /\ TripRecord(p, s, e).started = s
           /\ TripRecord(p, s, e).ended = e
BY DEF TripRecord

EndOf(i) == IF PhaseOf(i) = "final" THEN sessions[i].ended_at ELSE None

\* The log has a trip for every row, and a trip says this of its row.
RowsLogged ==
    /\ Len(sessions) \in Nat /\ DOMAIN sessions = 1..Len(sessions)
    /\ Len(Log) = Len(sessions) /\ DOMAIN Log = 1..Len(sessions)
    /\ \A i \in 1..Len(sessions) :
          /\ sessions[i] \in SessionRow
          /\ Log[i] = TripRecord(PhaseOf(i), sessions[i].started_at, EndOf(i))

LEMMA LogOfRows == TypeOK => RowsLogged
<1> SUFFICES ASSUME TypeOK PROVE RowsLogged
    OBVIOUS
<1>1. sessions \in Seq(SessionRow)
    BY DEF TypeOK
<1>2. Len(sessions) \in Nat /\ DOMAIN sessions = 1..Len(sessions)
    BY <1>1
<1>3. DOMAIN Log = 1..Len(sessions)
    BY <1>2 DEF Log
<1>4. \A i \in 1..Len(sessions) : Log[i] \in {TripOf(j) : j \in 1..Len(sessions)}
    BY <1>2 DEF Log
<1>5. Log \in [1..Len(sessions) -> {TripOf(j) : j \in 1..Len(sessions)}]
    BY <1>2 DEF Log
<1>6. Log \in Seq({TripOf(j) : j \in 1..Len(sessions)})
    BY <1>2, <1>5, SeqDef, Zenon
<1>7. Len(Log) = Len(sessions)
    BY <1>2, <1>3, <1>6, LenProperties
<1>8. \A i \in 1..Len(sessions) : sessions[i] \in SessionRow /\ Log[i] = TripOf(i)
    BY <1>1, <1>2 DEF Log
<1> QED BY <1>2, <1>3, <1>7, <1>8 DEF RowsLogged, TripOf, TripRecord, EndOf

\* Only the last trip is not final.
LEMMA OnlyLastIsActive ==
    ASSUME SteadyInv
    PROVE  \A i \in 1..Len(sessions) : PhaseOf(i) # "final" => i = Len(sessions)
<1>1. sessions \in Seq(SessionRow) /\ State.ses = sessions /\ State.dev = device
    BY DEF SteadyInv, TypeOK, State
<1>2. Len(sessions) \in Nat /\ DOMAIN sessions = 1..Len(sessions)
    BY <1>1
<1>3. \A i \in 1..Len(sessions) : i # None
    BY <1>1, <1>2, RowIds
<1> QED BY <1>1, <1>2, <1>3 DEF SteadyInv, Tidy, PhaseOf, OpenIds

\* From one state to the next no start moves, a final trip stays as it is, and
\* the trip that is added is being driven.
LEMMA TripByTrip ==
    ASSUME TypeOK, TypeOK', Advance
    PROVE  /\ Len(Log) <= Len(Log')
           /\ \A i \in 1..Len(Log) : /\ Log'[i].started = Log[i].started
                                     /\ Log[i].phase = "final" => Log'[i] = Log[i]
           /\ \/ Len(Log') = Len(Log)
              \/ Len(Log') = Len(Log) + 1 /\ Log'[Len(Log) + 1].phase = "driving"
<1> DEFINE n == Len(sessions)
           m == Len(sessions')
<1>0. RowsLogged /\ RowsLogged'
    BY LogOfRows, PTL
<1>1. /\ n \in Nat /\ DOMAIN sessions = 1..n /\ Len(Log) = n
      /\ m \in Nat /\ DOMAIN sessions' = 1..m /\ Len(Log') = m
    BY <1>0 DEF RowsLogged
<1>2. /\ \A i \in 1..n : sessions'[i].started_at = sessions[i].started_at
      /\ \/ m = n
         \/ m = n + 1 /\ IsOpen(sessions'[n + 1])
    BY DEF Advance, OneMore, State
<1>3. \A i \in 1..n : ~IsOpen(sessions[i]) /\ device.current_session_id # i =>
          /\ sessions'[i] = sessions[i]
          /\ ~IsOpen(sessions'[i]) /\ device'.current_session_id # i
    BY <1>1 DEF Advance, Keeps, LetGo, State
<1>4. \A i \in 1..n : i \in 1..m
  <2> HIDE DEF n, m
  <2> QED BY <1>1, <1>2
<1> DEFINE start(i) == sessions[i].started_at
           phase(i) == PhaseOf(i)
           end(i)   == EndOf(i)
           start2(i) == sessions'[i].started_at
           phase2(i) == PhaseOf(i)'
           end2(i)   == EndOf(i)'
<1>8. /\ \A i \in 1..n : Log[i] = TripRecord(phase(i), start(i), end(i))
      /\ \A i \in 1..m : Log'[i] = TripRecord(phase2(i), start2(i), end2(i))
    BY <1>0 DEF RowsLogged
<1>9. \A i \in 1..n : start2(i) = start(i)
    BY <1>2
<1>11. ASSUME NEW i \in 1..n, phase(i) = "final" PROVE phase2(i) = "final" /\ end2(i) = end(i)
    BY <1>3, <1>11 DEF PhaseOf, EndOf
<1>12. ASSUME NEW i \in 1..m, i = n + 1 PROVE phase2(i) = "driving"
  <2>1. IsOpen(sessions'[i])
    <3> HIDE DEF n, m
    <3> QED BY <1>1, <1>2, <1>12
  <2> QED BY <2>1 DEF PhaseOf
<1> HIDE DEF n, m, start, phase, end, start2, phase2, end2
<1>5. ASSUME NEW i \in 1..n PROVE Log'[i].started = Log[i].started
  <2>1. Log[i].started = start(i)
      BY <1>8, TripFields
  <2>2. Log'[i].started = start2(i)
      BY <1>4, <1>8, TripFields
  <2> QED BY <1>9, <2>1, <2>2
<1>6. ASSUME NEW i \in 1..n, Log[i].phase = "final" PROVE Log'[i] = Log[i]
  <2>1. phase(i) = "final"
      BY <1>6, <1>8, TripFields
  <2>2. phase2(i) = phase(i) /\ end2(i) = end(i) /\ start2(i) = start(i)
      BY <2>1, <1>9, <1>11
  <2>3. Log'[i] = TripRecord(phase2(i), start2(i), end2(i))
      BY <1>4, <1>8
  <2> QED BY <1>8, <2>2, <2>3
<1>7. ASSUME m = n + 1 PROVE Log'[n + 1].phase = "driving"
  <2>1. PICK i \in 1..m : i = n + 1
      BY <1>1, <1>7
  <2>2. Log'[i].phase = "driving"
      BY <1>8, <1>12, <2>1, TripFields
  <2> QED BY <2>1, <2>2
<1>10. m = n \/ m = n + 1
    BY <1>2 DEF n, m
<1> QED BY <1>1, <1>5, <1>6, <1>7, <1>10

\* A log, or a log with one trip rewritten.
Indexed(log, k)         == log = [i \in 1..k |-> log[i]]
Replaced(log, i, trip)  == [log EXCEPT ![i] = trip]
Rephased(log, i, phase) == [log EXCEPT ![i].phase = phase]
MadeFinal(log, i, e)    == [log EXCEPT ![i].phase = "final", ![i].ended = e]

\* TripLog's operators, said of this log.
LEMMA TripSteps ==
    /\ Trips!Pause <=> /\ Len(Log) > 0 /\ Log[Len(Log)].phase = "driving"
                       /\ Log' = Rephased(Log, Len(Log), "awaiting")
    /\ Trips!Resume <=> /\ Len(Log) > 0 /\ Log[Len(Log)].phase = "awaiting"
                        /\ Log' = Rephased(Log, Len(Log), "driving")
    /\ \A e : Trips!Finish(e) <=> Log' = Trips!Finished(e)
BY DEF Trips!Pause, Trips!Resume, Trips!Finish, Trips!Active, Rephased, Log

LEMMA TripFinished ==
    ASSUME NEW e
    PROVE  Trips!Finished(e) =
               IF Len(Log) = 0 \/ Log[Len(Log)].phase = "final" THEN Log
               ELSE MadeFinal(Log, Len(Log), e)
BY DEF Trips!Finished, Trips!Active, MadeFinal, Log

LEMMA TripBegins ==
    ASSUME NEW e
    PROVE  Trips!Begin(e) <=>
               /\ Len(Log') = Len(Log) + 1
               /\ \A i \in 1..Len(Log) : Log'[i] = Trips!Finished(e)[i]
               /\ Log'[Len(Log) + 1] \in
                      [phase : {"driving"}, started : Time, ended : {None}]
               /\ Len(Log) > 0 =>
                      Log'[Len(Log) + 1].started >= Trips!Finished(e)[Len(Log)].ended
BY DEF Trips!Begin, Trips!Active, Log

\* A log in order: all but the last trip are final, only a final trip has an
\* end, and the next begins at or after it.
LogInOrder ==
    /\ Len(Log) \in Nat /\ Indexed(Log, Len(Log))
    /\ \A i \in 1..Len(Log) :
          /\ Log[i] = TripRecord(Log[i].phase, Log[i].started, Log[i].ended)
          /\ Log[i].phase \in {"driving", "awaiting", "final"} /\ Log[i].started \in Time
          /\ IF Log[i].phase = "final" THEN Log[i].ended \in Time ELSE Log[i].ended = None
          /\ i # Len(Log) => Log[i].phase = "final" /\ Log[i].ended <= Log[i + 1].started

LEMMA TidyLog ==
    SteadyInv /\ InOrder => LogInOrder
<1> SUFFICES ASSUME SteadyInv, InOrder PROVE LogInOrder
    OBVIOUS
<1> DEFINE n == Len(sessions)
<1>0. TypeOK /\ RowsLogged
    BY LogOfRows DEF SteadyInv
<1>1. n \in Nat /\ DOMAIN sessions = 1..n /\ Len(Log) = n /\ DOMAIN Log = 1..n
    BY <1>0 DEF RowsLogged
<1>2. Log = [i \in 1..n |-> Log[i]]
    BY <1>1 DEF Log
<1>3. \A i \in 1..n :
         /\ Log[i].phase = PhaseOf(i) /\ Log[i].started = sessions[i].started_at
         /\ Log[i].ended = EndOf(i)
         /\ Log[i] = TripRecord(Log[i].phase, Log[i].started, Log[i].ended)
         /\ sessions[i] \in SessionRow
    BY <1>0, TripFields DEF RowsLogged
<1>4. ASSUME NEW i \in 1..n
      PROVE  /\ PhaseOf(i) \in {"driving", "awaiting", "final"}
             /\ sessions[i].started_at \in Time
             /\ IF PhaseOf(i) = "final" THEN EndOf(i) \in Time ELSE EndOf(i) = None
    BY <1>3 DEF PhaseOf, EndOf, IsOpen, SessionRow, OrNone
<1>5. ASSUME NEW i \in 1..n, i # n
      PROVE  PhaseOf(i) = "final" /\ EndOf(i) <= sessions[i + 1].started_at
  <2>1. PhaseOf(i) = "final"
      BY <1>5, OnlyLastIsActive
  <2>2. i \in 1..n /\ i + 1 \in 1..n /\ i < i + 1
    <3> HIDE DEF n
    <3> QED BY <1>1, <1>5
  <2>3. sessions[i].ended_at <= sessions[i + 1].started_at
      BY <1>1, <2>2 DEF InOrder
  <2> QED BY <2>1, <2>3 DEF EndOf
<1>6. \A i \in 1..n : i # n => i + 1 \in 1..n
  <2> HIDE DEF n
  <2> QED BY <1>1
<1> QED BY <1>1, <1>2, <1>3, <1>4, <1>5, <1>6 DEF LogInOrder, Indexed

\* Rewriting a trip's phase, or finishing it.
LEMMA TripRewritten ==
    ASSUME NEW log, NEW k, Indexed(log, k), NEW n \in 1..k,
           NEW p, NEW s, NEW e, log[n] = TripRecord(p, s, e)
    PROVE  /\ \A q : Rephased(log, n, q) = Replaced(log, n, TripRecord(q, s, e))
           /\ \A f : MadeFinal(log, n, f) = Replaced(log, n, TripRecord("final", s, f))
<1>0. log = [i \in 1..k |-> log[i]]
    BY DEF Indexed
<1> SUFFICES ASSUME NEW r, NEW f
             PROVE  /\ [log EXCEPT ![n].phase = r] = [log EXCEPT ![n] = TripRecord(r, s, e)]
                    /\ [log EXCEPT ![n].phase = r, ![n].ended = f]
                           = [log EXCEPT ![n] = TripRecord(r, s, f)]
    BY DEF Rephased, Replaced, MadeFinal
<1> DEFINE mid == [log EXCEPT ![n] = TripRecord(r, s, e)]
<1>1. [TripRecord(p, s, e) EXCEPT !.phase = r] = TripRecord(r, s, e)
    BY DEF TripRecord
<1>2. [TripRecord(r, s, e) EXCEPT !.ended = f] = TripRecord(r, s, f)
    BY DEF TripRecord
<1>3. [log EXCEPT ![n].phase = r] = mid
    BY <1>1
<1>4. mid[n] = TripRecord(r, s, e)
    BY <1>0
<1>5. [log EXCEPT ![n].phase = r, ![n].ended = f] = [mid EXCEPT ![n].ended = f]
    BY <1>3
<1>6. [mid EXCEPT ![n].ended = f] = [mid EXCEPT ![n] = TripRecord(r, s, f)]
  <2> HIDE DEF mid
  <2> QED BY <1>2, <1>4
<1>7. [mid EXCEPT ![n] = TripRecord(r, s, f)] = [log EXCEPT ![n] = TripRecord(r, s, f)]
    OBVIOUS
<1> QED BY <1>3, <1>5, <1>6, <1>7

\* Every step of the sessions is a step of the log, or none.
LEMMA LogAdvances ==
    ASSUME SteadyInv, SteadyInv', InOrder, InOrder', Advance
    PROVE  Trips!TripsNext \/ Log' = Log
<1> DEFINE n == Len(Log)
           m == Len(Log')
<1>0. LogInOrder /\ LogInOrder'
    BY TidyLog, PTL
<1>1. /\ \A i \in 1..n : /\ Log'[i].started = Log[i].started
                         /\ Log[i].phase = "final" => Log'[i] = Log[i]
      /\ m = n \/ (m = n + 1 /\ Log'[n + 1].phase = "driving")
    BY TripByTrip DEF SteadyInv
<1>2. n \in Nat /\ Indexed(Log, n) /\ m \in Nat /\ Indexed(Log', m)
    BY <1>0 DEF LogInOrder
<1>3. \A i \in 1..n : i # n => Log'[i] = Log[i]
    BY <1>0, <1>1 DEF LogInOrder
<1>4. CASE m = n /\ n = 0
    BY <1>2, <1>4 DEF Indexed
<1>5. CASE m = n /\ n > 0
  <2> DEFINE was == Log[n]
             is  == Log'[n]
  <2>1. n \in 1..n /\ n \in 1..m
      BY <1>2, <1>5
  <2>2. PICK p, s, f : /\ was = TripRecord(p, s, f) /\ was.phase = p /\ was.started = s
                       /\ p \in {"driving", "awaiting", "final"}
                       /\ p # "final" => f = None
      BY <2>1, <1>0 DEF LogInOrder
  <2>3. PICK q, e : /\ is = TripRecord(q, s, e)
                    /\ q \in {"driving", "awaiting", "final"}
                    /\ IF q = "final" THEN e \in Time ELSE e = None
      BY <2>1, <2>2, <1>0, <1>1, <1>5 DEF LogInOrder
  <2>4. Log' = Replaced(Log, n, is)
      BY <1>2, <1>3, <1>5, <2>1 DEF Indexed, Replaced
  <2>5. CASE p = "final"
    <3>1. is = was
        BY <1>1, <2>1, <2>2, <2>5
    <3> QED BY <1>2, <2>4, <3>1 DEF Indexed, Replaced
  <2>6. CASE p = q /\ p # "final"
    <3>1. is = was
        BY <2>2, <2>3, <2>6
    <3> QED BY <1>2, <2>4, <3>1 DEF Indexed, Replaced
  <2>7. /\ \A r : Rephased(Log, n, r) = Replaced(Log, n, TripRecord(r, s, f))
        /\ MadeFinal(Log, n, e) = Replaced(Log, n, TripRecord("final", s, e))
    <3>1. Log[n] = TripRecord(p, s, f)
        BY <2>2
    <3> HIDE DEF n
    <3> QED BY <1>2, <2>1, <3>1, TripRewritten
  <2> HIDE DEF is
  <2>8. CASE p = "driving" /\ q = "awaiting"
    <3>1. Log' = Rephased(Log, n, "awaiting")
        BY <2>2, <2>3, <2>4, <2>7, <2>8
    <3> QED BY <1>5, <2>2, <2>8, <3>1, TripSteps DEF Trips!TripsNext
  <2>9. CASE p = "awaiting" /\ q = "driving"
    <3>1. Log' = Rephased(Log, n, "driving")
        BY <2>2, <2>3, <2>4, <2>7, <2>9
    <3> QED BY <1>5, <2>2, <2>9, <3>1, TripSteps DEF Trips!TripsNext
  <2>10. CASE p # "final" /\ q = "final"
    <3>1. Log' = MadeFinal(Log, n, e)
        BY <2>3, <2>4, <2>7, <2>10
    <3>2. Trips!Finished(e) = Log'
        BY <1>5, <2>2, <2>10, <3>1, TripFinished
    <3> QED BY <2>3, <2>10, <3>2, TripSteps DEF Trips!TripsNext
  <2> QED BY <2>2, <2>3, <2>5, <2>6, <2>8, <2>9, <2>10
<1>6. CASE m = n + 1
  <2> DEFINE new == Log'[n + 1]
  <2>1. n + 1 \in 1..m /\ new.phase = "driving"
    <3> HIDE DEF n, m
    <3> QED BY <1>1, <1>2, <1>6
  <2>2. new = TripRecord("driving", new.started, None) /\ new.started \in Time
      BY <2>1, <1>0 DEF LogInOrder
  <2>3. new \in [phase : {"driving"}, started : Time, ended : {None}]
      BY <2>2 DEF TripRecord
  <2>4. CASE n = 0
    <3>1. 0 \in Time
        BY BoundAssumption DEF Time
    <3>2. Trips!Begin(0)
        BY <1>6, <2>3, <2>4, TripBegins
    <3> QED BY <3>1, <3>2 DEF Trips!TripsNext
  <2>5. CASE n > 0
    <3> DEFINE last == Log'[n]
               e    == last.ended
    <3>1. n \in 1..n /\ n \in 1..m /\ n # m
      <4> HIDE DEF n, m
      <4> QED BY <1>2, <1>6, <2>5
    <3>2. /\ last = TripRecord("final", last.started, e) /\ last.phase = "final"
          /\ e \in Time /\ e <= new.started
        BY <3>1, <1>0 DEF LogInOrder
    <3>3. last.started = Log[n].started
        BY <1>1, <3>1
    <3>4. PICK p, s, f : Log[n] = TripRecord(p, s, f) /\ Log[n].phase = p /\ Log[n].started = s
      <4>1. Log[n] = TripRecord(Log[n].phase, Log[n].started, Log[n].ended)
          BY <3>1, <1>0 DEF LogInOrder
      <4> QED BY <4>1, Zenon
    <3>5. last = Trips!Finished(e)[n]
      <4>1. CASE p = "final"
          BY <1>1, <3>1, <3>4, <4>1, TripFinished
      <4>2. CASE p # "final"
        <5>1. Trips!Finished(e) = MadeFinal(Log, n, e)
            BY <2>5, <3>4, <4>2, TripFinished
        <5>2. Trips!Finished(e) = Replaced(Log, n, TripRecord("final", s, e))
          <6>1. Log[n] = TripRecord(p, s, f)
              BY <3>4
          <6>2. MadeFinal(Log, n, e) = Replaced(Log, n, TripRecord("final", s, e))
            <7> HIDE DEF n, e
            <7> QED BY <1>2, <3>1, <6>1, TripRewritten
          <6> QED BY <5>1, <6>2
        <5>3. Trips!Finished(e)[n] = TripRecord("final", s, e)
            BY <1>2, <3>1, <5>2 DEF Indexed, Replaced
        <5> QED BY <3>2, <3>3, <3>4, <5>3
      <4> QED BY <4>1, <4>2
    <3>6. ASSUME NEW i \in 1..n PROVE Log'[i] = Trips!Finished(e)[i]
      <4>1. CASE i = n
          BY <3>5, <4>1
      <4>2. CASE i # n
        <5>1. Log'[i] = Log[i]
            BY <1>3, <4>2
        <5>2. Trips!Finished(e)[i] = Log[i]
            BY <1>2, <4>2, TripFinished DEF Indexed, MadeFinal
        <5> QED BY <5>1, <5>2
      <4> QED BY <4>1, <4>2
    <3>7. new.started >= Trips!Finished(e)[n].ended
        BY <3>2, <3>5, <2>2 DEF Time
    <3>8. Trips!Begin(e)
        BY <1>6, <2>3, <3>6, <3>7, TripBegins
    <3> QED BY <3>2, <3>8 DEF Trips!TripsNext
  <2> QED BY <1>2, <2>4, <2>5
<1> HIDE DEF n, m
<1> QED BY <1>1, <1>2, <1>4, <1>5, <1>6

\* The sessions of a device that stays linked are a trip log, on either
\* boundaries and whatever timestamps its payloads carry: that is all the
\* pointer, the clocks and the evidence come to for whoever reads the rows
\* (session_service.py).
THEOREM SessionsAreATripLog ==
    ASSUME Graced
    PROVE  SteadySpec => IsTripLog
<1>1. Init => Trips!TripsInit
  <2> SUFFICES ASSUME Init PROVE Log = <<>>
      BY DEF Trips!TripsInit, Log
  <2>1. sessions = <<>>
      BY DEF Init
  <2> QED BY <2>1 DEF Log
<1>2. SteadyInv /\ SteadyInv' /\ InOrder /\ InOrder' /\ [SteadyNext]_vars
          => [Trips!TripsNext]_Log
  <2> SUFFICES ASSUME SteadyInv, SteadyInv', InOrder, InOrder', [SteadyNext]_vars
               PROVE  Trips!TripsNext \/ Log' = Log
      OBVIOUS
  <2> QED BY StepAdvances, LogAdvances
<1>3. SteadySpec => Trips!TripsInit /\ [][Trips!TripsNext]_Log
    BY <1>1, <1>2, WindowsInOrder, SteadyInvariant, PTL DEF SteadySpec
<1> QED BY <1>3, PTL DEF IsTripLog, Trips!TripsSpec, Log
=============================================================================
