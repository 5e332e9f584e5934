---------------------------- MODULE DriveSession ----------------------------
(***************************************************************************)
(* The drive-session state machine of one LiveLink (WiCAN) device: the     *)
(* device row, the drive_sessions rows cut from its telemetry, and every   *)
(* handler that moves them: the MQTT subscriber, the HTTPS ingest route,   *)
(* the three background jobs and the administrator's device operations.    *)
(*                                                                         *)
(* A handler runs in one database transaction, and here it is one step.    *)
(* Handlers are operators on the pair                                      *)
(*     st = [dev |-> device row, ses |-> sequence of session rows]         *)
(* composed in the order the code calls them; Commit writes the result.    *)
(* What two transactions do to each other is the subject of IngestRace.    *)
(***************************************************************************)
EXTENDS Integers, Sequences, FiniteSetsExt

CONSTANTS
    None,            \* SQL NULL / Python None
    Vin,             \* vehicles the device may be linked to
    Odometer,        \* odometer readings (km) a batch may carry
    Batch,           \* telemetry batches, as their movement signals
    Skew,            \* HTTPS payloads: sample time minus receipt time
    Gap,             \* livelink_session_gap_minutes
    Contact,         \* livelink_session_timeout_minutes
    Grace,           \* livelink_session_grace_period_seconds; 0 disables
    OfflineAfter,    \* livelink_device_offline_timeout_minutes
    LiveTolerance,   \* LIVE_SAMPLE_TOLERANCE_SECONDS
    Modes,           \* livelink_session_boundary_mode values in use
    MaxTime,         \* bound: the clock stops here
    MaxSessions,     \* bound: session rows
    LastContact      \* bound: the device is silent after this time

ASSUME NoneAssumption == None \notin Int /\ None \notin Vin
ASSUME OdometerAssumption == Odometer \subseteq Nat

\* What a telemetry batch says about movement: a speed at or above the floor,
\* an engine turning, an odometer reading (None: the batch has none).
MovementSignals ==
    [above : BOOLEAN, engine : BOOLEAN, odometer : Odometer \cup {None}]

ASSUME BatchAssumption == Batch \subseteq MovementSignals
ASSUME SkewAssumption == Skew \subseteq Int
ASSUME SettingAssumption ==
    Gap \in Nat /\ Contact \in Nat /\ Grace \in Nat /\ OfflineAfter \in Nat
ASSUME ToleranceAssumption == LiveTolerance \in Nat
ASSUME ModeAssumption == Modes \subseteq {"movement", "contact"}
ASSUME BoundAssumption == MaxTime \in Nat /\ MaxSessions \in Nat /\ LastContact \in Nat

VARIABLES
    now,        \* utc_now()
    device,     \* the livelink_devices row
    sessions,   \* the device's drive_sessions rows, in id order
    mode        \* the livelink_session_boundary_mode setting

vars == <<now, device, sessions, mode>>

-----------------------------------------------------------------------------
(* Rows *)

Time     == 0..MaxTime
OrNone(S) == S \cup {None}
EcuStatus == {"online", "offline", "unknown"}

DeviceRow ==
    [exists : BOOLEAN,
     vin : OrNone(Vin), enabled : BOOLEAN,
     ecu_status : EcuStatus, device_status : {"online", "offline"},
     last_seen : Time, pending_offline_at : OrNone(Time),
     current_session_id : OrNone(Nat),
     pending_since : OrNone(Time), movement_candidate_at : OrNone(Time),
     movement_baseline_km : OrNone(Odometer), last_movement_at : OrNone(Time)]

SessionRow ==
    [vin : Vin, started_at : Time, ended_at : OrNone(Time),
     movement_started_at : OrNone(Time), movement_ended_at : OrNone(Time),
     version : {0, 1}]   \* boundary_algorithm_version

\* A freshly discovered device: unlinked, enabled, nothing pending.
FreshDevice(t) ==
    [exists |-> TRUE, vin |-> None, enabled |-> TRUE,
     ecu_status |-> "unknown", device_status |-> "online", last_seen |-> t,
     pending_offline_at |-> None, current_session_id |-> None,
     pending_since |-> None, movement_candidate_at |-> None,
     movement_baseline_km |-> None, last_movement_at |-> None]

Or(x, y) == IF x = None THEN y ELSE x

IsOpen(row) == row.ended_at = None
OpenIds(ses) == {i \in DOMAIN ses : IsOpen(ses[i])}

\* uq_drive_sessions_open_per_device: at most one row with ended_at NULL.
UniqueOpen(ses) == \A i, j \in OpenIds(ses) : i = j

-----------------------------------------------------------------------------
(* SessionService *)

\* The device's open session, through the pointer; None in the idle and
\* awaiting states.
LiveSession(st) ==
    LET p == st.dev.current_session_id
    IN  IF p # None /\ IsOpen(st.ses[p]) THEN p ELSE None

ClearMovement(dev) ==
    [dev EXCEPT !.pending_since = None, !.movement_candidate_at = None,
                !.movement_baseline_km = None]

\* Mutant of EndSession: the pointer is dropped, the row is left open.
ForgetSession(st, at, retainPointer) ==
    IF retainPointer THEN st ELSE [st EXCEPT !.dev.current_session_id = None]

\* Mutant of EndSession: the row closes at the current time, not at `at`.
EndSessionNow(st, at, retainPointer) ==
    LET p == st.dev.current_session_id
    IN  IF p = None THEN st
        ELSE [dev |-> IF retainPointer THEN st.dev
                      ELSE [st.dev EXCEPT !.current_session_id = None],
              ses |-> [st.ses EXCEPT ![p].ended_at = now]]

\* Closes whatever row the pointer names, an awaiting (closed) one included.
EndSession(st, at, retainPointer) ==
    LET p == st.dev.current_session_id
    IN  IF p = None THEN st
        ELSE [dev |-> IF retainPointer THEN st.dev
                      ELSE [st.dev EXCEPT !.current_session_id = None],
              ses |-> [st.ses EXCEPT ![p].ended_at = at]]

AddSession(st, row) ==
    [dev |-> [st.dev EXCEPT !.current_session_id = Len(st.ses) + 1],
     ses |-> Append(st.ses, row)]

\* Mutant of StartSession: the session a sweep left open is not ended first.
StartBesideOpen(st, at) ==
    AddSession(st, [vin |-> st.dev.vin, started_at |-> at, ended_at |-> None,
                    movement_started_at |-> None, movement_ended_at |-> None,
                    version |-> 0])

\* Contact mode only. The row keeps the default algorithm version, 0.
StartSession(st, at) ==
    AddSession(EndSession(st, at, FALSE),
               [vin |-> st.dev.vin, started_at |-> at, ended_at |-> None,
                movement_started_at |-> None, movement_ended_at |-> None,
                version |-> 0])

EcuStatusChange(st, ecu, at) ==
    IF st.dev.vin = None THEN st
    ELSE IF st.dev.ecu_status # "online" /\ ecu = "online" /\ mode = "contact"
         THEN StartSession(st, at)
    ELSE IF st.dev.ecu_status = "online" /\ ecu = "offline"
         THEN EndSession(st, at, FALSE)
    ELSE st

\* Two samples further apart than the gap are not evidence for each other.
ExpireEvidence(dev, at) ==
    IF dev.pending_since # None /\ at - dev.pending_since > Gap
    THEN ClearMovement(dev)
    ELSE IF dev.movement_candidate_at # None /\ at - dev.movement_candidate_at > Gap
    THEN [dev EXCEPT !.movement_candidate_at = None, !.movement_baseline_km = None]
    ELSE dev

OdometerRose(dev, b) ==
    /\ b.odometer # None
    /\ dev.movement_baseline_km # None
    /\ b.odometer > dev.movement_baseline_km

\* Speed needs a second above-floor sample unless a session is open; an
\* odometer above the baseline is proof by itself, except that a first
\* above-floor sample is recorded without looking at the odometer.
Confirmed(dev, b, sessionOpen) ==
    \/ b.above /\ (sessionOpen \/ dev.movement_candidate_at # None)
    \/ (sessionOpen \/ ~b.above) /\ OdometerRose(dev, b)

\* What an unconfirmed batch leaves behind when no session is open.
NoteEvidence(dev, b, at) ==
    LET firstAbove    == b.above
        firstOdometer == ~b.above /\ b.odometer # None /\ dev.movement_baseline_km = None
    IN  [dev EXCEPT
           !.movement_candidate_at =
               IF firstAbove \/ (firstOdometer /\ @ = None) THEN at ELSE @,
           !.movement_baseline_km =
               IF b.odometer # None /\ (firstAbove \/ firstOdometer) THEN b.odometer ELSE @,
           !.pending_since = IF b.engine /\ @ = None THEN at ELSE @]

\* Mutant of ReopenAwaiting: no look at the gap.
ReopenAnyAwaiting(st, at) ==
    LET p == st.dev.current_session_id
    IN  IF p = None THEN st
        ELSE [dev |-> st.dev, ses |-> [st.ses EXCEPT ![p].ended_at = None]]

\* Mutant of ReopenAwaiting: the device's latest row, awaiting or not.
ReopenLatest(st, at) ==
    LET p == Len(st.ses)
    IN  IF p = 0 \/ at - Or(st.ses[p].movement_ended_at, st.ses[p].ended_at) > Gap
        THEN [st EXCEPT !.dev.current_session_id = None]
        ELSE [dev |-> [st.dev EXCEPT !.current_session_id = p],
              ses |-> [st.ses EXCEPT ![p].ended_at = None]]

\* The awaiting session, reopened when movement returns inside the gap and
\* let go of otherwise.
ReopenAwaiting(st, at) ==
    LET p == st.dev.current_session_id
    IN  IF p = None THEN st
        ELSE IF at - Or(st.ses[p].movement_ended_at, st.ses[p].ended_at) > Gap
        THEN [st EXCEPT !.dev.current_session_id = None]
        ELSE [dev |-> st.dev, ses |-> [st.ses EXCEPT ![p].ended_at = None]]

\* Mutant of PreviousEnd: the backdated start is not clamped.
NoPreviousEnd(ses) == 0

\* max(ended_at) over the device's closed rows.
PreviousEnd(ses) ==
    LET ends == {ses[i].ended_at : i \in DOMAIN ses} \ {None}
    IN  IF ends = {} THEN 0 ELSE Max(ends)

\* Mutant of OpenForMovement: the row starts at the confirming sample, its
\* movement at the earlier candidate.
OpenAtConfirmation(st, at) ==
    AddSession(st, [vin |-> st.dev.vin, started_at |-> at, ended_at |-> None,
                    movement_started_at |-> Or(st.dev.movement_candidate_at, at),
                    movement_ended_at |-> at, version |-> 1])

\* Mutant of OpenForMovement: a row is inserted beside one that is open.
OpenWithoutAdopting(st, at) ==
    AddSession(st, [vin |-> st.dev.vin, started_at |-> at, ended_at |-> None,
                    movement_started_at |-> at, movement_ended_at |-> at,
                    version |-> 1])

\* The row's start backdates to the earliest evidence, clamped past the
\* previous close, as a SELECT sees it: sessions do not autoflush, so a row the
\* same transaction has just closed is not among them. A row that is already
\* open for the device (the unique index rejects the insert, which does flush)
\* is adopted instead, whatever vehicle it is for.
OpenForMovement(st, at) ==
    LET evidence == {st.dev.pending_since, st.dev.movement_candidate_at, at} \ {None}
        started  == Max({Min(evidence), PreviousEnd(sessions)})
        moved    == Max({Or(st.dev.movement_candidate_at, at), started})
    IN  IF OpenIds(st.ses) # {}
        THEN [st EXCEPT !.dev.current_session_id = CHOOSE i \in OpenIds(st.ses) : TRUE]
        ELSE AddSession(st,
               [vin |-> st.dev.vin, started_at |-> started, ended_at |-> None,
                movement_started_at |-> moved, movement_ended_at |-> at,
                version |-> 1])

MarkMoved(st, b, at, live) ==
    LET p == st.dev.current_session_id
    IN  [dev |-> [st.dev EXCEPT
                    !.movement_baseline_km = Or(b.odometer, @),
                    !.last_movement_at = IF live THEN at ELSE @,
                    !.pending_since = None, !.movement_candidate_at = None],
         ses |-> [st.ses EXCEPT ![p].movement_started_at = Or(@, at),
                                ![p].movement_ended_at = at]]

\* driving extends, awaiting reopens or lets go, idle opens.
PromoteToDriving(st, b, at, live) ==
    LET reopened == IF LiveSession(st) = None THEN ReopenAwaiting(st, at) ELSE st
        opened   == IF LiveSession(reopened) = None
                    THEN OpenForMovement(reopened, at) ELSE reopened
    IN  MarkMoved(opened, b, at, live)

ObserveTelemetry(st, b, at, live) ==
    LET driving == LiveSession(st) # None
        fresh   == IF driving THEN st.dev ELSE ExpireEvidence(st.dev, at)
    IN  IF st.dev.vin = None \/ ~st.dev.enabled \/ mode = "contact" THEN st
        ELSE IF Confirmed(fresh, b, driving)
        THEN PromoteToDriving([st EXCEPT !.dev = fresh], b, at, live)
        ELSE IF driving THEN st
        ELSE [st EXCEPT !.dev = NoteEvidence(fresh, b, at)]

-----------------------------------------------------------------------------
(* Ingest: what the MQTT subscriber and the HTTPS route share *)

State == [dev |-> device, ses |-> sessions]

\* The transaction commits, unless the unique index rejects a row and the
\* whole message is rolled back; the session bound is the model's.
Commit(st) ==
    /\ UniqueOpen(st.ses)
    /\ Len(st.ses) <= MaxSessions
    /\ device' = st.dev
    /\ sessions' = st.ses
    /\ UNCHANGED <<now, mode>>

\* auto_discover_device
Discover(st) ==
    IF st.dev.exists THEN st ELSE [st EXCEPT !.dev = FreshDevice(now)]

\* Mutant of UpdateStatus: an absent report overwrites the last known status.
OverwriteStatus(st, ecu) ==
    [st EXCEPT !.dev.device_status = "online", !.dev.last_seen = now,
               !.dev.ecu_status = ecu]

\* update_device_status: every call is a contact.
UpdateStatus(st, ecu) ==
    [st EXCEPT !.dev.device_status = "online", !.dev.last_seen = now,
               !.dev.ecu_status = Or(ecu, @)]

\* Mutant of ClearPendingOffline: the recovery is not recorded.
IgnoreRecovery(st) == st

ClearPendingOffline(st) == [st EXCEPT !.dev.pending_offline_at = None]

\* An explicit ECU status: recovery clears a pending offline, an offline
\* starts (or restarts) the grace period.
EcuReport(st, ecu) ==
    IF st.dev.vin = None \/ ecu = "unknown" THEN st
    ELSE IF ecu = "online"
         THEN IF st.dev.pending_offline_at # None
              THEN ClearPendingOffline(st)
              ELSE EcuStatusChange(st, "online", now)
    ELSE IF Grace > 0
         THEN [st EXCEPT !.dev.pending_offline_at = now]
         ELSE EcuStatusChange(st, "offline", now)

\* store_telemetry, as far as the session is concerned.
StoreTelemetry(st, b, at) ==
    ObserveTelemetry(st, b, at, at - now \in -LiveTolerance..LiveTolerance)

EmptyBatch == [above |-> FALSE, engine |-> FALSE, odometer |-> None]

StatusMessage(st, ecu) == UpdateStatus(EcuReport(Discover(st), ecu), ecu)

BatteryMessage(st) ==
    LET seen == UpdateStatus(Discover(st), None)
    IN  IF seen.dev.vin = None THEN seen ELSE StoreTelemetry(seen, EmptyBatch, now)

TelemetryMessage(st, b) ==
    LET recovered == ClearPendingOffline(st)
        awake     == IF st.dev.ecu_status = "online" THEN recovered
                     ELSE EcuStatusChange(recovered, "online", now)
    IN  IF ~st.dev.exists THEN Discover(st)
        ELSE IF st.dev.vin = None \/ ~st.dev.enabled THEN st
        ELSE StoreTelemetry(UpdateStatus(awake, "online"), b, now)

\* ecu = None: no status block. b = None: no telemetry.
HttpsMessage(st, ecu, b, at) ==
    LET seen == IF ecu = None THEN UpdateStatus(st, None) ELSE StatusMessage(st, ecu)
    IN  IF ecu = None /\ ~st.dev.exists THEN st
        ELSE IF seen.dev.vin = None \/ b = None THEN seen
        ELSE StoreTelemetry(seen, b, at)

-----------------------------------------------------------------------------
(* The handlers as steps *)

InContact == now <= LastContact   \* bound: then the device falls silent

MqttStatus(ecu)  == InContact /\ Commit(StatusMessage(State, ecu))
MqttBattery      == InContact /\ Commit(BatteryMessage(State))
MqttTelemetry(b) == InContact /\ Commit(TelemetryMessage(State, b))

HttpsPayload(ecu, b, skew) ==
    /\ InContact
    /\ now + skew \in Time
    /\ b = None => skew = 0
    /\ Commit(HttpsMessage(State, ecu, b, now + skew))

\* Contact-era rows close at the last contact; the movement clocks close at
\* the device's last movement, the drive gap for good, contact loss awaiting.
CloseOnClocks(st) ==
    LET p      == LiveSession(st)
        silent == now - st.dev.last_seen > Contact
        moved  == Or(st.dev.last_movement_at,
                     Or(st.ses[p].movement_ended_at,
                        Or(st.ses[p].movement_started_at, st.ses[p].started_at)))
    IN  IF p = None THEN st
        ELSE IF st.ses[p].version < 1
        THEN IF silent THEN EndSession(st, st.dev.last_seen, FALSE) ELSE st
        ELSE IF now - moved > Gap THEN EndSession(st, moved, FALSE)
        ELSE IF silent THEN EndSession(st, moved, TRUE)
        ELSE st

\* Mutant of ExpireStaleMovement: stale evidence and awaiting rows are kept.
KeepStaleMovement(st) == st

ExpireStaleMovement(st) ==
    LET p       == st.dev.current_session_id
        past(t) == now - t > Gap
        letGo   == p # None /\ ~IsOpen(st.ses[p])
                   /\ past(Or(st.ses[p].movement_ended_at, st.ses[p].ended_at))
        dev     == IF st.dev.pending_since # None /\ past(st.dev.pending_since)
                   THEN ClearMovement(st.dev) ELSE st.dev
    IN  [st EXCEPT !.dev = IF letGo THEN [dev EXCEPT !.current_session_id = None] ELSE dev]

\* The once-a-minute job: both clocks, then the housekeeping.
SessionTimeouts == Commit(ExpireStaleMovement(CloseOnClocks(State)))

SetOffline(dev) == [dev EXCEPT !.device_status = "offline", !.ecu_status = "offline"]

\* SessionService.finalize_offline
CloseOffline(st) ==
    LET p      == LiveSession(st)
        endAt  == Or(st.ses[p].movement_ended_at,
                     Or(st.ses[p].movement_started_at, st.ses[p].started_at))
        closed == IF p = None THEN st ELSE EndSession(st, Min({endAt, now}), FALSE)
    IN  [closed EXCEPT !.dev = ClearMovement([@ EXCEPT !.pending_offline_at = None])]

\* The grace period ran out: close, and mark the device offline.
FinalizeOffline ==
    /\ Grace > 0
    /\ device.pending_offline_at # None
    /\ now - device.pending_offline_at >= Grace
    /\ LET closed == CloseOffline(State)
       IN  Commit([closed EXCEPT !.dev = SetOffline(@)])

MarkDeviceOffline ==
    /\ device.device_status = "online"
    /\ now - device.last_seen > OfflineAfter
    /\ Commit([State EXCEPT !.dev = SetOffline(@)])

-----------------------------------------------------------------------------
(* The administrator *)

\* Mutant of LinkDevice: the device's past sessions move to the new vehicle.
LinkWithHistory(v) ==
    /\ device.exists /\ v # None
    /\ Commit([dev |-> [device EXCEPT !.vin = v],
               ses |-> [i \in DOMAIN sessions |-> [sessions[i] EXCEPT !.vin = v]]])

\* update_device and link_device_to_vehicle: the pointer is not touched.
LinkDevice(v) == device.exists /\ Commit([State EXCEPT !.dev.vin = v])

\* unlink_device: the pointer is cleared, the session left as it is.
UnlinkDevice ==
    /\ device.exists
    /\ Commit([State EXCEPT !.dev.vin = None, !.dev.current_session_id = None])

SetEnabled(e) == device.exists /\ Commit([State EXCEPT !.dev.enabled = e])

\* The row goes; the sessions, keyed on the device id, stay.
DeleteDevice ==
    /\ device.exists
    /\ Commit([State EXCEPT !.dev = [FreshDevice(now) EXCEPT !.exists = FALSE]])

SetBoundaryMode(m) == mode' = m /\ UNCHANGED <<now, device, sessions>>

Tick == now < MaxTime /\ now' = now + 1 /\ UNCHANGED <<device, sessions, mode>>

-----------------------------------------------------------------------------
(* Specifications *)

\* A linked device, just discovered, before its first message.
Init ==
    /\ now = 0
    /\ \E v \in Vin : device = [FreshDevice(0) EXCEPT !.vin = v]
    /\ sessions = <<>>
    /\ mode \in Modes

Mqtt ==
    \/ \E ecu \in EcuStatus : MqttStatus(ecu)
    \/ MqttBattery
    \/ \E b \in Batch : MqttTelemetry(b)

Https ==
    \E ecu \in OrNone(EcuStatus), b \in OrNone(Batch), skew \in Skew :
        HttpsPayload(ecu, b, skew)

Jobs == SessionTimeouts \/ FinalizeOffline \/ MarkDeviceOffline

Relink ==
    \/ \E v \in OrNone(Vin) : LinkDevice(v)
    \/ UnlinkDevice
    \/ DeleteDevice

Settings ==
    \/ \E e \in BOOLEAN : SetEnabled(e)
    \/ \E m \in Modes : SetBoundaryMode(m)

\* The device stays linked to its vehicle and the settings as they are.
SteadyNext == Mqtt \/ Https \/ Jobs \/ Tick

Next == SteadyNext \/ Relink \/ Settings

Spec       == Init /\ [][Next]_vars
SteadySpec == Init /\ [][SteadyNext]_vars

\* MQTT ingest only: every sample is live.
LiveNext == Mqtt \/ Jobs \/ Tick
LiveSpec == Init /\ [][LiveNext]_vars

\* The clock advances and the scheduler keeps running its two closing jobs.
Fairness == WF_vars(Tick) /\ WF_vars(SessionTimeouts) /\ WF_vars(FinalizeOffline)

FairSteadySpec == SteadySpec /\ Fairness

-----------------------------------------------------------------------------
(* Properties *)

\* Every row and every column keeps its type; the pointer names a row.
TypeOK ==
    /\ now \in Time
    /\ device \in DeviceRow
    /\ sessions \in Seq(SessionRow)
    /\ mode \in {"movement", "contact"}
    /\ device.current_session_id \in OrNone(DOMAIN sessions)

\* Every closing clock starts from the pointer, so an open row the pointer
\* does not name would never be closed by any later path.
NoOrphan == \A i \in OpenIds(sessions) : device.current_session_id = i

\* The windows of a device's sessions are disjoint and in id order, so no
\* sample is claimed, and no distance counted, twice.
NoOverlap ==
    \A i, j \in DOMAIN sessions :
        i < j => /\ ~IsOpen(sessions[i])
                 /\ sessions[i].ended_at <= sessions[j].started_at

\* A session's own times are in order: it starts at or before the first
\* movement, which is at or before the last, and it ends no earlier.
WindowOrdered ==
    \A i \in DOMAIN sessions :
        LET row == sessions[i]
        IN  /\ row.movement_started_at # None =>
                 /\ row.started_at <= row.movement_started_at
                 /\ row.movement_started_at <= row.movement_ended_at
            /\ ~IsOpen(row) => row.started_at <= row.ended_at

\* Neither clock pads a drive's tail: a session cut on movement closes at its
\* own last movement, whoever closes it.
ClosesAtMovement ==
    \A i \in DOMAIN sessions :
        sessions[i].version = 1 /\ ~IsOpen(sessions[i]) =>
            sessions[i].ended_at = sessions[i].movement_ended_at

\* While an ECU-offline is provisional nothing moves: a movement means the
\* connection recovered and the offline is withdrawn, so finalizing it never
\* cuts a drive in progress.
NoMovementWhilePending ==
    device.pending_offline_at # None /\ device.last_movement_at # None =>
        device.last_movement_at <= device.pending_offline_at

\* No message or payload of the device is ever rolled back by the unique
\* index: in every reachable state the rows that any of them would leave, with
\* whatever blocks and sample time a payload comes, have at most one open.
IndexNeverRejects ==
    /\ \A ecu \in EcuStatus : UniqueOpen(StatusMessage(State, ecu).ses)
    /\ UniqueOpen(BatteryMessage(State).ses)
    /\ \A b \in Batch : UniqueOpen(TelemetryMessage(State, b).ses)
    /\ \A ecu \in OrNone(EcuStatus), b \in OrNone(Batch), skew \in Skew :
          now + skew \in Time =>
             UniqueOpen(HttpsMessage(State, ecu, b, now + skew).ses)

\* A closed session is reopened only by movement inside the drive gap of its
\* own last movement.
ReopensInsideGap ==
    [][\A i \in DOMAIN sessions :
          ~IsOpen(sessions[i]) /\ IsOpen(sessions'[i]) =>
              sessions'[i].movement_ended_at
                - Or(sessions[i].movement_ended_at, sessions[i].ended_at) <= Gap]_vars

\* A closed session the pointer has let go of never changes again, whatever
\* the device, the jobs and the administrator do, and no row ever disappears.
HistoryFrozen ==
    [][\A i \in DOMAIN sessions :
          /\ i \in DOMAIN sessions'
          /\ ~IsOpen(sessions[i]) /\ device.current_session_id # i =>
                sessions'[i] = sessions[i]]_vars

\* Once the device has fallen silent every session is closed for good, the
\* warm-up that went nowhere is forgotten and the provisional offline settled.
EventuallyQuiet ==
    <>[](/\ OpenIds(sessions) = {}
         /\ device.current_session_id = None
         /\ device.pending_since = None
         /\ Grace > 0 => device.pending_offline_at = None)

\* The sessions implement the trip log: open is driving, closed and pointed
\* at is awaiting, closed and let go of is final.
PhaseOf(i) ==
    IF IsOpen(sessions[i]) THEN "driving"
    ELSE IF device.current_session_id = i THEN "awaiting" ELSE "final"

TripOf(i) ==
    [phase |-> PhaseOf(i), started |-> sessions[i].started_at,
     ended |-> IF PhaseOf(i) = "final" THEN sessions[i].ended_at ELSE None]

Trips == INSTANCE TripLog WITH
    Instant <- Time, Unset <- None, trips <- [i \in DOMAIN sessions |-> TripOf(i)]

IsTripLog == Trips!TripsSpec
=============================================================================
