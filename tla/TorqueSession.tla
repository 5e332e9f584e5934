---------------------------- MODULE TorqueSession ----------------------------
(***************************************************************************)
(* Trips of one Torque Pro source.  The phone names its trips, so nothing  *)
(* is cut from movement: resolve_torque_session finds or creates the row   *)
(* of the trip an upload names, whatever the order in which the uploads of *)
(* several trips arrive, and the timeout job closes the one left open.     *)
(*                                                                         *)
(* An upload and a tick of the job are each one transaction.  Spec makes   *)
(* each one step.  RaceSpec splits the job where it really is split, at    *)
(* the awaits between its SELECT and its commit.                           *)
(***************************************************************************)
EXTENDS Integers

CONSTANTS
    None,
    Trip,          \* Torque `session` ids the phone may send
    Contact,       \* livelink_session_timeout_minutes
    Ahead,         \* how far the phone's clock may run ahead of the server's
    MaxTime,       \* bound: the clock stops here
    LastContact    \* bound: the phone is silent after this time

ASSUME TripAssumption ==
    /\ None \notin Trip /\ None \notin Int
    /\ None \notin [started_at : Nat, ended_at : Nat \union {None}]
ASSUME SettingAssumption ==
    Contact \in Nat /\ Ahead \in Nat /\ MaxTime \in Nat /\ LastContact \in Nat

VARIABLES
    now,          \* utc_now()
    last_seen,    \* livelink_devices.last_seen
    current,      \* livelink_devices.current_session_id, as a trip
    rows,         \* drive_sessions by external_session_id; None: no row
    job           \* the row the timeout job has read and not closed yet

vars == <<now, last_seen, current, rows, job>>

Past == 0..now
Row  == [started_at : Past, ended_at : Past \union {None}]

IsOpen(t) == rows[t] # None /\ rows[t].ended_at = None

Init ==
    /\ now = 0 /\ last_seen = 0
    /\ current = None
    /\ rows = [t \in Trip |-> None]
    /\ job = None

-----------------------------------------------------------------------------
(* routes/torque.py, SessionService.resolve_torque_session *)

\* Mutant of Stamped: the phone's clock is trusted.
Unclamped(candidate) == candidate

\* A reading's own time is kept for the past and never for the future.
Stamped(candidate) == IF candidate <= now THEN candidate ELSE now

\* Mutant of SeenNow: the phone's clock drives the inactivity timeout.
SeenThen(at) == last_seen' = at

\* last_seen is the server's clock, whatever time the reading carries.
SeenNow(at) == last_seen' = now

\* A trip first seen at `at` is the newest unless an active one began later.
IsNewer(at) == current # None => at >= rows[current].started_at

\* Mutant of UploadKnown: the trip an upload names becomes the current one.
KnownMovesPointer(t, at) ==
    /\ t # None => rows[t] # None
    /\ current' = IF t = None THEN current ELSE t
    /\ UNCHANGED rows

\* An upload that names no trip, or one whose row exists: data only.
UploadKnown(t, at) ==
    /\ t # None => rows[t] # None
    /\ UNCHANGED <<current, rows>>

\* Mutant of UploadStraggler: an older trip ends and unseats the active one.
StragglerTakesOver(t, at) ==
    /\ t # None /\ rows[t] = None
    /\ ~IsNewer(at)
    /\ rows' = [rows EXCEPT ![current].ended_at = now,
                            ![t] = [started_at |-> at, ended_at |-> None]]
    /\ current' = t

\* Mutant of UploadStraggler: the older trip's row is left open.
StragglerLeaksOpen(t, at) ==
    /\ t # None /\ rows[t] = None
    /\ ~IsNewer(at)
    /\ rows' = [rows EXCEPT ![t] = [started_at |-> at, ended_at |-> None]]
    /\ UNCHANGED current

\* The first packet of an older trip, after a newer one went active.
UploadStraggler(t, at) ==
    /\ t # None /\ rows[t] = None
    /\ ~IsNewer(at)
    /\ rows' = [rows EXCEPT ![t] = [started_at |-> at, ended_at |-> at]]
    /\ UNCHANGED current

\* A new trip ends the active one.  The unique index on open rows refuses a
\* second one: the upload is rolled back and the phone tries again.
UploadNewest(t, at) ==
    /\ t # None /\ rows[t] = None
    /\ IsNewer(at)
    /\ \A u \in Trip : IsOpen(u) => u = current
    /\ rows' = [u \in Trip |->
                  CASE u = t       -> [started_at |-> at, ended_at |-> None]
                    [] u = current -> [rows[u] EXCEPT !.ended_at = now]
                    [] OTHER       -> rows[u]]
    /\ current' = t

Upload(t, candidate) ==
    /\ now <= LastContact
    /\ LET at == Stamped(candidate)
       IN  /\ SeenNow(at)
           /\ \/ UploadKnown(t, at)
              \/ UploadStraggler(t, at)
              \/ UploadNewest(t, at)
    /\ UNCHANGED <<now, job>>

-----------------------------------------------------------------------------
(* SessionService.check_session_timeouts: a Torque row keeps the default     *)
(* boundary_algorithm_version, 0, so only contact loss closes it.            *)

Silent == current # None /\ IsOpen(current) /\ last_seen < now - Contact

\* end_session(device, at), on the row the job has read.
EndSession(t, at) ==
    /\ rows' = [rows EXCEPT ![t].ended_at = at]
    /\ current' = None

\* Mutant of Timeout: the row closes and the pointer is kept, as the
\* contact-loss clock does for a WiCAN session.
TimeoutRetainsPointer ==
    /\ Silent
    /\ rows' = [rows EXCEPT ![current].ended_at = last_seen]
    /\ UNCHANGED <<now, last_seen, current, job>>

Timeout ==
    /\ Silent
    /\ EndSession(current, last_seen)
    /\ UNCHANGED <<now, last_seen, job>>

\* The same tick, with its SELECT and its commit apart: the device row is not
\* read again, and its pointer is written whatever became of it meanwhile.
TimeoutRead ==
    /\ job = None /\ Silent
    /\ job' = [trip |-> current, at |-> last_seen]
    /\ UNCHANGED <<now, last_seen, current, rows>>

TimeoutWrite ==
    /\ job # None
    /\ EndSession(job.trip, job.at)
    /\ job' = None
    /\ UNCHANGED <<now, last_seen>>

Tick ==
    /\ now < MaxTime
    /\ now' = now + 1
    /\ UNCHANGED <<last_seen, current, rows, job>>

Uploads ==
    \E t \in Trip \union {None} : \E candidate \in 0..(now + Ahead) :
        Upload(t, candidate)

Next == Uploads \/ Timeout \/ Tick
RaceNext == Uploads \/ TimeoutRead \/ TimeoutWrite \/ Tick

\* The scheduler keeps running the job, and time passes.
Spec == Init /\ [][Next]_vars /\ WF_vars(Timeout) /\ WF_vars(Tick)
RaceSpec == Init /\ [][RaceNext]_vars

-----------------------------------------------------------------------------
(* Properties. *)

\* Types of the device row and the session rows.  No time in them is in the
\* server's future.
TypeOK ==
    /\ now \in Nat /\ last_seen \in Past
    /\ current \in Trip \union {None}
    /\ rows \in [Trip -> Row \union {None}]
    /\ job \in [trip : Trip, at : Past] \union {None}

\* No trip leaks open: the open rows are the one the pointer names, if any.
\* A row left open beside the pointer is never closed by the job, and the
\* unique index then refuses every later trip.
OpenIsCurrent == \A t \in Trip : IsOpen(t) <=> t = current

\* No trip ends before it starts, whatever the phone's clock said and by
\* whichever clock it closed.
EndsAfterStart ==
    \A t \in Trip : rows[t] # None /\ rows[t].ended_at # None =>
        rows[t].started_at <= rows[t].ended_at

\* A late packet never ends the active trip: it closes only after silence, or
\* because a trip that did not start before it takes its place.
ActiveTripIsSafe ==
    [][\A t \in Trip : IsOpen(t) /\ ~IsOpen(t)' =>
          \/ now - last_seen > Contact
          \/ /\ current' # None
             /\ rows'[current'].started_at >= rows[t].started_at]_vars

\* A closed trip is history: no replay, straggler or job changes its row.
ClosedIsFinal ==
    [][\A t \in Trip : rows[t] # None /\ ~IsOpen(t) => rows'[t] = rows[t]]_vars

\* Once the phone is silent, no trip stays open.
EveryTripCloses ==
    now + Contact < MaxTime ~> \A t \in Trip : ~IsOpen(t)
=============================================================================
