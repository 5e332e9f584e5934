---------------------------- MODULE TreadWarning ----------------------------
(***************************************************************************)
(* The low-tread warning of one tire: its tread and threshold, the tread   *)
(* readings behind them, and the reminders pending for it.                 *)
(*                                                                         *)
(* A request loads the tire, commits a change to it, and settles the       *)
(* warning afterwards, in a second transaction and from the copy of the    *)
(* tire it holds in memory.  Most of these requests take no lock, and      *)
(* those that do have released it by then, so others commit in between.    *)
(* No column here decides what TireService writes, nor the other way       *)
(* round.  A warning here is that it is pending: its title, which names    *)
(* the corner, and what it says of distance and date are left out.         *)
(***************************************************************************)
EXTENDS Integers

CONSTANTS
    Request,        \* requests that may be under way at once
    Unknown,        \* a NULL column, or no row
    Depth, Floor,   \* values of tread_depth_mm and of min_tread_mm
    Observation,    \* what a reading may say: recorded_at and tread
    ReadingId, WarningId   \* bounds: the ids rows may have

ASSUME RequestAssumption == Unknown \notin Request
ASSUME WarningAssumption ==
    /\ Unknown \notin Nat /\ Depth \subseteq Nat /\ Floor \subseteq Nat
    /\ Observation \subseteq [on : Nat, depth : Depth \cup {Unknown}]
    /\ ReadingId \subseteq Nat /\ WarningId \subseteq Nat

VARIABLES
    tire,       \* the row's depth and floor, Unknown when there is none
    measured,   \* its rows of tire_readings
    warnings,   \* ids of its reminders pending with source low_tread
    request,    \* what each request has done, and holds of the rows
    disturbed   \* history: requests another has interfered with

treadVars == <<tire, measured, warnings, request, disturbed>>

OrUnknown(S) == S \cup {Unknown}

TreadRow(depth, floor) == [depth |-> depth, floor |-> floor]
Measurement(id, e) == [id |-> id, on |-> e.on, depth |-> e.depth]

Holding(phase, row, past, seen) ==
    [phase |-> phase, held |-> row, past |-> past, seen |-> seen]

Idle == Holding("idle", Unknown, {}, {})

\* History: a step of q that changes a row disturbs every other request.
Disturbing(q) ==
    disturbed' = {p \in Request :
        /\ request'[p] # Idle
        /\ \/ p \in disturbed
           \/ p # q /\ <<tire, measured, warnings>>' # <<tire, measured, warnings>>}

\* The least id above those in use, as max(rowid) + 1.
NextId(id, used) == (\A i \in used : i < id) /\ id - 1 \in used \cup {0}

-----------------------------------------------------------------------------
(* The change a request makes *)

\* The tire is loaded with its readings.
Load(q) ==
    /\ tire # Unknown /\ request[q] = Idle
    /\ request' = [request EXCEPT ![q] = Holding("loaded", tire, measured, {})]
    /\ UNCHANGED <<tire, measured, warnings>>
    /\ Disturbing(q)

\* The flush: a column is written when it differs from what was loaded.
Flushed(held, depth, floor) ==
    TreadRow(IF depth # held.depth THEN depth ELSE tire.depth,
             IF floor # held.floor THEN floor ELSE tire.floor)

\* q commits the columns and readings; its own copy has what it assigned.
CommitChange(q, phase, depth, floor, readings) ==
    /\ request[q].phase = "loaded"
    /\ tire' = Flushed(request[q].held, depth, floor)
    /\ measured' = readings
    /\ request' = [request EXCEPT ![q] = Holding(phase, TreadRow(depth, floor), {}, {})]
    /\ UNCHANGED warnings
    /\ Disturbing(q)

\* create_tire, create_and_mount.
CreateTire(q, depth, floor) ==
    /\ tire = Unknown /\ request[q] = Idle
    /\ tire' = TreadRow(depth, floor)
    /\ request' = [request EXCEPT ![q] = Holding("committed", tire', {}, {})]
    /\ UNCHANGED <<measured, warnings>>
    /\ Disturbing(q)

\* update_tire: the tread and the threshold may be set or cleared.
UpdateTire(q, depth, floor) == CommitChange(q, "committed", depth, floor, measured)

\* mount_tire, restore_tire: no column here changes, and the write lock is
\* held from the loading to the commit.
MoveTire(q) ==
    /\ tire # Unknown /\ request[q] = Idle
    /\ request' = [request EXCEPT ![q] = Holding("committed", tire, {}, {})]
    /\ UNCHANGED <<tire, measured, warnings>>
    /\ Disturbing(q)

\* The newest observation defines the tread, if it measured one.
DepthAfter(held, past, r) ==
    IF r.depth # Unknown /\ \A m \in past : m.on <= r.on THEN r.depth ELSE held.depth

\* add_reading.
AddMeasurement(q, r) ==
    LET own == request[q]
    IN  /\ NextId(r.id, {m.id : m \in measured})
        /\ CommitChange(q, "stored", DepthAfter(own.held, own.past, r), own.held.floor,
                        measured \cup {r})

\* add_reading alone refreshes its copy from the row.
Refresh(q) ==
    /\ request[q].phase = "stored"
    /\ request' = [request EXCEPT ![q] = Holding("committed", tire, {}, {})]
    /\ UNCHANGED <<tire, measured, warnings>>
    /\ Disturbing(q)

Newest(ms) ==
    CHOOSE m \in ms : \A n \in ms : n.on < m.on \/ (n.on = m.on /\ n.id <= m.id)

\* The tread falls back only if it is the withdrawn reading's.
DepthWithout(held, past, r) ==
    LET rest == {m \in past : m.id # r.id /\ m.depth # Unknown}
    IN  IF r.depth = Unknown \/ held.depth # r.depth THEN held.depth
        ELSE IF rest = {} THEN Unknown ELSE Newest(rest).depth

\* delete_reading.
DeleteMeasurement(q, r) ==
    LET own == request[q]
    IN  CommitChange(q, "committed", DepthWithout(own.held, own.past, r), own.held.floor,
                     {m \in measured : m.id # r.id})

-----------------------------------------------------------------------------
(* _sync_low_tread_reminder *)

Gauged(held) == held.depth # Unknown /\ held.floor # Unknown
Worn(held) == Gauged(held) /\ held.depth <= held.floor
Healthy(held) == Gauged(held) /\ ~Worn(held)

\* owned[1:]
Surplus(seen) == {w \in seen : \E v \in seen : v < w}

\* The SELECT of the pending reminders.
Look(q) ==
    /\ request[q].phase = "committed"
    /\ request' = [request EXCEPT ![q] = Holding("looked", request[q].held, {}, warnings)]
    /\ UNCHANGED <<tire, measured, warnings>>
    /\ Disturbing(q)

Raises(held, seen) == Worn(held) /\ seen = {}

\* Mutant of Settled: what is not known to be worn counts as sound.
SettledTwoStates(held, seen, new) ==
    IF ~Worn(held) THEN warnings \ seen
    ELSE IF seen = {} THEN warnings \cup {new} ELSE warnings \ Surplus(seen)

\* What is pending once the sync has committed.
Settled(held, seen, new) ==
    IF Healthy(held) THEN warnings \ seen
    ELSE IF Raises(held, seen) THEN warnings \cup {new} ELSE warnings \ Surplus(seen)

\* The warning is raised, completed or left, and its duplicates collapse.
Settle(q) ==
    /\ request[q].phase = "looked"
    /\ \E new \in WarningId :
          /\ Raises(request[q].held, request[q].seen) =>
                NextId(new, warnings \cup UNION {request[p].seen : p \in Request})
          /\ warnings' = Settled(request[q].held, request[q].seen, new)
    /\ request' = [request EXCEPT ![q] = Idle]
    /\ UNCHANGED <<tire, measured>>
    /\ Disturbing(q)

-----------------------------------------------------------------------------
(* What else happens to the rows *)

\* A request ends where it is: the server stops, or a row it would write is
\* gone.
Stop(q) ==
    /\ request[q] # Idle
    /\ request' = [request EXCEPT ![q] = Idle]
    /\ UNCHANGED <<tire, measured, warnings>>
    /\ Disturbing(q)

\* delete_tire: readings go with it, reminders are detached, and whatever a
\* request still tries for the tire fails.
DeleteTire ==
    /\ tire # Unknown
    /\ tire' = Unknown /\ measured' = {} /\ warnings' = {}
    /\ request' = [q \in Request |-> Idle]
    /\ disturbed' = {}

\* A person marks a reminder done, dismisses or deletes it.
CloseByHand(w) ==
    /\ warnings' = warnings \ {w}
    /\ UNCHANGED <<tire, measured, request>>
    /\ Disturbing(Unknown)

-----------------------------------------------------------------------------
\* No tire yet, or one an earlier release left, which may have raised more than
\* one reminder for it.
TreadInit ==
    /\ \/ tire = Unknown /\ warnings = {}
       \/ /\ \E depth \in OrUnknown(Depth), floor \in OrUnknown(Floor) :
                tire = TreadRow(depth, floor)
          /\ warnings \in SUBSET WarningId
    /\ measured = {}
    /\ request = [q \in Request |-> Idle]
    /\ disturbed = {}

TireWritten(q) ==
    \/ Load(q)
    \/ \E depth \in OrUnknown(Depth), floor \in OrUnknown(Floor) :
          CreateTire(q, depth, floor) \/ UpdateTire(q, depth, floor)
    \/ MoveTire(q)
    \/ \E id \in ReadingId, e \in Observation : AddMeasurement(q, Measurement(id, e))
    \/ \E r \in request[q].past : DeleteMeasurement(q, r)

WarningSettled(q) == Refresh(q) \/ Look(q) \/ Settle(q)

TreadNext ==
    \/ \E q \in Request : TireWritten(q) \/ WarningSettled(q) \/ Stop(q)
    \/ DeleteTire
    \/ \E w \in warnings : CloseByHand(w)

TreadSpec == TreadInit /\ [][TreadNext]_treadVars

-----------------------------------------------------------------------------
(* Property.                                                               *)

\* A request that nobody interferes with, from loading the tire to its last
\* commit, leaves the warning right for what the tire then says, whatever
\* races, crashes or people left there before: exactly one when the tread is
\* worn, none when it is sound, and when either figure is unknown one if there
\* was any.
WarningRight ==
    [][\A q \in Request : Settle(q) /\ q \notin disturbed =>
          /\ Worn(tire) => \E w \in WarningId : warnings' = {w}
          /\ Healthy(tire) => warnings' = {}
          /\ ~Gauged(tire) => \/ warnings = {} /\ warnings' = {}
                              \/ \E w \in warnings : warnings' = {w}]_treadVars
=============================================================================
