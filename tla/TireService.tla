----------------------------- MODULE TireService -----------------------------
(***************************************************************************)
(* The tires of one vehicle: where each is, the mount periods and readings *)
(* that are its history, and the odometer records its events leave among   *)
(* those of the vehicle's other writers.                                   *)
(*                                                                         *)
(* Every operation that writes a corner, a retirement or a period runs     *)
(* under the vehicle's write lock and commits these columns once, so it is *)
(* one step; the flushes inside it are kept, for the unique indexes are    *)
(* checked at each.  create_tire, update_tire, add_reading, delete_reading *)
(* and delete_set take no lock: their one commit is a step, and what two   *)
(* of them read of each other before it is left out.  The treads and the   *)
(* reminder that some of these go on to settle are TreadWarning's.  A      *)
(* refused operation changes nothing and is no step.                       *)
(***************************************************************************)
EXTENDS TireHistory, OdometerSync, TLC

CONSTANTS
    Tire,           \* row ids; a deleted one may be given out again
    Corner,         \* TirePosition
    Day, Km,        \* what forms, readings and the car may say
    HasSet,         \* whether the vehicle has a set to file tires in
    Legacy,         \* histories written before v3.4.0, without validation
    MaxPeriods,     \* bound: mount periods of a tire
    MaxReadings,    \* bound: readings of the vehicle
    MaxRecords,     \* bound: odometer records
    MaxOthers       \* bound: those of them that no tire marks

ASSUME TireAssumption == Tire \subseteq Nat /\ None \notin Nat
ASSUME CornerAssumption == None \notin Corner
ASSUME FigureAssumption == Day \subseteq Nat /\ Km \subseteq Nat /\ Tol \in Nat
ASSUME BoundAssumption ==
    /\ HasSet \in BOOLEAN
    /\ MaxPeriods \in Nat /\ MaxReadings \in Nat
    /\ MaxRecords \in Nat /\ MaxOthers \in Nat

Maybe(S) == S \union {None}

VARIABLES
    tires,      \* rows of tires: position, retired, inSet
    periods,    \* rows of tire_mount_periods of each tire, in id order
    readings,   \* rows of tire_readings, in id order
    log,        \* rows of odometer_records, in id order
    raised      \* whether a write ran into a unique index

vars == <<tires, periods, readings, log, raised>>

Period == [position : Corner, on : Maybe(Day), at : Maybe(Km),
           off : Maybe(Day), offAt : Maybe(Km)]
TireRow == [position : Maybe(Corner), retired : BOOLEAN, inSet : BOOLEAN]
Reading == [tire : Tire, day : Day, km : Maybe(Km)]

Owned == {t \in Tire : tires[t] # None}
InUse == {t \in Owned : ~tires[t].retired}
At(c) == {t \in Owned : tires[t].position = c}
ReadingsOf(t) == {readings[k] : k \in {k \in DOMAIN readings : readings[k].tire = t}}

OpenIds(ps) == {i \in DOMAIN ps : ps[i].off = None}

ASSUME NoneAssumption == None \notin TireRow
ASSUME LegacyAssumption ==
    \A ps \in Legacy : ps \in Seq(Period) /\ \A i, j \in OpenIds(ps) : i = j

-----------------------------------------------------------------------------
(* What a flush checks: uq_tires_vin_position, uq_tire_single_open_period. *)
CornersUnique(ts) ==
    \A t, u \in Tire : (/\ t # u /\ ts[t] # None /\ ts[u] # None
                        /\ ts[t].position # None)
                          => ts[t].position # ts[u].position

OneOpenPeriod(pss) ==
    \A t \in Tire : \A i, j \in OpenIds(pss[t]) : i = j

IndexesHold(s) == CornersUnique(s.tires) /\ OneOpenPeriod(s.periods)

\* One transaction: flushed are the states it flushes, touched the periods
\* of each tire refuse_contradictions judges it by.
Transact(flushed, touched, records) ==
    LET final == flushed[Len(flushed)]
    IN  \/ /\ \A k \in DOMAIN flushed : IndexesHold(flushed[k])
           /\ \A t \in DOMAIN touched :
                 ~Refused(Faults(periods[t], ReadingsOf(t)),
                          Faults(final.periods[t], ReadingsOf(t)), touched[t])
           /\ tires' = final.tires /\ periods' = final.periods
           /\ log' = records /\ Len(log') <= MaxRecords
           /\ UNCHANGED <<readings, raised>>
        \/ /\ \E k \in DOMAIN flushed : ~IndexesHold(flushed[k])
           /\ raised' = TRUE
           /\ UNCHANGED <<tires, periods, readings, log>>

State(ts, pss) == [tires |-> ts, periods |-> pss]

OfTire(t, ids) == [u \in {t} |-> ids]

Opened(c, when, km) ==
    [position |-> c, on |-> when, at |-> km, off |-> None, offAt |-> None]

\* The newest open period ends; a tire without one is left as it is.
Closed(ps, when, km) ==
    [i \in DOMAIN ps |->
        IF i \in OpenIds(ps) /\ \A j \in OpenIds(ps) : j <= i
        THEN [ps[i] EXCEPT !.off = when, !.offAt = km]
        ELSE ps[i]]

\* The marker of the end of a tire's open period, or of the tire.
EndMarker(t) ==
    IF OpenIds(periods[t]) = {} THEN Marker("tire", t, 0)
    ELSE Marker("tire_dismount", t, Max(OpenIds(periods[t])))

-----------------------------------------------------------------------------
NewTire(c) == [position |-> c, retired |-> FALSE, inSet |-> FALSE]

\* create_tire.
Create(t) ==
    /\ t \notin Owned
    /\ Transact(<<State([tires EXCEPT ![t] = NewTire(None)], periods)>>, <<>>, log)

\* create_and_mount.
CreateAndMount(t, c, when, km) ==
    /\ t \notin Owned /\ At(c) = {} /\ MaxPeriods > 0
    /\ Transact(<<State([tires EXCEPT ![t] = NewTire(c)],
                        [periods EXCEPT ![t] = <<Opened(c, when, km)>>])>>,
                OfTire(t, {1}),
                Publish(log, when, km, Marker("tire_mount", t, 1)))

\* mount_tire.
Mount(t, c, when, km) ==
    LET new == Len(periods[t]) + 1
    IN  /\ t \in InUse /\ tires[t].position = None
        /\ At(c) = {}
        /\ new <= MaxPeriods
        /\ Transact(<<State([tires EXCEPT ![t].position = c],
                            [periods EXCEPT ![t] = Append(@, Opened(c, when, km))])>>,
                    OfTire(t, {new}),
                    Publish(log, when, km, Marker("tire_mount", t, new)))

\* dismount_tire.
Dismount(t, when, km) ==
    /\ t \in Owned /\ tires[t].position # None
    /\ Transact(<<State([tires EXCEPT ![t].position = None],
                        [periods EXCEPT ![t] = Closed(@, when, km)])>>,
                OfTire(t, OpenIds(periods[t])),
                Publish(log, when, km, EndMarker(t)))

\* Mutant of Retire: the corner is freed and the period is not closed.
RetireOpen(t, when, km) ==
    /\ t \in InUse
    /\ Transact(<<State([tires EXCEPT ![t].position = None, ![t].retired = TRUE],
                        periods)>>,
                OfTire(t, OpenIds(periods[t])),
                Publish(log, when, km, EndMarker(t)))

\* retire_tire.
Retire(t, when, km) ==
    LET mounted == tires[t].position # None
    IN  /\ t \in InUse
        /\ Transact(<<State([tires EXCEPT ![t].position = None, ![t].retired = TRUE],
                            IF mounted THEN [periods EXCEPT ![t] = Closed(@, when, km)]
                            ELSE periods)>>,
                    OfTire(t, IF mounted THEN OpenIds(periods[t]) ELSE {}),
                    Publish(log, when, km,
                            IF mounted THEN EndMarker(t) ELSE Marker("tire", t, 0)))

\* restore_tire.
Restore(t) ==
    /\ t \in Owned /\ tires[t].retired
    /\ Transact(<<State([tires EXCEPT ![t].retired = FALSE], periods)>>,
                <<>>, log)

-----------------------------------------------------------------------------
Vacated(s, vacate, when, km) ==
    State([t \in Tire |-> IF t \in vacate THEN [s.tires[t] EXCEPT !.position = None]
                          ELSE s.tires[t]],
          [t \in Tire |-> IF t \in vacate THEN Closed(s.periods[t], when, km)
                          ELSE s.periods[t]])

Assigned(s, assign, when, km) ==
    State([t \in Tire |-> IF t \in DOMAIN assign
                          THEN [s.tires[t] EXCEPT !.position = assign[t]]
                          ELSE s.tires[t]],
          [t \in Tire |-> IF t \in DOMAIN assign
                          THEN Append(s.periods[t], Opened(assign[t], when, km))
                          ELSE s.periods[t]])

\* Mutant of ApplyMoves: the corners change one tire at a time.
ApplyMovesOneByOne(vacate, assign, when, km) ==
    LET now == State(tires, periods)
        first == CHOOSE t \in vacate \union DOMAIN assign :
                    \A u \in vacate \union DOMAIN assign : t <= u
        one == [t \in {first} \intersect DOMAIN assign |-> assign[t]]
    IN  <<Assigned(Vacated(now, vacate \intersect {first}, when, km), one, when, km),
          Assigned(Vacated(now, vacate, when, km), assign, when, km)>>

\* apply_mount_moves: vacate and flush, then assign and flush.
ApplyMoves(vacate, assign, when, km) ==
    LET vacated == Vacated(State(tires, periods), vacate, when, km)
    IN  <<vacated, Assigned(vacated, assign, when, km)>>

\* What moves touch: what was open before them and what is after.
TouchedBy(flushed, moved) ==
    [t \in moved |-> OpenIds(periods[t])
                       \union OpenIds(flushed[Len(flushed)].periods[t])]

HasRoom(ts) == \A t \in ts : Len(periods[t]) < MaxPeriods

Moves == {f \in UNION {[S -> Corner] : S \in (SUBSET InUse) \ {{}}} :
             \A t, u \in DOMAIN f : t # u => f[t] # f[u]}

\* rotate_tires.
Rotate(moves, when, km) ==
    LET flushed == ApplyMoves(DOMAIN moves, moves, when, km)
    IN  /\ \A t \in DOMAIN moves : At(moves[t]) \subseteq DOMAIN moves
        /\ HasRoom(DOMAIN moves)
        /\ Transact(flushed, TouchedBy(flushed, DOMAIN moves),
                    Publish(log, when, km, Marker("tire_rotation", Min(DOMAIN moves), 0)))

\* remembered_position.
Remembered(t) ==
    CASE tires[t].position # None -> tires[t].position
      [] OTHER -> IF periods[t] = <<>> THEN None
                  ELSE periods[t][Len(periods[t])].position

Members == {t \in InUse : tires[t].inSet}

\* mount_set.
MountSet(when, km) ==
    LET wanted == {Remembered(t) : t \in Members}
        displaced == (UNION {At(c) : c \in wanted}) \ Members
        moving == {t \in Members : tires[t].position # Remembered(t)}
        assign == [t \in moving |-> Remembered(t)]
        flushed == ApplyMoves(
            displaced \union {t \in moving : tires[t].position # None},
            assign, when, km)
    IN  /\ Members # {}
        /\ \A t \in Members : Remembered(t) # None
        /\ \A t, u \in Members : t # u => Remembered(t) # Remembered(u)
        /\ HasRoom(moving)
        /\ Transact(flushed, TouchedBy(flushed, displaced \union moving),
                    Publish(log, when, km, SetFit))

\* delete_set.
DeleteSet ==
    /\ \E t \in Owned : tires[t].inSet
    /\ tires' = [t \in Tire |-> IF t \in Owned THEN [tires[t] EXCEPT !.inSet = FALSE]
                                ELSE None]
    /\ UNCHANGED <<periods, readings, log, raised>>

-----------------------------------------------------------------------------
\* create_mount_period.
AddPast(t, p) ==
    LET new == Len(periods[t]) + 1
    IN  /\ t \in Owned /\ new <= MaxPeriods
        /\ p.on # None /\ p.off # None /\ p.on <= p.off
        /\ Transact(<<State(tires, [periods EXCEPT ![t] = Append(@, p)])>>,
                    OfTire(t, {new}),
                    Publish(Publish(log, p.on, p.at, Marker("tire_mount", t, new)),
                            p.off, p.offAt, Marker("tire_dismount", t, new)))

FollowIf(changed, records, day, km, m) ==
    IF changed THEN Follow(records, day, km, m) ELSE records

\* update_mount_period.
EditPeriod(t, i, p) ==
    LET old == periods[t][i]
    IN  /\ p # old /\ p.position = old.position
        /\ IF old.off = None THEN p.off = None /\ p.offAt = old.offAt
           ELSE p.off # None
        /\ Transact(<<State(tires, [periods EXCEPT ![t][i] = p])>>,
                    OfTire(t, {i}),
                    FollowIf(<<p.off, p.offAt>> # <<old.off, old.offAt>>,
                             FollowIf(<<p.on, p.at>> # <<old.on, old.at>>, log,
                                      p.on, p.at, Marker("tire_mount", t, i)),
                             p.off, p.offAt, Marker("tire_dismount", t, i)))

\* The markers a tire's own events leave.
MarkersOf(t) ==
    {Marker("tire", t, 0)}
        \union {Marker(kind, t, i) : kind \in {"tire_mount", "tire_dismount"},
                                     i \in DOMAIN periods[t]}

\* delete_tire.
Delete(t) ==
    /\ t \in Owned
    /\ tires' = [tires EXCEPT ![t] = None]
    /\ periods' = [periods EXCEPT ![t] = <<>>]
    /\ readings' = Picked(readings, {k \in DOMAIN readings : readings[k].tire # t})
    /\ log' = WithoutMarkers(log, MarkersOf(t))
    /\ UNCHANGED raised

\* update_tire: set membership.
Edit(t, inSet) ==
    /\ t \in Owned
    /\ tires' = [tires EXCEPT ![t].inSet = inSet]
    /\ UNCHANGED <<periods, readings, log, raised>>

-----------------------------------------------------------------------------
\* add_reading.
AddReading(r) ==
    /\ r.tire \in Owned /\ Len(readings) < MaxReadings
    /\ readings' = Append(readings, r)
    /\ log' = Publish(log, r.day, r.km, Marker("tire", r.tire, 0))
    /\ Len(log') <= MaxRecords
    /\ UNCHANGED <<tires, periods, raised>>

\* _withdraw_reading_odometer.
Withdraw(k) ==
    LET r == readings[k]
        same == {j \in DOMAIN readings \ {k} :
                    readings[j].tire = r.tire /\ readings[j].day = r.day
                      /\ readings[j].km = r.km}
        mine == {i \in SameDay(log, r.day) \intersect Marked(log, Marker("tire", r.tire, 0)) :
                    log[i].km = r.km}
        backers == {j \in DOMAIN readings \ {k} :
                       readings[j].day = r.day /\ readings[j].km # None}
        backer == readings[Max(backers)]
        without == RemoveAt(log, Max(mine))
    IN  IF r.km = None \/ same # {} \/ mine = {} THEN log
        ELSE IF backers = {} THEN without
        ELSE Publish(without, backer.day, backer.km, Marker("tire", backer.tire, 0))

\* delete_reading.
DeleteReading(k) ==
    /\ readings' = RemoveAt(readings, k)
    /\ log' = Withdraw(k)
    /\ UNCHANGED <<tires, periods, raised>>

-----------------------------------------------------------------------------
(* The vehicle's other writers of odometer records.                        *)
Others(records) == {k \in DOMAIN records : ~IsTireMarked(records[k])}
FewOthers == Cardinality(Others(log')) <= MaxOthers /\ Len(log') <= MaxRecords

NotTires == UNCHANGED <<tires, periods, readings, raised>>

\* A service visit is saved.
SaveVisit(day, km) ==
    /\ log' = SyncRecord(log, day, km, Visit)
    /\ log' # log /\ FewOthers
    /\ NotTires

\* A service visit is deleted.
DeleteVisit ==
    /\ Marked(log, Visit) # {}
    /\ log' = WithoutMarkers(log, {Visit})
    /\ NotTires

\* The car reports its odometer.
Telemetry(day, km) ==
    /\ log' = SyncFromTelemetry(log, day, km)
    /\ log' # log /\ FewOthers
    /\ NotTires

\* A person adds, corrects or deletes a record.  A tire's they may correct
\* too; it then says what they typed, and nothing is claimed of it.
AddRecord(day, km) ==
    /\ log' = Append(log, Row(day, km, Manual))
    /\ FewOthers
    /\ NotTires

EditRecord(k, day, km) ==
    /\ <<log[k].day, log[k].km>> # <<day, km>>
    /\ ~IsTireMarked(log[k])
    /\ log' = [log EXCEPT ![k].day = day, ![k].km = km]
    /\ NotTires

DeleteRecord(k) == log' = RemoveAt(log, k) /\ NotTires

-----------------------------------------------------------------------------
OpenCorner(ps) == {ps[i].position : i \in OpenIds(ps)}

\* The row of a tire that has history ps from before v3.4.0.
LegacyRow(ps) ==
    NewTire(IF OpenIds(ps) = {} THEN None ELSE ps[Max(OpenIds(ps))].position)

Init ==
    \E history \in [Tire -> Maybe(Legacy)] :
        /\ tires = [t \in Tire |-> IF history[t] = None THEN None
                                   ELSE LegacyRow(history[t])]
        /\ periods = [t \in Tire |-> IF history[t] = None THEN <<>> ELSE history[t]]
        /\ CornersUnique(tires)
        /\ readings = <<>> /\ log = <<>> /\ raised = FALSE

Moved ==
    \E when \in Day, km \in Maybe(Km) :
        \/ \E t \in Tire, c \in Corner :
               CreateAndMount(t, c, when, km) \/ Mount(t, c, when, km)
        \/ \E t \in Tire : Dismount(t, when, km)
        \/ \E t \in Tire : Retire(t, when, km)
        \/ \E moves \in Moves : Rotate(moves, when, km)
        \/ MountSet(when, km)

HistoryWritten ==
    \/ \E t \in Tire, p \in Period : AddPast(t, p)
    \/ \E t \in Tire : \E i \in DOMAIN periods[t], p \in Period : EditPeriod(t, i, p)
    \/ \E t \in Tire : Delete(t)

Described ==
    \/ \E t \in Tire : Create(t)
    \/ \E t \in Tire : Restore(t)
    \/ \E t \in Tire, inSet \in {HasSet, FALSE} : Edit(t, inSet)
    \/ DeleteSet
    \/ \E r \in Reading : AddReading(r)
    \/ \E k \in DOMAIN readings : DeleteReading(k)

OtherWriters ==
    \/ \E day \in Day, km \in Km : SaveVisit(day, km) \/ Telemetry(day, km)
    \/ DeleteVisit

ByHand ==
    \/ \E day \in Day, km \in Km : AddRecord(day, km)
    \/ \E k \in DOMAIN log, day \in Day, km \in Km : EditRecord(k, day, km)
    \/ \E k \in DOMAIN log : DeleteRecord(k)

Next == Moved \/ HistoryWritten \/ Described \/ OtherWriters \/ ByHand

Spec == Init /\ [][Next]_vars

-----------------------------------------------------------------------------
(* Properties.                                                             *)

\* Types of the rows.
TypeOK ==
    /\ tires \in [Tire -> Maybe(TireRow)]
    /\ \A t \in Tire : /\ Len(periods[t]) <= MaxPeriods
                       /\ \A i \in DOMAIN periods[t] : periods[t][i] \in Period
    /\ \A k \in DOMAIN readings : readings[k] \in Reading
    /\ \A k \in DOMAIN log : log[k].day \in Day /\ log[k].km \in Km
    /\ raised \in BOOLEAN

\* A tire's card and its history agree: it is on a corner exactly while one
\* period is open, and the period says which.  A retired tire is on none.
MountedIffOpen ==
    \A t \in Owned :
        /\ OpenCorner(periods[t]) =
              IF tires[t].position = None THEN {} ELSE {tires[t].position}
        /\ \A i, j \in OpenIds(periods[t]) : i = j
        /\ tires[t].retired => tires[t].position = None

\* No operation the service lets through runs into a unique index.
NeverRaises == ~raised

\* No clash in any history the service can hold escapes the fault rules, and
\* no period is reported that clashes with nothing.
NothingUnreported == \A t \in Tire : AllReported(periods[t])

\* No accepted write makes a coherent history clash.
CoherenceKept ==
    [][\A t \in Tire : Coherent(periods[t]) => Coherent(periods'[t])]_vars

FaultsNow(t) == Faults(periods[t], ReadingsOf(t))

\* A write makes two periods clash that did not only if it is a repair, which
\* resolves some fault of the tire and adds none.
OnlyRepairsClash ==
    [][\A t \in Tire :
          \/ Clashes(periods'[t]) \subseteq Clashes(periods[t])
          \/ FaultsNow(t)' \subseteq FaultsNow(t) /\ FaultsNow(t)' # FaultsNow(t)]_vars

\* What a period now says of the event a record is marked with.
Event(m) ==
    IF m.kind = "tire_mount"
    THEN <<periods[m.tire][m.period].on, periods[m.tire][m.period].at>>
    ELSE <<periods[m.tire][m.period].off, periods[m.tire][m.period].offAt>>

\* A period's end keeps at most one record, in step with the period however
\* it is edited; and no record outlives its tire.
EventRecords ==
    \A k \in DOMAIN log :
        log[k].marker.kind \in {"tire_mount", "tire_dismount"} =>
            /\ tires[log[k].marker.tire] # None
            /\ log[k].marker.period \in DOMAIN periods[log[k].marker.tire]
            /\ Marked(log, log[k].marker) = {k}
            /\ Event(log[k].marker) = <<log[k].day, log[k].km>>

TireRecords(records) == Picked(records, DOMAIN records \ Others(records))
OtherRecords(records) == Picked(records, Others(records))

\* A tire's events leave every other record alone, and what is done to the
\* others - by a visit, a frame of the car, a person - leaves a tire's alone.
EachToTheirOwn ==
    [][/\ <<tires, periods, readings>>' # <<tires, periods, readings>>
            => OtherRecords(log') = OtherRecords(log)
       /\ OtherRecords(log') # OtherRecords(log)
            => TireRecords(log') = TireRecords(log)]_vars

Placed(day, km) == Known(day) /\ Known(km) => HighestOn(log', day, km)

MountChanged(t, i) ==
    i \notin DOMAIN periods[t]
        \/ <<periods'[t][i].on, periods'[t][i].at>> # <<periods[t][i].on, periods[t][i].at>>

EndChanged(t, i) ==
    i \notin DOMAIN periods[t]
        \/ <<periods'[t][i].off, periods'[t][i].offAt>>
              # <<periods[t][i].off, periods[t][i].offAt>>

\* Whoever puts a figure on one end of a period, or on a new one's both, finds
\* its day reading at least that high: by a record of its own or another's.
OneEndCovered ==
    [][\A t \in Tire : \A i \in DOMAIN periods'[t] :
          (i \notin DOMAIN periods[t] \/ ~(MountChanged(t, i) /\ EndChanged(t, i))) =>
             /\ MountChanged(t, i) => Placed(periods'[t][i].on, periods'[t][i].at)
             /\ EndChanged(t, i) => Placed(periods'[t][i].off, periods'[t][i].offAt)]_vars
=============================================================================
