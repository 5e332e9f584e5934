---------------------------- MODULE OdometerSync ----------------------------
(***************************************************************************)
(* The odometer records of one vehicle, as utils/odometer_sync.py, the     *)
(* tire paths and the LiveLink sync write them.  A log is the sequence of  *)
(* records in id order: a new row goes to the end, a deleted one leaves    *)
(* the others in their order, and "newest first" is the reverse.           *)
(*                                                                         *)
(* A marker stands for the note a writer leaves, "[AUTO-SYNC from KIND     *)
(* #ID]": its kind, the tire and, for a period's event, the period.  The   *)
(* note of a hand-made or a LiveLink row has a kind and nothing else.      *)
(***************************************************************************)
EXTENDS OdometerTolerance, SequencesExt

TireKinds == {"tire", "tire_mount", "tire_dismount", "tire_rotation", "tire_set"}

Marker(kind, t, i) == [kind |-> kind, tire |-> t, period |-> i]
Manual == Marker("manual", None, 0)
LiveLink == Marker("livelink", None, 0)
Visit == Marker("service_visit", None, 0)
SetFit == Marker("tire_set", None, 0)

Row(day, km, m) == [day |-> day, km |-> km, marker |-> m]
IsTireMarked(r) == r.marker.kind \in TireKinds

\* The rows of a table at the indices ks, in their order.
Place(ks, k) == Cardinality({j \in ks : j <= k})
Picked(rows, ks) ==
    [n \in 1 .. Cardinality(ks) |-> rows[CHOOSE k \in ks : Place(ks, k) = n]]

SameDay(log, day) == {k \in DOMAIN log : log[k].day = day}
Marked(log, m) == {k \in DOMAIN log : log[k].marker = m}
ReadsAtOrAbove(log, ks, km) == \E k \in ks : ~Below(log[k].km, km)

Rewrite(log, k, day, km, m) == [log EXCEPT ![k] = Row(day, km, m)]

\* Mutant of Takeable: tire events' records are taken over like any other.
TakeableAny(log, day) == SameDay(log, day)

\* sync_odometer_from_record with claim_other_records: fuel, service and DEF.
Takeable(log, day) == {k \in SameDay(log, day) : ~IsTireMarked(log[k])}

SyncRecord(log, day, km, m) ==
    LET own == SameDay(log, day) \intersect Marked(log, m)
        rest == Takeable(log, day)
    IN  CASE km = None -> log
          [] km # None /\ own # {} -> Rewrite(log, Max(own), day, km, m)
          [] km # None /\ own = {} /\ rest = {} -> Append(log, Row(day, km, m))
          [] OTHER -> IF log[Max(rest)].marker = Manual THEN log
                      ELSE Rewrite(log, Max(rest), day, km, m)

\* publish_tire_odometer: the same door without the claim.
Publish(log, day, km, m) ==
    LET own == SameDay(log, day) \intersect Marked(log, m)
    IN  CASE km = None -> log
          [] km # None /\ own # {} -> Rewrite(log, Max(own), day, km, m)
          [] OTHER -> IF ReadsAtOrAbove(log, SameDay(log, day), km) THEN log
                      ELSE Append(log, Row(day, km, m))

\* Mutant of Follow: an event that moves publishes and forgets its old record.
FollowLeavingOld(log, day, km, m) ==
    IF day = None \/ km = None THEN log ELSE Publish(log, day, km, m)

\* Mutant of Follow: the record gives way to the day's others, however low.
FollowDropping(log, day, km, m) ==
    LET own == Marked(log, m)
        k == Max(own)
    IN  CASE own = {} ->
               IF day = None \/ km = None THEN log ELSE Publish(log, day, km, m)
          [] own # {} /\ (day = None \/ km = None) -> RemoveAt(log, k)
          [] OTHER -> IF SameDay(log, day) \ {k} # {} THEN RemoveAt(log, k)
                      ELSE Rewrite(log, k, day, km, m)

\* _follow_period_event: the record of a period's event after the period
\* was edited.
Follow(log, day, km, m) ==
    LET own == Marked(log, m)
        k == Max(own)
        others == SameDay(log, day) \ {k}
    IN  CASE own = {} ->
               IF day = None \/ km = None THEN log ELSE Publish(log, day, km, m)
          [] own # {} /\ (day = None \/ km = None) -> RemoveAt(log, k)
          [] OTHER -> IF ReadsAtOrAbove(log, others, km) \/ \E o \in others : o > k
                      THEN Publish(RemoveAt(log, k), day, km, m)
                      ELSE Rewrite(log, k, day, km, m)

WithoutMarkers(log, ms) == Picked(log, {k \in DOMAIN log : log[k].marker \notin ms})

\* _sync_odometer_from_telemetry: only a figure above every record's gets in,
\* into the day's LiveLink record or a new one beside the others.
SyncFromTelemetry(log, day, km) ==
    LET own == SameDay(log, day) \intersect Marked(log, LiveLink)
    IN  CASE \E k \in DOMAIN log : log[k].km >= km -> log
          [] OTHER -> IF own # {} THEN Rewrite(log, Max(own), day, km, LiveLink)
                      ELSE Append(log, Row(day, km, LiveLink))

HighestOn(log, day, km) == ReadsAtOrAbove(log, SameDay(log, day), km)
=============================================================================
