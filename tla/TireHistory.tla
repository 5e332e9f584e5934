----------------------------- MODULE TireHistory -----------------------------
(***************************************************************************)
(* Contradictions in a tire's mount history, as tire_history.py finds      *)
(* them, and the policy by which a write is refused for them.              *)
(*                                                                         *)
(* A history is the sequence of a tire's mount periods in id order: rows   *)
(* are only appended, so an index is an id.  A bound that is None is       *)
(* unknown: a gap, never a fault.                                          *)
(***************************************************************************)
EXTENDS OdometerTolerance, Sequences, FiniteSetsExt

Fault(i, code, other) == [period |-> i, code |-> code, other |-> other]
Participants(f) == {f.period, f.other} \ {None}

-----------------------------------------------------------------------------
(* Rules 1 and 2: a period against itself.                                 *)
SelfFaults(ps) ==
    {Fault(i, "reversed_dates", None) : i \in
        {i \in DOMAIN ps : /\ Known(ps[i].on) /\ Known(ps[i].off)
                           /\ ps[i].off < ps[i].on}}
    \union
    {Fault(i, "reversed_odometer", None) : i \in
        {i \in DOMAIN ps : /\ Known(ps[i].at) /\ Known(ps[i].offAt)
                           /\ Below(ps[i].offAt, ps[i].at)}}

(* Rules 3 and 4a: every pair of periods whose mount dates are known.      *)
MountedBefore(ps, i, j) ==
    /\ Known(ps[i].on) /\ Known(ps[j].on)
    /\ ps[i].on < ps[j].on \/ (ps[i].on = ps[j].on /\ i < j)

StartsInside(ps, i, j) == ps[i].off = None \/ ps[j].on < ps[i].off

RunsBack(ps, i, j) ==
    /\ Known(ps[j].at) /\ Known(ps[i].offAt)
    /\ Below(ps[j].at, ps[i].offAt)

DatedPairs(ps) == {x \in (DOMAIN ps) \X (DOMAIN ps) : MountedBefore(ps, x[1], x[2])}

OrderFaults(ps) ==
    LET dated == DatedPairs(ps)
    IN  {Fault(x[2], "overlapping_dates", x[1]) :
            x \in {y \in dated : StartsInside(ps, y[1], y[2])}}
        \union
        {Fault(x[2], "overlapping_odometer", x[1]) :
            x \in {y \in dated : RunsBack(ps, y[1], y[2])}}

(* Rule 4b: spans known at both ends, in the order of their mount odometer,*)
(* each against the span that reaches highest among those before it.       *)
Spans(ps) == {i \in DOMAIN ps : Known(ps[i].at) /\ Known(ps[i].offAt)}

StartsLower(ps, i, j) == ps[i].at < ps[j].at \/ (ps[i].at = ps[j].at /\ i < j)

SpansBefore(ps, j) == {i \in Spans(ps) : StartsLower(ps, i, j)}

\* Mutant of Covering: only the span just before is looked at.
CoveringPrevious(ps, j) ==
    CHOOSE i \in SpansBefore(ps, j) :
        \A k \in SpansBefore(ps, j) : k = i \/ StartsLower(ps, k, i)

ReachesHigher(ps, i, k) ==
    \/ ps[k].offAt < ps[i].offAt
    \/ ps[k].offAt = ps[i].offAt /\ StartsLower(ps, i, k)

Covering(ps, j) ==
    CHOOSE i \in SpansBefore(ps, j) :
        \A k \in SpansBefore(ps, j) : k = i \/ ReachesHigher(ps, i, k)

SpanFaults(ps) ==
    LET intruding == {Fault(j, "overlapping_odometer", Covering(ps, j)) :
                        j \in {k \in Spans(ps) : SpansBefore(ps, k) # {}}}
    IN  {f \in intruding : Below(ps[f.period].at, ps[f.other].offAt)}

(* Rule 5, odometer_contradictions: a reading the day before or after a    *)
(* bound cannot lie on the wrong side of it.                               *)
Backwards(day, km, on, at) ==
    /\ Known(on) /\ Known(at) /\ Known(km)
    /\ \/ day > on /\ Below(km, at)
       \/ day < on /\ Below(at, km)

ContradictsReading(p, r) ==
    \/ Backwards(r.day, r.km, p.on, p.at)
    \/ Backwards(r.day, r.km, p.off, p.offAt)

ReadingFaults(ps, rs) ==
    {Fault(i, "contradicts_reading", None) : i \in
        {i \in DOMAIN ps : \E r \in rs : ContradictsReading(ps[i], r)}}

Faults(ps, rs) ==
    SelfFaults(ps) \union OrderFaults(ps) \union SpanFaults(ps)
        \union ReadingFaults(ps, rs)

-----------------------------------------------------------------------------
(* new_or_touched_faults: what a write must not leave behind.              *)
Introduced(before, f) ==
    \A g \in before : g.period # f.period \/ g.code # f.code

\* Mutant of Refused: a fault the write touches is let through when it is old.
RefusedIfNew(before, after, touched) ==
    /\ \E f \in after : Introduced(before, f)
    /\ ~(after \subseteq before /\ after # before)

\* Mutant of Refused: only the periods the write touched are judged.
RefusedIfTouched(before, after, touched) ==
    /\ \E f \in after : f.period \in touched
    /\ ~(after \subseteq before /\ after # before)

Refused(before, after, touched) ==
    /\ \E f \in after :
          \/ Introduced(before, f)
          \/ Participants(f) \intersect touched # {}
    /\ ~(after \subseteq before /\ after # before)

-----------------------------------------------------------------------------
(* What the rules are for: no two periods can both be true.  This is the   *)
(* meaning the rules are held to, and no part of the code.                 *)

\* Two periods hold the tire in two places at once, or turn the odometer
\* back, whichever of the two came first.
Clash(ps, i, j) ==
    \/ MountedBefore(ps, i, j) /\ (StartsInside(ps, i, j) \/ RunsBack(ps, i, j))
    \/ /\ i \in Spans(ps) /\ j \in Spans(ps) /\ StartsLower(ps, i, j)
       /\ Below(ps[j].at, ps[i].offAt)

Clashes(ps) == {x \in (DOMAIN ps) \X (DOMAIN ps) : Clash(ps, x[1], x[2])}

\* The rules leave no period unreported, whichever they name: one carries a
\* fault of two periods exactly when it clashes with a period before it, and
\* one that clashes with a period after it takes part in some such fault.
PairFaults(ps) == {f \in Faults(ps, {}) : f.other # None}

AllReported(ps) ==
    LET faults == PairFaults(ps)
    IN  \A i \in DOMAIN ps :
           /\ (\E f \in faults : f.period = i) <=> \E j \in DOMAIN ps : Clash(ps, j, i)
           /\ (\E j \in DOMAIN ps : Clash(ps, i, j))
                 => \E f \in faults : i \in Participants(f)

Coherent(ps) == SelfFaults(ps) = {} /\ Clashes(ps) = {}
=============================================================================
