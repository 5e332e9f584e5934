---------------------------- MODULE MCTireService ----------------------------
EXTENDS TireService

P(c, on, at, off, offAt) ==
    [position |-> c, on |-> on, at |-> at, off |-> off, offAt |-> offAt]

NoHistory == {}

\* No operation reads the log to write a tire or a period.
History == <<tires, periods, readings>>

\* The log up to the order of its rows.  Only SyncRecord lets the order
\* decide, between two records that no tire marks; with one of those at most,
\* logs of the same rows have the same future.
AnyOrder ==
    <<tires, periods, readings, raised,
      {<<log[k], Cardinality({i \in DOMAIN log : log[i] = log[k]})>> : k \in DOMAIN log}>>

\* A migrated tire, whose mount date nobody knows; an open period over a
\* closed one; every three periods of unknown dates with known figures; and
\* one whose reversed figures can be mended into a clash another one hides.
Span == [position : {"FL"}, on : {None}, at : {1, 2}, off : {1}, offAt : {1, 2}]

OldHistories ==
    {<<P("FL", None, None, None, None)>>,
     <<P("FL", 1, 1, 1, 2), P("FL", 1, 1, None, None)>>,
     <<P("FL", None, 1, 1, 3), P("FL", None, 2, 1, 1), P("FL", None, 2, 1, 3)>>}
    \union {<<p, q, r>> : p \in Span, q \in Span, r \in Span}

\* Two figures make every kind of clash; the third is there for the repairs,
\* as the end of a period, and nothing is asked of what follows one that ends
\* well.
ThirdForRepairs ==
    \A t \in Tire : \A i \in DOMAIN periods[t] :
        /\ periods[t][i].at # 3
        /\ periods[t][i].offAt = 3 => ~Coherent(periods[t])

\* No operation asks whether a tire is retired but those it is refused for, so
\* a retired tire's edits are those of one in storage, and restoring it leads
\* where dismounting would have led ...
InService == \A t \in Owned : ~tires[t].retired

\* ... but for the record of a retirement from storage, which only a reading
\* leaves otherwise.
InServiceOrMarked ==
    \A t \in Owned : tires[t].retired =>
        readings = <<>> /\ Marked(log, Marker("tire", t, 0)) # {}
=============================================================================
