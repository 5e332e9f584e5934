------------------------------ MODULE TripLog -------------------------------
(***************************************************************************)
(* What the drive sessions of a device promise to whoever reads them,      *)
(* without pointers, clocks or evidence: an append-only log of trips, of   *)
(* which only the last can still change.  A trip is being driven, or is    *)
(* awaiting movement that would continue it, or is final; a final trip     *)
(* keeps its window for ever, and the next one starts at or after its end. *)
(*                                                                         *)
(* External: the promise is read off session_service.py's docstrings; the  *)
(* definitions are the specification DriveSession is checked to implement. *)
(***************************************************************************)
EXTENDS Integers, Sequences

CONSTANTS Instant,   \* possible times
          Unset      \* the end of a trip that has none yet

VARIABLE trips

Phase == {"driving", "awaiting", "final"}
Trip  == [phase : Phase, started : Instant, ended : Instant \cup {Unset}]

TripsTypeOK == trips \in Seq(Trip)

Active == Len(trips)

\* The log with its last trip, if it has one, made final at e.
Finished(e) ==
    IF Active = 0 \/ trips[Active].phase = "final" THEN trips
    ELSE [trips EXCEPT ![Active].phase = "final", ![Active].ended = e]

\* A new trip begins, which finishes the one before.
Begin(e) ==
    /\ Len(trips') = Active + 1
    /\ \A i \in 1..Active : trips'[i] = Finished(e)[i]
    /\ LET new == trips'[Active + 1]
       IN  /\ new \in [phase : {"driving"}, started : Instant, ended : {Unset}]
           /\ Active > 0 => new.started >= Finished(e)[Active].ended

Pause ==
    /\ Active > 0 /\ trips[Active].phase = "driving"
    /\ trips' = [trips EXCEPT ![Active].phase = "awaiting"]

Resume ==
    /\ Active > 0 /\ trips[Active].phase = "awaiting"
    /\ trips' = [trips EXCEPT ![Active].phase = "driving"]

Finish(e) == trips' = Finished(e)

TripsInit == trips = <<>>

TripsNext ==
    \/ \E e \in Instant : Begin(e) \/ Finish(e)
    \/ Pause
    \/ Resume

TripsSpec == TripsInit /\ [][TripsNext]_trips
=============================================================================
