------------------------------ MODULE SdBackfill ------------------------------
(***************************************************************************)
(* SD-card backfill of one WiCAN device.  The device logs every sample to  *)
(* a card, in files it rotates.  A pull, started by a reconnect or by an   *)
(* administrator, reads each file past its watermark, stores the rows in   *)
(* committed chunks, folds the drives they describe into drive_sessions,   *)
(* and saves the watermark: four kinds of transaction, between any two of  *)
(* which the process may die, the live path may open or close a session,   *)
(* and another pull of the same card may run.                              *)
(*                                                                         *)
(* Each transaction is one step.  Telemetry values are kept as far as the  *)
(* movement predicate reads them.                                          *)
(***************************************************************************)
EXTENDS Integers, Sequences, FiniteSetsExt

CONSTANTS
    None,
    Task,           \* pulls that may run at once
    Samples,        \* what the device logs, as movement signals
    Gap,            \* livelink_session_gap_minutes
    Chunk,          \* commit_batch, in logged instants
    MaxTime,        \* bound: the clock stops here
    MaxFiles,       \* bound: log files on the card
    MaxSessions,    \* bound: sessions of the live path
    FirstPull,      \* bound: no pull starts before
    MaxPulls,       \* bound: pulls started
    MaxFaults       \* bound: crashes and failed downloads

Signals == [above : BOOLEAN, odometer : Nat \union {None}]

ASSUME SamplesAssumption == Samples \subseteq Signals /\ None \notin Nat
ASSUME SettingAssumption == Gap \in Nat \ {0} /\ Chunk \in Nat \ {0}
ASSUME BoundAssumption ==
    /\ MaxTime \in Nat \ {0} /\ MaxFiles \in Nat \ {0} /\ MaxSessions \in Nat
    /\ FirstPull \in Nat /\ MaxPulls \in Nat /\ MaxFaults \in Nat

Time == 1..MaxTime
File == 1..MaxFiles

VARIABLES
    now,
    card,       \* the sample logged at each instant, and the file it is in
    active,     \* the file being written
    stored,     \* instants whose rows are in vehicle_telemetry
    sessions,   \* drive_sessions of the device, in id order
    progress,   \* sd_log_ingest_state, by file; None: no row
    pulls,      \* the pulls that are running
    started,    \* pulls started, up to MaxPulls
    faults      \* faults so far, up to MaxFaults

vars == <<now, card, active, stored, sessions, progress, pulls, started, faults>>

Session  == [started_at : Time, ended_at : Time \union {None}]
Progress == [last_timestamp : 0..MaxTime, completed : BOOLEAN]
Pull ==
    [phase : {"reading", "storing", "grouping", "saving"},
     listed : File,            \* the file list_logs called active
     file : File,              \* the file the pull is at
     state : Progress \union {None},   \* that file's row, as the pull read it
     at : 1..MaxTime,          \* history: when it was downloaded
     rows : SUBSET Time,       \* the instants parsed out of the download
     left : SUBSET Time]       \* those not committed yet

ASSUME NoneAssumption == None \notin Progress

Closed(s) == s.ended_at # None
Logged(S) == {t \in S : card[t] # None}
InFile(f) == {t \in Logged(Time) : card[t].file = f}

Init ==
    /\ now = 1
    /\ card = [t \in Time |-> None]
    /\ active = 1
    /\ stored = {}
    /\ sessions = <<>>
    /\ progress = [f \in File |-> None]
    /\ pulls = [p \in Task |-> None]
    /\ started = 0 /\ faults = 0

-----------------------------------------------------------------------------
(* group_drives, over the instants S of one download *)

\* The odometer read more at t than anywhere before it.
OdometerProven(S, t) ==
    LET before == {card[u].odometer : u \in {v \in S : v < t}} \ {None}
    IN  /\ card[t].odometer # None /\ before # {}
        /\ \A km \in before : card[t].odometer > km

Movement(S) == {t \in S : card[t].above \/ OdometerProven(S, t)}

\* The movement instants that continue the group that begins at m.
GroupOf(M, m) ==
    {t \in M : t >= m /\ \A u \in M : m < u /\ u <= t =>
                            \E v \in M : v < u /\ u - v <= Gap}

Groups(S) ==
    LET M == Movement(S)
    IN  {GroupOf(M, m) : m \in {t \in M : ~\E u \in M : u < t /\ t - u <= Gap}}

\* A lone movement sample is a drive only if the odometer proves it.
Drives(S) ==
    {G \in Groups(S) : Cardinality(G) >= 2 \/ \E t \in G : OdometerProven(S, t)}

\* The first sample of the contact burst the movement at m belongs to.
BurstStart(S, m) ==
    Min({t \in S : t <= m /\ \A u \in S : t < u /\ u <= m =>
                                 \E v \in S : v < u /\ u - v <= Gap})

\* The burst is never traced back into the drive before.
DriveWindow(S, G) ==
    LET earlier == {Max(H) : H \in {K \in Drives(S) : Max(K) < Min(G)}}
    IN  [started_at |-> Max({BurstStart(S, Min(G))} \union earlier),
         movement_ended_at |-> Max(G)]

\* In the order of their ends; no two drives end together.
group_drives(S) ==
    LET drives == Drives(S)
        nth(n) == CHOOSE G \in drives :
                     Cardinality({H \in drives : Max(H) <= Max(G)}) = n
    IN  [n \in 1..Cardinality(drives) |-> DriveWindow(S, nth(n))]

-----------------------------------------------------------------------------
(* TelemetryService._reconstruct_sessions_from_batch *)

\* An open session counts as an instant, its start.
SessionEnd(s) == IF Closed(s) THEN s.ended_at ELSE s.started_at

\* The instant at which drive i gives way to drive i+1 is drive i's, and a
\* session that runs on from it is drive i+1's.
NextDrives(drives, i, s) ==
    /\ i < Len(drives)
    /\ drives[i + 1].started_at = drives[i].movement_ended_at
    /\ s.started_at = drives[i].movement_ended_at
    /\ Closed(s) => s.ended_at > drives[i].movement_ended_at

\* A closed session that ends where drive i takes over is drive i-1's.
PreviousDrives(drives, i, s) ==
    /\ i > 1
    /\ drives[i - 1].movement_ended_at = drives[i].started_at
    /\ Closed(s) /\ s.ended_at = drives[i].started_at

\* Inclusive at both bounds: a drive of no length meets itself.
Meets(s, d) ==
    s.started_at <= d.movement_ended_at /\ SessionEnd(s) >= d.started_at

\* Mutant of Touches: sessions that share only the boundary are not excluded.
TouchesInclusive(drives, i, s) == Meets(s, drives[i])

\* Mutant of Touches: a shared instant is no overlap.
TouchesStrict(drives, i, s) ==
    /\ s.started_at < drives[i].movement_ended_at
    /\ SessionEnd(s) > drives[i].started_at

Touches(drives, i, s) ==
    /\ Meets(s, drives[i])
    /\ ~NextDrives(drives, i, s)
    /\ ~PreviousDrives(drives, i, s)

Touched(ses, drives, i) == {k \in DOMAIN ses : Touches(drives, i, ses[k])}

Widened(s, d) ==
    [started_at |-> Min({s.started_at, d.started_at}),
     ended_at   |-> Max({s.ended_at, d.movement_ended_at})]

\* Mutant of Placed: of several sessions the drive spans, the first is widened.
PlacedInFirst(ses, drives, i) ==
    LET over == {k \in Touched(ses, drives, i) : Closed(ses[k])}
        d    == drives[i]
    IN  IF over = {}
        THEN Append(ses, [started_at |-> d.started_at,
                          ended_at   |-> d.movement_ended_at])
        ELSE [ses EXCEPT ![Min(over)] = Widened(@, d)]

\* The drive becomes a session, or widens the one it touches.  One that is
\* open is the live path's, and several are history repair's: left alone.
Placed(ses, drives, i) ==
    LET over == Touched(ses, drives, i)
        d    == drives[i]
    IN  IF over = {}
        THEN Append(ses, [started_at |-> d.started_at,
                          ended_at   |-> d.movement_ended_at])
        ELSE IF Cardinality(over) = 1 /\ Closed(ses[Min(over)])
        THEN [ses EXCEPT ![Min(over)] = Widened(@, d)]
        ELSE ses

Reconstructed(ses, S) ==
    LET drives == group_drives(S)
        after[i \in 0..Len(drives)] ==
            IF i = 0 THEN ses ELSE Placed(after[i - 1], drives, i)
    IN  after[Len(drives)]

-----------------------------------------------------------------------------
(* SdBackfillService.backfill_device *)

NoPull == [p \in Task |-> None]

\* A pull that is about to read file f, of which list_logs named `listed` last.
Reading(listed, f) ==
    [phase |-> "reading", listed |-> listed, file |-> f,
     state |-> None, at |-> 1, rows |-> {}, left |-> {}]

Start(p) ==
    /\ pulls[p] = None /\ started < MaxPulls /\ now >= FirstPull
    /\ pulls' = [pulls EXCEPT ![p] = Reading(active, 1)]
    /\ started' = started + 1
    /\ UNCHANGED <<now, card, active, stored, sessions, progress, faults>>

At(p, phase) == pulls[p] # None /\ pulls[p].phase = phase

\* Mutant of NextFile: off by one at the end of the list.
NextFilePastEnd(pull) ==
    IF pull.file > pull.listed THEN None
    ELSE Reading(pull.listed, pull.file + 1)

\* The pull after it is done with its file.
NextFile(pull) ==
    IF pull.file = pull.listed THEN None
    ELSE Reading(pull.listed, pull.file + 1)

SkipCompleted(p) ==
    /\ At(p, "reading")
    /\ progress[pulls[p].file] # None /\ progress[pulls[p].file].completed
    /\ pulls' = [pulls EXCEPT ![p] = NextFile(@)]
    /\ UNCHANGED <<now, card, active, stored, sessions, progress, started, faults>>

Watermark(state) == IF state = None THEN 0 ELSE state.last_timestamp

Download(p) ==
    /\ At(p, "reading")
    /\ LET f     == pulls[p].file
           state == progress[f]
           rows  == {t \in InFile(f) : t > Watermark(state)}
       IN  /\ state # None => ~state.completed
           /\ pulls' = [pulls EXCEPT ![p].state = state,
                                     ![p].at    = now,
                                     ![p].rows  = rows,
                                     ![p].left  = rows,
                                     ![p].phase = IF rows = {} THEN "saving"
                                                  ELSE "storing"]
    /\ UNCHANGED <<now, card, active, stored, sessions, progress, started, faults>>

\* Unreachable, corrupt or unparsable: reported, and the next file is tried.
DownloadFails(p) ==
    /\ faults < MaxFaults
    /\ At(p, "reading")
    /\ faults' = faults + 1
    /\ pulls' = [pulls EXCEPT ![p] = NextFile(@)]
    /\ UNCHANGED <<now, card, active, stored, sessions, progress, started>>

\* The next chunk of an ascending list.
FirstChunk(S) == {t \in S : Cardinality({u \in S : u < t}) < Chunk}

\* Mutant of StoreChunk: rows that were stored before are not grouped again.
StoreNew(p) ==
    /\ At(p, "storing")
    /\ LET chunk == FirstChunk(pulls[p].left)
       IN  /\ stored' = stored \union chunk
           /\ pulls' = [pulls EXCEPT
                          ![p].rows  = @ \ (chunk \intersect stored),
                          ![p].left  = @ \ chunk,
                          ![p].phase = IF pulls[p].left = chunk THEN "grouping"
                                       ELSE "storing"]
    /\ UNCHANGED <<now, card, active, sessions, progress, started, faults>>

\* Rows that are there already are skipped by the unique index.
StoreChunk(p) ==
    /\ At(p, "storing")
    /\ LET chunk == FirstChunk(pulls[p].left)
       IN  /\ stored' = stored \union chunk
           /\ pulls' = [pulls EXCEPT
                          ![p].left  = @ \ chunk,
                          ![p].phase = IF pulls[p].left = chunk THEN "grouping"
                                       ELSE "storing"]
    /\ UNCHANGED <<now, card, active, sessions, progress, started, faults>>

Reconstruct(p) ==
    /\ At(p, "grouping")
    /\ sessions' = Reconstructed(sessions, pulls[p].rows)
    /\ pulls' = [pulls EXCEPT ![p].phase = "saving"]
    /\ UNCHANGED <<now, card, active, stored, progress, started, faults>>

\* Mutant of Saved: the watermark is the time of the pull.
SavedNow(p) ==
    [last_timestamp |-> now, completed |-> pulls[p].file # pulls[p].listed]

\* _save_state.  The row the pull read stays in its identity map: a column is
\* compared with the value read then, and written if it differs from that.
Saved(p) ==
    LET pull  == pulls[p]
        f     == pull.file
        top   == Max(pull.rows \union {Watermark(pull.state)})
        done  == f # pull.listed
    IN  IF pull.state = None
        THEN [last_timestamp |-> Max({top, Watermark(progress[f])}),
              completed      |-> done]
        ELSE [last_timestamp |-> IF top > pull.state.last_timestamp THEN top
                                 ELSE progress[f].last_timestamp,
              completed      |-> done \/ progress[f].completed]

Save(p) ==
    /\ At(p, "saving")
    /\ progress' = [progress EXCEPT ![pulls[p].file] = Saved(p)]
    /\ pulls' = [pulls EXCEPT ![p] = NextFile(@)]
    /\ UNCHANGED <<now, card, active, stored, sessions, started, faults>>

\* The process dies: its pulls are gone, what they committed is not.
Crash ==
    /\ faults < MaxFaults /\ pulls # NoPull
    /\ faults' = faults + 1
    /\ pulls' = NoPull
    /\ UNCHANGED <<now, card, active, stored, sessions, progress, started>>

-----------------------------------------------------------------------------
(* The device and the live path. *)

\* Time passes.  The device is off, or logs a sample, to a new file maybe.
Silence ==
    /\ now < MaxTime
    /\ now' = now + 1
    /\ UNCHANGED <<card, active, stored, sessions, progress, pulls, started, faults>>

Log(signals, file) ==
    /\ now < MaxTime
    /\ now' = now + 1
    /\ card' = [card EXCEPT ![now] =
                  [above |-> signals.above, odometer |-> signals.odometer,
                   file |-> file]]
    /\ active' = file
    /\ UNCHANGED <<stored, sessions, progress, pulls, started, faults>>

LiveIsOpen == \E k \in DOMAIN sessions : ~Closed(sessions[k])

\* _open_session_for_movement: started_at backdates to the evidence, which is
\* dropped after one gap, and no further than the last session's end.
OpenLive(at) ==
    /\ ~LiveIsOpen /\ Len(sessions) < MaxSessions
    /\ at < now /\ now - 1 - at <= Gap /\ card[at] # None
    /\ card[now - 1] # None /\ card[now - 1].above
    /\ \A k \in DOMAIN sessions : sessions[k].ended_at <= at
    /\ sessions' = Append(sessions, [started_at |-> at, ended_at |-> None])
    /\ UNCHANGED <<now, card, active, stored, progress, pulls, started, faults>>

\* The session closes where its last movement was.
CloseLive(k, at) ==
    /\ k \in DOMAIN sessions /\ ~Closed(sessions[k])
    /\ at >= sessions[k].started_at
    /\ at < now /\ card[at] # None /\ card[at].above
    /\ sessions' = [sessions EXCEPT ![k].ended_at = at]
    /\ UNCHANGED <<now, card, active, stored, progress, pulls, started, faults>>

PullStep(p) ==
    \/ SkipCompleted(p) \/ Download(p)
    \/ StoreChunk(p) \/ Reconstruct(p) \/ Save(p)

Next ==
    \/ \E p \in Task : Start(p) \/ PullStep(p) \/ DownloadFails(p)
    \/ Silence
    \/ \E signals \in Samples :
           \E file \in File :
               /\ file = active \/ (file = active + 1 /\ InFile(active) # {})
               /\ Log(signals, file)
    \/ \E at \in Time : OpenLive(at) \/ \E k \in 1..Len(sessions) : CloseLive(k, at)
    \/ Crash

Spec == Init /\ [][Next]_vars

-----------------------------------------------------------------------------
(* Properties. *)

\* Types of the rows and of the pulls.
TypeOK ==
    /\ now \in Time /\ active \in File
    /\ card \in [Time -> {None} \union
                    [above : BOOLEAN, odometer : Nat \union {None}, file : File]]
    /\ stored \subseteq Logged(Time)
    /\ sessions \in Seq(Session)
    /\ progress \in [File -> Progress \union {None}]
    /\ \A p \in Task : pulls[p] # None =>
          pulls[p] \in Pull /\ pulls[p].left \subseteq pulls[p].rows

\* The watermark never passes a row that is not stored, and a file marked
\* completed has none left: what they skip is skipped for ever.  A crash at any
\* commit, a second pull and a rotation during the download included.
NothingSkipped ==
    \A f \in File : \A t \in InFile(f) :
        progress[f] # None
            /\ (t <= progress[f].last_timestamp \/ progress[f].completed)
        => t \in stored

Covers(s, d) ==
    Closed(s) /\ s.started_at <= d.started_at /\ d.movement_ended_at <= s.ended_at

\* When a pull has folded its rows in, each drive they describe lies inside
\* one closed session, or was left to the live path or to history repair.
\* A pull repeated after a crash finds all its rows stored, and still does.
EveryDriveIsPlaced ==
    [][\A p \in Task : Reconstruct(p) =>
          LET S      == {t \in InFile(pulls[p].file) : t < pulls[p].at
                                    /\ t > Watermark(pulls[p].state)}
              drives == group_drives(S)
          IN  \A i \in DOMAIN drives :
                 \/ \E k \in DOMAIN sessions' : Covers(sessions'[k], drives[i])
                 \/ Cardinality(Touched(sessions', drives, i)) > 1
                 \/ \E k \in Touched(sessions', drives, i) : ~Closed(sessions'[k])]_vars

Overlap(s, r) ==
    /\ Closed(s) /\ Closed(r)
    /\ s.started_at < r.ended_at /\ r.started_at < s.ended_at

\* Folding a card into the history makes no two closed sessions overlap that
\* did not before: no sample is counted in two drives.
ReplayAddsNoOverlap ==
    [][\A p \in Task : Reconstruct(p) =>
          \A k \in DOMAIN sessions' : \A j \in 1..(k - 1) :
             Overlap(sessions'[j], sessions'[k]) =>
                 k \in DOMAIN sessions /\ Overlap(sessions[j], sessions[k])]_vars

\* Two drives of one download stay two sessions, also where one begins at the
\* instant the other ends, unless the history had a session across both.  A
\* drive of no length may be the instant the next one begins with.
DrivesStayApart ==
    [][\A p \in Task : Reconstruct(p) =>
          LET drives == group_drives(pulls[p].rows)
          IN  \A k \in DOMAIN sessions' : \A i, j \in DOMAIN drives :
                 i < j /\ drives[i].started_at < drives[i].movement_ended_at
                       /\ Covers(sessions'[k], drives[i])
                       /\ Covers(sessions'[k], drives[j])
                 => /\ k \in DOMAIN sessions
                    /\ Meets(sessions[k], drives[i]) /\ Meets(sessions[k], drives[j])]_vars

\* The retry after a crash between the sessions and the watermark changes
\* nothing: folding the same rows in twice is folding them in once.
ReplayIsIdempotent ==
    [][\A p \in Task : Reconstruct(p) =>
          Reconstructed(sessions', pulls[p].rows) = sessions']_vars
=============================================================================
