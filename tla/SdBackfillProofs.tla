-------------------------- MODULE SdBackfillProofs --------------------------
(***************************************************************************)
(* For any number of pulls at once, files, chunks, crashes and failed      *)
(* downloads: the watermark of a backfill skips nothing that is not stored *)
(* (IInv; what the rows are grouped into plays no part in it); and folding *)
(* a card into the sessions drops no drive, adds no overlap, keeps the     *)
(* drives of a download apart and, done twice, changes nothing.            *)
(*                                                                         *)
(* The fold: the drives of a download come in the order of their ends and  *)
(* share at most a boundary (DrivesInOrder); one drive makes a session,    *)
(* widens one, or leaves the history alone (PlacedIsPlacing, OneDrive);    *)
(* what holds after each of them is Folded, kept by one more drive         *)
(* (OneMoreFolded) and so true of the whole fold (ReconstructedIsFolded).  *)
(***************************************************************************)
EXTENDS SdBackfill, FiniteSetTheorems, NaturalsInduction, WellFoundedInduction, TLAPS

Sample == [above : BOOLEAN, odometer : Nat \union {None}, file : File]

\* The types of what the watermark depends on.
Shaped ==
    /\ now \in Time /\ active \in File
    /\ card \in [Time -> {None} \union Sample]
    /\ progress \in [File -> Progress \union {None}]
    /\ pulls \in [Task -> Pull \union {None}]

\* Only the past is logged, to files up to the active one.
CardState ==
    \A t \in Logged(Time) : t < now /\ card[t].file <= active

\* A watermark is in the past, and a completed file was rotated away.
ProgressState ==
    \A f \in File : progress[f] # None =>
        /\ progress[f].last_timestamp < now
        /\ progress[f].completed => f < active

\* What a pull knows of its file: everything up to the watermark it read is
\* stored, its rows are all there was past it at the download, those it is
\* done with are stored, and nothing was logged since to a rotated file.
Loaded(pull) ==
    /\ pull.at <= now
    /\ Watermark(pull.state) < pull.at
    /\ pull.state # None => progress[pull.file] # None
    /\ \A t \in InFile(pull.file) : t <= Watermark(pull.state) => t \in stored
    /\ pull.rows = {t \in InFile(pull.file) :
                        t < pull.at /\ t > Watermark(pull.state)}
    /\ pull.left \subseteq pull.rows
    /\ pull.rows \ pull.left \subseteq stored
    /\ pull.phase \in {"grouping", "saving"} => pull.left = {}
    /\ pull.file < pull.listed => \A t \in InFile(pull.file) : t < pull.at

Sound(pull) ==
    /\ pull.file <= pull.listed /\ pull.listed <= active
    /\ pull.phase # "reading" => Loaded(pull)

PullState == \A p \in Task : pulls[p] # None => Sound(pulls[p])

\* The inductive invariant.
IInv == Shaped /\ CardState /\ ProgressState /\ PullState /\ NothingSkipped

-----------------------------------------------------------------------------
\* Max of a nonempty set of instants and 0 is one of them, and the latest.
LEMMA MaxOfInstants ==
    ASSUME NEW S \in SUBSET (0..MaxTime), S # {}
    PROVE  Max(S) \in S /\ \A t \in S : Max(S) >= t
<1> USE BoundAssumption
<1> DEFINE D == {MaxTime - t : t \in S}
<1>1. D # {}
    OBVIOUS
<1>5. D \subseteq Nat
    OBVIOUS
<1>2. PICK d \in D : \A e \in D : <<e, d>> \notin OpToRel(<, Nat)
  <2> HIDE DEF D
  <2> QED BY <1>1, <1>5, NatLessThanWellFounded, WFMin, Zenon
<1>3. PICK m \in S : d = MaxTime - m
    OBVIOUS
<1>4. \A t \in S : m >= t
  <2> SUFFICES ASSUME NEW t \in S PROVE m >= t
      OBVIOUS
  <2>1. MaxTime - t \in D
      OBVIOUS
  <2>2. ~(MaxTime - t < d)
      BY <2>1, <1>5, <1>2 DEF OpToRel
  <2> QED BY <2>2, <1>3
<1> QED
    BY <1>4, Zenon DEF Max

LEMMA WatermarkIsATime ==
    ASSUME NEW s \in Progress \union {None}
    PROVE  Watermark(s) \in 0..MaxTime
BY BoundAssumption DEF Watermark, Progress

\* The pull after a file is between files, or over.
LEMMA NextFileIsSound ==
    ASSUME NEW pull \in Pull, Sound(pull)
    PROVE  /\ NextFile(pull) \in Pull \union {None}
           /\ NextFile(pull) # None => Sound(NextFile(pull))
                                       /\ NextFile(pull).phase = "reading"
<1>1. CASE pull.file = pull.listed
    BY <1>1 DEF NextFile
<1>2. CASE pull.file # pull.listed
  <2> DEFINE next == Reading(pull.listed, pull.file + 1)
  <2>1. pull.listed \in File /\ pull.file + 1 \in File /\ pull.file + 1 <= pull.listed
      BY <1>2, BoundAssumption DEF Pull, Sound, File
  <2>2. next \in Pull /\ next.phase = "reading" /\ next.file = pull.file + 1
            /\ next.listed = pull.listed
      BY <2>1, BoundAssumption DEF Reading, Pull, Time
  <2>3. Sound(next)
      BY <2>1, <2>2 DEF Sound
  <2> QED BY <1>2, <2>2, <2>3 DEF NextFile
<1> QED BY <1>1, <1>2

LEMMA InitEstablishes == Init => IInv
<1> SUFFICES ASSUME Init PROVE IInv
    OBVIOUS
<1>1. Shaped
    BY BoundAssumption DEF Init, Shaped, Time, File
<1>2. Logged(Time) = {}
    BY DEF Init, Logged, Time
<1>3. CardState /\ ProgressState /\ PullState /\ NothingSkipped
    BY <1>2 DEF Init, CardState, ProgressState, PullState, NothingSkipped, InFile
<1> QED BY <1>1, <1>3 DEF IInv

-----------------------------------------------------------------------------
(* One lemma per kind of step *)

\* A step that replaces only pulls keeps the invariant if it keeps them sound.
LEMMA PullsOnly ==
    ASSUME IInv, UNCHANGED <<now, card, active, stored, progress>>,
           pulls' \in [Task -> Pull \union {None}],
           \A p \in Task : pulls'[p] # None => Sound(pulls'[p])
    PROVE  IInv'
<1>1. PullState'
    BY DEF PullState, Sound, Loaded, InFile, Logged
<1> QED
    BY <1>1 DEF IInv, Shaped, CardState, ProgressState, NothingSkipped, InFile, Logged

\* The same, when one pull moves.
LEMMA OnePull ==
    ASSUME IInv, UNCHANGED <<now, card, active, stored, progress>>,
           NEW p \in Task, NEW pull \in Pull \union {None},
           pulls' = [pulls EXCEPT ![p] = pull],
           pull # None => Sound(pull)
    PROVE  IInv'
<1>1. pulls' \in [Task -> Pull \union {None}]
    BY DEF IInv, Shaped
<1>2. \A q \in Task : pulls'[q] # None => Sound(pulls'[q])
    BY DEF IInv, Shaped, PullState
<1> QED BY <1>1, <1>2, PullsOnly

LEMMA StartSteps == ASSUME IInv, NEW p \in Task, Start(p) PROVE IInv'
<1> DEFINE pull == Reading(active, 1)
<1>1. pull \in Pull
    BY BoundAssumption DEF IInv, Shaped, Reading, Pull, File
<1>2. Sound(pull)
    BY DEF IInv, Shaped, Reading, Sound, File
<1>3. pulls' = [pulls EXCEPT ![p] = pull] /\ UNCHANGED <<now, card, active, stored, progress>>
    BY DEF Start
<1> HIDE DEF pull
<1> QED BY <1>1, <1>2, <1>3, OnePull

\* SkipCompleted and DownloadFails.
LEMMA SkipSteps ==
    ASSUME IInv, NEW p \in Task, SkipCompleted(p) \/ DownloadFails(p)
    PROVE  IInv'
<1> DEFINE pull == NextFile(pulls[p])
<1>1. pulls[p] \in Pull /\ Sound(pulls[p])
    BY DEF SkipCompleted, DownloadFails, At, IInv, Shaped, PullState
<1>2. pull \in Pull \union {None} /\ (pull # None => Sound(pull))
    BY <1>1, NextFileIsSound
<1>3. pulls' = [pulls EXCEPT ![p] = pull] /\ UNCHANGED <<now, card, active, stored, progress>>
    BY DEF SkipCompleted, DownloadFails
<1> HIDE DEF pull
<1> QED BY <1>2, <1>3, OnePull

LEMMA DownloadSteps == ASSUME IInv, NEW p \in Task, Download(p) PROVE IInv'
<1> DEFINE f    == pulls[p].file
           rows == {t \in InFile(f) : t > Watermark(progress[f])}
           pull == [pulls[p] EXCEPT !.state = progress[f], !.at = now, !.rows = rows,
                                    !.left = rows,
                                    !.phase = IF rows = {} THEN "saving" ELSE "storing"]
<1>1. pulls[p] \in Pull /\ Sound(pulls[p]) /\ f \in File
    BY DEF Download, At, IInv, Shaped, PullState, Pull
<1>2. progress[f] \in Progress \union {None} /\ rows \subseteq Time
    BY <1>1 DEF IInv, Shaped, InFile, Logged
<1>3. pull \in Pull
    BY <1>1, <1>2 DEF Pull, IInv, Shaped, Time
<1>4. Watermark(progress[f]) < now
    BY <1>1 DEF IInv, Shaped, ProgressState, Watermark, Time
<1>5. \A t \in InFile(f) : t < now /\ card[t].file = f /\ f <= active
    BY <1>1 DEF IInv, CardState, InFile
<1>6. pull.file = f /\ pull.listed = pulls[p].listed /\ pull.state = progress[f]
      /\ pull.at = now /\ pull.rows = rows /\ pull.left = rows
      /\ pull.phase = IF rows = {} THEN "saving" ELSE "storing"
    BY <1>1 DEF Pull
<1>7. \A t \in InFile(f) : t <= Watermark(progress[f]) => t \in stored
  <2> SUFFICES ASSUME NEW t \in InFile(f), t <= Watermark(progress[f]) PROVE t \in stored
      OBVIOUS
  <2>1. progress[f] # None
      BY DEF Watermark, InFile, Logged, Time
  <2> QED BY <2>1, <1>1 DEF IInv, NothingSkipped, Watermark
<1>8. Sound(pull)
  <2> HIDE DEF pull
  <2>1. rows = {t \in InFile(f) : t < now /\ t > Watermark(progress[f])}
      BY <1>5
  <2> HIDE DEF rows
  <2>2. now <= now
      BY DEF IInv, Shaped, Time
  <2>3. Loaded(pull)
      BY <1>4, <1>5, <1>6, <1>7, <2>1, <2>2 DEF Loaded
  <2> QED BY <1>1, <1>6, <2>3 DEF Sound
<1>9. pulls' = [pulls EXCEPT ![p] = pull] /\ UNCHANGED <<now, card, active, stored, progress>>
    BY <1>1 DEF Download, IInv, Shaped
<1> HIDE DEF pull
<1> QED BY <1>3, <1>8, <1>9, OnePull

LEMMA ReconstructSteps == ASSUME IInv, NEW p \in Task, Reconstruct(p) PROVE IInv'
<1> DEFINE pull == [pulls[p] EXCEPT !.phase = "saving"]
<1>1. pulls[p] \in Pull /\ Sound(pulls[p]) /\ pulls[p].phase = "grouping"
    BY DEF Reconstruct, At, IInv, Shaped, PullState
<1>2. pull \in Pull
    BY <1>1 DEF Pull
<1>3. Sound(pull)
    BY <1>1 DEF Sound, Loaded, Pull
<1>4. pulls' = [pulls EXCEPT ![p] = pull] /\ UNCHANGED <<now, card, active, stored, progress>>
    BY <1>1 DEF Reconstruct, IInv, Shaped
<1> HIDE DEF pull
<1> QED BY <1>2, <1>3, <1>4, OnePull

LEMMA CrashSteps == ASSUME IInv, Crash PROVE IInv'
<1>1. pulls' = [p \in Task |-> None] /\ UNCHANGED <<now, card, active, stored, progress>>
    BY DEF Crash, NoPull
<1> QED BY <1>1, PullsOnly

\* The live path touches sessions only.
LEMMA LiveSteps ==
    ASSUME IInv, UNCHANGED <<now, card, active, stored, progress, pulls>>
    PROVE  IInv'
BY DEF IInv, Shaped, CardState, ProgressState, NothingSkipped, PullState, Sound,
       Loaded, InFile, Logged

LEMMA StoreSteps == ASSUME IInv, NEW p \in Task, StoreChunk(p) PROVE IInv'
<1> DEFINE chunk == FirstChunk(pulls[p].left)
<1>1. pulls[p] \in Pull /\ Sound(pulls[p]) /\ pulls[p].phase = "storing"
    BY DEF StoreChunk, At, IInv, Shaped, PullState
<1>2. chunk \subseteq pulls[p].left
    BY DEF FirstChunk
<1> HIDE DEF chunk
<1>3. PICK pull \in Pull :
          pull = [pulls[p] EXCEPT !.left  = @ \ chunk,
                                  !.phase = IF pulls[p].left = chunk THEN "grouping"
                                            ELSE "storing"]
    BY <1>1 DEF Pull
<1>4. pulls' = [pulls EXCEPT ![p] = pull] /\ stored' = stored \union chunk
      /\ UNCHANGED <<now, card, active, progress>>
    BY <1>1, <1>3 DEF StoreChunk, IInv, Shaped, chunk
<1>5. \A f : InFile(f)' = InFile(f)
    BY <1>4 DEF InFile, Logged
<1>6. Shaped' /\ CardState' /\ ProgressState' /\ NothingSkipped'
    BY <1>4, <1>5 DEF IInv, Shaped, CardState, ProgressState, NothingSkipped, Logged
<1>7. \A q \in Pull : Sound(q) => Sound(q)'
    BY <1>4, <1>5 DEF Sound, Loaded
<1>8. Sound(pull)'
  <2>1. /\ pull.file = pulls[p].file /\ pull.listed = pulls[p].listed
        /\ pull.state = pulls[p].state /\ pull.at = pulls[p].at
        /\ pull.rows = pulls[p].rows /\ pull.left = pulls[p].left \ chunk
        /\ pull.phase = "grouping" => pulls[p].left = chunk
        /\ pull.phase \in {"storing", "grouping"}
      BY <1>1, <1>3 DEF Pull
  <2>2. Loaded(pulls[p])
      BY <1>1 DEF Sound
  <2>3. Loaded(pull)'
    <3>1. pull.phase \in {"grouping", "saving"} => pull.left = {}
        BY <2>1
    <3>2. pull.left \subseteq pull.rows /\ pull.rows \ pull.left \subseteq stored'
        BY <2>1, <2>2, <1>2, <1>4 DEF Loaded
    <3> QED BY <2>1, <2>2, <3>1, <3>2, <1>4, <1>5 DEF Loaded
  <2> QED BY <2>1, <2>3, <1>1, <1>4 DEF Sound
<1>9. PullState'
    BY <1>4, <1>7, <1>8 DEF PullState, IInv, Shaped
<1> QED BY <1>6, <1>9 DEF IInv

\* The watermark a pull saves is a time of the past, no row at or before it is
\* lost, and a file it completes was rotated away and is stored whole.
LEMMA SavedIsSound ==
    ASSUME IInv, NEW p \in Task, At(p, "saving")
    PROVE  LET f == pulls[p].file
           IN  /\ Saved(p) \in Progress
               /\ Saved(p).last_timestamp < now
               /\ Saved(p).completed => f < active
               /\ \A t \in InFile(f) :
                     t <= Saved(p).last_timestamp \/ Saved(p).completed => t \in stored
<1> DEFINE pull  == pulls[p]
           f     == pull.file
           mark  == Watermark(pull.state)
           top   == Max(pull.rows \union {mark})
           saved == Saved(p)
<1>1. pull \in Pull /\ f \in File /\ Sound(pull) /\ Loaded(pull) /\ pull.left = {}
    BY DEF At, IInv, Shaped, PullState, Pull, Sound, Loaded
<1>2. mark \in 0..MaxTime /\ mark < pull.at /\ pull.at <= now /\ now \in Time
    BY <1>1, WatermarkIsATime DEF Pull, Loaded, IInv, Shaped
<1>3. top \in pull.rows \union {mark} /\ top \in 0..MaxTime
  <2>1. pull.rows \union {mark} \subseteq 0..MaxTime
      BY <1>1, <1>2 DEF Pull, Time
  <2> QED BY <2>1, MaxOfInstants
<1>4. top < pull.at /\ top < now /\ top \in Int
    BY <1>1, <1>2, <1>3 DEF Loaded, Pull, Time
<1>5. \A t \in InFile(f) : t \in Time
    BY DEF InFile, Logged
<1>6. \A t \in InFile(f) : t < pull.at => t \in stored
  <2> SUFFICES ASSUME NEW t \in InFile(f), t < pull.at PROVE t \in stored
      OBVIOUS
  <2>1. CASE t <= mark
      BY <2>1, <1>1 DEF Loaded
  <2>2. CASE t > mark
      BY <2>2, <1>1 DEF Loaded
  <2> QED BY <2>1, <2>2, <1>2, <1>5 DEF Time
<1>7. progress[f] \in Progress \union {None}
    BY <1>1 DEF IInv, Shaped
<1>8. \A t \in InFile(f) : progress[f] # None
          /\ (t <= progress[f].last_timestamp \/ progress[f].completed) => t \in stored
    BY <1>1 DEF IInv, NothingSkipped
<1>9. progress[f] # None => /\ progress[f].last_timestamp < now
                            /\ progress[f].completed => f < active
    BY <1>1 DEF IInv, ProgressState
<1>10. f # pull.listed => f < active /\ \A t \in InFile(f) : t < pull.at
    BY <1>1 DEF Sound, Loaded, Pull, IInv, Shaped, File
<1>11. \A t \in InFile(f) : t <= top => t \in stored
    BY <1>1, <1>4, <1>5, <1>6 DEF Pull, Time
<1>12. now \in Int
    BY <1>2 DEF Time
<1>13. CASE pull.state = None
  <2> DEFINE old  == Watermark(progress[f])
             last == Max({top, old})
  <2>1. old \in 0..MaxTime
      BY <1>7, WatermarkIsATime
  <2>2. last \in {top, old} /\ last \in 0..MaxTime
    <3>1. {top, old} \subseteq 0..MaxTime
        BY <2>1, <1>3
    <3> HIDE DEF top, old
    <3> QED BY <3>1, MaxOfInstants
  <2>3. saved = [last_timestamp |-> last, completed |-> f # pull.listed]
      BY <1>13 DEF Saved
  <2>4. old < now
      BY <1>9, <1>2 DEF Watermark, Time
  <2>5. \A t \in InFile(f) : t <= old => t \in stored
      BY <1>5, <1>8 DEF Watermark, Time
  <2> HIDE DEF last, old, top
  <2>6. last < now /\ \A t \in InFile(f) : t <= last => t \in stored
      BY <2>2, <2>4, <2>5, <1>4, <1>11
  <2> HIDE DEF f, saved
  <2>7. saved \in Progress /\ saved.last_timestamp = last
        /\ saved.completed = (f # pull.listed)
      BY <2>2, <2>3 DEF Progress
  <2>8. saved.completed => f < active /\ \A t \in InFile(f) : t \in stored
      BY <2>7, <1>6, <1>10
  <2> QED BY <2>6, <2>7, <2>8 DEF f, saved
<1>14. CASE pull.state # None
  <2> DEFINE last == IF top > pull.state.last_timestamp THEN top
                     ELSE progress[f].last_timestamp
  <2>1. progress[f] # None /\ progress[f] \in Progress
      BY <1>1, <1>7, <1>14 DEF Loaded
  <2>2. saved = [last_timestamp |-> last,
                 completed |-> f # pull.listed \/ progress[f].completed]
      BY <1>14 DEF Saved
  <2>3. last \in {top, progress[f].last_timestamp} /\ last \in 0..MaxTime
      BY <2>1, <1>3 DEF Progress
  <2>4. progress[f].completed \in BOOLEAN
      BY <2>1 DEF Progress
  <2> HIDE DEF last, top
  <2>5. last < now /\ \A t \in InFile(f) : t <= last => t \in stored
      BY <2>1, <2>3, <1>4, <1>8, <1>9, <1>11
  <2> HIDE DEF f, saved
  <2>6. saved \in Progress /\ saved.last_timestamp = last
        /\ saved.completed = (f # pull.listed \/ progress[f].completed)
      BY <2>2, <2>3, <2>4 DEF Progress
  <2>7. saved.completed => f < active /\ \A t \in InFile(f) : t \in stored
      BY <2>1, <2>6, <1>6, <1>8, <1>9, <1>10
  <2> QED BY <2>5, <2>6, <2>7 DEF f, saved
<1> QED BY <1>13, <1>14

LEMMA SaveSteps == ASSUME IInv, NEW p \in Task, Save(p) PROVE IInv'
<1> DEFINE f    == pulls[p].file
           pull == NextFile(pulls[p])
<1>1. pulls[p] \in Pull /\ Sound(pulls[p]) /\ f \in File
    BY DEF Save, At, IInv, Shaped, PullState, Pull
<1>2. pull \in Pull \union {None}
      /\ (pull # None => Sound(pull) /\ pull.phase = "reading")
    BY <1>1, NextFileIsSound
<1>3. pulls' = [pulls EXCEPT ![p] = pull]
      /\ progress' = [progress EXCEPT ![f] = Saved(p)]
      /\ UNCHANGED <<now, card, active, stored>>
    BY DEF Save
<1>4. /\ Saved(p) \in Progress
      /\ Saved(p).last_timestamp < now
      /\ Saved(p).completed => f < active
      /\ \A t \in InFile(f) :
            t <= Saved(p).last_timestamp \/ Saved(p).completed => t \in stored
    BY SavedIsSound DEF Save
<1> DEFINE saved == Saved(p)
<1> HIDE DEF pull, saved
<1>5. \A g : InFile(g)' = InFile(g)
    BY <1>3 DEF InFile, Logged
<1>6. Shaped' /\ CardState'
    BY <1>2, <1>3, <1>4 DEF IInv, Shaped, CardState, Logged
<1>7. progress'[f] = Saved(p) /\ \A g \in File : g # f => progress'[g] = progress[g]
    BY <1>1, <1>3 DEF IInv, Shaped
<1>8. ProgressState'
    BY <1>3, <1>4, <1>7 DEF IInv, ProgressState
<1>9. NothingSkipped'
    BY <1>3, <1>4, <1>5, <1>7 DEF IInv, NothingSkipped
<1>10. \A q \in Pull : Sound(q) => Sound(q)'
  <2>1. \A g \in File : progress[g] # None => progress'[g] # None
      BY <1>4, <1>7, NoneAssumption
  <2> QED BY <1>3, <1>5, <2>1 DEF Sound, Loaded, Pull
<1>11. PullState'
    BY <1>1, <1>2, <1>3, <1>10 DEF IInv, Shaped, PullState
<1> QED BY <1>6, <1>8, <1>9, <1>11 DEF IInv

LEMMA SilenceSteps == ASSUME IInv, Silence PROVE IInv'
<1>1. now' = now + 1 /\ now' \in Time /\ now \in Time
      /\ UNCHANGED <<card, active, stored, progress, pulls>>
    BY BoundAssumption DEF Silence, IInv, Shaped, Time
<1>2. \A f : InFile(f)' = InFile(f)
    BY <1>1 DEF InFile, Logged
<1>3. Shaped' /\ NothingSkipped'
    BY <1>1, <1>2 DEF IInv, Shaped, NothingSkipped
<1>4. CardState'
  <2>1. \A t \in Logged(Time) : t \in Time
      BY DEF Logged
  <2> QED BY <1>1, <2>1 DEF IInv, CardState, Logged, Time
<1>5. ProgressState'
    BY <1>1 DEF IInv, Shaped, ProgressState, Progress, Time
<1>6. \A q \in Pull : Sound(q) => Sound(q)'
  <2>1. \A q \in Pull : q.at <= now => q.at <= now + 1
      BY <1>1 DEF Pull, Time
  <2> QED BY <1>1, <1>2, <2>1 DEF Sound, Loaded
<1>7. PullState'
    BY <1>1, <1>6 DEF IInv, Shaped, PullState
<1> QED BY <1>3, <1>4, <1>5, <1>7 DEF IInv

\* A sample is logged past every watermark and every download, and never to a
\* file that is not the last: no set of rows a pull holds changes.
LEMMA LogSteps ==
    ASSUME IInv, NEW signals \in Samples, NEW file \in File,
           file = active \/ file = active + 1, Log(signals, file)
    PROVE  IInv'
<1> DEFINE sample == [above |-> signals.above, odometer |-> signals.odometer, file |-> file]
<1>1. now' = now + 1 /\ now' \in Time /\ now \in Time /\ active' = file
      /\ card' = [card EXCEPT ![now] = sample]
      /\ UNCHANGED <<stored, progress, pulls>>
    BY BoundAssumption DEF Log, IInv, Shaped, Time
<1>2. sample \in Sample /\ sample.file = file
    BY SamplesAssumption DEF Sample, Signals
<1> HIDE DEF sample
<1>3. card'[now] = sample /\ \A t \in Time : t # now => card'[t] = card[t]
    BY <1>1 DEF IInv, Shaped
<1>4. active <= file /\ active \in Int /\ file \in Int
    BY DEF IInv, Shaped, File
<1>5. card[now] = None
    BY <1>1 DEF IInv, CardState, Logged, Time
<1>6. \A f : \A t \in Time : t \in InFile(f)' => t \in InFile(f) \/ (t = now /\ f = file)
    BY <1>2, <1>3 DEF InFile, Logged
<1>7. \A f : \A t \in InFile(f) : t \in Time /\ t < now /\ t \in InFile(f)'
    BY <1>3, <1>5 DEF IInv, CardState, InFile, Logged
<1>8. \A f : InFile(f)' \subseteq Time
    BY DEF InFile, Logged, Time
<1>9. Shaped'
    BY <1>1, <1>2 DEF IInv, Shaped
<1>10. CardState'
  <2> SUFFICES ASSUME NEW t \in Time, card'[t] # None
               PROVE  t < now + 1 /\ card'[t].file <= file
      BY <1>1 DEF CardState, Logged, Time
  <2>1. CASE t = now
      BY <2>1, <1>1, <1>2, <1>3, <1>4 DEF Time
  <2>2. CASE t # now
    <3>1. t \in Logged(Time) /\ card'[t] = card[t] /\ card[t] \in Sample
        BY <2>2, <1>3 DEF Logged, IInv, Shaped
    <3>2. t < now /\ card[t].file <= active /\ card[t].file \in Int
        BY <3>1 DEF IInv, CardState, Sample, File
    <3> QED BY <3>1, <3>2, <1>1, <1>4 DEF Time
  <2> QED BY <2>1, <2>2
<1>11. ProgressState'
  <2> SUFFICES ASSUME NEW f \in File, progress[f] # None
               PROVE  /\ progress[f].last_timestamp < now + 1
                      /\ progress[f].completed => f < file
      BY <1>1 DEF ProgressState
  <2>1. progress[f].last_timestamp \in Int /\ f \in Int
      BY DEF IInv, Shaped, Progress, File
  <2> QED BY <2>1, <1>1, <1>4 DEF IInv, ProgressState, Time
<1>12. NothingSkipped'
  <2> SUFFICES ASSUME NEW f \in File, NEW t \in InFile(f)', progress[f] # None,
                      t <= progress[f].last_timestamp \/ progress[f].completed
               PROVE  t \in stored
      BY <1>1 DEF NothingSkipped
  <2>1. ~(t = now /\ f = file)
    <3>1. progress[f].last_timestamp \in Int /\ f \in Int
        BY DEF IInv, Shaped, Progress, File
    <3> QED BY <3>1, <1>1, <1>4 DEF IInv, ProgressState, Time
  <2>2. t \in InFile(f)
      BY <2>1, <1>6, <1>8
  <2> QED BY <2>2 DEF IInv, NothingSkipped
<1>13. \A q \in Pull : Sound(q) => Sound(q)'
  <2> SUFFICES ASSUME NEW q \in Pull, Sound(q) PROVE Sound(q)'
      OBVIOUS
  <2>1. q.listed <= active'
      BY <1>1, <1>4 DEF Sound, Pull, File
  <2>2. ASSUME q.phase # "reading" PROVE Loaded(q)'
    <3> DEFINE f == q.file
               mark == Watermark(q.state)
    <3>1. Loaded(q) /\ q.at \in Time /\ mark \in 0..MaxTime
        BY <2>2, WatermarkIsATime DEF Sound, Pull, Time
    <3>2. q.at <= now' /\ ~(now < q.at) /\ ~(now <= mark)
        BY <3>1, <1>1 DEF Loaded, Time
    <3>3. \A t \in InFile(f)' : t <= mark => t \in stored'
        BY <3>1, <3>2, <1>1, <1>6, <1>8 DEF Loaded
    <3>4. q.rows = {t \in InFile(f)' : t < q.at /\ t > mark}
        BY <3>1, <3>2, <1>6, <1>7, <1>8 DEF Loaded
    <3>5. ASSUME q.file < q.listed PROVE \A t \in InFile(f)' : t < q.at
      <4>1. f # file
          BY <3>5, <1>4 DEF Sound, Pull, File
      <4> QED BY <4>1, <3>1, <3>5, <1>6, <1>8 DEF Loaded
    <3> HIDE DEF f
    <3> QED BY <3>1, <3>2, <3>3, <3>4, <3>5, <1>1 DEF Loaded, f
  <2> QED BY <2>1, <2>2 DEF Sound
<1>14. PullState'
    BY <1>1, <1>13 DEF IInv, Shaped, PullState
<1> QED BY <1>9, <1>10, <1>11, <1>12, <1>14 DEF IInv

-----------------------------------------------------------------------------
LEMMA NextPreserves == IInv /\ [Next]_vars => IInv'
<1> SUFFICES ASSUME IInv, [Next]_vars PROVE IInv'
    OBVIOUS
<1>1. CASE \E p \in Task : Start(p) \/ PullStep(p) \/ DownloadFails(p)
    BY <1>1, StartSteps, SkipSteps, DownloadSteps, StoreSteps, ReconstructSteps,
       SaveSteps DEF PullStep
<1>2. CASE Silence
    BY <1>2, SilenceSteps
<1>3. CASE \E signals \in Samples : \E file \in File :
              /\ file = active \/ (file = active + 1 /\ InFile(active) # {})
              /\ Log(signals, file)
    BY <1>3, LogSteps
<1>4. CASE \E at \in Time : OpenLive(at) \/ \E k \in 1..Len(sessions) : CloseLive(k, at)
    BY <1>4, LiveSteps DEF OpenLive, CloseLive
<1>5. CASE Crash
    BY <1>5, CrashSteps
<1>6. CASE UNCHANGED vars
    BY <1>6, LiveSteps DEF vars
<1> QED
    BY <1>1, <1>2, <1>3, <1>4, <1>5, <1>6 DEF Next

\* No row that the watermark or the completed mark of a file keeps a pull from
\* reading again is missing from vehicle_telemetry (_save_state,
\* backfill_device): for any crashes, rotations and pulls at once.
THEOREM NoRowIsLost == Spec => []NothingSkipped
<1>1. IInv => NothingSkipped
    BY DEF IInv
<1> QED
    BY <1>1, InitEstablishes, NextPreserves, PTL DEF Spec

-----------------------------------------------------------------------------
(* group_drives: the windows of the drives, in the order of their ends *)

LEMMA MinOfInstants ==
    ASSUME NEW S \in SUBSET Time, S # {}
    PROVE  Min(S) \in S /\ \A t \in S : Min(S) <= t
<1>1. S \subseteq Nat
    BY DEF Time
<1>2. PICK m \in S : \A t \in S : <<t, m>> \notin OpToRel(<, Nat)
    BY <1>1, NatLessThanWellFounded, WFMin, Zenon
<1>3. \A t \in S : m <= t
  <2> SUFFICES ASSUME NEW t \in S PROVE m <= t
      OBVIOUS
  <2>1. ~(t < m)
      BY <1>1, <1>2 DEF OpToRel
  <2> QED BY <1>1, <2>1
<1> QED
    BY <1>3, Zenon DEF Min

LEMMA EndsOfInstants ==
    ASSUME NEW S \in SUBSET Time, S # {}
    PROVE  /\ Min(S) \in S /\ \A t \in S : Min(S) <= t
           /\ Max(S) \in S /\ \A t \in S : t <= Max(S)
           /\ Min(S) \in Time /\ Max(S) \in Time /\ Min(S) <= Max(S)
<1>1. S \in SUBSET (0..MaxTime)
    BY DEF Time
<1>2. Max(S) \in S /\ \A t \in S : Max(S) >= t
    BY <1>1, MaxOfInstants
<1>3. Min(S) \in S /\ \A t \in S : Min(S) <= t
    BY MinOfInstants
<1>4. Min(S) \in Time /\ Max(S) \in Time
    BY <1>2, <1>3
<1> QED BY <1>2, <1>3, <1>4 DEF Time

\* A group begins where nothing moved within a gap before.
Heads(M) == {t \in M : ~\E u \in M : u < t /\ t - u <= Gap}

LEMMA GroupsOfHeads ==
    ASSUME NEW S \in SUBSET Time
    PROVE  /\ Movement(S) \in SUBSET S
           /\ \A G \in Groups(S) : \E m \in Heads(Movement(S)) :
                 G = GroupOf(Movement(S), m) /\ m \in G /\ G \in SUBSET S
<1>1. Movement(S) \in SUBSET S
    BY DEF Movement
<1>2. ASSUME NEW G \in Groups(S)
      PROVE  \E m \in Heads(Movement(S)) :
                 G = GroupOf(Movement(S), m) /\ m \in G /\ G \in SUBSET S
  <2>1. PICK m \in Heads(Movement(S)) : G = GroupOf(Movement(S), m)
      BY DEF Groups, Heads
  <2>2. G \in SUBSET S
      BY <1>1, <2>1 DEF GroupOf
  <2>3. m \in Movement(S) /\ m \in Time
      BY <1>1 DEF Heads
  <2> DEFINE M == Movement(S)
  <2> HIDE DEF M
  <2>4. m \in GroupOf(M, m)
      BY <2>3 DEF GroupOf, Time, M
  <2> QED BY <2>1, <2>2, <2>4 DEF M
<1> QED BY <1>1, <1>2

LEMMA EarlierHead ==
    ASSUME NEW M \in SUBSET Time, NEW m \in Heads(M), NEW n \in Heads(M), m < n
    PROVE  \A t \in GroupOf(M, m) : t < n
<1> SUFFICES ASSUME NEW t \in GroupOf(M, m), ~(t < n) PROVE FALSE
    OBVIOUS
<1>1. m \in M /\ n \in M /\ t \in M /\ m \in Int /\ n \in Int /\ t \in Int
    BY DEF Heads, GroupOf, Time
<1>2. PICK v \in M : v < n /\ n - v <= Gap
    BY <1>1 DEF GroupOf
<1> QED BY <1>2 DEF Heads

\* The drives of a download are finitely many, and one ends before another
\* begins.
Apart(D) ==
    /\ IsFiniteSet(D) /\ D \in SUBSET SUBSET Time /\ {} \notin D
    /\ \A G, H \in D : G # H => Max(G) < Min(H) \/ Max(H) < Min(G)

LEMMA DrivesAreApart ==
    ASSUME NEW S \in SUBSET Time
    PROVE  Apart(Drives(S)) /\ \A G \in Drives(S) : G \in SUBSET S
<1> DEFINE M == Movement(S)
<1>1. /\ M \in SUBSET S
      /\ \A G \in Groups(S) : \E m \in Heads(M) :
            G = GroupOf(M, m) /\ m \in G /\ G \in SUBSET S
    BY GroupsOfHeads
<1> HIDE DEF M
<1>2. Drives(S) \subseteq Groups(S)
    BY DEF Drives
<1>3. Drives(S) \in SUBSET SUBSET Time /\ {} \notin Drives(S)
    BY <1>1, <1>2
<1>4. IsFiniteSet(Drives(S))
  <2>1. IsFiniteSet(Time)
      BY BoundAssumption, FS_Interval DEF Time
  <2>2. IsFiniteSet(SUBSET Time)
      BY <2>1, FS_SUBSET
  <2> QED BY <1>3, <2>2, FS_Subset
<1>5. ASSUME NEW m \in Heads(M), NEW n \in Heads(M), m < n,
             n \in GroupOf(M, n), m \in GroupOf(M, m),
             GroupOf(M, m) \in SUBSET Time, GroupOf(M, n) \in SUBSET Time
      PROVE  Max(GroupOf(M, m)) < Min(GroupOf(M, n))
  <2>1. M \in SUBSET Time
      BY <1>1
  <2>2. \A t \in GroupOf(M, m) : t < n
      BY <1>5, <2>1, EarlierHead
  <2>3. \A t \in GroupOf(M, n) : n <= t
      BY DEF GroupOf
  <2> DEFINE G == GroupOf(M, m)
             H == GroupOf(M, n)
  <2>4. G \in SUBSET Time /\ H \in SUBSET Time /\ G # {} /\ H # {} /\ n \in Time
      BY <1>5
  <2>5. \A t \in G : t < n
      BY <2>2
  <2>6. \A t \in H : n <= t
      BY <2>3
  <2> HIDE DEF G, H
  <2>7. Max(G) < n /\ n <= Min(H) /\ Max(G) \in Time /\ Min(H) \in Time
      BY <2>4, <2>5, <2>6, EndsOfInstants
  <2>8. Max(G) < Min(H)
      BY <2>4, <2>7 DEF Time
  <2> QED BY <2>8 DEF G, H
<1>6. ASSUME NEW G \in Drives(S), NEW H \in Drives(S), G # H
      PROVE  Max(G) < Min(H) \/ Max(H) < Min(G)
  <2>1. PICK m \in Heads(M) : G = GroupOf(M, m) /\ m \in G /\ G \in SUBSET S
      BY <1>1, <1>2
  <2>2. PICK n \in Heads(M) : H = GroupOf(M, n) /\ n \in H /\ H \in SUBSET S
      BY <1>1, <1>2
  <2>3. m # n /\ m \in Int /\ n \in Int
      BY <1>1, <1>6, <2>1, <2>2 DEF Heads, Time
  <2>4. CASE m < n
      BY <1>5, <2>1, <2>2, <2>4
  <2>5. CASE n < m
      BY <1>5, <2>1, <2>2, <2>5
  <2> QED BY <2>3, <2>4, <2>5
<1> QED
    BY <1>1, <1>2, <1>3, <1>4, <1>6 DEF Apart

\* The place of a drive among the others, by their ends.
PlaceOf(D, G) == Cardinality({H \in D : Max(H) <= Max(G)})

LEMMA DrivesHavePlaces ==
    ASSUME NEW D, Apart(D)
    PROVE  /\ Cardinality(D) \in Nat
           /\ \A G \in D : PlaceOf(D, G) \in 1 .. Cardinality(D)
           /\ \A G, H \in D : PlaceOf(D, G) < PlaceOf(D, H) => Max(G) < Min(H)
           /\ \A n \in 1 .. Cardinality(D) : \E G \in D : PlaceOf(D, G) = n
<1>1. IsFiniteSet(D) /\ Cardinality(D) \in Nat
    BY FS_CardinalityType DEF Apart
<1>2. \A G \in D : Max(G) \in Time /\ Min(G) \in Time /\ Min(G) <= Max(G)
    BY EndsOfInstants DEF Apart
<1>3. \A G \in D : Max(G) \in Int /\ Min(G) \in Int
    BY <1>2 DEF Time
<1> DEFINE Upto(G) == {H \in D : Max(H) <= Max(G)}
<1>4. ASSUME NEW G \in D
      PROVE  /\ IsFiniteSet(Upto(G)) /\ Cardinality(Upto(G)) \in Nat
             /\ Cardinality(Upto(G)) <= Cardinality(D) /\ Cardinality(Upto(G)) # 0
  <2>1. Upto(G) \in SUBSET D /\ G \in Upto(G)
      BY <1>3
  <2> HIDE DEF Upto
  <2> QED BY <1>1, <2>1, FS_Subset, FS_CardinalityType, FS_EmptySet
<1>5. ASSUME NEW G \in D, NEW H \in D, Max(G) < Max(H)
      PROVE  Cardinality(Upto(G)) < Cardinality(Upto(H))
  <2>1. Upto(G) \subseteq Upto(H)
      BY <1>3, <1>5
  <2>2. H \in Upto(H) /\ H \notin Upto(G)
      BY <1>3, <1>5
  <2> HIDE DEF Upto
  <2> QED BY <1>4, <2>1, <2>2, FS_Subset
<1>6. \A G : PlaceOf(D, G) = Cardinality(Upto(G))
    BY DEF PlaceOf
<1> HIDE DEF Upto
<1>7. \A G \in D : PlaceOf(D, G) \in 1 .. Cardinality(D)
    BY <1>1, <1>4, <1>6
<1>8. ASSUME NEW G \in D, NEW H \in D, PlaceOf(D, G) < PlaceOf(D, H)
      PROVE  Max(G) < Min(H)
  <2>1. G # H /\ ~(PlaceOf(D, H) < PlaceOf(D, G))
      BY <1>7, <1>8
  <2>2. ~(Max(H) < Max(G))
      BY <1>5, <1>6, <2>1
  <2>3. Max(G) < Min(H) \/ Max(H) < Min(G)
      BY <2>1 DEF Apart
  <2> QED BY <1>2, <1>3, <2>2, <2>3
<1>9. ASSUME NEW G \in D, NEW H \in D, PlaceOf(D, G) = PlaceOf(D, H) PROVE G = H
  <2>1. ~(Max(H) < Max(G)) /\ ~(Max(G) < Max(H))
      BY <1>5, <1>6, <1>7, <1>9
  <2>2. G # H => Max(G) < Min(H) \/ Max(H) < Min(G)
      BY DEF Apart
  <2> QED BY <1>2, <1>3, <2>1, <2>2
<1>10. ASSUME NEW n \in 1 .. Cardinality(D) PROVE \E G \in D : PlaceOf(D, G) = n
  <2> DEFINE places == 1 .. Cardinality(D)
             f == [G \in D |-> PlaceOf(D, G)]
  <2>1. f \in Injection(D, places)
      BY <1>7, <1>9 DEF Injection, IsInjective
  <2>2. IsFiniteSet(places) /\ Cardinality(places) = Cardinality(D)
      BY <1>1, FS_Interval
  <2>3. f \in Surjection(D, places)
      BY <1>1, <2>1, <2>2, FS_Injection
  <2> QED BY <2>3 DEF Surjection
<1> QED BY <1>1, <1>7, <1>8, <1>10

Window == [started_at : Time, movement_ended_at : Time]

\* What the fold needs of its drives: one gives way to the next.
InOrder(ds) ==
    /\ ds \in Seq(Window)
    /\ \A i \in DOMAIN ds : ds[i].started_at <= ds[i].movement_ended_at
    /\ \A i, j \in DOMAIN ds : i < j =>
          /\ ds[i].movement_ended_at <= ds[j].started_at
          /\ ds[i].movement_ended_at < ds[j].movement_ended_at

\* The contact burst reaches back to a sample of the download.
LEMMA BurstsBegin ==
    ASSUME NEW S \in SUBSET Time, NEW m \in S
    PROVE  BurstStart(S, m) \in S /\ BurstStart(S, m) <= m
<1> DEFINE B == {t \in S : t <= m /\ \A u \in S : t < u /\ u <= m =>
                              \E v \in S : v < u /\ u - v <= Gap}
<1>1. m \in B
    BY DEF Time
<1>2. B \in SUBSET S
    OBVIOUS
<1>3. \A t \in B : t <= m
    OBVIOUS
<1>4. BurstStart(S, m) = Min(B)
    BY DEF BurstStart
<1> HIDE DEF B
<1>5. Min(B) \in B
    BY <1>1, <1>2, MinOfInstants
<1> QED BY <1>2, <1>3, <1>4, <1>5

LEMMA WindowsOfDrives ==
    ASSUME NEW S \in SUBSET Time, NEW G \in Drives(S)
    PROVE  /\ DriveWindow(S, G) \in Window
           /\ DriveWindow(S, G).movement_ended_at = Max(G)
           /\ DriveWindow(S, G).started_at <= Max(G)
           /\ \A H \in Drives(S) : Max(H) < Min(G) =>
                 Max(H) <= DriveWindow(S, G).started_at
<1> DEFINE earlier == {Max(H) : H \in {K \in Drives(S) : Max(K) < Min(G)}}
           starts == {BurstStart(S, Min(G))} \union earlier
<1>1. /\ \A H \in Drives(S) : H \in SUBSET Time /\ H # {}
      /\ G \in SUBSET S
  <2> DEFINE D == Drives(S)
  <2>1. Apart(D) /\ G \in SUBSET S /\ G \in D
      BY DrivesAreApart
  <2> HIDE DEF D
  <2>2. D \in SUBSET SUBSET Time /\ {} \notin D
      BY <2>1 DEF Apart
  <2>3. \A H \in D : H \in SUBSET Time /\ H # {}
      BY <2>2
  <2> QED BY <2>1, <2>3 DEF D
<1>2. \A H \in Drives(S) : Max(H) \in Time
    BY <1>1, EndsOfInstants
<1>3. Min(G) \in S /\ Min(G) \in Time /\ Max(G) \in Time /\ Min(G) <= Max(G)
    BY <1>1, EndsOfInstants
<1>4. BurstStart(S, Min(G)) \in Time /\ BurstStart(S, Min(G)) <= Min(G)
    BY <1>3, BurstsBegin
<1>5. DriveWindow(S, G) = [started_at |-> Max(starts), movement_ended_at |-> Max(G)]
    BY DEF DriveWindow
<1>6. starts \in SUBSET Time /\ starts # {} /\ \A t \in starts : t <= Min(G)
  <2>1. \A t \in earlier : t \in Time /\ t <= Min(G)
      BY <1>2, <1>3 DEF Time
  <2> HIDE DEF earlier
  <2> QED BY <1>4, <2>1
<1>7. \A H \in Drives(S) : Max(H) < Min(G) => Max(H) \in starts
    OBVIOUS
<1> HIDE DEF starts
<1>8. Max(starts) \in starts /\ \A t \in starts : t <= Max(starts)
    BY <1>6, EndsOfInstants
<1>9. Max(starts) \in Time /\ Max(starts) <= Max(G)
  <2>1. Max(starts) \in Time /\ Max(starts) <= Min(G)
      BY <1>6, <1>8
  <2>2. ASSUME NEW x \in Time, NEW y \in Time, NEW z \in Time, x <= y, y <= z
        PROVE  x <= z
      BY <2>2 DEF Time
  <2> QED BY <1>3, <2>1, <2>2
<1> QED BY <1>3, <1>5, <1>7, <1>8, <1>9 DEF Window

\* The drives group_drives returns are in order.
LEMMA DrivesInOrder ==
    ASSUME NEW S \in SUBSET Time
    PROVE  InOrder(group_drives(S))
<1> DEFINE D == Drives(S)
           n == Cardinality(D)
           nth(k) == CHOOSE G \in D : PlaceOf(D, G) = k
           ds == group_drives(S)
<1>1. /\ Apart(D)
      /\ n \in Nat
      /\ \A G, H \in D : PlaceOf(D, G) < PlaceOf(D, H) => Max(G) < Min(H)
      /\ \A k \in 1 .. n : \E G \in D : PlaceOf(D, G) = k
    BY DrivesAreApart, DrivesHavePlaces
<1>2. \A k \in 1 .. n : nth(k) \in D /\ PlaceOf(D, nth(k)) = k
    BY <1>1
<1>3. \A G \in D : Max(G) \in Time /\ Min(G) \in Time /\ Min(G) <= Max(G)
    BY <1>1, EndsOfInstants DEF Apart
<1>4. ds = [k \in 1 .. n |-> DriveWindow(S, nth(k))]
    BY DEF group_drives, PlaceOf
<1>5. \A G \in D :
          /\ DriveWindow(S, G) \in Window
          /\ DriveWindow(S, G).movement_ended_at = Max(G)
          /\ DriveWindow(S, G).started_at <= Max(G)
          /\ \A H \in D : Max(H) < Min(G) => Max(H) <= DriveWindow(S, G).started_at
    BY WindowsOfDrives
<1> HIDE DEF D, n, nth, ds
<1>6. ds \in Seq(Window) /\ DOMAIN ds = 1 .. n
    BY <1>1, <1>2, <1>4, <1>5
<1>7. \A i \in DOMAIN ds : ds[i].started_at <= ds[i].movement_ended_at
    BY <1>2, <1>4, <1>5, <1>6
<1>8. ASSUME NEW i \in DOMAIN ds, NEW j \in DOMAIN ds, i < j
      PROVE  /\ ds[i].movement_ended_at <= ds[j].started_at
             /\ ds[i].movement_ended_at < ds[j].movement_ended_at
  <2>1. nth(i) \in D /\ nth(j) \in D /\ Max(nth(i)) < Min(nth(j))
      BY <1>1, <1>2, <1>6, <1>8
  <2>2. Max(nth(i)) < Max(nth(j))
      BY <1>3, <2>1 DEF Time
  <2>3. ds[i] = DriveWindow(S, nth(i)) /\ ds[j] = DriveWindow(S, nth(j))
      BY <1>4, <1>6
  <2> QED BY <1>5, <2>1, <2>2, <2>3
<1> QED BY <1>6, <1>7, <1>8 DEF InOrder, ds

-----------------------------------------------------------------------------
(* _reconstruct_sessions_from_batch: one drive *)

\* Sessions that lie the right way round.
Rows(ses) ==
    /\ ses \in Seq(Session)
    /\ \A k \in DOMAIN ses : Closed(ses[k]) => ses[k].started_at <= ses[k].ended_at

Whole(s) == s \in Session /\ Closed(s) /\ s.started_at <= s.ended_at

Made(d) == [started_at |-> d.started_at, ended_at |-> d.movement_ended_at]

LEMMA TimesAreNumbers ==
    ASSUME NEW s \in Session
    PROVE  /\ s.started_at \in Time /\ s.started_at \in Int
           /\ Closed(s) => s.ended_at \in Time /\ s.ended_at \in Int
BY DEF Session, Closed, Time

LEMMA DriveTimes ==
    ASSUME NEW ds, InOrder(ds)
    PROVE  /\ DOMAIN ds = 1 .. Len(ds) /\ Len(ds) \in Nat
           /\ \A i \in DOMAIN ds :
                 /\ ds[i] \in Window
                 /\ ds[i].started_at \in Time /\ ds[i].started_at \in Int
                 /\ ds[i].movement_ended_at \in Time /\ ds[i].movement_ended_at \in Int
                 /\ ds[i].started_at <= ds[i].movement_ended_at
<1>1. ds \in Seq(Window)
    BY DEF InOrder
<1>2. \A i \in DOMAIN ds : ds[i] \in Window
    BY <1>1
<1>3. \A d \in Window : /\ d.started_at \in Time /\ d.started_at \in Int
                         /\ d.movement_ended_at \in Time /\ d.movement_ended_at \in Int
    BY DEF Window, Time
<1>4. DOMAIN ds = 1 .. Len(ds) /\ Len(ds) \in Nat
    BY <1>1
<1> QED BY <1>2, <1>3, <1>4 DEF InOrder

LEMMA MadeIsWhole ==
    ASSUME NEW d \in Window, d.started_at <= d.movement_ended_at
    PROVE  Whole(Made(d))
BY SamplesAssumption DEF Whole, Made, Session, Closed, Window, Time

LEMMA WidenedIsWhole ==
    ASSUME NEW s, Whole(s), NEW d \in Window, d.started_at <= d.movement_ended_at
    PROVE  /\ Whole(Widened(s, d))
           /\ Widened(s, d).started_at = IF s.started_at <= d.started_at
                                         THEN s.started_at ELSE d.started_at
           /\ Widened(s, d).ended_at = IF d.movement_ended_at <= s.ended_at
                                       THEN s.ended_at ELSE d.movement_ended_at
<1> DEFINE first == {s.started_at, d.started_at}
           last == {s.ended_at, d.movement_ended_at}
<1>1. /\ s.started_at \in Time /\ s.ended_at \in Time /\ s.started_at <= s.ended_at
      /\ d.started_at \in Time /\ d.movement_ended_at \in Time
    BY TimesAreNumbers DEF Whole, Window
<1>2. first \in SUBSET Time /\ first # {} /\ last \in SUBSET Time /\ last # {}
    BY <1>1
<1>3. Widened(s, d) = [started_at |-> Min(first), ended_at |-> Max(last)]
    BY DEF Widened
<1>4. /\ s.started_at \in first /\ d.started_at \in first
      /\ s.ended_at \in last /\ d.movement_ended_at \in last
      /\ \A t \in first : t = s.started_at \/ t = d.started_at
      /\ \A t \in last : t = s.ended_at \/ t = d.movement_ended_at
    OBVIOUS
<1> HIDE DEF first, last
<1>5. /\ Min(first) \in first /\ \A t \in first : Min(first) <= t
      /\ Max(last) \in last /\ \A t \in last : t <= Max(last)
    BY <1>2, EndsOfInstants
<1>6. Min(first) = IF s.started_at <= d.started_at THEN s.started_at ELSE d.started_at
    BY <1>1, <1>4, <1>5 DEF Time
<1>7. Max(last) = IF d.movement_ended_at <= s.ended_at
                  THEN s.ended_at ELSE d.movement_ended_at
    BY <1>1, <1>4, <1>5 DEF Time
<1>8. Min(first) \in Time /\ Max(last) \in Time /\ Min(first) <= Max(last)
    BY <1>1, <1>6, <1>7 DEF Time
<1>9. Whole(Widened(s, d))
    BY <1>3, <1>8, SamplesAssumption DEF Whole, Session, Closed, Time
<1> QED BY <1>3, <1>6, <1>7, <1>9

\* A drive is a session of its own, widens the one session it touches, or is
\* left to an open session or to several.
Placing(ses, res, ds, i) ==
    \/ Touched(ses, ds, i) = {} /\ res = Append(ses, Made(ds[i]))
    \/ \E k \in Touched(ses, ds, i) :
          \/ /\ Closed(ses[k]) /\ Touched(ses, ds, i) = {k}
             /\ res = [ses EXCEPT ![k] = Widened(ses[k], ds[i])]
          \/ /\ ~Closed(ses[k]) \/ \E j \in Touched(ses, ds, i) : j # k
             /\ res = ses

LEMMA PlacedIsPlacing ==
    ASSUME NEW ses \in Seq(Session), NEW ds, NEW i
    PROVE  Placing(ses, Placed(ses, ds, i), ds, i)
<1> DEFINE over == Touched(ses, ds, i)
           res == Placed(ses, ds, i)
<1>1. res = IF over = {} THEN Append(ses, Made(ds[i]))
            ELSE IF Cardinality(over) = 1 /\ Closed(ses[Min(over)])
            THEN [ses EXCEPT ![Min(over)] = Widened(@, ds[i])]
            ELSE ses
    BY DEF Placed, Made
<1>2. over \in SUBSET (1 .. Len(ses)) /\ Len(ses) \in Nat
    BY DEF Touched
<1>3. IsFiniteSet(over)
  <2>1. IsFiniteSet(1 .. Len(ses))
      BY <1>2, FS_Interval
  <2> QED BY <1>2, <2>1, FS_Subset
<1> HIDE DEF over, res
<1>4. CASE over = {}
    BY <1>1, <1>4 DEF Placing, over, res
<1>5. CASE over # {} /\ ~(\E k \in over : over = {k})
  <2>1. Cardinality(over) # 1
      BY <1>3, <1>5, FS_Singleton
  <2>2. PICK k \in over : TRUE
      BY <1>5
  <2>3. \E j \in over : j # k
      BY <1>5, <2>2
  <2>4. res = ses
      BY <1>1, <1>5, <2>1
  <2> QED BY <2>2, <2>3, <2>4 DEF Placing, over, res
<1>6. CASE \E k \in over : over = {k}
  <2>1. PICK k \in over : over = {k}
      BY <1>6
  <2>2. Cardinality(over) = 1
      BY <2>1, FS_Singleton
  <2>3. k \in Int /\ k <= k
      BY <1>2
  <2>4. Min(over) = k
      BY <2>1, <2>3 DEF Min
  <2>5. res = IF Closed(ses[k]) THEN [ses EXCEPT ![k] = Widened(ses[k], ds[i])] ELSE ses
      BY <1>1, <2>1, <2>2, <2>4
  <2>6. CASE Closed(ses[k])
      BY <2>1, <2>5, <2>6 DEF Placing, over, res
  <2>7. CASE ~Closed(ses[k])
      BY <2>1, <2>5, <2>7 DEF Placing, over, res
  <2> QED BY <2>6, <2>7
<1> QED BY <1>4, <1>5, <1>6

-----------------------------------------------------------------------------
(* What a drive does to the session it widens, and to the others' drives *)

\* The session a drive becomes is one it touches.
LEMMA MadeIsTouched ==
    ASSUME NEW ds, InOrder(ds), NEW i \in DOMAIN ds
    PROVE  Touches(ds, i, Made(ds[i])) /\ Covers(Made(ds[i]), ds[i])
<1> DEFINE s == Made(ds[i])
<1>1. /\ s.started_at = ds[i].started_at /\ s.ended_at = ds[i].movement_ended_at
      /\ Closed(s)
    BY DriveTimes, SamplesAssumption DEF Made, Closed, Time
<1> HIDE DEF s
<1>2. i \in 1 .. Len(ds) /\ Len(ds) \in Nat
    BY DriveTimes
<1>3. /\ ds[i].started_at \in Int /\ ds[i].movement_ended_at \in Int
      /\ ds[i].started_at <= ds[i].movement_ended_at
    BY DriveTimes
<1>4. ASSUME i > 1 PROVE ds[i - 1].movement_ended_at < ds[i].movement_ended_at
  <2>1. i - 1 \in DOMAIN ds /\ i - 1 < i
      BY <1>2, <1>4, DriveTimes
  <2> QED BY <2>1 DEF InOrder
<1>5. Meets(s, ds[i]) /\ Covers(s, ds[i])
    BY <1>1, <1>3 DEF Meets, SessionEnd, Covers
<1>6. ~NextDrives(ds, i, s)
    BY <1>1, <1>3 DEF NextDrives
<1>7. ~PreviousDrives(ds, i, s)
  <2> SUFFICES ASSUME PreviousDrives(ds, i, s) PROVE FALSE
      OBVIOUS
  <2>1. i > 1 /\ ds[i - 1].movement_ended_at = ds[i].movement_ended_at
      BY <1>1 DEF PreviousDrives
  <2> QED BY <1>3, <1>4, <2>1
<1> QED BY <1>5, <1>6, <1>7 DEF Touches, s

\* A session a drive has widened covers the drive and is still touched by it
\* and by every earlier one that touched it.
LEMMA WidenedIsTouched ==
    ASSUME NEW ds, InOrder(ds), NEW i \in DOMAIN ds, NEW j \in DOMAIN ds, j <= i,
           NEW s, Whole(s), Touches(ds, i, s), Touches(ds, j, s)
    PROVE  Touches(ds, j, Widened(s, ds[i])) /\ Covers(Widened(s, ds[i]), ds[i])
<1> DEFINE w == Widened(s, ds[i])
<1>1. /\ i \in 1 .. Len(ds) /\ j \in 1 .. Len(ds) /\ Len(ds) \in Nat
      /\ \A k \in DOMAIN ds : k \in 1 .. Len(ds)
    BY DriveTimes
<1>2. /\ ds[i].started_at \in Int /\ ds[i].movement_ended_at \in Int
      /\ ds[i].started_at <= ds[i].movement_ended_at
      /\ ds[j].started_at \in Int /\ ds[j].movement_ended_at \in Int
      /\ ds[j].started_at <= ds[j].movement_ended_at
    BY DriveTimes
<1>3. /\ s.started_at \in Int /\ s.ended_at \in Int /\ Closed(s)
      /\ s.started_at <= s.ended_at
    BY TimesAreNumbers DEF Whole
<1>4. /\ Whole(w) /\ Closed(w)
      /\ w.started_at = IF s.started_at <= ds[i].started_at
                        THEN s.started_at ELSE ds[i].started_at
      /\ w.ended_at = IF ds[i].movement_ended_at <= s.ended_at
                      THEN s.ended_at ELSE ds[i].movement_ended_at
    BY DriveTimes, WidenedIsWhole DEF Whole
<1> HIDE DEF w
<1>5. w.started_at \in Int /\ w.ended_at \in Int
    BY <1>2, <1>3, <1>4
<1>6. /\ s.started_at <= ds[j].movement_ended_at /\ s.ended_at >= ds[j].started_at
      /\ s.started_at <= ds[i].movement_ended_at /\ s.ended_at >= ds[i].started_at
    BY <1>3 DEF Touches, Meets, SessionEnd
<1>7. Covers(w, ds[i]) /\ Meets(w, ds[j])
    BY <1>2, <1>3, <1>4, <1>6 DEF Covers, Meets, SessionEnd
<1>8. ~PreviousDrives(ds, j, w)
  <2> SUFFICES ASSUME PreviousDrives(ds, j, w) PROVE FALSE
      OBVIOUS
  <2>1. /\ j > 1 /\ ds[j - 1].movement_ended_at = ds[j].started_at
        /\ w.ended_at = ds[j].started_at
      BY DEF PreviousDrives
  <2>2. s.ended_at = ds[j].started_at
      BY <1>2, <1>3, <1>4, <1>6, <2>1
  <2> QED BY <1>3, <2>1, <2>2 DEF Touches, PreviousDrives
<1>9. ~NextDrives(ds, j, w)
  <2> SUFFICES ASSUME NextDrives(ds, j, w) PROVE FALSE
      OBVIOUS
  <2>1. /\ j < Len(ds) /\ ds[j + 1].started_at = ds[j].movement_ended_at
        /\ w.started_at = ds[j].movement_ended_at
        /\ w.ended_at > ds[j].movement_ended_at
      BY <1>4 DEF NextDrives
  <2>2. ~(s.started_at = ds[j].movement_ended_at /\ s.ended_at > ds[j].movement_ended_at)
      BY <1>3, <2>1 DEF Touches, NextDrives
  <2>3. s.started_at = ds[j].movement_ended_at /\ s.ended_at = ds[j].movement_ended_at
      BY <1>2, <1>3, <1>4, <1>6, <2>1, <2>2
  <2>4. CASE i = j
      BY <1>2, <1>4, <2>1, <2>3, <2>4
  <2>5. CASE i = j + 1
      BY <1>1, <1>3, <2>1, <2>3, <2>5 DEF Touches, PreviousDrives
  <2>6. CASE j + 1 < i
    <3>1. j + 1 \in DOMAIN ds /\ j < j + 1
        BY <1>1, <2>6, DriveTimes
    <3>2. ds[j].movement_ended_at < ds[j + 1].movement_ended_at
          /\ ds[j + 1].movement_ended_at <= ds[i].started_at
        BY <2>6, <3>1 DEF InOrder
    <3>3. ds[j + 1].movement_ended_at \in Int
        BY <3>1, DriveTimes
    <3> QED BY <1>2, <1>3, <1>6, <2>3, <3>2, <3>3
  <2> QED BY <1>1, <2>4, <2>5, <2>6
<1> QED BY <1>7, <1>8, <1>9 DEF Touches, w

\* What overlaps a widened session overlapped it before, if the drive touched
\* no other session.
LEMMA WidenedOverlaps ==
    ASSUME NEW ds, InOrder(ds), NEW i \in DOMAIN ds,
           NEW s, Whole(s), Touches(ds, i, s),
           NEW r, Whole(r), ~Touches(ds, i, r)
    PROVE  /\ Overlap(Widened(s, ds[i]), r) => Overlap(s, r)
           /\ Overlap(r, Widened(s, ds[i])) => Overlap(r, s)
<1> DEFINE w == Widened(s, ds[i])
<1>2. /\ ds[i].started_at \in Int /\ ds[i].movement_ended_at \in Int
      /\ ds[i].started_at <= ds[i].movement_ended_at
    BY DriveTimes
<1>3. /\ s.started_at \in Int /\ s.ended_at \in Int /\ Closed(s)
      /\ s.started_at <= s.ended_at
      /\ r.started_at \in Int /\ r.ended_at \in Int /\ Closed(r)
      /\ r.started_at <= r.ended_at
    BY TimesAreNumbers DEF Whole
<1>4. /\ Closed(w)
      /\ w.started_at = IF s.started_at <= ds[i].started_at
                        THEN s.started_at ELSE ds[i].started_at
      /\ w.ended_at = IF ds[i].movement_ended_at <= s.ended_at
                      THEN s.ended_at ELSE ds[i].movement_ended_at
    BY DriveTimes, WidenedIsWhole DEF Whole
<1> HIDE DEF w
<1>5. w.started_at \in Int /\ w.ended_at \in Int
    BY <1>2, <1>3, <1>4
<1>6. s.started_at <= ds[i].movement_ended_at /\ s.ended_at >= ds[i].started_at
    BY <1>3 DEF Touches, Meets, SessionEnd
<1>7. ASSUME w.started_at < r.ended_at, r.started_at < w.ended_at
      PROVE  s.started_at < r.ended_at /\ r.started_at < s.ended_at
  <2>1. CASE ~Meets(r, ds[i])
    <3>1. r.started_at > ds[i].movement_ended_at \/ r.ended_at < ds[i].started_at
        BY <1>2, <1>3, <2>1 DEF Meets, SessionEnd
    <3> QED BY <1>2, <1>3, <1>4, <1>5, <1>6, <1>7, <3>1
  <2>2. CASE NextDrives(ds, i, r)
    <3>1. /\ i < Len(ds) /\ ds[i + 1].started_at = ds[i].movement_ended_at
          /\ r.started_at = ds[i].movement_ended_at
        BY <2>2 DEF NextDrives
    <3>2. ~(s.started_at = ds[i].movement_ended_at /\ s.ended_at > ds[i].movement_ended_at)
        BY <1>3, <3>1 DEF Touches, NextDrives
    <3> QED BY <1>2, <1>3, <1>4, <1>5, <1>6, <1>7, <3>1, <3>2
  <2>3. CASE PreviousDrives(ds, i, r)
    <3>1. /\ i > 1 /\ ds[i - 1].movement_ended_at = ds[i].started_at
          /\ r.ended_at = ds[i].started_at
        BY <2>3 DEF PreviousDrives
    <3>2. s.ended_at # ds[i].started_at
        BY <1>3, <3>1 DEF Touches, PreviousDrives
    <3> QED BY <1>2, <1>3, <1>4, <1>5, <1>6, <1>7, <3>1, <3>2
  <2> QED BY <2>1, <2>2, <2>3 DEF Touches
<1> QED BY <1>3, <1>4, <1>7 DEF Overlap, w

\* A session of its own overlaps nothing.
LEMMA MadeOverlapsNothing ==
    ASSUME NEW ds, InOrder(ds), NEW i \in DOMAIN ds, NEW r, Whole(r), ~Touches(ds, i, r)
    PROVE  ~Overlap(r, Made(ds[i]))
<1> SUFFICES ASSUME Overlap(r, Made(ds[i])) PROVE FALSE
    OBVIOUS
<1>1. /\ ds[i].started_at \in Int /\ ds[i].movement_ended_at \in Int
      /\ ds[i].started_at <= ds[i].movement_ended_at
    BY DriveTimes
<1>2. /\ r.started_at \in Int /\ r.ended_at \in Int /\ Closed(r)
      /\ r.started_at <= r.ended_at
    BY TimesAreNumbers DEF Whole
<1>3. r.started_at < ds[i].movement_ended_at /\ ds[i].started_at < r.ended_at
    BY DEF Overlap, Made
<1>4. Meets(r, ds[i])
    BY <1>1, <1>2, <1>3 DEF Meets, SessionEnd
<1>5. ~NextDrives(ds, i, r) /\ ~PreviousDrives(ds, i, r)
    BY <1>1, <1>2, <1>3 DEF NextDrives, PreviousDrives
<1> QED BY <1>4, <1>5 DEF Touches

\* A session ends before drive b begins, or where the drive before b hands over.
Before(ds, b, s) ==
    \/ s.ended_at < ds[b].started_at
    \/ /\ b > 1 /\ s.ended_at = ds[b].started_at
       /\ ds[b - 1].movement_ended_at = ds[b].started_at

\* A session begins after drive b, or where b hands over to a drive folded in.
After(ds, b, m, s) ==
    \/ s.started_at > ds[b].movement_ended_at
    \/ m >= b /\ s.started_at >= ds[b].movement_ended_at

LEMMA BeforeStays ==
    ASSUME NEW ds, InOrder(ds), NEW i \in DOMAIN ds, NEW b \in DOMAIN ds,
           NEW s, Whole(s), Touches(ds, i, s), Before(ds, b, s)
    PROVE  Before(ds, b, Widened(s, ds[i]))
<1> DEFINE w == Widened(s, ds[i])
<1>1. /\ i \in 1 .. Len(ds) /\ b \in 1 .. Len(ds) /\ Len(ds) \in Nat
    BY DriveTimes
<1>2. /\ ds[i].started_at \in Int /\ ds[i].movement_ended_at \in Int
      /\ ds[i].started_at <= ds[i].movement_ended_at
      /\ ds[b].started_at \in Int /\ ds[b].movement_ended_at \in Int
      /\ ds[b].started_at <= ds[b].movement_ended_at
    BY DriveTimes
<1>3. /\ s.started_at \in Int /\ s.ended_at \in Int /\ Closed(s)
      /\ s.started_at <= s.ended_at
    BY TimesAreNumbers DEF Whole
<1>4. w.ended_at = IF ds[i].movement_ended_at <= s.ended_at
                   THEN s.ended_at ELSE ds[i].movement_ended_at
    BY DriveTimes, WidenedIsWhole DEF Whole
<1> HIDE DEF w
<1>6. s.started_at <= ds[i].movement_ended_at /\ s.ended_at >= ds[i].started_at
    BY <1>3 DEF Touches, Meets, SessionEnd
<1>7. ASSUME b > 1
      PROVE  /\ b - 1 \in DOMAIN ds /\ ds[b - 1].movement_ended_at \in Int
             /\ ds[b - 1].movement_ended_at <= ds[b].started_at
             /\ ds[b - 1].movement_ended_at < ds[b].movement_ended_at
  <2>1. b - 1 \in DOMAIN ds /\ b - 1 < b
      BY <1>1, <1>7, DriveTimes
  <2> QED BY <2>1, DriveTimes DEF InOrder
<1>8. CASE i < b
  <2>1. b > 1
      BY <1>1, <1>8
  <2>2. ds[i].movement_ended_at <= ds[b].started_at
      BY <1>8 DEF InOrder
  <2>3. ds[i].movement_ended_at <= ds[b - 1].movement_ended_at
    <3>1. CASE i = b - 1
        BY <1>2, <3>1
    <3>2. CASE i < b - 1
        BY <1>2, <1>7, <2>1, <3>2 DEF InOrder
    <3> QED BY <1>1, <1>8, <3>1, <3>2
  <2> QED BY <1>2, <1>3, <1>4, <1>7, <2>1, <2>2, <2>3 DEF Before, w
<1>9. CASE i = b
  <2>1. s.ended_at < ds[b].started_at \/ PreviousDrives(ds, i, s)
      BY <1>3, <1>9 DEF Before, PreviousDrives
  <2>2. s.ended_at >= ds[b].started_at
      BY <1>6, <1>9
  <2> QED BY <1>2, <1>3, <2>1, <2>2 DEF Touches
<1>10. CASE b < i
  <2>1. ds[b].movement_ended_at <= ds[i].started_at
      BY <1>10 DEF InOrder
  <2>2. s.ended_at <= ds[b].started_at
      BY <1>2, <1>3 DEF Before
  <2>3. s.ended_at = ds[b].started_at /\ ds[b].started_at = ds[b].movement_ended_at
      BY <1>2, <1>3, <1>6, <2>1, <2>2
  <2>4. b > 1 /\ ds[b - 1].movement_ended_at = ds[b].movement_ended_at
      BY <1>2, <1>3, <2>3 DEF Before
  <2> QED BY <1>2, <1>7, <2>4
<1> QED BY <1>1, <1>8, <1>9, <1>10

LEMMA AfterStays ==
    ASSUME NEW ds, InOrder(ds), NEW i \in DOMAIN ds, NEW b \in DOMAIN ds,
           NEW s, Whole(s), After(ds, b, i - 1, s)
    PROVE  /\ After(ds, b, i, s)
           /\ Touches(ds, i, s) => After(ds, b, i, Widened(s, ds[i]))
<1> DEFINE w == Widened(s, ds[i])
<1>1. /\ i \in 1 .. Len(ds) /\ b \in 1 .. Len(ds) /\ Len(ds) \in Nat
    BY DriveTimes
<1>2. /\ ds[i].started_at \in Int /\ ds[i].movement_ended_at \in Int
      /\ ds[i].started_at <= ds[i].movement_ended_at
      /\ ds[b].started_at \in Int /\ ds[b].movement_ended_at \in Int
    BY DriveTimes
<1>3. /\ s.started_at \in Int /\ s.ended_at \in Int /\ Closed(s)
      /\ s.started_at <= s.ended_at
    BY TimesAreNumbers DEF Whole
<1>4. w.started_at = IF s.started_at <= ds[i].started_at
                     THEN s.started_at ELSE ds[i].started_at
    BY DriveTimes, WidenedIsWhole DEF Whole
<1> HIDE DEF w
<1>5. After(ds, b, i, s)
    BY <1>1, <1>2, <1>3 DEF After
<1>6. ASSUME Touches(ds, i, s) PROVE After(ds, b, i, w)
  <2>1. s.started_at <= ds[i].movement_ended_at
      BY <1>6 DEF Touches, Meets
  <2>2. CASE i < b
    <3>1. ds[i].movement_ended_at < ds[b].movement_ended_at
        BY <2>2 DEF InOrder
    <3>2. s.started_at > ds[b].movement_ended_at
        BY <1>1, <2>2 DEF After
    <3> QED BY <1>2, <1>3, <2>1, <3>1, <3>2
  <2>3. CASE i = b
    <3>1. s.started_at > ds[b].movement_ended_at
        BY <1>1, <2>3 DEF After
    <3> QED BY <1>2, <1>3, <2>1, <2>3, <3>1
  <2>4. CASE b < i
    <3>1. ds[b].movement_ended_at <= ds[i].started_at
        BY <2>4 DEF InOrder
    <3>2. s.started_at >= ds[b].movement_ended_at
        BY <1>2, <1>3 DEF After
    <3> QED BY <1>1, <1>2, <1>3, <1>4, <2>4, <3>1, <3>2 DEF After
  <2> QED BY <1>1, <2>2, <2>3, <2>4
<1> QED BY <1>5, <1>6 DEF w

\* A session of its own lies before the later drives and after the earlier.
LEMMA MadeLiesBetween ==
    ASSUME NEW ds, InOrder(ds), NEW i \in DOMAIN ds, NEW b \in DOMAIN ds
    PROVE  /\ i < b => Before(ds, b, Made(ds[i]))
           /\ b < i => After(ds, b, i, Made(ds[i]))
<1>1. /\ i \in 1 .. Len(ds) /\ b \in 1 .. Len(ds) /\ Len(ds) \in Nat
    BY DriveTimes
<1>2. /\ Made(ds[i]).started_at = ds[i].started_at
      /\ Made(ds[i]).ended_at = ds[i].movement_ended_at
      /\ ds[i].started_at \in Int /\ ds[i].movement_ended_at \in Int
      /\ ds[b].started_at \in Int /\ ds[b].movement_ended_at \in Int
    BY DriveTimes DEF Made
<1>3. ASSUME i < b PROVE Before(ds, b, Made(ds[i]))
  <2>1. ds[i].movement_ended_at <= ds[b].started_at /\ b > 1
      BY <1>1, <1>3 DEF InOrder
  <2>2. CASE i = b - 1
      BY <1>2, <2>1, <2>2 DEF Before
  <2>3. CASE i < b - 1
    <3>1. b - 1 \in DOMAIN ds /\ b - 1 < b
        BY <1>1, <2>1, DriveTimes
    <3>2. ds[i].movement_ended_at < ds[b - 1].movement_ended_at
          /\ ds[b - 1].movement_ended_at <= ds[b].started_at
          /\ ds[b - 1].movement_ended_at \in Int
        BY <2>3, <3>1, DriveTimes DEF InOrder
    <3> QED BY <1>2, <3>2 DEF Before
  <2> QED BY <1>1, <1>3, <2>2, <2>3
<1>4. ASSUME b < i PROVE After(ds, b, i, Made(ds[i]))
  <2>1. ds[b].movement_ended_at <= ds[i].started_at
      BY <1>4 DEF InOrder
  <2> QED BY <1>1, <1>2, <1>4, <2>1 DEF After
<1> QED BY <1>3, <1>4

-----------------------------------------------------------------------------
(* One drive, over all sessions *)

\* A session of the device is as it was, or the drive has widened it.
Turned(s, r, ds, i) ==
    r = s \/ (Whole(s) /\ Touches(ds, i, s) /\ r = Widened(s, ds[i]))

\* Drive i lies in a session it touches, or touches an open one or several.
Done(ses, ds, i) ==
    \E k \in Touched(ses, ds, i) :
        \/ Covers(ses[k], ds[i])
        \/ ~Closed(ses[k])
        \/ \E j \in Touched(ses, ds, i) : j # k

LEMMA RowsAreWhole ==
    ASSUME NEW ses, Rows(ses)
    PROVE  /\ Len(ses) \in Nat /\ DOMAIN ses = 1 .. Len(ses)
           /\ \A k \in DOMAIN ses : /\ ses[k] \in Session
                                    /\ Closed(ses[k]) => Whole(ses[k])
<1>1. ses \in Seq(Session)
    BY DEF Rows
<1>2. \A k \in DOMAIN ses : ses[k] \in Session
    BY <1>1
<1>3. Len(ses) \in Nat /\ DOMAIN ses = 1 .. Len(ses)
    BY <1>1
<1> QED BY <1>2, <1>3 DEF Rows, Whole

LEMMA OneDrive ==
    ASSUME NEW ds, InOrder(ds), NEW i \in DOMAIN ds, NEW acc, Rows(acc),
           NEW res, Placing(acc, res, ds, i)
    PROVE  /\ Rows(res) /\ Len(acc) <= Len(res)
           /\ \A k \in DOMAIN acc : Turned(acc[k], res[k], ds, i)
           /\ \A k \in DOMAIN res : k \notin DOMAIN acc =>
                 res[k] = Made(ds[i]) /\ Touched(acc, ds, i) = {} /\ k = Len(acc) + 1
           /\ \A j, k \in DOMAIN acc : res[j] # acc[j] /\ k # j => ~Touches(ds, i, acc[k])
<1>1. /\ Len(acc) \in Nat /\ DOMAIN acc = 1 .. Len(acc) /\ acc \in Seq(Session)
      /\ \A k \in DOMAIN acc : /\ acc[k] \in Session
                               /\ Closed(acc[k]) => Whole(acc[k])
    BY RowsAreWhole DEF Rows
<1>2. ds[i] \in Window /\ ds[i].started_at <= ds[i].movement_ended_at
    BY DriveTimes
<1>3. CASE Touched(acc, ds, i) = {} /\ res = Append(acc, Made(ds[i]))
  <2> DEFINE new == Made(ds[i])
  <2>1. Whole(new)
      BY <1>2, MadeIsWhole
  <2> HIDE DEF new
  <2>2. /\ res = Append(acc, new) /\ new \in Session
        /\ new = Made(ds[i])
      BY <1>3, <2>1 DEF Whole, new
  <2>3. /\ res \in Seq(Session) /\ Len(res) = Len(acc) + 1
        /\ DOMAIN res = 1 .. Len(res)
        /\ \A k \in DOMAIN acc : res[k] = acc[k]
        /\ res[Len(acc) + 1] = new
      BY <1>1, <2>2
  <2>4. Rows(res)
    <3> SUFFICES ASSUME NEW k \in DOMAIN res, Closed(res[k])
                 PROVE  res[k].started_at <= res[k].ended_at
        BY <2>3 DEF Rows
    <3>1. k \in DOMAIN acc \/ k = Len(acc) + 1
        BY <1>1, <2>3
    <3> QED BY <1>1, <2>1, <2>3, <3>1 DEF Whole
  <2>5. \A k \in DOMAIN res : k \notin DOMAIN acc => k = Len(acc) + 1
      BY <1>1, <2>3
  <2> QED BY <1>1, <1>3, <2>2, <2>3, <2>4, <2>5 DEF Turned
<1>4. CASE \E n \in Touched(acc, ds, i) :
              /\ Closed(acc[n]) /\ Touched(acc, ds, i) = {n}
              /\ res = [acc EXCEPT ![n] = Widened(acc[n], ds[i])]
  <2>1. PICK n \in Touched(acc, ds, i) :
              /\ Closed(acc[n]) /\ Touched(acc, ds, i) = {n}
              /\ res = [acc EXCEPT ![n] = Widened(acc[n], ds[i])]
      BY <1>4
  <2> DEFINE w == Widened(acc[n], ds[i])
  <2>2. n \in DOMAIN acc /\ Touches(ds, i, acc[n]) /\ Whole(acc[n])
      BY <1>1, <2>1 DEF Touched
  <2>3. Whole(w)
      BY <1>2, <2>2, WidenedIsWhole
  <2>4. res = [acc EXCEPT ![n] = w] /\ w = Widened(acc[n], ds[i])
      BY <2>1
  <2> HIDE DEF w
  <2>5. w \in Session
      BY <2>3 DEF Whole
  <2>6. /\ res \in Seq(Session) /\ Len(res) = Len(acc) /\ DOMAIN res = DOMAIN acc
        /\ res[n] = w /\ \A k \in DOMAIN acc : k # n => res[k] = acc[k]
      BY <1>1, <2>2, <2>4, <2>5
  <2>7. Rows(res)
    <3> SUFFICES ASSUME NEW k \in DOMAIN res, Closed(res[k])
                 PROVE  res[k].started_at <= res[k].ended_at
        BY <2>6 DEF Rows
    <3> QED BY <1>1, <2>3, <2>6 DEF Whole
  <2>8. \A k \in DOMAIN acc : k # n => ~Touches(ds, i, acc[k])
      BY <2>1 DEF Touched
  <2>9. \A k \in DOMAIN acc : Turned(acc[k], res[k], ds, i)
      BY <2>2, <2>4, <2>6 DEF Turned
  <2> QED BY <1>1, <2>6, <2>7, <2>8, <2>9
<1>5. CASE res = acc
    BY <1>1, <1>5 DEF Turned
<1> QED BY <1>3, <1>4, <1>5 DEF Placing

LEMMA TurnedGrows ==
    ASSUME NEW ds, InOrder(ds), NEW i \in DOMAIN ds, NEW s \in Session, NEW r,
           Turned(s, r, ds, i)
    PROVE  /\ Closed(r) <=> Closed(s)
           /\ ~Closed(s) => r = s
           /\ Closed(s) => r.started_at <= s.started_at /\ s.ended_at <= r.ended_at
           /\ \A j \in 1 .. i : Touches(ds, j, s) => Touches(ds, j, r)
<1>1. CASE r = s
    BY <1>1, TimesAreNumbers
<1>2. CASE Whole(s) /\ Touches(ds, i, s) /\ r = Widened(s, ds[i])
  <2>1. ds[i] \in Window /\ ds[i].started_at <= ds[i].movement_ended_at
        /\ ds[i].started_at \in Int /\ ds[i].movement_ended_at \in Int
      BY DriveTimes
  <2>2. /\ Whole(r)
        /\ r.started_at = IF s.started_at <= ds[i].started_at
                          THEN s.started_at ELSE ds[i].started_at
        /\ r.ended_at = IF ds[i].movement_ended_at <= s.ended_at
                        THEN s.ended_at ELSE ds[i].movement_ended_at
      BY <1>2, <2>1, WidenedIsWhole
  <2>3. /\ Closed(s) /\ Closed(r) /\ s.started_at \in Int /\ s.ended_at \in Int
      BY <1>2, <2>2, TimesAreNumbers DEF Whole
  <2>4. r.started_at <= s.started_at /\ s.ended_at <= r.ended_at
      BY <2>1, <2>2, <2>3
  <2>5. ASSUME NEW j \in 1 .. i, Touches(ds, j, s) PROVE Touches(ds, j, r)
    <3>1. j \in DOMAIN ds /\ j <= i
        BY DriveTimes
    <3> QED BY <1>2, <2>5, <3>1, WidenedIsTouched
  <2> QED BY <2>3, <2>4, <2>5
<1> QED BY <1>1, <1>2 DEF Turned

LEMMA CoversGrows ==
    ASSUME NEW s \in Session, NEW r \in Session, NEW d \in Window, Covers(s, d),
           Closed(r), r.started_at <= s.started_at, s.ended_at <= r.ended_at
    PROVE  Covers(r, d)
<1>1. /\ s.started_at \in Int /\ s.ended_at \in Int
      /\ r.started_at \in Int /\ r.ended_at \in Int
      /\ d.started_at \in Int /\ d.movement_ended_at \in Int
    BY TimesAreNumbers DEF Covers, Window, Time
<1> QED BY <1>1 DEF Covers

\* What is done stays done.
LEMMA DoneStays ==
    ASSUME NEW ds, InOrder(ds), NEW i \in DOMAIN ds, NEW acc, Rows(acc),
           NEW res, Placing(acc, res, ds, i), NEW j \in 1 .. i, Done(acc, ds, j)
    PROVE  Done(res, ds, j)
<1>1. /\ Rows(res) /\ Len(acc) <= Len(res)
      /\ \A k \in DOMAIN acc : Turned(acc[k], res[k], ds, i)
    BY OneDrive
<1>2. /\ \A k \in DOMAIN acc : k \in DOMAIN res /\ acc[k] \in Session /\ res[k] \in Session
    BY <1>1, RowsAreWhole
<1>3. j \in DOMAIN ds /\ ds[j] \in Window
    BY DriveTimes
<1>4. \A k \in Touched(acc, ds, j) : k \in DOMAIN acc /\ k \in Touched(res, ds, j)
    BY <1>1, <1>2, TurnedGrows DEF Touched
<1>5. PICK k \in Touched(acc, ds, j) :
          \/ Covers(acc[k], ds[j]) \/ ~Closed(acc[k])
          \/ \E l \in Touched(acc, ds, j) : l # k
    BY DEF Done
<1>6. /\ Closed(res[k]) <=> Closed(acc[k])
      /\ Closed(acc[k]) => /\ res[k].started_at <= acc[k].started_at
                           /\ acc[k].ended_at <= res[k].ended_at
    BY <1>1, <1>2, <1>4, TurnedGrows
<1>7. Covers(acc[k], ds[j]) => Covers(res[k], ds[j])
  <2> SUFFICES ASSUME Covers(acc[k], ds[j]) PROVE Covers(res[k], ds[j])
      OBVIOUS
  <2>1. Closed(acc[k])
      BY DEF Covers
  <2> QED BY <1>2, <1>3, <1>4, <1>6, <2>1, CoversGrows
<1> QED BY <1>4, <1>5, <1>6, <1>7 DEF Done

LEMMA DriveIsDone ==
    ASSUME NEW ds, InOrder(ds), NEW i \in DOMAIN ds, NEW acc, Rows(acc),
           NEW res, Placing(acc, res, ds, i)
    PROVE  Done(res, ds, i)
<1>1. /\ Len(acc) \in Nat /\ DOMAIN acc = 1 .. Len(acc) /\ acc \in Seq(Session)
      /\ \A k \in DOMAIN acc : acc[k] \in Session /\ (Closed(acc[k]) => Whole(acc[k]))
    BY RowsAreWhole DEF Rows
<1>3. CASE Touched(acc, ds, i) = {} /\ res = Append(acc, Made(ds[i]))
  <2> DEFINE new == Made(ds[i])
  <2>1. Touches(ds, i, new) /\ Covers(new, ds[i])
      BY MadeIsTouched
  <2>2. res = Append(acc, new)
      BY <1>3
  <2> HIDE DEF new
  <2>3. Len(acc) + 1 \in DOMAIN res /\ res[Len(acc) + 1] = new
      BY <1>1, <2>2
  <2> QED BY <2>1, <2>3 DEF Done, Touched
<1>4. CASE \E n \in Touched(acc, ds, i) :
              /\ Closed(acc[n]) /\ Touched(acc, ds, i) = {n}
              /\ res = [acc EXCEPT ![n] = Widened(acc[n], ds[i])]
  <2>1. PICK n \in Touched(acc, ds, i) :
              /\ Closed(acc[n]) /\ Touched(acc, ds, i) = {n}
              /\ res = [acc EXCEPT ![n] = Widened(acc[n], ds[i])]
      BY <1>4
  <2>2. n \in DOMAIN acc /\ Touches(ds, i, acc[n]) /\ Whole(acc[n])
      BY <1>1, <2>1 DEF Touched
  <2> DEFINE w == Widened(acc[n], ds[i])
  <2>3. i <= i
      BY DriveTimes
  <2>4. Touches(ds, i, w) /\ Covers(w, ds[i])
      BY <2>2, <2>3, WidenedIsTouched
  <2>5. res = [acc EXCEPT ![n] = w]
      BY <2>1
  <2> HIDE DEF w
  <2>6. n \in DOMAIN res /\ res[n] = w
      BY <1>1, <2>2, <2>5
  <2> QED BY <2>4, <2>6 DEF Done, Touched
<1>5. CASE \E n \in Touched(acc, ds, i) :
              /\ ~Closed(acc[n]) \/ \E j \in Touched(acc, ds, i) : j # n
              /\ res = acc
    BY <1>5 DEF Done
<1> QED BY <1>3, <1>4, <1>5 DEF Placing

\* A drive makes nothing overlap.
LEMMA NothingNewOverlaps ==
    ASSUME NEW ds, InOrder(ds), NEW i \in DOMAIN ds, NEW acc, Rows(acc),
           NEW res, Placing(acc, res, ds, i),
           NEW k \in DOMAIN res, NEW j \in 1 .. (k - 1), Overlap(res[j], res[k])
    PROVE  k \in DOMAIN acc /\ Overlap(acc[j], acc[k])
<1>1. /\ Rows(res) /\ Len(acc) <= Len(res)
      /\ \A n \in DOMAIN acc : Turned(acc[n], res[n], ds, i)
      /\ \A n \in DOMAIN res : n \notin DOMAIN acc =>
            res[n] = Made(ds[i]) /\ Touched(acc, ds, i) = {} /\ n = Len(acc) + 1
      /\ \A m, n \in DOMAIN acc : res[m] # acc[m] /\ n # m => ~Touches(ds, i, acc[n])
    BY OneDrive
<1>2. /\ Len(acc) \in Nat /\ DOMAIN acc = 1 .. Len(acc)
      /\ \A n \in DOMAIN acc : /\ acc[n] \in Session
                               /\ Closed(acc[n]) => Whole(acc[n])
    BY RowsAreWhole
<1>3. Len(res) \in Nat /\ DOMAIN res = 1 .. Len(res)
    BY <1>1, RowsAreWhole
<1>4. j \in DOMAIN acc /\ j # k
    BY <1>1, <1>2, <1>3
<1>5. Closed(res[j]) /\ Closed(res[k])
    BY DEF Overlap
<1>6. Whole(acc[j])
    BY <1>1, <1>2, <1>4, <1>5, TurnedGrows
<1>7. k \in DOMAIN acc
  <2> SUFFICES ASSUME k \notin DOMAIN acc PROVE FALSE
      OBVIOUS
  <2>1. res[k] = Made(ds[i]) /\ Touched(acc, ds, i) = {}
      BY <1>1
  <2>2. ~Touches(ds, i, acc[j])
      BY <1>4, <2>1 DEF Touched
  <2>3. res[j] = acc[j]
      BY <1>1, <1>4, <2>2 DEF Turned
  <2> QED BY <1>6, <2>1, <2>2, <2>3, MadeOverlapsNothing
<1>8. Whole(acc[k])
    BY <1>1, <1>2, <1>5, <1>7, TurnedGrows
<1>9. CASE res[j] = acc[j] /\ res[k] = acc[k]
    BY <1>7, <1>9
<1>10. CASE res[j] # acc[j]
  <2>1. Touches(ds, i, acc[j]) /\ res[j] = Widened(acc[j], ds[i])
      BY <1>1, <1>4, <1>10 DEF Turned
  <2>2. ~Touches(ds, i, acc[k])
      BY <1>1, <1>4, <1>7, <1>10
  <2>3. res[k] = acc[k]
      BY <1>1, <1>7, <2>2 DEF Turned
  <2> QED BY <1>6, <1>7, <1>8, <2>1, <2>2, <2>3, WidenedOverlaps
<1>11. CASE res[k] # acc[k]
  <2>1. Touches(ds, i, acc[k]) /\ res[k] = Widened(acc[k], ds[i])
      BY <1>1, <1>7, <1>11 DEF Turned
  <2>2. ~Touches(ds, i, acc[j])
      BY <1>1, <1>4, <1>7, <1>11
  <2>3. res[j] = acc[j]
      BY <1>1, <1>4, <2>2 DEF Turned
  <2> QED BY <1>6, <1>7, <1>8, <2>1, <2>2, <2>3, WidenedOverlaps
<1> QED BY <1>9, <1>10, <1>11

\* Where a session lies once m drives are folded in: one of the history stays
\* on its side of a drive it did not meet, a new one on its side of every
\* drive but its own.
OldSide(ds, m, s, r) ==
    /\ Closed(s)
    /\ \A b \in DOMAIN ds :
          /\ s.ended_at < ds[b].started_at => Before(ds, b, r)
          /\ s.started_at > ds[b].movement_ended_at => After(ds, b, m, r)

NewSide(ds, m, r) ==
    \E a \in 1 .. m : \A b \in DOMAIN ds :
        /\ a < b => Before(ds, b, r)
        /\ b < a => After(ds, b, m, r)

SidesKept(ses, acc, ds, m) ==
    \A k \in DOMAIN acc : Closed(acc[k]) =>
        \/ k \in DOMAIN ses /\ OldSide(ds, m, ses[k], acc[k])
        \/ k \notin DOMAIN ses /\ NewSide(ds, m, acc[k])

LEMMA TurnedKeepsSide ==
    ASSUME NEW ds, InOrder(ds), NEW i \in DOMAIN ds, NEW s, Whole(s), NEW r,
           Turned(s, r, ds, i), NEW b \in DOMAIN ds
    PROVE  /\ Before(ds, b, s) => Before(ds, b, r)
           /\ After(ds, b, i - 1, s) => After(ds, b, i, r)
BY BeforeStays, AfterStays DEF Turned

LEMMA SidesStay ==
    ASSUME NEW ds, InOrder(ds), NEW i \in DOMAIN ds, NEW ses, NEW acc, Rows(acc),
           Rows(ses), Len(ses) <= Len(acc), SidesKept(ses, acc, ds, i - 1),
           NEW res, Placing(acc, res, ds, i)
    PROVE  SidesKept(ses, res, ds, i)
<1>1. /\ Rows(res) /\ Len(acc) <= Len(res)
      /\ \A n \in DOMAIN acc : Turned(acc[n], res[n], ds, i)
      /\ \A n \in DOMAIN res : n \notin DOMAIN acc => res[n] = Made(ds[i])
    BY OneDrive
<1>2. /\ Len(acc) \in Nat /\ DOMAIN acc = 1 .. Len(acc)
      /\ Len(ses) \in Nat /\ DOMAIN ses = 1 .. Len(ses)
      /\ \A n \in DOMAIN acc : /\ acc[n] \in Session
                               /\ Closed(acc[n]) => Whole(acc[n])
    BY RowsAreWhole
<1>3. i \in 1 .. Len(ds) /\ Len(ds) \in Nat
    BY DriveTimes
<1> SUFFICES ASSUME NEW k \in DOMAIN res, Closed(res[k])
             PROVE  \/ k \in DOMAIN ses /\ OldSide(ds, i, ses[k], res[k])
                    \/ k \notin DOMAIN ses /\ NewSide(ds, i, res[k])
    BY DEF SidesKept
<1>4. CASE k \notin DOMAIN acc
  <2>1. res[k] = Made(ds[i]) /\ k \notin DOMAIN ses
      BY <1>1, <1>2, <1>4
  <2>2. i \in 1 .. i
      BY <1>3
  <2>3. NewSide(ds, i, Made(ds[i]))
      BY <2>2, MadeLiesBetween DEF NewSide
  <2> QED BY <2>1, <2>3
<1>5. CASE k \in DOMAIN acc
  <2>1. Turned(acc[k], res[k], ds, i) /\ acc[k] \in Session
      BY <1>1, <1>2, <1>5
  <2>2. Closed(acc[k]) /\ Whole(acc[k])
      BY <1>2, <1>5, <2>1, TurnedGrows
  <2>3. \A b \in DOMAIN ds : /\ Before(ds, b, acc[k]) => Before(ds, b, res[k])
                             /\ After(ds, b, i - 1, acc[k]) => After(ds, b, i, res[k])
      BY <2>1, <2>2, TurnedKeepsSide
  <2>4. CASE k \in DOMAIN ses /\ OldSide(ds, i - 1, ses[k], acc[k])
      BY <2>3, <2>4 DEF OldSide
  <2>5. CASE k \notin DOMAIN ses /\ NewSide(ds, i - 1, acc[k])
    <3>1. PICK a \in 1 .. (i - 1) : \A b \in DOMAIN ds :
              /\ a < b => Before(ds, b, acc[k])
              /\ b < a => After(ds, b, i - 1, acc[k])
        BY <2>5 DEF NewSide
    <3>2. a \in 1 .. i
        BY <1>3
    <3> QED BY <2>3, <2>5, <3>1, <3>2 DEF NewSide
  <2> QED BY <1>5, <2>2, <2>4, <2>5 DEF SidesKept
<1> QED BY <1>4, <1>5

\* What m drives make of the sessions.
Folded(ses, acc, ds, m) ==
    /\ Rows(acc) /\ Len(ses) <= Len(acc)
    /\ \A i \in 1 .. m : Done(acc, ds, i)
    /\ \A k \in DOMAIN acc : \A j \in 1 .. (k - 1) :
          Overlap(acc[j], acc[k]) => k \in DOMAIN ses /\ Overlap(ses[j], ses[k])
    /\ SidesKept(ses, acc, ds, m)

LEMMA NoDrivesFolded ==
    ASSUME NEW ds, InOrder(ds), NEW ses, Rows(ses)
    PROVE  Folded(ses, ses, ds, 0)
<1>1. Len(ses) \in Nat /\ \A k \in DOMAIN ses : ses[k] \in Session
    BY RowsAreWhole
<1>2. SidesKept(ses, ses, ds, 0)
    BY DEF SidesKept, OldSide, Before, After
<1> QED BY <1>1, <1>2 DEF Folded

LEMMA OneMoreFolded ==
    ASSUME NEW ds, InOrder(ds), NEW i \in DOMAIN ds, NEW ses, Rows(ses), NEW acc,
           Folded(ses, acc, ds, i - 1), NEW res, Placing(acc, res, ds, i)
    PROVE  Folded(ses, res, ds, i)
<1>1. Rows(acc) /\ Len(ses) <= Len(acc)
    BY DEF Folded
<1>2. Rows(res) /\ Len(acc) <= Len(res)
    BY <1>1, OneDrive
<1>3. Len(ses) <= Len(res)
    BY <1>1, <1>2, RowsAreWhole
<1>4. ASSUME NEW j \in 1 .. i PROVE Done(res, ds, j)
  <2>1. i \in 1 .. Len(ds) /\ Len(ds) \in Nat
      BY DriveTimes
  <2>2. CASE j = i
      BY <1>1, <2>2, DriveIsDone
  <2>3. CASE j # i
    <3>1. j \in 1 .. (i - 1)
        BY <2>1, <2>3
    <3> QED BY <1>1, <3>1, DoneStays DEF Folded
  <2> QED BY <2>2, <2>3
<1>5. ASSUME NEW k \in DOMAIN res, NEW j \in 1 .. (k - 1), Overlap(res[j], res[k])
      PROVE  k \in DOMAIN ses /\ Overlap(ses[j], ses[k])
    BY <1>1, <1>5, NothingNewOverlaps DEF Folded
<1>6. SidesKept(ses, res, ds, i)
    BY <1>1, SidesStay DEF Folded
<1> QED BY <1>2, <1>3, <1>4, <1>5, <1>6 DEF Folded

-----------------------------------------------------------------------------
(* The fold over the drives *)

\* g gives the sessions after each of the first n drives.
FoldsTo(g, ses, ds, n) ==
    g = [i \in 0 .. n |-> IF i = 0 THEN ses ELSE Placed(g[i - 1], ds, i)]

\* The recursion has a solution up to each n: otherwise there were a least n
\* without one, and the solution before it could be extended.
LEMMA FoldExists ==
    ASSUME NEW ses, NEW ds, NEW n \in Nat
    PROVE  \E g : FoldsTo(g, ses, ds, n)
<1> DEFINE Bad == {m \in Nat : ~\E g : FoldsTo(g, ses, ds, m)}
<1> SUFFICES ASSUME Bad # {} PROVE FALSE
    OBVIOUS
<1>1. Bad \subseteq Nat
    OBVIOUS
<1>2. PICK m \in Bad : \A k \in Bad : <<k, m>> \notin OpToRel(<, Nat)
  <2> HIDE DEF Bad
  <2> QED BY <1>1, NatLessThanWellFounded, WFMin, Zenon
<1>3. m # 0
  <2> DEFINE g == [i \in 0 .. 0 |-> ses]
  <2>1. FoldsTo(g, ses, ds, 0)
    <3>1. g = [i \in 0 .. 0 |-> IF i = 0 THEN ses ELSE Placed(g[i - 1], ds, i)]
        OBVIOUS
    <3> HIDE DEF g
    <3> QED BY <3>1 DEF FoldsTo
  <2> QED BY <2>1
<1>4. m - 1 \in Nat /\ m - 1 < m
    BY <1>3
<1>5. m - 1 \notin Bad
    BY <1>1, <1>2, <1>4 DEF OpToRel
<1>6. PICK g : FoldsTo(g, ses, ds, m - 1)
    BY <1>4, <1>5
<1> DEFINE h == [i \in 0 .. m |-> IF i = m THEN Placed(g[m - 1], ds, m) ELSE g[i]]
<1>7. \A i \in 0 .. (m - 1) : h[i] = g[i] /\ g[i] = IF i = 0 THEN ses ELSE Placed(g[i - 1], ds, i)
    BY <1>4, <1>6 DEF FoldsTo
<1>8. h[m] = Placed(g[m - 1], ds, m) /\ h[m - 1] = g[m - 1]
    BY <1>4
<1>9. \A i \in 0 .. m : h[i] = IF i = 0 THEN ses ELSE Placed(h[i - 1], ds, i)
  <2> SUFFICES ASSUME NEW i \in 0 .. m
               PROVE  h[i] = IF i = 0 THEN ses ELSE Placed(h[i - 1], ds, i)
      OBVIOUS
  <2> HIDE DEF h
  <2>1. CASE i = m
      BY <1>3, <1>8, <2>1
  <2>2. CASE i # m /\ i = 0
      BY <1>4, <1>7, <2>2
  <2>3. CASE i # m /\ i # 0
    <3>1. i \in 0 .. (m - 1) /\ i - 1 \in 0 .. (m - 1)
        BY <2>3
    <3> QED BY <1>7, <2>3, <3>1
  <2> QED BY <2>1, <2>2, <2>3
<1>10. FoldsTo(h, ses, ds, m)
  <2>1. h = [i \in 0 .. m |-> h[i]]
      OBVIOUS
  <2> HIDE DEF h
  <2> QED BY <1>9, <2>1 DEF FoldsTo
<1> QED BY <1>10

LEMMA ReconstructedFolds ==
    ASSUME NEW ses, NEW S \in SUBSET Time
    PROVE  \E g : /\ g[0] = ses
                  /\ \A i \in DOMAIN group_drives(S) :
                        g[i] = Placed(g[i - 1], group_drives(S), i)
                  /\ Reconstructed(ses, S) = g[Len(group_drives(S))]
<1> DEFINE ds == group_drives(S)
           n == Len(ds)
           fold == CHOOSE g : FoldsTo(g, ses, ds, n)
<1>1. DOMAIN ds = 1 .. n /\ n \in Nat
    BY DrivesInOrder, DriveTimes
<1>2. Reconstructed(ses, S) = fold[n]
    BY DEF Reconstructed, FoldsTo
<1> HIDE DEF ds, n
<1>3. FoldsTo(fold, ses, ds, n)
    BY <1>1, FoldExists
<1> HIDE DEF fold
<1>4. \A i \in 0 .. n : fold[i] = IF i = 0 THEN ses ELSE Placed(fold[i - 1], ds, i)
    BY <1>3 DEF FoldsTo
<1>5. fold[0] = ses /\ \A i \in DOMAIN ds : fold[i] = Placed(fold[i - 1], ds, i)
    BY <1>1, <1>4
<1> QED BY <1>2, <1>5 DEF ds, n

\* Reconstructing folds every drive of the download.
LEMMA ReconstructedIsFolded ==
    ASSUME NEW ses, Rows(ses), NEW S \in SUBSET Time
    PROVE  Folded(ses, Reconstructed(ses, S), group_drives(S), Len(group_drives(S)))
<1> DEFINE ds == group_drives(S)
           n == Len(ds)
<1>1. InOrder(ds) /\ DOMAIN ds = 1 .. n /\ n \in Nat
    BY DrivesInOrder, DriveTimes
<1>2. PICK g : /\ g[0] = ses
               /\ \A i \in DOMAIN ds : g[i] = Placed(g[i - 1], ds, i)
               /\ Reconstructed(ses, S) = g[n]
    BY ReconstructedFolds
<1> HIDE DEF ds, n
<1> DEFINE Bad == {m \in Nat : m <= n /\ ~Folded(ses, g[m], ds, m)}
<1>3. Bad = {}
  <2> SUFFICES ASSUME Bad # {} PROVE FALSE
      OBVIOUS
  <2>1. Bad \subseteq Nat
      OBVIOUS
  <2>2. PICK m \in Bad : \A k \in Bad : <<k, m>> \notin OpToRel(<, Nat)
    <3> HIDE DEF Bad
    <3> QED BY <2>1, NatLessThanWellFounded, WFMin, Zenon
  <2>3. m # 0
      BY <1>1, <1>2, NoDrivesFolded
  <2>4. m - 1 \in Nat /\ m - 1 < m /\ m \in DOMAIN ds /\ m - 1 <= n
      BY <1>1, <2>3
  <2>5. m - 1 \notin Bad
      BY <2>1, <2>2, <2>4 DEF OpToRel
  <2>6. Folded(ses, g[m - 1], ds, m - 1)
      BY <2>4, <2>5
  <2>7. g[m - 1] \in Seq(Session)
      BY <2>6 DEF Folded, Rows
  <2>8. Placing(g[m - 1], g[m], ds, m)
      BY <1>2, <2>4, <2>7, PlacedIsPlacing
  <2>9. Folded(ses, g[m], ds, m)
      BY <1>1, <2>4, <2>6, <2>8, OneMoreFolded
  <2> QED BY <2>9
<1>4. Folded(ses, g[n], ds, n)
  <2>1. n <= n
      BY <1>1
  <2> QED BY <1>1, <1>3, <2>1
<1> QED BY <1>2, <1>4 DEF ds, n

\* Folding the same drives into what they became changes nothing.
LEMMA FoldedIsFixed ==
    ASSUME NEW ses, Rows(ses), NEW S \in SUBSET Time,
           \A i \in DOMAIN group_drives(S) : Done(ses, group_drives(S), i)
    PROVE  Reconstructed(ses, S) = ses
<1> DEFINE ds == group_drives(S)
           n == Len(ds)
<1>1. InOrder(ds) /\ DOMAIN ds = 1 .. n /\ n \in Nat
    BY DrivesInOrder, DriveTimes
<1>2. PICK g : /\ g[0] = ses
               /\ \A i \in DOMAIN ds : g[i] = Placed(g[i - 1], ds, i)
               /\ Reconstructed(ses, S) = g[n]
    BY ReconstructedFolds
<1>3. \A i \in DOMAIN ds : Done(ses, ds, i)
    OBVIOUS
<1> HIDE DEF ds, n
<1>4. ASSUME NEW i \in DOMAIN ds PROVE Placed(ses, ds, i) = ses
  <2> DEFINE res == Placed(ses, ds, i)
  <2>1. ses \in Seq(Session)
      BY DEF Rows
  <2>2. Placing(ses, res, ds, i)
      BY <2>1, PlacedIsPlacing
  <2>3. PICK k \in Touched(ses, ds, i) :
            \/ Covers(ses[k], ds[i]) \/ ~Closed(ses[k])
            \/ \E j \in Touched(ses, ds, i) : j # k
      BY <1>3 DEF Done
  <2> HIDE DEF res
  <2>4. CASE \E m \in Touched(ses, ds, i) :
                /\ Closed(ses[m]) /\ Touched(ses, ds, i) = {m}
                /\ res = [ses EXCEPT ![m] = Widened(ses[m], ds[i])]
    <3>1. PICK m \in Touched(ses, ds, i) :
                /\ Closed(ses[m]) /\ Touched(ses, ds, i) = {m}
                /\ res = [ses EXCEPT ![m] = Widened(ses[m], ds[i])]
        BY <2>4
    <3>2. k = m /\ Covers(ses[m], ds[i]) /\ m \in DOMAIN ses
        BY <2>3, <3>1 DEF Touched
    <3>3. Whole(ses[m])
        BY <3>1, <3>2, RowsAreWhole
    <3>4. /\ ds[i] \in Window /\ ds[i].started_at <= ds[i].movement_ended_at
          /\ ds[i].started_at \in Int /\ ds[i].movement_ended_at \in Int
        BY <1>1, DriveTimes
    <3> DEFINE w == Widened(ses[m], ds[i])
    <3>5. /\ Whole(w)
          /\ w.started_at = IF ses[m].started_at <= ds[i].started_at
                            THEN ses[m].started_at ELSE ds[i].started_at
          /\ w.ended_at = IF ds[i].movement_ended_at <= ses[m].ended_at
                          THEN ses[m].ended_at ELSE ds[i].movement_ended_at
        BY <3>3, <3>4, WidenedIsWhole
    <3>6. w.started_at = ses[m].started_at /\ w.ended_at = ses[m].ended_at
        BY <3>2, <3>5 DEF Covers
    <3>7. w = ses[m]
        BY <3>3, <3>5, <3>6 DEF Whole, Session
    <3>8. res = [ses EXCEPT ![m] = w]
        BY <3>1
    <3> HIDE DEF w
    <3>9. res = ses
        BY <2>1, <3>7, <3>8
    <3> QED BY <3>9 DEF res
  <2>5. CASE res = ses
      BY <2>5 DEF res
  <2> QED BY <2>2, <2>3, <2>4, <2>5 DEF Placing
<1> DEFINE Bad == {m \in Nat : m <= n /\ g[m] # ses}
<1>5. Bad = {}
  <2> SUFFICES ASSUME Bad # {} PROVE FALSE
      OBVIOUS
  <2>1. Bad \subseteq Nat
      OBVIOUS
  <2>2. PICK m \in Bad : \A k \in Bad : <<k, m>> \notin OpToRel(<, Nat)
    <3> HIDE DEF Bad
    <3> QED BY <2>1, NatLessThanWellFounded, WFMin, Zenon
  <2>3. m - 1 \in Nat /\ m - 1 < m /\ m \in DOMAIN ds /\ m - 1 <= n
      BY <1>1, <1>2
  <2>4. m - 1 \notin Bad
      BY <2>1, <2>2, <2>3 DEF OpToRel
  <2> QED BY <1>2, <1>4, <2>3, <2>4
<1>6. g[n] = ses
    BY <1>1, <1>5
<1> QED BY <1>2, <1>6

-----------------------------------------------------------------------------
(* The sessions in every behaviour *)

\* The invariant of the sessions, and the types the watermark did not need.
SInv ==
    /\ IInv /\ Rows(sessions) /\ stored \subseteq Logged(Time)
    /\ \A p \in Task : pulls[p] # None => pulls[p].left \subseteq pulls[p].rows

LEMMA SInvInit == Init => SInv
<1> SUFFICES ASSUME Init PROVE SInv
    OBVIOUS
<1>1. IInv
    BY InitEstablishes
<1>2. Rows(sessions) /\ stored \subseteq Logged(Time)
    BY DEF Init, Rows
<1>3. \A p \in Task : pulls[p] = None
    BY DEF Init
<1> QED BY <1>1, <1>2, <1>3 DEF SInv

\* A pull that folds its rows in knows them to be the samples past its mark.
LEMMA GroupedRows ==
    ASSUME IInv, NEW p \in Task, Reconstruct(p)
    PROVE  /\ pulls[p].rows \in SUBSET Time
           /\ pulls[p].rows = {t \in InFile(pulls[p].file) :
                                  t < pulls[p].at /\ t > Watermark(pulls[p].state)}
           /\ sessions' = Reconstructed(sessions, pulls[p].rows)
<1>1. pulls[p] \in Pull /\ Sound(pulls[p]) /\ pulls[p].phase = "grouping"
    BY DEF Reconstruct, At, IInv, Shaped, PullState
<1>2. Loaded(pulls[p])
    BY <1>1 DEF Sound
<1> QED BY <1>1, <1>2 DEF Loaded, Pull, Reconstruct

LEMMA SessionsFolded ==
    ASSUME SInv, NEW p \in Task, Reconstruct(p)
    PROVE  /\ InOrder(group_drives(pulls[p].rows))
           /\ Folded(sessions, sessions', group_drives(pulls[p].rows),
                     Len(group_drives(pulls[p].rows)))
           /\ Rows(sessions')
<1>1. /\ pulls[p].rows \in SUBSET Time
      /\ sessions' = Reconstructed(sessions, pulls[p].rows)
    BY GroupedRows DEF SInv
<1>2. Folded(sessions, sessions', group_drives(pulls[p].rows),
             Len(group_drives(pulls[p].rows)))
    BY <1>1, ReconstructedIsFolded DEF SInv
<1> QED BY <1>1, <1>2, DrivesInOrder DEF Folded

LEMMA RowsStay == SInv /\ [Next]_vars => Rows(sessions)'
<1> SUFFICES ASSUME SInv, [Next]_vars PROVE Rows(sessions')
    BY DEF Rows, Closed
<1>1. CASE UNCHANGED sessions
    BY <1>1 DEF SInv
<1>2. CASE \E p \in Task : Reconstruct(p)
    BY <1>2, SessionsFolded
<1>3. CASE \E at \in Time : OpenLive(at)
  <2>1. PICK at \in Time : sessions' = Append(sessions, [started_at |-> at, ended_at |-> None])
      BY <1>3 DEF OpenLive
  <2> DEFINE new == [started_at |-> at, ended_at |-> None]
  <2>2. new \in Session /\ ~Closed(new)
      BY DEF Session, Closed
  <2>3. sessions' = Append(sessions, new)
      BY <2>1
  <2> HIDE DEF new
  <2>4. sessions \in Seq(Session) /\ Len(sessions) \in Nat /\ DOMAIN sessions = 1 .. Len(sessions)
      BY RowsAreWhole DEF SInv, Rows
  <2>5. /\ sessions' \in Seq(Session) /\ DOMAIN sessions' = 1 .. (Len(sessions) + 1)
        /\ \A k \in DOMAIN sessions : sessions'[k] = sessions[k]
        /\ sessions'[Len(sessions) + 1] = new
      BY <2>2, <2>3, <2>4
  <2>6. \A k \in DOMAIN sessions' : k \in DOMAIN sessions \/ k = Len(sessions) + 1
      BY <2>4, <2>5
  <2> QED BY <2>2, <2>5, <2>6 DEF SInv, Rows
<1>4. CASE \E at \in Time : \E k \in 1 .. Len(sessions) : CloseLive(k, at)
  <2>1. PICK at \in Time, k \in DOMAIN sessions :
            /\ at >= sessions[k].started_at
            /\ sessions' = [sessions EXCEPT ![k].ended_at = at]
      BY <1>4 DEF CloseLive
  <2> DEFINE new == [sessions[k] EXCEPT !.ended_at = at]
  <2>2. sessions \in Seq(Session) /\ sessions[k] \in Session
      BY RowsAreWhole DEF SInv, Rows
  <2>3. new \in Session /\ new.started_at = sessions[k].started_at /\ new.ended_at = at
      BY <2>2 DEF Session
  <2>4. sessions' = [sessions EXCEPT ![k] = new]
      BY <2>1
  <2> HIDE DEF new
  <2>5. /\ sessions' \in Seq(Session) /\ DOMAIN sessions' = DOMAIN sessions
        /\ sessions'[k] = new /\ \A j \in DOMAIN sessions : j # k => sessions'[j] = sessions[j]
      BY <2>2, <2>3, <2>4
  <2>6. sessions[k].started_at <= at
      BY <2>1, <2>2 DEF Session, Time
  <2> QED BY <2>3, <2>5, <2>6 DEF SInv, Rows
<1> QED
    BY <1>1, <1>2, <1>3, <1>4
       DEF Next, PullStep, Start, SkipCompleted, Download, DownloadFails, StoreChunk,
           Save, Silence, Log, Crash, vars

LEMMA StoredStays == SInv /\ [Next]_vars => (stored \subseteq Logged(Time))'
<1> SUFFICES ASSUME SInv, [Next]_vars PROVE (stored \subseteq Logged(Time))'
    OBVIOUS
<1>1. CASE UNCHANGED <<stored, card>>
    BY <1>1 DEF SInv, Logged
<1>2. CASE \E p \in Task : StoreChunk(p)
  <2>1. PICK p \in Task : StoreChunk(p)
      BY <1>2
  <2>2. pulls[p] \in Pull /\ Sound(pulls[p]) /\ pulls[p].phase = "storing"
      BY <2>1 DEF StoreChunk, At, SInv, IInv, Shaped, PullState
  <2>3. pulls[p].left \subseteq Logged(Time)
      BY <2>2 DEF Sound, Loaded, InFile
  <2>4. FirstChunk(pulls[p].left) \subseteq pulls[p].left
      BY DEF FirstChunk
  <2>5. stored' = stored \union FirstChunk(pulls[p].left) /\ card' = card
      BY <2>1 DEF StoreChunk
  <2> QED BY <2>3, <2>4, <2>5 DEF SInv, Logged
<1>3. CASE \E signals \in Samples : \E file \in File : Log(signals, file)
  <2>1. PICK sample : card' = [card EXCEPT ![now] = sample] /\ stored' = stored
      BY <1>3 DEF Log
  <2>2. card \in [Time -> {None} \union Sample] /\ now \in Time
      BY DEF SInv, IInv, Shaped
  <2>3. \A t \in stored : t \in Time /\ card[t] # None /\ t # now
      BY <2>2 DEF SInv, IInv, CardState, Logged, Time
  <2> QED BY <2>1, <2>2, <2>3 DEF Logged
<1> QED
    BY <1>1, <1>2, <1>3
       DEF Next, PullStep, Start, SkipCompleted, Download, DownloadFails, Reconstruct,
           Save, Silence, OpenLive, CloseLive, Crash, vars

LEMMA LeftStays ==
    SInv /\ [Next]_vars =>
        (\A p \in Task : pulls[p] # None => pulls[p].left \subseteq pulls[p].rows)'
<1> SUFFICES ASSUME SInv, [Next]_vars, NEW p \in Task, pulls'[p] # None
             PROVE  pulls'[p].left \subseteq pulls'[p].rows
    OBVIOUS
<1>1. /\ pulls \in [Task -> Pull \union {None}]
      /\ pulls[p] # None => pulls[p] \in Pull /\ pulls[p].left \subseteq pulls[p].rows
    BY DEF SInv, IInv, Shaped
<1>2. \A f, g : Reading(f, g).left \subseteq Reading(f, g).rows
    BY DEF Reading
<1>3. CASE pulls'[p] = pulls[p]
    BY <1>1, <1>3
<1>4. CASE Start(p) \/ SkipCompleted(p) \/ DownloadFails(p) \/ Save(p)
  <2>1. \E f, g : pulls'[p] = Reading(f, g)
      BY <1>1, <1>4 DEF Start, SkipCompleted, DownloadFails, Save, NextFile
  <2> QED BY <1>2, <2>1
<1>5. CASE Download(p) \/ StoreChunk(p) \/ Reconstruct(p)
  <2>1. pulls[p] \in Pull /\ pulls[p].left \subseteq pulls[p].rows
    <3>1. pulls[p] # None
        BY <1>5, Zenon DEF Download, StoreChunk, Reconstruct, At
    <3> QED BY <1>1, <3>1
  <2>2. CASE Download(p)
    <3> DEFINE rows == {t \in InFile(pulls[p].file) : t > Watermark(progress[pulls[p].file])}
           pull == [pulls[p] EXCEPT !.state = progress[pulls[p].file], !.at = now,
                                    !.rows = rows, !.left = rows,
                                    !.phase = IF rows = {} THEN "saving" ELSE "storing"]
    <3>1. pulls' = [pulls EXCEPT ![p] = pull]
        BY <1>1, <2>1, <2>2 DEF Download
    <3>2. pulls'[p] = pull
      <4> HIDE DEF pull
      <4> QED BY <1>1, <3>1
    <3> HIDE DEF rows
    <3>3. pull.left = rows /\ pull.rows = rows
        BY <2>1 DEF Pull
    <3> HIDE DEF pull
    <3> QED BY <3>2, <3>3
  <2>3. CASE StoreChunk(p)
    <3> DEFINE chunk == FirstChunk(pulls[p].left)
    <3>1. pulls'[p] = [pulls[p] EXCEPT !.left = @ \ chunk,
                          !.phase = IF pulls[p].left = chunk THEN "grouping"
                                    ELSE "storing"]
        BY <1>1, <2>3 DEF StoreChunk
    <3> HIDE DEF chunk
    <3>2. pulls'[p].left = pulls[p].left \ chunk /\ pulls'[p].rows = pulls[p].rows
        BY <2>1, <3>1 DEF Pull
    <3> QED BY <2>1, <3>2
  <2>4. CASE Reconstruct(p)
    <3>1. pulls'[p] = [pulls[p] EXCEPT !.phase = "saving"]
        BY <1>1, <2>4 DEF Reconstruct
    <3>2. pulls'[p].left = pulls[p].left /\ pulls'[p].rows = pulls[p].rows
        BY <2>1, <3>1 DEF Pull
    <3> QED BY <2>1, <3>2
  <2> QED BY <1>5, <2>2, <2>3, <2>4
<1>6. \/ pulls'[p] = pulls[p] \/ Start(p) \/ SkipCompleted(p) \/ DownloadFails(p) \/ Save(p)
      \/ Download(p) \/ StoreChunk(p) \/ Reconstruct(p)
  <2>1. ASSUME NEW q \in Task, q # p, Start(q) \/ PullStep(q) \/ DownloadFails(q)
        PROVE  pulls'[p] = pulls[p]
      BY <1>1, <2>1
         DEF PullStep, Start, SkipCompleted, Download, DownloadFails, StoreChunk,
             Reconstruct, Save
  <2>2. CASE \E q \in Task : Start(q) \/ PullStep(q) \/ DownloadFails(q)
      BY <2>1, <2>2 DEF PullStep
  <2>3. CASE Crash
      BY <2>3 DEF Crash, NoPull
  <2> QED BY <2>2, <2>3 DEF Next, Silence, Log, OpenLive, CloseLive, vars
<1> QED BY <1>3, <1>4, <1>5, <1>6

LEMMA SInvPreserved == SInv /\ [Next]_vars => SInv'
BY NextPreserves, RowsStay, StoredStays, LeftStays DEF SInv

\* Rows, pulls and the store keep their types (models of drive_sessions,
\* sd_log_ingest_state and vehicle_telemetry), whatever is folded into them.
THEOREM BackfillTypes == Spec => []TypeOK
<1>1. SInv => TypeOK
    BY DEF SInv, IInv, Shaped, Rows, TypeOK, Sample
<1> QED
    BY <1>1, SInvInit, SInvPreserved, PTL DEF Spec

\* No drive of a download is dropped (_reconstruct_sessions_from_batch): each
\* lies in one closed session, or met an open one or several.
THEOREM NoDriveIsDropped == Spec => EveryDriveIsPlaced
<1>1. SInv /\ [Next]_vars =>
          [\A p \in Task : Reconstruct(p) =>
              LET S      == {t \in InFile(pulls[p].file) : t < pulls[p].at
                                        /\ t > Watermark(pulls[p].state)}
                  drives == group_drives(S)
              IN  \A i \in DOMAIN drives :
                     \/ \E k \in DOMAIN sessions' : Covers(sessions'[k], drives[i])
                     \/ Cardinality(Touched(sessions', drives, i)) > 1
                     \/ \E k \in Touched(sessions', drives, i) : ~Closed(sessions'[k])]_vars
  <2> SUFFICES ASSUME SInv, NEW p \in Task, Reconstruct(p),
                      NEW i \in DOMAIN group_drives(pulls[p].rows)
               PROVE  LET drives == group_drives(pulls[p].rows)
                      IN  \/ \E k \in DOMAIN sessions' : Covers(sessions'[k], drives[i])
                          \/ Cardinality(Touched(sessions', drives, i)) > 1
                          \/ \E k \in Touched(sessions', drives, i) : ~Closed(sessions'[k])
      BY GroupedRows DEF SInv
  <2> DEFINE drives == group_drives(pulls[p].rows)
             over == Touched(sessions', drives, i)
  <2>1. InOrder(drives) /\ Folded(sessions, sessions', drives, Len(drives)) /\ Rows(sessions')
      BY SessionsFolded
  <2>2. Done(sessions', drives, i)
      BY <2>1, DriveTimes DEF Folded
  <2>3. over \subseteq DOMAIN sessions' /\ DOMAIN sessions' = 1 .. Len(sessions')
        /\ Len(sessions') \in Nat
      BY <2>1, RowsAreWhole DEF Touched
  <2>4. PICK k \in over : \/ Covers(sessions'[k], drives[i]) \/ ~Closed(sessions'[k])
                          \/ \E j \in over : j # k
      BY <2>2 DEF Done
  <2> HIDE DEF drives, over
  <2>5. ASSUME NEW j \in over, j # k PROVE Cardinality(over) > 1
    <3>1. IsFiniteSet(1 .. Len(sessions'))
        BY <2>3, FS_Interval
    <3>2. IsFiniteSet(over) /\ Cardinality(over) \in Nat
        BY <2>3, <3>1, FS_Subset, FS_CardinalityType
    <3>3. Cardinality(over) # 0
        BY <3>2, FS_EmptySet
    <3>4. Cardinality(over) # 1
        BY <2>5, <3>2, FS_Singleton
    <3> QED BY <3>2, <3>3, <3>4
  <2> QED BY <2>3, <2>4, <2>5 DEF drives, over
<1> QED
    BY <1>1, SInvInit, SInvPreserved, PTL DEF Spec, EveryDriveIsPlaced

\* No sample is counted in two drives (telemetry_service.py:921): a card that
\* is folded in makes no two closed sessions overlap that did not.
THEOREM NoOverlapIsWritten == Spec => ReplayAddsNoOverlap
<1>1. SInv /\ [Next]_vars =>
          [\A p \in Task : Reconstruct(p) =>
              \A k \in DOMAIN sessions' : \A j \in 1..(k - 1) :
                 Overlap(sessions'[j], sessions'[k]) =>
                     k \in DOMAIN sessions /\ Overlap(sessions[j], sessions[k])]_vars
    BY SessionsFolded DEF Folded
<1> QED
    BY <1>1, SInvInit, SInvPreserved, PTL DEF Spec, ReplayAddsNoOverlap

LEMMA CoveredIsNotBefore ==
    ASSUME NEW ds, InOrder(ds), NEW b \in DOMAIN ds, NEW r, Whole(r),
           Covers(r, ds[b])
    PROVE  ~Before(ds, b, r)
<1>1. /\ b \in 1 .. Len(ds) /\ Len(ds) \in Nat
      /\ ds[b].started_at \in Int /\ ds[b].movement_ended_at \in Int
      /\ ds[b].started_at <= ds[b].movement_ended_at
    BY DriveTimes
<1>2. r.ended_at \in Int /\ ds[b].movement_ended_at <= r.ended_at
    BY TimesAreNumbers DEF Whole, Covers
<1>3. ASSUME b > 1 PROVE ds[b - 1].movement_ended_at < ds[b].movement_ended_at
  <2>1. b - 1 \in DOMAIN ds /\ b - 1 < b
      BY <1>1, <1>3, DriveTimes
  <2> QED BY <2>1 DEF InOrder
<1> QED BY <1>1, <1>2, <1>3 DEF Before

\* One session for two drives of a download is one the history already had
\* across both; also where one drive begins as the other ends.
THEOREM DrivesAreNotMerged == Spec => DrivesStayApart
<1>1. SInv /\ [Next]_vars =>
          [\A p \in Task : Reconstruct(p) =>
              LET drives == group_drives(pulls[p].rows)
              IN  \A k \in DOMAIN sessions' : \A i, j \in DOMAIN drives :
                     i < j /\ drives[i].started_at < drives[i].movement_ended_at
                           /\ Covers(sessions'[k], drives[i])
                           /\ Covers(sessions'[k], drives[j])
                     => /\ k \in DOMAIN sessions
                        /\ Meets(sessions[k], drives[i]) /\ Meets(sessions[k], drives[j])]_vars
  <2> SUFFICES ASSUME SInv, NEW p \in Task, Reconstruct(p),
                      NEW k \in DOMAIN sessions',
                      NEW i \in DOMAIN group_drives(pulls[p].rows),
                      NEW j \in DOMAIN group_drives(pulls[p].rows), i < j,
                      group_drives(pulls[p].rows)[i].started_at
                          < group_drives(pulls[p].rows)[i].movement_ended_at,
                      Covers(sessions'[k], group_drives(pulls[p].rows)[i]),
                      Covers(sessions'[k], group_drives(pulls[p].rows)[j])
               PROVE  /\ k \in DOMAIN sessions
                      /\ Meets(sessions[k], group_drives(pulls[p].rows)[i])
                      /\ Meets(sessions[k], group_drives(pulls[p].rows)[j])
      BY Zenon
  <2> DEFINE ds == group_drives(pulls[p].rows)
             n == Len(ds)
             r == sessions'[k]
  <2>1. InOrder(ds) /\ Folded(sessions, sessions', ds, n) /\ Rows(sessions')
      BY SessionsFolded
  <2>2. /\ i \in DOMAIN ds /\ j \in DOMAIN ds /\ i < j
        /\ ds[i].started_at < ds[i].movement_ended_at
        /\ Covers(r, ds[i]) /\ Covers(r, ds[j])
      OBVIOUS
  <2>3. Closed(r) /\ Whole(r)
      BY <2>1, <2>2, RowsAreWhole DEF Covers
  <2>4. \/ k \in DOMAIN sessions /\ OldSide(ds, n, sessions[k], r)
        \/ k \notin DOMAIN sessions /\ NewSide(ds, n, r)
      BY <2>1, <2>3 DEF Folded, SidesKept
  <2> HIDE DEF ds, n, r
  <2>5. /\ DOMAIN ds = 1 .. Len(ds) /\ Len(ds) \in Nat
        /\ \A b \in DOMAIN ds : ds[b].started_at \in Int /\ ds[b].movement_ended_at \in Int
        /\ \A b \in DOMAIN ds : ds[b].started_at <= ds[b].movement_ended_at
      BY <2>1, DriveTimes
  <2>6. /\ r.started_at \in Int /\ r.ended_at \in Int
        /\ r.started_at <= ds[i].started_at
        /\ ds[i].movement_ended_at < ds[j].movement_ended_at
      BY <2>1, <2>2, <2>3, TimesAreNumbers DEF Whole, Covers, InOrder
  <2>7. ~Before(ds, i, r) /\ ~Before(ds, j, r)
      BY <2>1, <2>2, <2>3, CoveredIsNotBefore
  <2>8. ~After(ds, i, n, r) /\ ~After(ds, j, n, r)
      BY <2>2, <2>5, <2>6 DEF After
  <2>9. CASE k \in DOMAIN sessions /\ OldSide(ds, n, sessions[k], r)
    <3>1. /\ ~(sessions[k].ended_at < ds[i].started_at)
          /\ ~(sessions[k].started_at > ds[i].movement_ended_at)
          /\ ~(sessions[k].ended_at < ds[j].started_at)
          /\ ~(sessions[k].started_at > ds[j].movement_ended_at)
          /\ Closed(sessions[k])
        BY <2>2, <2>7, <2>8, <2>9 DEF OldSide
    <3>2. sessions[k].started_at \in Int /\ sessions[k].ended_at \in Int
        BY <2>9, <3>1, RowsAreWhole, TimesAreNumbers DEF SInv
    <3>3. Meets(sessions[k], ds[i]) /\ Meets(sessions[k], ds[j])
        BY <2>2, <2>5, <3>1, <3>2 DEF Meets, SessionEnd
    <3> QED BY <2>9, <3>3 DEF ds
  <2>10. CASE k \notin DOMAIN sessions /\ NewSide(ds, n, r)
    <3>1. PICK a \in 1 .. n : \A b \in DOMAIN ds :
              /\ a < b => Before(ds, b, r)
              /\ b < a => After(ds, b, n, r)
        BY <2>10 DEF NewSide
    <3>2. ~(a < j) /\ ~(i < a)
        BY <2>2, <2>7, <2>8, <3>1
    <3> QED BY <2>2, <2>5, <3>2 DEF n
  <2> QED BY <2>4, <2>9, <2>10
<1> QED
    BY <1>1, SInvInit, SInvPreserved, PTL DEF Spec, DrivesStayApart

\* A crash between the sessions and the watermark costs nothing: folding the
\* same rows in again leaves every session as it is.
THEOREM FoldingTwiceIsOnce == Spec => ReplayIsIdempotent
<1>1. SInv /\ [Next]_vars =>
          [\A p \in Task : Reconstruct(p) =>
              Reconstructed(sessions', pulls[p].rows) = sessions']_vars
  <2> SUFFICES ASSUME SInv, NEW p \in Task, Reconstruct(p)
               PROVE  Reconstructed(sessions', pulls[p].rows) = sessions'
      OBVIOUS
  <2> DEFINE S == pulls[p].rows
             ds == group_drives(S)
             ses == sessions'
  <2>1. InOrder(ds) /\ Folded(sessions, ses, ds, Len(ds)) /\ Rows(ses)
      BY SessionsFolded
  <2>2. S \in SUBSET Time
      BY GroupedRows DEF SInv
  <2>3. \A i \in DOMAIN ds : Done(ses, ds, i)
      BY <2>1, DriveTimes DEF Folded
  <2> HIDE DEF S, ses
  <2>4. Reconstructed(ses, S) = ses
      BY <2>1, <2>2, <2>3, FoldedIsFixed
  <2> QED BY <2>4 DEF S, ses
<1> QED
    BY <1>1, SInvInit, SInvPreserved, PTL DEF Spec, ReplayIsIdempotent
=============================================================================
