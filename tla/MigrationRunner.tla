--------------------------- MODULE MigrationRunner ---------------------------
(***************************************************************************)
(* The schema migration runner (app/migrations/runner.py) and the start-up *)
(* that calls it (init_db in app/database.py).                             *)
(*                                                                         *)
(* A boot reads the stamped migrations once, then visits the pending files *)
(* in stem order.  An ordinary migration is run and then stamped, in two   *)
(* transactions: the process may die, or the stamp may fail, between them. *)
(* A squash migration, one that declares REPLACES, is run and stamped with *)
(* all the stems it replaces on a fresh database, stamped without running  *)
(* on a fully migrated one, and left for a later boot otherwise.           *)
(*                                                                         *)
(* Between boots an operator may deploy the next release, which ships more *)
(* files.  What an upgrade does to the schema is abstracted to how often   *)
(* it ran to its end.                                                      *)
(***************************************************************************)
EXTENDS Integers, FiniteSets

CONSTANTS
    None,
    Stem,       \* migration files, named by the number that orders them
    Releases,   \* how many releases are deployed, one after another
    Ships,      \* Ships[r]: the stems of the files in release r
    Replaces,   \* Replaces[m]: the stems squash m supersedes; {} if ordinary
    Fatal,      \* the migrations that set FATAL = True
    MaxFaults   \* bound on crashes and failing migrations

Release == 1..Releases

ASSUME StemAssumption == Stem \subseteq Nat /\ IsFiniteSet(Stem) /\ None \notin Stem
ASSUME ReleaseAssumption ==
    /\ Releases \in Nat \ {0}
    /\ Ships \in [Release -> SUBSET Stem]
    /\ \A r, q \in Release : r <= q => Ships[r] \subseteq Ships[q]
\* A squash replaces ordinary migrations, and the release that ships it
\* still ships their files.
ASSUME SquashAssumption ==
    /\ Replaces \in [Stem -> SUBSET Stem]
    /\ \A m \in Stem : \A k \in Replaces[m] : Replaces[k] = {}
    /\ \A r \in Release : \A m \in Ships[r] : Replaces[m] \subseteq Ships[r]
ASSUME FaultAssumption == Fatal \subseteq Stem /\ MaxFaults \in Nat

VARIABLES
    release,    \* the release deployed
    applied,    \* rows of schema_migrations
    phase,      \* the process: "down", "migrating" or "serving"
    memo,       \* the runner's in-memory copy of applied
    todo,       \* pending stems this pass has not visited
    upgraded,   \* the stem whose upgrade() returned and is not stamped yet
    faults,     \* crashes and failures so far, up to MaxFaults
    ran,        \* history: times each upgrade() ran to its end
    lost,       \* history: times it did and the stamp was not written
    passes      \* history: passes completed under this release, up to 2

vars == <<release, applied, phase, memo, todo, upgraded, faults, ran, lost,
          passes>>

Files == Ships[release]
Squash(m) == Replaces[m] # {}
Known(m) == Replaces[m] \intersect Files

Init ==
    /\ release = 1
    /\ applied = {}
    /\ phase = "down"
    /\ memo = {} /\ todo = {} /\ upgraded = None
    /\ faults = 0
    /\ ran = [m \in Stem |-> 0] /\ lost = [m \in Stem |-> 0]
    /\ passes = 0

-----------------------------------------------------------------------------
(* The pass over the pending files. *)

\* Mutant of Boot: the tracking table is not read.
BootFromScratch ==
    /\ phase = "down"
    /\ phase' = "migrating"
    /\ memo' = {} /\ todo' = Files
    /\ upgraded' = None
    /\ UNCHANGED <<release, applied, faults, ran, lost, passes>>

Boot ==
    /\ phase = "down"
    /\ phase' = "migrating"
    /\ memo' = applied
    /\ todo' = Files \ applied
    /\ upgraded' = None
    /\ UNCHANGED <<release, applied, faults, ran, lost, passes>>

\* m is the next pending file, visited when the one before is dealt with.
Visits(m) ==
    /\ phase = "migrating" /\ upgraded = None
    /\ m \in todo /\ \A k \in todo : m <= k

\* Stamped by a squash earlier in the same pass.
SkipStamped(m) ==
    /\ Visits(m) /\ m \in memo
    /\ todo' = todo \ {m}
    /\ UNCHANGED <<release, applied, phase, memo, upgraded, faults, ran, lost,
                   passes>>

\* An ordinary migration, or a squash none of whose files is applied.
RunUpgrade(m) ==
    /\ Visits(m) /\ m \notin memo
    /\ Known(m) \intersect memo = {}
    /\ upgraded' = m
    /\ ran' = [ran EXCEPT ![m] = @ + 1]
    /\ UNCHANGED <<release, applied, phase, memo, todo, faults, lost, passes>>

\* Mutant of Stamp: the squash is stamped, the stems it replaces are not.
StampAlone ==
    /\ phase = "migrating" /\ upgraded # None
    /\ applied' = applied \union {upgraded} /\ memo' = memo \union {upgraded}
    /\ todo' = todo \ {upgraded}
    /\ upgraded' = None
    /\ UNCHANGED <<release, phase, faults, ran, lost, passes>>

\* One transaction, whatever the number of stems.
Stamp ==
    /\ phase = "migrating" /\ upgraded # None
    /\ LET stamps == {upgraded} \union (Known(upgraded) \ memo)
       IN  applied' = applied \union stamps /\ memo' = memo \union stamps
    /\ todo' = todo \ {upgraded}
    /\ upgraded' = None
    /\ UNCHANGED <<release, phase, faults, ran, lost, passes>>

\* Mutant of Collapse: a partial history counts as applied.
CollapsePartial(m) ==
    /\ Visits(m) /\ m \notin memo
    /\ Known(m) \intersect memo # {}
    /\ applied' = applied \union {m}
    /\ memo' = memo \union {m}
    /\ todo' = todo \ {m}
    /\ UNCHANGED <<release, phase, upgraded, faults, ran, lost, passes>>

\* Mutant of Collapse: the runner's copy is updated, the table is not.
CollapseInMemory(m) ==
    /\ Visits(m) /\ m \notin memo
    /\ Known(m) # {} /\ Known(m) \subseteq memo
    /\ memo' = memo \union {m}
    /\ todo' = todo \ {m}
    /\ UNCHANGED <<release, applied, phase, upgraded, faults, ran, lost, passes>>

\* The history a squash stands for is applied already: stamp, do not run.
Collapse(m) ==
    /\ Visits(m) /\ m \notin memo
    /\ Known(m) # {} /\ Known(m) \subseteq memo
    /\ applied' = applied \union {m}
    /\ memo' = memo \union {m}
    /\ todo' = todo \ {m}
    /\ UNCHANGED <<release, phase, upgraded, faults, ran, lost, passes>>

\* A partial history: the remaining files run now, the squash at a later boot.
Defer(m) ==
    /\ Visits(m) /\ m \notin memo
    /\ Known(m) \intersect memo # {} /\ ~(Known(m) \subseteq memo)
    /\ todo' = todo \ {m}
    /\ UNCHANGED <<release, applied, phase, memo, upgraded, faults, ran, lost,
                   passes>>

Finish ==
    /\ phase = "migrating" /\ upgraded = None /\ todo = {}
    /\ phase' = "serving"
    /\ passes' = IF passes = 2 THEN 2 ELSE passes + 1
    /\ UNCHANGED <<release, applied, memo, todo, upgraded, faults, ran, lost>>

-----------------------------------------------------------------------------
(* What goes wrong, and what the operator does. *)

\* upgraded, if it is set, has run and will not be stamped.
Lose == lost' = IF upgraded = None THEN lost
                ELSE [lost EXCEPT ![upgraded] = @ + 1]

\* Mutant of Raise: log, and go on with the next file.
RaiseAndContinue(m) ==
    /\ faults < MaxFaults
    /\ phase = "migrating"
    /\ upgraded = m \/ (Visits(m) /\ m \notin memo)
    /\ faults' = faults + 1
    /\ Lose
    /\ upgraded' = None /\ todo' = todo \ {m}
    /\ UNCHANGED <<release, applied, phase, memo, ran, passes>>

\* The migration's load, upgrade or stamp raises: the pass ends there, and
\* init_db re-raises what is marked fatal and serves otherwise.  A file that
\* does not load has no FATAL flag to read.
Raise(m) ==
    /\ faults < MaxFaults
    /\ upgraded = m \/ (Visits(m) /\ m \notin memo)
    /\ phase = "migrating"
    /\ \E loaded \in {TRUE, upgraded # None} :
          phase' = IF loaded /\ m \in Fatal THEN "down" ELSE "serving"
    /\ faults' = faults + 1
    /\ Lose
    /\ upgraded' = None /\ todo' = {}
    /\ UNCHANGED <<release, applied, memo, ran, passes>>

Crash ==
    /\ faults < MaxFaults
    /\ phase = "migrating"
    /\ phase' = "down"
    /\ faults' = faults + 1
    /\ Lose
    /\ upgraded' = None /\ todo' = {}
    /\ UNCHANGED <<release, applied, memo, ran, passes>>

Shutdown ==
    /\ phase = "serving"
    /\ phase' = "down"
    /\ UNCHANGED <<release, applied, memo, todo, upgraded, faults, ran, lost,
                   passes>>

Deploy ==
    /\ phase = "down" /\ release < Releases
    /\ release' = release + 1
    /\ passes' = 0
    /\ UNCHANGED <<applied, phase, memo, todo, upgraded, faults, ran, lost>>

Next ==
    \/ Boot \/ Stamp \/ Finish \/ Crash \/ Shutdown \/ Deploy
    \/ \E m \in Stem : \/ SkipStamped(m) \/ RunUpgrade(m) \/ Collapse(m)
                       \/ Defer(m) \/ Raise(m)

Spec == Init /\ [][Next]_vars

-----------------------------------------------------------------------------
(* Properties. *)

\* Types of the tracking table, the pass and the history variables.
TypeOK ==
    /\ release \in Release
    /\ applied \in SUBSET Stem /\ memo \in SUBSET Stem /\ todo \in SUBSET Stem
    /\ phase \in {"down", "migrating", "serving"}
    /\ upgraded \in Stem \union {None}
    /\ faults \in Nat
    /\ ran \in [Stem -> Nat] /\ lost \in [Stem -> Nat]
    /\ passes \in 0..2

\* The database holds what migration m creates: m ran, or a squash that
\* replaces it ran, or m is a squash and all it replaces is there.
Provided(m) == ran[m] > 0 \/ \E s \in Stem : m \in Replaces[s] /\ ran[s] > 0
Built(m) == Provided(m) \/ (Squash(m) /\ \A k \in Replaces[m] : Provided(k))

\* A stamp never lies: what schema_migrations lists is in the schema, through
\* every crash, failure and squash (_mark_migrations_applied).
StampedIsBuilt == \A m \in applied : Built(m)

\* A database is built from a squash or from the migrations it replaces,
\* never from both, unless the process died between running one of them and
\* stamping it: the atomic stamp of a squash is what keeps the files it
\* replaces from running after it.
OneHistory ==
    \A s \in Stem : \A k \in Replaces[s] :
        ran[s] > 0 /\ ran[k] > 0 => lost[s] > 0 \/ lost[k] > 0

\* An upgrade runs a second time only because its stamp was lost.
RunsOncePerLoss == \A m \in Stem : ran[m] <= 1 + lost[m]

\* Deferral is temporary: two complete passes of one release leave nothing
\* pending (the runner's "M stamps on a later run").
TwoPassesSettle == passes = 2 => Files \subseteq applied

\* The chain stops at a failure: an upgrade runs only on top of every
\* ordinary migration that sorts before it.
RunsInOrder ==
    [][\A m \in Stem : ran'[m] # ran[m] =>
          \A k \in Files : k < m /\ ~Squash(k) => k \in applied]_vars
=============================================================================
