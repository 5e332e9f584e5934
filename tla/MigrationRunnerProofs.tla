------------------------ MODULE MigrationRunnerProofs ------------------------
(* Proofs about MigrationRunner, for every set of releases and squashes.    *)
EXTENDS MigrationRunner, TLAPS

\* While a pass runs, the runner's copy is the table, and a file that is
\* neither stamped nor still to be visited is a squash deferred in the first
\* pass of this release.
PassState ==
    phase = "migrating" =>
        /\ memo = applied
        /\ todo \subseteq Files
        /\ \A m \in Files : m \in applied \/ m \in todo \/ (Squash(m) /\ passes = 0)

\* The migration waiting for its stamp is the first pending file, it is not
\* in the table, and neither is anything it replaces.
UpgradedState ==
    upgraded # None =>
        /\ phase = "migrating"
        /\ upgraded \in todo /\ upgraded \notin applied
        /\ ran[upgraded] > 0
        /\ Known(upgraded) \intersect applied = {}

\* A run that is neither stamped nor waiting for its stamp was lost.
RunAccounted ==
    \A m \in Stem :
        /\ ran[m] <= 1 + lost[m]
        /\ m \notin applied /\ m # upgraded => ran[m] <= lost[m]

\* A squash whose runs were never lost is stamped along with all it replaces.
SquashStamped ==
    \A s \in Stem : ran[s] > 0 /\ lost[s] = 0 =>
        s = upgraded \/ (s \in applied /\ Replaces[s] \subseteq applied)

OrdinaryFirst ==
    /\ passes >= 1 => \A m \in Files : ~Squash(m) => m \in applied
    /\ passes = 2 => Files \subseteq applied

\* The inductive invariant.
IInv == /\ TypeOK /\ PassState /\ UpgradedState /\ RunAccounted
        /\ SquashStamped /\ OrdinaryFirst /\ StampedIsBuilt /\ OneHistory

-----------------------------------------------------------------------------
\* A shipped squash finds all the files it replaces.
LEMMA KnownIsReplaces ==
    ASSUME TypeOK, NEW m \in Files
    PROVE  Known(m) = Replaces[m]
BY ReleaseAssumption, SquashAssumption DEF TypeOK, Known, Files, Release

LEMMA InitEstablishes == Init => IInv
<1> SUFFICES ASSUME Init PROVE IInv
    OBVIOUS
<1>1. TypeOK
    BY ReleaseAssumption DEF Init, TypeOK, Release
<1>2. UpgradedState /\ PassState /\ OrdinaryFirst /\ StampedIsBuilt
    BY DEF Init, UpgradedState, PassState, OrdinaryFirst, StampedIsBuilt
<1>3. RunAccounted /\ SquashStamped /\ OneHistory
    BY SquashAssumption DEF Init, RunAccounted, SquashStamped, OneHistory
<1> QED
    BY <1>1, <1>2, <1>3 DEF IInv

-----------------------------------------------------------------------------
(* One lemma per action. *)

LEMMA BootKeeps == ASSUME IInv, Boot PROVE IInv'
<1> USE DEF IInv, Boot
<1>1. TypeOK'
    BY ReleaseAssumption DEF TypeOK, Files, Release
<1>2. PassState'
    BY DEF PassState, Files
<1>3. UpgradedState'
    BY DEF UpgradedState
<1>4. RunAccounted' /\ SquashStamped' /\ OrdinaryFirst'
  <2>1. upgraded = None
      BY DEF UpgradedState, TypeOK
  <2> QED
      BY <2>1, StemAssumption DEF RunAccounted, SquashStamped, OrdinaryFirst, Files, Squash
<1>5. StampedIsBuilt' /\ OneHistory'
    BY DEF StampedIsBuilt, Built, Provided, Squash, OneHistory
<1> QED
    BY <1>1, <1>2, <1>3, <1>4, <1>5

\* Dropping a visited file from the pass disturbs only PassState.
LEMMA SkipStampedKeeps == ASSUME IInv, NEW m \in Stem, SkipStamped(m) PROVE IInv'
<1> USE DEF IInv, SkipStamped, Visits
<1>1. TypeOK'
    BY DEF TypeOK
<1>2. PassState'
    BY DEF PassState, Files, Squash
<1>3. UpgradedState' /\ RunAccounted' /\ SquashStamped' /\ OrdinaryFirst'
    BY DEF UpgradedState, RunAccounted, SquashStamped, OrdinaryFirst, Files, Squash
<1>4. StampedIsBuilt' /\ OneHistory'
    BY DEF StampedIsBuilt, Built, Provided, Squash, OneHistory
<1> QED
    BY <1>1, <1>2, <1>3, <1>4

\* A squash is deferred only in the first pass: afterwards the files it
\* replaces, all ordinary, are stamped.
LEMMA DeferKeeps == ASSUME IInv, NEW m \in Stem, Defer(m) PROVE IInv'
<1> USE DEF IInv, Defer, Visits
<1>1. TypeOK'
    BY DEF TypeOK
<1>2. m \in Files /\ memo = applied
    BY DEF PassState
<1>3. Known(m) = Replaces[m]
    BY <1>2, KnownIsReplaces
<1>4. Squash(m) /\ passes = 0
  <2>1. PICK k \in Known(m) : k \notin applied
      BY <1>2
  <2>2. ~Squash(k) /\ k \in Files
      BY <2>1, <1>3, SquashAssumption DEF Squash, Known
  <2> QED
      BY <2>1, <2>2, <1>3 DEF OrdinaryFirst, Squash, TypeOK
<1>5. PassState'
    BY <1>4 DEF PassState, Files, Squash
<1>6. UpgradedState' /\ RunAccounted' /\ SquashStamped' /\ OrdinaryFirst'
    BY DEF UpgradedState, RunAccounted, SquashStamped, OrdinaryFirst, Files, Squash
<1>7. StampedIsBuilt' /\ OneHistory'
    BY DEF StampedIsBuilt, Built, Provided, Squash, OneHistory
<1> QED
    BY <1>1, <1>5, <1>6, <1>7

LEMMA RunUpgradeKeeps == ASSUME IInv, NEW m \in Stem, RunUpgrade(m) PROVE IInv'
<1> USE DEF IInv, RunUpgrade, Visits
<1>1. TypeOK'
    BY DEF TypeOK
<1>2. /\ m \in Files /\ memo = applied /\ m \notin applied
      /\ Known(m) = Replaces[m]
    BY KnownIsReplaces DEF PassState
<1>3. PassState'
    BY DEF PassState, Files, Squash
<1>4. UpgradedState'
    BY <1>2 DEF UpgradedState, Known, Files, TypeOK
<1>5. ran[m] <= lost[m]
    BY <1>2, StemAssumption DEF RunAccounted
<1>6. RunAccounted'
  <2> SUFFICES ASSUME NEW k \in Stem
               PROVE  /\ ran'[k] <= 1 + lost[k]
                      /\ k \notin applied /\ k # m => ran'[k] <= lost[k]
      BY DEF RunAccounted
  <2>1. CASE k = m
      BY <2>1, <1>5 DEF TypeOK
  <2>2. CASE k # m
    <3>1. ran'[k] = ran[k] /\ k # upgraded
        BY <2>2, StemAssumption DEF TypeOK
    <3> QED
        BY <2>2, <3>1 DEF RunAccounted
  <2> QED
      BY <2>1, <2>2
<1>7. SquashStamped'
    BY <1>2, StemAssumption DEF SquashStamped, TypeOK
<1>8. OrdinaryFirst'
    BY DEF OrdinaryFirst, Files, Squash
<1>9. StampedIsBuilt'
  <2>1. \A k \in Stem : ran'[k] >= ran[k]
      BY DEF TypeOK
  <2>2. \A k \in Stem : Provided(k) => Provided(k)'
      BY <2>1 DEF Provided, TypeOK
  <2> QED
      BY <2>2, SquashAssumption DEF StampedIsBuilt, Built, Squash, TypeOK
<1>10. OneHistory'
  <2> SUFFICES ASSUME NEW s \in Stem, NEW k \in Replaces[s], ran'[s] > 0, ran'[k] > 0
               PROVE  lost[s] > 0 \/ lost[k] > 0
      BY DEF OneHistory
  <2>1. k \in Stem /\ Replaces[k] = {} /\ s # k
      BY SquashAssumption
  <2>2. CASE m = s
    <3>1. k \notin applied /\ ran[k] > 0
        BY <2>2, <2>1, <1>2 DEF TypeOK
    <3> QED
        BY <3>1, <2>1, StemAssumption DEF RunAccounted, TypeOK
  <2>3. CASE m = k
    <3>1. ran[s] > 0
        BY <2>3, <2>1 DEF TypeOK
    <3>2. s # upgraded /\ ~(Replaces[s] \subseteq applied)
        BY <2>3, <1>2, StemAssumption
    <3> QED
        BY <3>1, <3>2 DEF SquashStamped, TypeOK
  <2>4. CASE m # s /\ m # k
      BY <2>4, <2>1 DEF OneHistory, TypeOK
  <2> QED
      BY <2>2, <2>3, <2>4
<1> QED
    BY <1>1, <1>3, <1>4, <1>6, <1>7, <1>8, <1>9, <1>10

LEMMA StampKeeps == ASSUME IInv, Stamp PROVE IInv'
<1> USE DEF IInv, Stamp
<1>1. /\ upgraded \in Stem /\ upgraded \in Files /\ memo = applied
      /\ Known(upgraded) = Replaces[upgraded] /\ ran[upgraded] > 0
    BY KnownIsReplaces, StemAssumption DEF TypeOK, UpgradedState, PassState
<1>2. applied' = applied \union {upgraded} \union Replaces[upgraded]
    BY <1>1
<1>3. TypeOK'
    BY <1>1, <1>2, SquashAssumption DEF TypeOK
<1>4. PassState'
    BY <1>1, <1>2 DEF PassState, Files, Squash
<1>5. UpgradedState'
    BY DEF UpgradedState
<1>6. RunAccounted'
    BY <1>2 DEF RunAccounted, TypeOK
<1>7. SquashStamped'
    BY <1>2, StemAssumption DEF SquashStamped, TypeOK
<1>8. OrdinaryFirst'
    BY <1>2 DEF OrdinaryFirst, Files, Squash
<1>9. StampedIsBuilt'
  <2>1. Provided(upgraded) /\ \A k \in Replaces[upgraded] : Provided(k)
      BY <1>1 DEF Provided
  <2>2. \A k \in Stem : Built(k)' = Built(k)
      BY DEF Built, Provided, Squash
  <2>3. \A k \in applied' : Built(k)
      BY <2>1, <1>2 DEF StampedIsBuilt, Built
  <2> QED
      BY <2>2, <2>3, <1>3 DEF StampedIsBuilt, TypeOK
<1>10. OneHistory'
    BY DEF OneHistory
<1> QED
    BY <1>3, <1>4, <1>5, <1>6, <1>7, <1>8, <1>9, <1>10

LEMMA CollapseKeeps == ASSUME IInv, NEW m \in Stem, Collapse(m) PROVE IInv'
<1> USE DEF IInv, Collapse, Visits
<1>1. /\ m \in Files /\ memo = applied /\ m \notin applied
      /\ Known(m) = Replaces[m]
    BY KnownIsReplaces DEF PassState
<1>2. TypeOK'
    BY DEF TypeOK
<1>3. PassState'
    BY <1>1 DEF PassState, Files, Squash
<1>4. UpgradedState' /\ RunAccounted' /\ OrdinaryFirst'
    BY DEF UpgradedState, RunAccounted, OrdinaryFirst, Files, Squash, TypeOK
<1>5. SquashStamped'
    BY <1>1 DEF SquashStamped
<1>6. StampedIsBuilt'
  <2>1. \A k \in Replaces[m] : k \in Stem /\ Built(k) /\ ~Squash(k)
      BY <1>1, SquashAssumption DEF StampedIsBuilt, Squash
  <2>2. Built(m)
      BY <2>1, <1>1 DEF Built, Squash
  <2>3. \A k \in Stem : Built(k)' = Built(k)
      BY DEF Built, Provided, Squash
  <2> QED
      BY <2>2, <2>3, <1>2 DEF StampedIsBuilt, TypeOK
<1>7. OneHistory'
    BY DEF OneHistory
<1> QED
    BY <1>2, <1>3, <1>4, <1>5, <1>6, <1>7

LEMMA FinishKeeps == ASSUME IInv, Finish PROVE IInv'
<1> USE DEF IInv, Finish
<1>1. TypeOK'
    BY DEF TypeOK
<1>2. PassState' /\ UpgradedState'
    BY DEF PassState, UpgradedState
<1>3. RunAccounted' /\ SquashStamped'
    BY DEF RunAccounted, SquashStamped
<1>4. OrdinaryFirst'
    BY DEF OrdinaryFirst, PassState, TypeOK, Files, Squash
<1>5. StampedIsBuilt' /\ OneHistory'
    BY DEF StampedIsBuilt, Built, Provided, Squash, OneHistory
<1> QED
    BY <1>1, <1>2, <1>3, <1>4, <1>5

\* A pass that ends early loses at most the run that waits for its stamp.
LEMMA AbortKeeps ==
    ASSUME IInv, Lose, phase = "migrating",
           phase' \in {"down", "serving"}, faults' = faults + 1,
           upgraded' = None, todo' = {},
           UNCHANGED <<release, applied, memo, ran, passes>>
    PROVE  IInv'
<1> USE DEF IInv, Lose
<1>1. TypeOK'
    BY StemAssumption DEF TypeOK
<1>2. PassState' /\ UpgradedState'
    BY DEF PassState, UpgradedState
<1>3. \A m \in Stem : /\ lost'[m] >= lost[m]
                      /\ m = upgraded => lost'[m] = lost[m] + 1
    BY StemAssumption DEF TypeOK
<1>4. RunAccounted'
    BY <1>1, <1>3 DEF RunAccounted, TypeOK
<1>5. SquashStamped'
    BY <1>1, <1>3 DEF SquashStamped, TypeOK
<1>6. OrdinaryFirst'
    BY DEF OrdinaryFirst, Files, Squash
<1>7. StampedIsBuilt'
    BY DEF StampedIsBuilt, Built, Provided, Squash
<1>8. OneHistory'
    BY <1>1, <1>3, SquashAssumption DEF OneHistory, TypeOK
<1> QED
    BY <1>1, <1>2, <1>4, <1>5, <1>6, <1>7, <1>8

LEMMA OperatorKeeps == ASSUME IInv, Shutdown \/ Deploy PROVE IInv'
<1> USE DEF IInv, Shutdown, Deploy
<1>1. TypeOK'
    BY ReleaseAssumption DEF TypeOK, Release
<1>2. PassState' /\ UpgradedState'
    BY DEF PassState, UpgradedState, TypeOK
<1>3. RunAccounted' /\ SquashStamped'
    BY DEF RunAccounted, SquashStamped
<1>4. OrdinaryFirst'
    BY DEF OrdinaryFirst, Files, Squash
<1>5. StampedIsBuilt' /\ OneHistory'
    BY DEF StampedIsBuilt, Built, Provided, Squash, OneHistory
<1> QED
    BY <1>1, <1>2, <1>3, <1>4, <1>5

-----------------------------------------------------------------------------
LEMMA StepKeeps == IInv /\ [Next]_vars => IInv'
<1> SUFFICES ASSUME IInv, [Next]_vars PROVE IInv'
    OBVIOUS
<1>1. CASE Boot
    BY <1>1, BootKeeps
<1>2. CASE Stamp
    BY <1>2, StampKeeps
<1>3. CASE Finish
    BY <1>3, FinishKeeps
<1>4. CASE Crash
    BY <1>4, AbortKeeps DEF Crash
<1>5. CASE Shutdown \/ Deploy
    BY <1>5, OperatorKeeps
<1>6. ASSUME NEW m \in Stem, SkipStamped(m) PROVE IInv'
    BY <1>6, SkipStampedKeeps
<1>7. ASSUME NEW m \in Stem, RunUpgrade(m) PROVE IInv'
    BY <1>7, RunUpgradeKeeps
<1>8. ASSUME NEW m \in Stem, Collapse(m) PROVE IInv'
    BY <1>8, CollapseKeeps
<1>9. ASSUME NEW m \in Stem, Defer(m) PROVE IInv'
    BY <1>9, DeferKeeps
<1>10. ASSUME NEW m \in Stem, Raise(m) PROVE IInv'
  <2>1. phase' \in {"down", "serving"}
      BY <1>10 DEF Raise
  <2> QED
      BY <1>10, <2>1, AbortKeeps DEF Raise
<1>11. CASE UNCHANGED vars
    BY <1>11 DEF vars, IInv, TypeOK, PassState, UpgradedState, RunAccounted,
                 SquashStamped, OrdinaryFirst, StampedIsBuilt, OneHistory,
                 Built, Provided, Squash, Files, Known
<1> QED
    BY <1>1, <1>2, <1>3, <1>4, <1>5, <1>6, <1>7, <1>8, <1>9, <1>10, <1>11
       DEF Next

LEMMA Inductive == Spec => []IInv
BY InitEstablishes, StepKeeps, PTL DEF Spec

\* The types of MigrationRunner hold in every reachable state.
THEOREM MigrationTypes == Spec => []TypeOK
BY Inductive, PTL DEF IInv

\* What schema_migrations lists is in the schema, whatever crashes or fails.
THEOREM StampsAreTrue == Spec => []StampedIsBuilt
BY Inductive, PTL DEF IInv

\* A squash and a migration it replaces never both build one database,
\* unless the process died before one of them was stamped.
THEOREM OneHistoryEver == Spec => []OneHistory
BY Inductive, PTL DEF IInv

\* An upgrade is repeated only when its stamp was lost.
THEOREM RerunsAreAccounted == Spec => []RunsOncePerLoss
<1>1. IInv => RunsOncePerLoss
    BY DEF IInv, RunAccounted, RunsOncePerLoss
<1> QED
    BY <1>1, Inductive, PTL

\* Two complete passes of a release leave nothing pending.
THEOREM SettlesInTwoPasses == Spec => []TwoPassesSettle
<1>1. IInv => TwoPassesSettle
    BY DEF IInv, OrdinaryFirst, TwoPassesSettle
<1> QED
    BY <1>1, Inductive, PTL

\* An upgrade runs on top of every ordinary migration that sorts before it.
THEOREM OrderKept == Spec => RunsInOrder
<1> DEFINE Ordered == \A m \in Stem : ran'[m] # ran[m] =>
                         \A k \in Files : k < m /\ ~Squash(k) => k \in applied
<1>1. IInv /\ [Next]_vars => [Ordered]_vars
  <2> SUFFICES ASSUME IInv, Next, NEW m \in Stem, ran'[m] # ran[m],
                      NEW k \in Files, k < m, ~Squash(k)
               PROVE  k \in applied
      OBVIOUS
  <2>1. RunUpgrade(m)
      BY DEF Next, Boot, Stamp, Finish, Crash, Shutdown, Deploy, SkipStamped,
             RunUpgrade, Collapse, Defer, Raise, IInv, TypeOK
  <2>2. k \in Stem /\ k \notin todo
      BY <2>1, StemAssumption, ReleaseAssumption
         DEF RunUpgrade, Visits, IInv, TypeOK, Files
  <2> QED
      BY <2>1, <2>2 DEF RunUpgrade, Visits, IInv, PassState
<1> QED
    BY <1>1, Inductive, PTL DEF Spec, RunsInOrder
=============================================================================
