------------------------------ MODULE IngestRace ------------------------------
(***************************************************************************)
(* The transactions of DriveSession, taken apart.  A handler or a job      *)
(* first SELECTs the device row, which its session keeps in memory as it   *)
(* was then, and takes the write lock (SQLite: of the database, PostgreSQL:*)
(* of the device row) only with its first UPDATE.  Other transactions      *)
(* commit in between.                                                      *)
(*                                                                         *)
(* An ingest transaction updates the device's status before it looks at    *)
(* sessions: it works on the device row it loaded and on the session rows  *)
(* as they are under the lock.  A job writes only when it commits: it      *)
(* works on the rows of both tables as it loaded them.  Either writes back *)
(* the columns it changed, and no others.                                  *)
(***************************************************************************)
EXTENDS DriveSession

CONSTANTS
    Racer,    \* the transactions taken apart; the others stay one step
    Report    \* ECU statuses an HTTPS payload may report; None: no status block

ASSUME RacerAssumption == Racer \subseteq {"mqtt", "https", "timeouts", "sweep", "finalizer"}
ASSUME ReportAssumption == Report \subseteq OrNone(EcuStatus)

VARIABLE tx      \* tx[r]: what r's open transaction has loaded, and its input

raceVars == <<now, device, sessions, mode, tx>>

Idle == [phase |-> "idle"]

Loaded(r) == tx[r] # Idle

AllIdle == \A r \in Racer : tx[r] = Idle

-----------------------------------------------------------------------------
(* Begin and commit *)

Begin(r, ses, input) ==
    /\ tx[r] = Idle
    /\ Len(sessions) < MaxSessions
    /\ tx' = [tx EXCEPT ![r] = [phase |-> "loaded", dev |-> device, ses |-> ses,
                                input |-> input]]
    /\ UNCHANGED vars

\* Mutant of Dirty: the whole row is written back.
WholeRow(loaded, result, stored, forced) == result

\* The row a flush leaves: the columns that differ from what was loaded, and
\* those a bulk UPDATE sets whatever they were.
Dirty(loaded, result, stored, forced) ==
    [c \in DOMAIN stored |->
        IF c \in forced \/ result[c] # loaded[c] THEN result[c] ELSE stored[c]]

\* Commit of r's transaction with the rows of both tables it leaves, or
\* rollback when the unique index rejects them.
End(r, dev, ses) ==
    /\ tx' = [tx EXCEPT ![r] = Idle]
    /\ IF UniqueOpen(ses)
       THEN device' = dev /\ sessions' = ses
       ELSE UNCHANGED <<device, sessions>>
    /\ UNCHANGED <<now, mode>>

-----------------------------------------------------------------------------
(* Ingest *)

\* The device as loaded, the sessions as they are under the lock.
UnderLock(r) == [dev |-> tx[r].dev, ses |-> sessions]

Outcome(r) ==
    LET in == tx[r].input
    IN  IF r = "mqtt" THEN TelemetryMessage(UnderLock(r), in.batch)
        ELSE HttpsMessage(UnderLock(r), in.ecu, in.batch, in.at)

\* update_device_status and set_pending_offline are bulk UPDATEs.
Forced(r) ==
    LET ecu == tx[r].input.ecu
    IN  {"device_status", "last_seen"}
        \cup (IF ecu = None THEN {} ELSE {"ecu_status"})
        \cup (IF ecu = "offline" /\ r = "https" THEN {"pending_offline_at"} ELSE {})

MqttBegin(b) ==
    /\ InContact
    /\ Begin("mqtt", <<>>, [ecu |-> "online", batch |-> b, at |-> now])

HttpsBegin(ecu, b, skew) ==
    /\ InContact
    /\ now + skew \in Time
    /\ Begin("https", <<>>, [ecu |-> ecu, batch |-> b, at |-> now + skew])

IngestCommit(r) ==
    /\ Loaded(r)
    /\ LET out == Outcome(r)
       IN  End(r, Dirty(tx[r].dev, out.dev, device, Forced(r)), out.ses)

-----------------------------------------------------------------------------
(* Jobs *)

AsLoaded(r) == [dev |-> tx[r].dev, ses |-> tx[r].ses]

JobOutcome(r, st) ==
    CASE r = "timeouts"  -> CloseOnClocks(st)
      [] r = "sweep"     -> ExpireStaleMovement(st)
      [] r = "finalizer" -> CloseOffline(st)

\* What makes the job touch the device at all. The sweep follows a pass of the
\* clocks, so nothing is left for those to close.
Due(r) ==
    CASE r = "timeouts"  -> CloseOnClocks(State) # State
      [] r = "sweep"     -> CloseOnClocks(State) = State /\ ExpireStaleMovement(State) # State
      [] r = "finalizer" -> /\ Grace > 0
                            /\ device.pending_offline_at # None
                            /\ now - device.pending_offline_at >= Grace

JobBegin(r) == Due(r) /\ Begin(r, sessions, None)

JobCommit(r) ==
    LET in     == AsLoaded(r)
        out    == JobOutcome(r, in)
        dev    == IF r = "finalizer" THEN SetOffline(out.dev) ELSE out.dev
        forced == IF r = "finalizer" THEN {"device_status", "ecu_status"} ELSE {}
    IN  /\ Loaded(r)
        /\ End(r, Dirty(in.dev, dev, device, forced),
               [i \in DOMAIN sessions |->
                   IF i \in DOMAIN in.ses
                   THEN Dirty(in.ses[i], out.ses[i], sessions[i], {})
                   ELSE sessions[i]])

-----------------------------------------------------------------------------

JobRacer == {"timeouts", "sweep", "finalizer"}

RaceInit == Init /\ tx = [r \in Racer |-> Idle]

\* Transactions are short: the clock stands still while one is open.
RaceTick == AllIdle /\ Tick /\ UNCHANGED tx

\* The jobs that are not taken apart find no transaction open.  So does a pass
\* of the timeout job that nothing comes between.
WholeJob ==
    /\ AllIdle
    /\ \/ "sweep" \notin Racer /\ SessionTimeouts
       \/ "finalizer" \notin Racer /\ FinalizeOffline
       \/ MarkDeviceOffline
    /\ UNCHANGED tx

\* The subscriber handles one message at a time; a status message writes
\* nothing but its bulk UPDATEs.
MqttRacer ==
    /\ "mqtt" \in Racer
    /\ \/ \E b \in Batch : MqttBegin(b)
       \/ IngestCommit("mqtt")
       \/ tx["mqtt"] = Idle /\ (\E ecu \in EcuStatus : MqttStatus(ecu)) /\ UNCHANGED tx

HttpsRacer ==
    /\ "https" \in Racer
    /\ \/ \E ecu \in Report, b \in Batch, skew \in Skew : HttpsBegin(ecu, b, skew)
       \/ IngestCommit("https")

JobOfRacers == \E r \in Racer \cap JobRacer : JobBegin(r) \/ JobCommit(r)

RaceNext == RaceTick \/ WholeJob \/ MqttRacer \/ HttpsRacer \/ JobOfRacers

RaceSpec == RaceInit /\ [][RaceNext]_raceVars

-----------------------------------------------------------------------------
(* Properties *)

\* No racing payload fails: whatever committed since it loaded the device, the
\* rows it leaves pass the unique index, because it adopts the session the
\* other one opened.
NeitherRaises ==
    \A r \in Racer \ JobRacer : Loaded(r) => UniqueOpen(Outcome(r).ses)
=============================================================================
