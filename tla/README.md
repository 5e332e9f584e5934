# MyGarage in TLA+

MyGarage keeps the records of a household's vehicles. Most of it is forms over
rows; this project models the parts whose correctness depends on *order*: on who
writes a row when, on what is retried, replayed or interrupted.

- **LiveLink**: a WiCAN dongle in each car sends telemetry over MQTT and HTTPS,
  and the server cuts that stream into *drive sessions* while packets are late,
  replayed or lost, and while background jobs and an administrator change the
  same rows. What never reached a broker is pulled from the dongle's SD card
  later; a phone running Torque names its trips itself.
- **Tires**: mounts, rotations, seasonal swaps and a history that may be edited
  afterwards, each leaving odometer records among those of other writers.
- **Schema migrations**: run and stamped at start-up, squashed, interrupted,
  restarted.

Paths below are relative to `src/backend/app/`.

## 1. Inventory

| Component | State it keeps | Operations | Talks to |
|---|---|---|---|
| **Drive-session state machine** `services/session_service.py` | `livelink_devices` row (pointer `current_session_id`, movement evidence, `last_movement_at`), `drive_sessions` rows, partial unique index *one open row per device* | start/end session, `observe_telemetry`, reopen, `finalize_offline`, `check_session_timeouts`, `expire_stale_movement_state` | called by both ingests and the jobs |
| **MQTT ingest** `services/mqtt_subscriber.py` | none of its own; one transaction per message | status, battery, telemetry handlers | LiveLink, session and telemetry services |
| **HTTPS ingest** `routes/livelink.py` | one transaction per payload | `ingest_wican_payload` (status block, telemetry, sender's timestamp) | same |
| **Background jobs** `tasks/livelink_tasks.py` | none | session timeouts (1 min), pending offlines (15 s), device offline (5 min), pruning, summaries | same rows, own transactions |
| **Device administration** `services/livelink_service.py`, `routes/livelink_admin.py` | device rows, settings | discover, link, unlink, enable, delete, boundary mode | same rows |
| **SD-card backfill** `services/sd_backfill_service.py`, `telemetry_service.bulk_backfill`, `session_boundaries.group_drives` | watermark per file, telemetry rows | pull, chunked commits, reconstruct sessions, save the watermark | sessions (closed rows) |
| **Torque ingest** `routes/torque.py`, `resolve_torque_session` | sessions keyed by the phone's id, the same pointer | upload | sessions, timeout job |
| **Telemetry store, odometer sync** `telemetry_service.py`, `utils/odometer_sync.py`, `routes/odometer.py` | latest values, telemetry rows, odometer records with markers | store, prune, sync from record, edit by hand | sessions, tires, visits |
| **Tires** `services/tire_service.py`, `tire_history.py`, `tire_set_service.py`, `vehicle_lock.py` | tires, corners, sets, mount periods, readings, low-tread reminders | create, mount, dismount, rotate, fit a set, retire, edit the history, read the tread, delete | odometer records, reminders |
| **Schema migrations** `migrations/runner.py`, `database.py` | `schema_migrations`, the schema | run, stamp, squash, defer, fail | start-up |
| Supplies and the rest of visits; reminders; fuel/toll/insurance records; vehicles and sharing; authentication; import/export/backup; look-up services; frontend | records | single-request CRUD, rendering, I/O | -- |

What is hard here: two ingest paths and three jobs write one device row;
HTTPS payloads carry the *sender's* time, so samples come late, early and out of
order; ECU transitions are edges between a stored status that other paths also
write and a report; "closed" does not mean final (a session closed on contact
loss may be reopened inside the gap); everything starts from one pointer, so a
row the pointer has lost is lost to every clock; the sessions do not autoflush,
so a SELECT inside a handler does not see the handler's own update. A backfill
commits rows, sessions and watermark one after the other and may die between
any two. A migration and its stamp are two transactions. A tire's corner is
stored twice (card and open period), its odometer records are found again by a
note alone, and its history may hold contradictions older than the rules.

What makes each component correct:

- *state machine*: no open row without the pointer; one open row; windows
  disjoint and ordered; a close at the last movement; reopening only inside the
  gap; final rows never change; after silence everything is closed;
- *ingest*: a message is not rolled back by the index; telemetry withdraws a
  provisional offline; racing transactions agree on one session;
- *backfill*: the watermark never passes an uncommitted row; every drive on the
  card ends up in one session, however often the pull is repeated; no sample
  is counted in two;
- *Torque*: one open trip, the pointed one; a late packet never ends a newer trip;
- *odometer records*: a record belongs to the event whose marker it carries and
  stays in step with it; no writer takes another's;
- *tires*: card and history agree; no operation hits a unique index; no write
  makes a history contradict itself;
- *migrations*: a stamp never lies, nothing runs twice unless its stamp was lost,
  and an interrupted chain converges.

`PROJECT.json` lists every component and every hazard with its line.

## 2. Modules

| Module | Content |
|---|---|
| `DriveSession` | device row, session rows, both ingests, the three jobs, the administrator; the properties |
| `TripLog` | the abstract specification: an append-only log whose last trip alone may still be driving, awaiting or be made final |
| `IngestRace` | the transactions of `DriveSession` taken apart: load, other transactions, commit |
| `TorqueSession` | one phone's trips, the uploads in any order, the timeout job whole and taken apart |
| `SdBackfill` | the card, the pulls with their four kinds of transaction, `group_drives` and the reconstruction |
| `OdometerTolerance`, `TireHistory` | when two figures are the same reading; the fault rules of a mount history, the refusal policy, and what the rules are for |
| `OdometerSync` | the odometer log of a vehicle as a sequence of marked records, and the operators of every writer |
| `TireService` | the tires of a vehicle; composes the three modules above with the service's operations and the vehicle's other writers |
| `TreadWarning` | one tire's tread, threshold and readings, and its low-tread reminder; requests taken apart at their commits |
| `MigrationRunner` | boots, the pass over pending files, squash, failures, crashes, releases |
| `MC...` | instances for TLC |
| `DriveSessionProofs`, `DriveHistoryProofs`, `IngestRaceProofs`, `TorqueSessionProofs`, `SdBackfillProofs`, `TireServiceProofs`, `TireOdometerProofs`, `MigrationRunnerProofs` | the theorems |

### Drive sessions

`DriveSession` is the core: **one device** (every query in the code is by
`device_id`, so devices are independent), its row, its session rows in id order,
the clock and the boundary-mode setting.

A handler runs in one transaction. In the model it is an operator on
`st = [dev, ses]`, composed of the operators for the service methods in the order
the handler calls them, and `Commit` makes the result a step, or refuses it when
the unique index would roll the transaction back. Names follow the code:
`EndSession`, `PromoteToDriving` (`_promote_to_driving`), `ReopenAwaiting`, ...;
`map` in `PROJECT.json` gives every definition its lines. Three states of the
code's diagram are read off pointer and row: *driving* (pointer, row open),
*awaiting* (pointer, row closed), *idle* (no pointer).

Data is abstracted to what the properties distinguish. A telemetry batch is its
three movement signals (speed above the floor, engine turning, odometer value);
times are whole units; `skew` is a payload's sample time minus its receipt time.

Two details of the code matter and are kept:

- `previous_end` is read by a SELECT on a session that does not autoflush, so
  `PreviousEnd` is applied to the *stored* rows, not to the handler's own.
- `IntegrityError` on the insert adopts whichever row is open **for the device
  id**, whatever its vehicle.

Assumptions: the parameter keys of a batch are already registered (a new key
flushes the transaction early); the timeout job's two transactions, run one
after the other by the same job, are one step; a rolled-back message has no
effect at all (`Commit` is then disabled; the response is 202 either way).

`IngestRace` drops the assumption that a transaction is one step. `tx[r]` holds
the rows transaction `r` has loaded. The device row is read before the first
UPDATE takes the write lock (SQLite: the database's, PostgreSQL: the row's) and
the session object is never expired, so everything later in the transaction
works on that copy; an ingest reads the *session* rows afterwards, under the
lock, whereas a job reads both tables first and writes at commit. `Dirty` is the
flush: a column is written when it differs from what was loaded (or is set by a
bulk UPDATE, `Forced`), so what another transaction did to the other columns
survives, and a stale pointer is used but not written. The handlers themselves
are the operators of `DriveSession`, applied to the loaded rows. Assumptions: the
subscriber handles one message at a time; the clock stands still while a
transaction is open; a job reads both tables at one instant; rows for which a job
does nothing are not loaded. The unique index and adoption are modelled as on
SQLite; on PostgreSQL the re-read under `FOR UPDATE` finds the same row to adopt.

Left out: aggregates, durations and odometer columns of a session, the
LiveLink on/off switch, tokens, DTCs and thresholds, deletion of the
vehicle, and `_refresh_closed_session`, which recomputes aggregates only.

### Torque

`TorqueSession` is one phone. `rows` maps the ids the phone may send to their
session rows, `current` is the pointer as a trip. An upload is
`resolve_torque_session` in one transaction, with the candidate time clamped by
`_ingest` (`Stamped`); its three branches are `UploadKnown`, `UploadStraggler`
and `UploadNewest`. A Torque row has boundary version 0, so only the contact
clock closes it (`Timeout`). `Spec` has the job whole; `RaceSpec` splits it at its
awaits into `TimeoutRead` and `TimeoutWrite`.

### SD-card backfill

`SdBackfill` is one device and its card. `card[t]` is the sample logged at instant
`t` and the file it is in; `pulls` are the pulls running, each going through
`SkipCompleted` or `Download`, `StoreChunk` (one commit per chunk), `Reconstruct`
(one commit) and `Save` (one commit) for every file. `DownloadFails` and `Crash` may
strike anywhere, the device may log on and rotate, and the live path opens and
closes sessions in between (`OpenLive`, `CloseLive`, which keep the two facts
`DriveSession` establishes: a start never behind the previous end, an end at a
movement). `group_drives` and the fold over its drives are operators on the
instants of one download; the drives are numbered in the order of their ends, which is
the order they are grouped in.

Kept in detail: the watermark row of a pull stays in its identity map, so a column
is written when it differs from what *this* pull read (`Saved`); nothing prevents
two pulls of one card (`enqueue_sd_backfill` has no guard), so `Task` has two; an
open session is matched at its start alone; drives that share an instant leave it
to the earlier one. `DrivesStayApart` allows one session across two drives of a
download if the history already had one across both, and asks nothing of a drive that
begins and ends at one instant, which may be the instant the next drive begins with.

Left out: aggregates, `_refresh_sessions_in_span`, the latest-value table, values
that carry no movement signal; rows of Torque sources, which have device ids of
their own; two rows of one instant straddling a watermark (see *hazards*).

### Tires and odometer records

A log in `OdometerSync` is the sequence of a vehicle's odometer records in id
order; a marker stands for the note `[AUTO-SYNC from KIND #ID]` by which a record
is found again. `SyncRecord`, `Publish`, `Follow` and `SyncFromTelemetry` are the
four writers' functions on a log. `TireHistory` has the rules of
`validate_period_history` as sets of faults and `new_or_touched_faults` as
`Refused`. It also has a reference the code does not contain: `Clash` says, over
all pairs, what two periods cannot both be.

`TireService` composes them. Every operation that writes a corner, a retirement or a
period takes the vehicle's write lock and commits these columns once, so it is one
step; its *flushes* are kept, because the unique indexes on corners and on open
periods are checked there: `Transact` takes the states an operation flushes in order,
and `raised` records that one of them broke an index. `create_tire`, `update_tire`,
`add_reading`, `delete_reading` and `delete_set` take no lock: their one commit of a
corner, a set or an odometer record is a step, and what two of them read of each other
before it is left out. The visit, the car's telemetry and a person are the other
writers. Histories from before validation (`Legacy`) are initial states.

`TreadWarning` is the rest of what these requests do, for one tire: the tread, the
threshold `min_tread_mm` (both nullable, and edited), the dated readings, and the
pending low-tread reminders. None of it decides what `TireService` writes, nor the
other way round. Here a request is several steps: `Load`; the commit of its change
(`UpdateTire`, `AddMeasurement`, `DeleteMeasurement`; `CreateTire` and `MoveTire`
load and commit in one); `Refresh`, which only `add_reading` does of the tread; `Look`, the
SELECT of the pending reminders; and `Settle`, the branches of
`_sync_low_tread_reminder` and their commit. `request[q]` is the phase and the copy of the
row in memory: the sync judges the tread by that copy, for a session keeps what it has
loaded, and `Flushed` writes the columns in which it differs from what was loaded. `Stop`
ends a request anywhere (a crash, or a flush that matches no row); `CloseByHand` is a
person's delete, "done" or "dismiss"; an earlier release may have left several reminders.
The history variable `disturbed` names the requests during which somebody else changed
one of these rows.

Left out: pressures, notes, storage locations, dimensions; a reminder's title, due date
and projected distance, and the repair of its type; the figures derived from
a history (`distance_on_tire`, `project_wear`), which write nothing; creating and
renaming sets; a person's edit of a tire's own record, after which nothing is
claimed of it. The same-reading band (`Tol`) is constant over the few
figures of an instance. Ids are reused after a delete, as on SQLite.

### Schema migrations

`MigrationRunner` is a server that boots, runs the pass over pending files, serves,
stops and is redeployed. `RunUpgrade` and `Stamp` are two steps, because they are
two transactions; `Raise` is a failing load, upgrade or stamp, after which
`init_db` serves or re-raises by the module's `FATAL`; `Crash` strikes anywhere in a
pass. A squash (`REPLACES`) runs and stamps all it replaces at once, is stamped
without running over a full history, or is deferred. `ran` and `lost` count how
often an upgrade ran to its end, and how often its stamp was then not written.

Assumptions, as the repository's practice has it: a release only adds files
and keeps those a squash replaces; a squash replaces ordinary migrations; one
process migrates at a time. What half an upgrade leaves behind is not modelled: an
upgrade counts when it returns.

## 3. Runs

| Run | Specification | Shows |
|---|---|---|
| `drive_mqtt` | `LiveSpec` | with live samples only: `WindowOrdered`, `ClosesAtMovement`, `NoMovementWhilePending` |
| `drive_https` | `SteadySpec` | replayed samples, both modes: `NoOrphan`, `NoOverlap`, `IndexNeverRejects` (of every message and payload), `ReopensInsideGap`, and the rows implement `TripLog` |
| `drive_admin` | `Spec` | the administrator interferes, no grace period: `TypeOK`, `HistoryFrozen` |
| `drive_silence` | `FairSteadySpec` | the device falls silent: `EventuallyQuiet` |
| `race_ingest` | `RaceSpec` | MQTT, HTTPS and the timeout job in one another's way: `NoOrphan`, `NeitherRaises`, and the committed rows are a `TripLog` |
| `torque` | `Spec` | any order of packets: `OpenIsCurrent`, `EndsAfterStart`, `ActiveTripIsSafe`, `ClosedIsFinal`, and after silence `EveryTripCloses` |
| `torque_race` | `RaceSpec` | *violated* `OpenIsCurrent` (section 4) |
| `sd_backfill` | `Spec` | two pulls, crashes, rotation: `NothingSkipped`, `EveryDriveIsPlaced`, `ReplayAddsNoOverlap`, `DrivesStayApart`, `ReplayIsIdempotent` |
| `tires_corners` | `Spec` | every operation on two tires, two corners and a set: `MountedIffOpen`, `NeverRaises` |
| `tires_history` | `EitherSpec` | one tire, three periods, two figures and a third for repairs: `NothingUnreported`, `CoherenceKept`, `OnlyRepairsClash`; two requests at a time on its tread: `WarningRight` |
| `tires_odometer` | `Spec` | one tire among the other writers, two days: `EventRecords`, `EachToTheirOwn`, `OneEndCovered` |
| `migrations` | `Spec` | three releases, three faults: `StampedIsBuilt`, `OneHistory`, `RunsOncePerLoss`, `TwoPassesSettle`, `RunsInOrder` |

### Bounds

`Max...`, `LastContact`, `FirstPull` and `Releases` are the only bounds on the
behaviours; actions that would pass them are disabled, which is why the
properties are safety properties except in `drive_silence` and `torque`, where
`LastContact` is early enough for the clocks to run out.

- *Drive sessions*: with `Gap` 1 or 2 and `MaxTime` 3 to 7 a session can be opened,
  lost, reopened inside the gap, let go of after it and followed by a second (and
  in `drive_mqtt` a third) one; a comparison that is strict or not differs at a
  distance of exactly `Gap`, which is reached. A skew of -2 exceeds both the
  tolerance of 1 and the gap. The clock stops at `MaxTime`, but messages and the
  timeout job never do, so these runs check for deadlock too.
- *`race_ingest`* uses a moving and a parked batch and live samples: the races are
  over the pointer and the row, not over timestamps (deviation 9). Neither batch
  carries an odometer value: one that does makes three transactions break `NoOrphan`
  (deviation 7). The housekeeping sweep and the finalizer stay whole there
  (`WholeJob`, which has a whole pass of the timeout job too), because taken apart they
  break `NoOrphan` (deviation 6). `ClosesAtMovement` is not among its properties,
  because a timeout job that loaded a session before an ingest extended it closes it
  at the movement it knew of.
- *`torque`*: three trips, so that a straggler, the active trip and a newer one
  coexist; a phone clock up to one unit ahead and any distance behind.
- *`sd_backfill`*: five instants and a gap of 1 make two drives, apart or sharing an
  instant; chunks of 2 make a download of two chunks; one live session, two files,
  two pulls and one fault, which may fall between any two commits. The two pulls
  are interchangeable (`SYMMETRY`).
- *`tires_corners`* has no figures, since no corner depends on one, and every
  operation that moves a tire: a swap of two tires with both corners held is the
  smallest move whose flush order matters. A deleted tire's id comes back.
- *`tires_history`* starts from every three spans over two figures besides the
  empty history, a migrated one and two contradictory ones, and then edits them. Two
  figures make every kind of clash; a repair that puts a clash in the place of
  another needs a third, which `ThirdForRepairs` keeps to the ends of periods, in
  histories that contain a contradiction (`CONSTRAINT`). Its band is 0; the `ASSUME` of `MCTireCorners` checks the rules over every three spans
  of four figures with a band of 1, where a maximum that lags would hide a clash.
  The view leaves out the log (`History`), which no operation reads to
  write a tire or a period.
  The run is also that of the low-tread warning: it puts `TireService` and `TreadWarning`
  side by side. They share no column, so a behaviour is about one of them while the other
  is where it began (`EitherNext` of `MCTireEdits`): every step of each is there, in every
  order with the steps of its own half. On the tread's side: two requests, which are
  interchangeable (`SYMMETRY`), a worn tread and a sound one, a threshold that may be
  cleared, a worn reading and a later sound one, two readings and two reminders at a time,
  so that a duplicate exists.
- *`tires_odometer`*: `VIEW AnyOrder` forgets the order of the log's rows; order decides
  between two records of other writers only, and `MaxOthers` is 1.
  What follows a retirement is explored only where it differs from what follows a
  dismount (`InServiceOrMarked`; `InService` in `tires_history`): a retired tire is edited
  like one in storage, and restoring it leads where dismounting would have, but for the
  record of a retirement from storage.
- *`migrations`*: a squash arrives in the second release and another file in the
  third; three faults suffice for a lost stamp, a lost squash and a retry.

The tire, Torque, backfill and migration runs do not check for deadlock: they reach
a state in which the clock, the pulls or the faults are used up.

### Fairness

`drive_silence`: `WF(Tick)` because time passes, `WF(SessionTimeouts)` and
`WF(FinalizeOffline)` because APScheduler runs those two jobs on an interval for as
long as the server is up. `torque`: `WF(Tick)` and `WF(Timeout)`, the same job.
Nothing is assumed of the device, the phone, of ingest or of the device-offline job.

### What the passing runs say together

With the vehicle fixed, the pointer never loses an open row, the clamp keeps
windows apart, and a device that falls silent leaves nothing open, even when
samples were replayed or dated into the future. With every administrator action
allowed, sessions that were let go of are never touched again. Between racing
transactions, savepoint, index and adoption do what
`tests/integration/test_session_concurrency.py` asks, for the *opening* of
sessions on movement boundaries. A backfill may be cut anywhere and repeated: nothing is skipped, nothing
is counted twice among closed sessions. A tire's card and its history cannot drift
apart, no move trips over an index, the low-tread warning follows the tread wherever
requests do not interfere, and the history rules are complete in the sense
of `Clash`. A migration chain converges and its table does not lie.

## 4. Finding and deviations

**Finding: `torque_race`.** `check_session_timeouts` SELECTs the silent trip, an upload
then ends it and opens the next one, and the job commits: `end_session` writes
`current_session_id = NULL` whatever it has become. The new trip is open, no pointer
names it, so no clock will close it, and the unique index on open rows refuses every
later trip of that phone (the upload is rolled back and retried for ever). The
comment at `session_service.py:956` says: "Newest drive: finalize the prior (older) open
session so it does not leak open, THEN open the new one and advance the pointer." The window is the job's awaits between SELECT and commit.

Other places where the code differs from what it says, or from what one would
expect. TLC found 1 to 10 and 17 to 20 as counterexamples of the named property under the settings
given; they are described here and not kept as runs. The rest come from stating a
property more strongly than the code supports; the module says where it stops.

1. *Relinking adopts another vehicle's session.* `unlink_device` nulls the pointer and
   leaves the row open; after a link to another vehicle the next movement hits the
   unique index and adopts the first vehicle's row (`session_service.py:769`; "both
   payloads describe the same drive", line 761). No route calls `unlink_device` at
   this commit, but deleting, rediscovering and linking the device does the same.
   Two vehicles, `Spec`, `MaxTime` 3.
2. *A replay moves one of two anchors.* "Both clocks close at `movement_ended_at`"
   (line 1351), but they prefer `device.last_movement_at`, which replayed samples
   do not move: `ClosesAtMovement` fails under `SteadySpec` with a skew of -2.
3. *Split inside the gap.* "movement returning inside the gap reopens the same
   session" (line 1328), but the first moving sample after a contact-loss close is
   only a candidate, and the confirming one is compared with the gap.
4. *Provisional offline over HTTPS.* Telemetry withdraws it over MQTT
   (`mqtt_subscriber.py:425`) but not over HTTPS, so the finalizer closes a moving drive:
   `NoMovementWhilePending` fails under `SteadySpec`.
5. *Overlap without a grace period.* A payload that reports the ECU offline and
   carries an odometer rise with an earlier timestamp closes one session and opens the
   next inside it: the clamp's SELECT does not see the unflushed close. `NoOverlap`
   fails under `SteadySpec` with `Grace = 0`.
6. *The finalizer and the sweep orphan a session.* Either may commit between an MQTT
   handler's SELECT of the device and its first UPDATE; the handler's stale pointer
   reopens the closed session and is not written back. `NoOrphan` fails under
   `RaceSpec` with the racer `"finalizer"`. The row lock and the index protect the
   opening of a session only.
7. *An odometer rise reopens through a stale pointer.* HTTPS and the timeout job both
   load the device, its row open and past the gap; MQTT commits movement on the row;
   the job commits the close it had decided on, and NULL; HTTPS then sees the row
   closed inside the gap, the odometer rise confirms movement, and the pointer
   it loaded, being unchanged, is not written. The row is open and nothing names
   it. `NoOrphan` under `RaceSpec` with batches that carry an odometer.
8. *A reconstructed drive may overlap an open session.* An open session is matched as
   the instant it started at, so a drive that begins later is written beside it, and
   the two overlap once it closes; "No overlaps are written" (`telemetry_service.py:921`)
   holds among closed sessions (`ReplayAddsNoOverlap`).
9. *A replayed payload may be rejected by the index.* MQTT lets go of an awaiting session
   past its gap and opens the next; an HTTPS payload that had loaded the device before,
   and whose sample is old enough to lie inside that gap, reopens the session through
   the pointer it loaded (`session_service.py:606`), where no savepoint and no adoption
   wait for it, and the whole payload is rolled back. `NeitherRaises` under `RaceSpec`
   with a skew of -1. Nothing is orphaned.
10. *Two first contacts.* `start_session` (`session_service.py:223`) has no savepoint and
    adopts nothing. On contact boundaries MQTT and HTTPS both load a device that is not
    online, both open a session, and the later of the two is rolled back: `NeitherRaises`
    under `RaceSpec` with `Modes = {"contact"}`.
11. *Editing both ends of a period* can leave the mount figure without a record:
   `_follow_period_event` gives it up to the record it then moves away.
   `OneEndCovered` therefore claims nothing of such an edit.
12. *`remembered_position`* takes the last period by id, which a past period entered
   later becomes: a seasonal swap then aims at an old corner.
13. *`_withdraw_reading_odometer`* republishes the newest same-day reading, not the highest, and
    knows readings only: a mount's figure of the same day may stay unbacked. Deleting a
    tire does the same to another tire's figure that its record was backing.
14. *A Torque trip that continues after the timeout closed it* is neither reopened nor
    extended (`session_service.py:924`): `ClosedIsFinal`.
15. *The reminder's title* names the corner the tire was on when it was written;
    dismounting, rotating or retiring does not renew it.
16. *"advancing last_timestamp monotonically"* (`sd_backfill_service.py:135`): a second pull that read
    an older row may write an older watermark. Harmless: rows are only read again.
17. *A stale sync completes a warning.* "Only a MEASUREMENT above the threshold may complete a
    live safety reminder" (`tire_service.py:2042`), but the sync judges the copy of the tire
    its request loaded. `update_tire` refreshes `updated_at` alone (line 1371) and holds no
    lock: loaded while the tread was sound, it completes the warning that a worn reading
    stored since has just raised. That *some* warning remains when a request settles a tire
    stored as worn fails under `TreadSpec`.
18. *Commit and reminder are two transactions.* A crash or an error between them leaves a worn
    tire without a warning, or a sound one with it, until the next request on that tire.
19. *The later commit wins.* "Only the newest observation defines current state" (line 1798),
    among the readings a request has loaded: of two added at once, the older may be
    committed last and be the tread.
20. *Duplicates.* Two syncs that both saw no reminder raise one each. The next one collapses
    them; a person who closes the first of them while it does leaves none.
    17 to 20 are why `WarningRight` speaks of a request that nobody disturbs, and of every
    such request, whatever was left there before.

## 5. Proofs

For every value of the constants, under the named assumptions of the module about
their types and the settings.

**Drive sessions** (`DriveSessionProofs`):

- `TypeCorrect`: `Spec => []TypeOK`, with the administrator.
- `NoOrphanEver`: `SteadySpec => []NoOrphan`, in both modes.
- `IndexNeverRejectsEver`: `SteadySpec => []IndexNeverRejects`, of status, battery and telemetry
  messages and of HTTPS payloads with any blocks and any sample time.
- `NoOverlapEver`: `SteadySpec => []NoOverlap`, in both modes, when `Graced`: there is a
  grace period, or only contact boundaries are used. Deviation 5 is why.

None of the three safety properties is inductive. The strengthening is `Tidy`: the
device exists, an open row is the pointed one, **the pointed row is the last row** (so
reopening, which can move an end arbitrarily, only ever touches the last window),
and, on clamped boundaries, windows are ordered pairwise. `SteadyInv` adds `TypeOK`
and the mode that is fixed, and is the invariant proved. Because handlers are
operators, every operator `F` has two lemmas, `FShaped` (types) and `FTidy`
(invariant), and the lemma of a handler follows from those of its calls; `SteadyStep`
has one case per action. `Max` and `Min` of the community modules are `CHOOSE`s, so
their defining property is first proved (`MaxOfTimes`, `MinOfTimes`).

Contact boundaries have no clamp: rows open at the time of receipt. There windows are
in order because of the clock, and the invariant is `Punctual`: every start and end is
the time of a contact, or its own start, and none is later than now. `WindowsInOrder`
puts the two modes together.

The same module has `WindowsAreOrdered`, `ClocksPadNothing` and `OfflineCutsNoDrive`, for
`LiveSpec` when `Modes = {"movement"}` and `Grace > 0`. The invariant is `LiveInv`: no time
in a row is later than the clock, a closed row ends at its own last movement, and the
device's `last_movement_at` is that of the row its pointer names. That last equation is
what lets a clock that reads the one close the other; inside a handler it holds only
between certain calls, hence the weaker `Half`. Deviations 2, 4 and 5 show that neither
live samples nor the grace period can be dropped.

`DriveHistoryProofs`: `HistoryFrozenEver` and `ReopensInsideGapEver`, for all of `Spec`:
any mode, any replay and every administrator action. Both are about pairs of states.
`Keeps(st, res)` says that the rows let go of in `st` stay as they are and stay let go of
in `res`. Reopening needs three: no call but the movement extension opens a closed row
(`StaysClosed`), the row that extension may reopen is still as it was stored
(`Unopened`), and what it reopened moved inside the gap (`Gapped`). Each is shown of every
operator and chained through the calls of a handler.

It also proves `SessionsAreATripLog`, the refinement `SteadySpec => IsTripLog`, when `Graced`.
`SteadyInv` says that all rows but the last are final, `InOrder` where the windows lie,
`Keeps` that a final trip stays as it is; what is left to show of every handler is that it
moves no start and adds at most one row, which is open (`OneMore`). `LogAdvances` then
reads off, from the phase of the last trip before and after, which step of `TripLog`
was taken.

**Racing ingests** (`IngestRaceProofs`): `NeitherRaisesEver`, `RaceNoOrphan` and
`RacesWriteATripLog`, of `RaceSpec` under `Ingests`: MQTT and HTTPS are the transactions
taken apart, the jobs run whole and while no transaction is open, boundaries are by
movement with a grace period, samples are of the moment. Batches may carry anything. What
is excluded has its counterexamples: a skew is deviation 9, contact boundaries are
deviation 10, the jobs taken apart are deviations 6 and 7. The argument is about a
pointer that was loaded earlier. It is still the pointer of the row, and then the lemmas
of `DriveSessionProofs` apply, which are of any device row (`InTime`); or it *trails*:
since the load the other transaction has let go of a session past its gap and opened
the next (`Trails`; `Moves` says that no ingest moves the pointer otherwise). A result
made from a trailing pointer lets go of that session too, and adopts the open one
(`TooLate`). `CommitRaces` is about the columns that are then written back: whether the
pointer is among them or not, the row left is `Tidy`. `TrailsOn` closes the circle: what
one transaction loaded still trails, or does not, after the other's commit.

**Torque** (`TorqueSessionProofs`): `TorqueTypes`, `NoTripLeaksOpen`,
`DurationsAreNotNegative`, and from the same invariant the action properties
`LatePacketsAreHarmless` and `HistoryIsFrozen`, all for `Spec`. The strengthening is
that an open trip began no later than the last contact (`OpenBeganBeforeSeen`),
because the timeout closes at `last_seen`, and that no half-done job exists.

**Backfill** (`SdBackfillProofs`): `NoRowIsLost`, `Spec => []NothingSkipped`, for any number of
pulls at once, files, chunks, crashes and failed downloads. The invariant says what a
pull that has downloaded *knows* (`Loaded`): everything of its file up to the watermark it
read is stored, its rows are all there was past that watermark at the download, the
chunks it is done with are stored, and a file that was rotated away when the pull listed it
has had nothing logged to it since. What rows are grouped into plays no part, and no pull
has to know of another: a stale watermark only makes it read more.

What the rows *are* grouped into is the rest of the module: `BackfillTypes`, and of every
reconstruction, whatever is on the card and in the history, `NoDriveIsDropped`,
`NoOverlapIsWritten`, `DrivesAreNotMerged` and `FoldingTwiceIsOnce`. Three steps. The drives
`group_drives` returns follow one another and share at most a boundary (`DrivesInOrder`):
groups lie a gap apart (`DrivesAreApart`), so that counting those that end no later
numbers them (`DrivesHavePlaces`), and the contact burst before a drive reaches back no further
than the end of the one before it. One drive then makes a session, widens one, or leaves
the history alone (`PlacedIsPlacing`), which overlaps nothing that it did not and undoes
nothing done before (`OneDrive`). `Folded` says what holds after the first *m* drives: each is
placed, nothing new overlaps, a session of the history is on its side of every drive it
did not meet, a new one of every drive but its own (`SidesKept`); one more drive keeps it (`OneMoreFolded`). The fold itself is a
recursive function over the drives: `FoldExists` shows that it exists, and
`ReconstructedIsFolded` carries `Folded` through it by taking the least number of drives
after which it would fail.

**Tires** (`TireServiceProofs`): `CardsAndHistoriesAgree` and `NoUniqueIndexIsHit`, over
any number of tires, corners and periods. The invariant is `Good` (types, one tire per
corner, card and history agree), stated of a *pair* of tables, so that it can be said of
every state an operation flushes: the vacated state is good (`VacatedIsGood`), and
assigning free corners to free tires keeps it good (`AssignedIsGood`); `Transact` then
has no index to hit (`OneFlush`, `TwoFlushes`). That part never looks at what a write is
refused for: corners do not depend on the fault rules.

`EveryHistoryIsReported`, `CoherentStaysCoherent` and `ClashesEnterWithRepairs` are about the
rules, for histories of any length and any figures. Rule 4b compares a span with the one
that reaches highest among those before it (`Covering`), so a clash may be reported under
another counterpart than its own: a later span below an earlier one's end is below that
of its `Covering` too (`CoveringReaches`), and when the earlier span is not the one named,
it is itself an intruder or the span next in order is reported against it (`NextSpan`,
`EveryClashReported`); nothing else is reported (`FaultsAreClashes`). `Covering` and the
next span are first elements of sets of spans, which `FirstExists` gets from well-founded
induction. That a write is judged by its faults is `JudgedWrite`, and every operation's
writes are such (`TransactIsJudged`, and one `...Judged` lemma for each).

**Odometer log** (`TireOdometerProofs`): `RecordsFollowTheirPeriods`, `WritersKeepApart` and
`EndsAreCovered`, for a log of any length. The invariant `LInv` adds to
that of cards and histories that each marker of a period's end is in the log at most
once and that its record says what the period says. What a writer does to a log is proved
once, of its operator (`Published`, `Followed`, `Recorded`, `Reported`), and again for the
rows of the other side (`PublishedSide`, ...); every operation's lemma (`MountKept`,
`EditPeriodKept`, ...) is then a split on the rows it writes. A delete removes many records
at once (`Picked`), so that the places of finitely many rows are 1, 2, ... in their order
comes first (`PlacesInOrder`, `EveryPlaceTaken`, `PickedRows`).

The same module proves `WarningsAreRight`, `TreadSpec => WarningRight`, for any number of
requests, readings and reminders. The invariant `TInv` says what a request that nobody
disturbed *knows* (`Informed`): the copy in its memory is the row, and once it has looked,
the reminders it saw are those pending. A step of another request either changes no row,
and then nothing it knows is out of date, or disturbs it (`OwnStep`); what the request
itself commits it has in memory (`ChangeInforms`). `Settle` then decides about the rows as they
are, and of several reminders without the later ones the first is left (`FirstRemains`).

**Migrations** (`MigrationRunnerProofs`): `MigrationTypes`, `StampsAreTrue`, `OneHistoryEver`,
`RerunsAreAccounted`, `SettlesInTwoPasses`, `OrderKept`. The invariant relates the table,
the runner's copy and the pass: the copy equals the table, everything pending is still
to be visited (`PassState`), an upgrade in hand was run once more than stamped
(`RunAccounted`), a squash that ran has all it replaces stamped unless its stamp was lost
(`SquashStamped`).

Every invariant and every action property of the passing runs is stated by a theorem. Only
model-checked are the two liveness properties (`EventuallyQuiet`, `EveryTripCloses`), which
are out of the prover's reach, and one case of three others: `NeitherRaises`, `NoOrphan` and
`IsTripLog` with the timeout job taken apart beside both ingests, which run `race_ingest`
checks for batches without odometer values.

## 6. Not modelled

Most of the code is not a protocol: the web frontend and its build scripts, import and
export formats, PDF reports, analytics, CRUD for fuel, tolls, insurance, taxes, warranties,
look-ups of remote services, authentication. Such a request is one transaction that
reads a form and writes a row; a model of it would restate it. That is also why the
share of the repository's lines these modules stand for is small. Of reminders only
the low-tread one is modelled; their notifications are a candidate that is left: a due-date sweep with a notified stamp,
of which the alert cooldown (see *hazards*) is the interesting part; so is the
latest-value table with its de-duplication.

## 7. Plan

Done: `DriveSession`, `TripLog`, `IngestRace`, `TorqueSession`, `SdBackfill`,
`MigrationRunner`, the tires with their odometer records, and the proofs of section 5. In
order of importance, what is left:

1. the timeout job among the racing transactions, as a theorem: an invariant that tells
   which rows a job's stale copy may still write;
2. `SdBackfill` with several rows of one instant and the refresh of aggregates;
3. `distance_on_tire` and `project_wear` against reference definitions;
4. the other reminders and the notification stamps.
