# A TLA+ model of bvg-3d-transit-radar

This directory specifies, model-checks (TLC) and proves properties of (TLAPS)
the parts of the program where order, failure and time decide whether it is
right. Paths such as `realtime/websocket.py` are relative to `src/bvg_radar/`;
`frontend/` is `frontend/src/`.

## The system

The server polls a GTFS-Realtime feed, estimates vehicle positions in PostGIS,
and pushes one complete snapshot per accepted feed version to WebSocket peers.
A React page shows the last snapshot and says whether it is fresh. A command
line tool installs the static GTFS schedule. A read API and a journey planner
answer HTTP requests.

```
 upstream feed --HTTP, ETag--> source --> worker --publish()--> hub --send_json--> browser hook
                                           |  \                  ^
                                 estimator |   \ recorder        | connect / wait / disconnect
                                   (PostGIS)    (analytics SQL)  WebSocket handler

 static GTFS archive --validate--> staging --swap under lock, journal--> data directory + manifest
```

### Inventory

| Component | State it keeps | Operations | What makes it correct |
|---|---|---|---|
| Position hub, `realtime/websocket.py` | `_connections` with a send lock and an event each, `_latest_snapshot`, `_publish_lock` | `connect`, `disconnect`, `wait_until_disconnected`, `publish` | one send at a time per peer; publication order; no registered peer misses the retained snapshot; a dead peer holds up nobody and is evicted |
| WebSocket handler and lifespan, `server.py` | the coroutine, its receive and eviction tasks | serve, close, cancel | however it ends: no task, registration or unfed open socket is left |
| Ingestion worker, `realtime/worker.py` | `_pending_cycle` | `run_once`, `run_forever`, analytics call | the one cycle in hand is never lost, reordered, re-stamped or counted twice, nor retried for ever |
| Feed source, `realtime/source.py` | `_etag` | `fetch` | a 304 never hides a version nobody saw |
| Static GTFS swap, `static_gtfs.py` | lock file, journal, directory, manifest, backup and failed paths | swap, recovery | directory and manifest change together, whatever fails or is killed |
| Frontend connection hook, `frontend/realtime/useEstimatedVehiclePositions.ts`, `connectionPolicy.ts` | socket, two timers, attempt counter, connection state | connect, events, reconnect, re-render, unmount | one live socket; nothing of another endpoint; stale data is said to be stale |
| Normalisation and contracts, `realtime/normalization.py`, `models.py`, `contracts.py` | none | pure conversions and checks | what is accepted at one place is accepted at the next, up to the screen |
| Position estimator, `realtime/postgis.py` and the interpolation migrations | the results of earlier chunks | `estimate_many` | chunks, limit and the rewritten query change no position |
| Analytics, `realtime/analytics.py` and the `route_punctuality` migrations | cycle ids, windows, daily table, ranking | record, refresh, purge | a cycle is counted once, wholly; a rollup is never torn or set back |
| Static update, `static_gtfs.py`, `static_gtfs_cli.py` | archive, staging directory, manifest | download, validate, extract, gate, swap, clean up | only what was validated is installed; the exit status does not claim or hide an installation; nothing temporary stays |
| GTFS compatibility gate, `gtfs_compatibility.py` | none | report, policy | the report is about the feed as a whole, not about the order of its entities |
| Journey planner, `planning/local_gtfs.py` | loaded files, labels of a search | load, direct and earliest query | no better journey exists than the one returned |
| Route path cache and path endpoint, `api/cache.py`, `api/routes.py` | bounded map with expiry | get, set | bounded; no answer outlives its time |
| Receivers of snapshots, `websocket_client.py`, `frontend/realtime/vehiclePositions.ts` | none | parse | they accept what the worker publishes |
| Other read endpoints, metrics, command line tools, map and panels | - | queries, rendering | - |

The same list, with what is left out and why, is in `PROJECT.json`
("components"); "hazards" there lists at its line what is hard to test.

### Behaviours that are hard

* Concurrency in the server is asyncio: coroutines interleave at awaits. The
  hub's `connect()` and `publish()` race for registration, replay and the same
  socket; a handler races eviction, departure and cancellation.
* Failure: a send or a port may fail after it took effect; a timeout races a
  late answer; the updater may be killed between two renames, and so may its
  recovery.
* Ordering: overlapping `publish()` calls; retries of an old cycle while the
  feed moves on; events of sockets the page has given up.
* Time: the freshness of data under late timers and a wall clock that steps.
* Transactions: analytics calls repeat and overlap under READ COMMITTED, where
  each statement sees other commits.
* Agreement: the same values are checked by normalisation, worker, database,
  contracts and two receivers, each in its own words. What one lets through and
  the next refuses blocks ingestion or blanks the screen.
* Search: dominance of labels, transfer rules and restricted stops interact.

## Modules

| Module | Models | Correspondence |
|---|---|---|
| `SnapshotFeed` | what the hub promises (abstract) | latest snapshot; each viewer sees increasing snapshots, none older than the one retained when it joined |
| `PositionHub` | `websocket.py`, every method | one step = the code between two suspension points |
| `PositionServer` | `_serve_position_websocket` EXTENDS the hub | handler steps conjoined with hub steps |
| `IngestionWorker` | `worker.py` over `source.py`, with the lifespan's cancellation and a restart | `pc` = what `run_forever` awaits |
| `SnapshotStore` | what the updater promises (abstract) | one active pair, replaced as a whole by a validated one |
| `StaticSwap` | `_swap_staged_snapshot`, `_recover_interrupted_swap`, the lock | one step = one system call that changes the disk, or one decision |
| `VehicleFeedClient` | the hook over `connectionPolicy.ts` | one step = one browser task |
| `TripUpdates` | `normalization.py`, `models.py`, the worker's `validate_snapshot_timestamps` | operators on a decoded feed |
| `PositionEstimate` | the batch function of the last interpolation migration and the single one it replaced, `vehicle_category.py` | operators; a row is a choice of stops, times and evidence |
| `SnapshotContract` | `contracts.py` and the two receivers | operators on a snapshot |
| `FeedCycle` | the data of `run_once`, `estimate_many` | one step = one chunk, or one decision of the worker |
| `RouteObservations` | `analytics.py` and the SQL checks, grouping and ranking of its rows | operators |
| `RouteAnalytics` | the SQL functions as concurrent transactions | one step = one SQL statement, or the wait for a row lock |
| `ReadApi` EXTENDS it | `api/cache.py`, `get_route_path` | one step = the code between two suspension points |
| `ArchiveStaging`, `CompatibilityGate` | extraction and validation of an archive; the comparison of feed and schedule | operators, the loops over members and entities as recursive functions |
| `StaticUpdate` | `cli_main` with what it calls | one step = one effect on files or one check; the swap is one step (`StaticSwap` has its inside) |
| `ScheduleFiles` | the loaders of `local_gtfs.py` | operators on the rows of the files |
| `JourneySearch` | both queries of the planner | one step = one label popped from the heap |
| `PositionServerProofs` (with those of the hub), `IngestionWorkerProofs`, `StaticSwapProofs`, `StaticUpdateProofs`, `RouteAnalyticsProofs`, `VehicleFeedClientProofs`, `FeedCycleProofs`, `JourneySearchProofs` | theorems about the module of that name | see "Theorems" |
| `MC...` | instances for TLC | inputs, scenarios, symmetry |

How they compose: `PositionServer` is the handlers over `PositionHub`, which
implements `SnapshotFeed`; `FeedCycle` is `TripUpdates`, `PositionEstimate`,
`SnapshotContract` and `RouteObservations` in a row, the data of the cycle
whose retries and crashes are in `IngestionWorker`; `RouteAnalytics` receives
its rows; `StaticUpdate` is `ArchiveStaging` and `CompatibilityGate` around a
swap that `StaticSwap` shows to implement `SnapshotStore`; `ReadApi` answers from the same database.

Definitions whose comment starts with "Mutant" are plausible bugs. No specification uses them; substituting one for
the definition it follows must break the property named in `PROJECT.json`.

### Abstractions, and why they are faithful

**Hub.** `_connections_lock` guards only code that never suspends, so it is
never contended and has no variable. `asyncio.Lock` is FIFO: `NextInLine`. A
socket is accepted once, so "registered with this same state" is membership in
`connections`. A snapshot is the number of its `publish()` call. Timers are
nondeterministic: a `wait_for` may expire at any moment of the operation it
covers, the wait for the send lock included. A failed or expired send may have
reached the peer. `cut` is a history variable: the last fan-out was cancelled,
which the program does only when the worker is cancelled at shutdown; promises
about the end of a fan-out are made for fan-outs that end.

**Handler.** A departure seen by `receive_task` and an eviction seen by
`eviction_task` finish independently; `asyncio.wait` wakes the handler later,
possibly with both. `accept()` fails in `ConnectRaised` with one of the two
exceptions that the handler catches; any other one ends the handler as a
cancellation does, without a close, and is part of `CancelConnecting`. `HandlerStep` is what the loop runs; requests, departures
and cancellation are the environment's.

**Worker.** Every await may end in success, in failure before its effect or in
failure after it. A feed version has one of five kinds of content (no trip to
estimate, no observed delay, delays, undecodable, contract-breaking). The
upstream may leave out the ETag or ignore `If-None-Match` until `MaxExtra`
cycles were accepted. `cycle_id` is the pair of version and `observed_at` it is
derived from. `published` and `recorded` are per process; that a repeated call
after a restart counts nothing twice is `RouteAnalytics`. `max_positions` is in `FeedCycle`. The server's wall
clock, which stamps `observed_at`, is taken not to be set back: the order of
`observed_at` in `PublishesInOrder` depends on it, that of the cycles' numbers
and versions does not.

**Swap.** A rename and the journal's write (temporary file, fsync, replace)
are atomic; `rmtree` is not, and may leave `Partial`. Any call may raise
OSError, and the process may be killed before any. `FaultContexts` says in
which phases faults may strike. Staging directories that a killed run leaves
behind are not modelled: no later run looks at them. `InstalledPair` is the
pair as a recovery sees it. On the disk of finding 2 that is the backup, which
exists although every recovery refuses to put it back: the refinement says that
no half-new pair ever counts as installed, not that a recovery gets that far,
which is `RecoveryNeverRefuses`.

**Client.** A re-render and its effects are two steps, and socket events may
come in between. `setTimeout` runs on monotonic time and may be late,
`Date.now()` is a wall clock that may be set back `MaxStepsBack` times. The
length of the reconnect delay is abstracted: its timer may fire at any time.
The effects that follow a valid message run with it. A handler's writes to the
state are guarded twice as in the code: its socket must be the hook's, and the
state's endpoint the one the socket was constructed for. An invalid message only
counts in `rejectedMessages`, which nothing depends on, so it is no step. The documentation lists a
transport status `closed`; the hook never produces it, and `TypeOK` says so.

**Feed cycle.** Times are small numbers: a day has `DayLength` instants, and
the ranges of `datetime`, of INTEGER and of the offset from a service day are
constants in the order they have in the code. An optional field that is not set is
`Absent`. `UtcOffset` is a constant: on the two days a year when Berlin changes
its clock, scheduled times are wall clock in the SQL, and that is not modelled.
Geometry is left out: a point follows from the fractions of two stops, and a shape that
gives none is a trip without `geometry`. Both SQL functions share `RowOf`, as
they choose the segment in the same words; they differ in how they find the
update of a stop, which is what is compared. A trip that dwells between arrival and
departure of a stop has no position, and two service days of one trip number
become one position: the code does so, and the model with it.

**Analytics.** A sum is represented by how often it counts each cycle. A
transaction sees what is committed when a statement starts and what it wrote
itself; it waits for the writer of a row, and then goes on from the row's
committed version; a deadlock, a lost connection or a time-out is `Abort`. A
commit whose answer is lost is a call that comes again.

**Read API.** A request suspends only at the database. Work that is due runs
before the clock moves on, so a query lasts at most its timeout. The lists of
routes and stops and the daily punctuality are single stateless queries.

**Static update.** A file is its content and its owner; an archive is its
members, with declared and actual sizes and what their CSV says. Errors and
kills strike at any step that can raise. Ctrl-C cancels what `asyncio.run` runs:
whatever the update has done, returned or raised by then, the run cleans up and
ends with the exit `interrupted` (`Interrupt`); one that strikes the clean-up
itself is a kill. An exception that `cli_main` does not catch has Python's
exit status, 1. Texts of reports and manifests are left out. Two runs of the command overlap and share the archive's path when both keep it.

**Planner.** A cell of a CSV file is its decoded value, `Blank` or `Garbled`.
Names and headsigns are left out. The loader accepts an arrival after its departure,
with which labels would leave the heap out of order: `EarliestIsBest` has the
premise `Timely`. It also accepts a trip that comes to its next stop before it has
left the last; the search does not ride on there, and the direct scan does, so
`DirectAgreesWithEarliest` has the premise `Forward` too. The reference that a
journey is compared with is every sequence of rides in which no part of a trip is
ridden twice. That one trip may be ridden twice, on different parts, matters: on a
schedule in which no time passes (`Standing`) the search returns such a journey, the
only one there is. The files do not change under a planner.

## Runs

Deadlock is checked in `cycle`, which never stops. In the others every
component may stop (the bound on inputs is used up, or the process was
stopped), so their configurations switch it off.

| Run | Bounds | What it shows |
|---|---|---|
| `server` | 2 sockets, 3 publications | hub and handlers together: refinement of `SnapshotFeed`, every snapshot handed to a peer newer than all before it, up-to-date registry; no orphan registration, no zombie peer, no close under a send; fan-outs, queued publications and replays end, failed peers are released |
| `worker` | 3 feed versions, 2 clock values, 1 extra cycle, 1 restart | pending cycle, ETag, order, analytics at most once; the last version is shown |
| `cycle` | over 400 feeds, 6 instants, chunks of 2, limit 1 or none | what normalisation accepts is published, shown and counted; a position is the one its trip alone would have |
| `readside` | 2 sessions, 5 cycles, up to 5 calls; 3 requests, 1 import, 1 cache entry | nothing counted twice within the retention, no torn rollup or ranking, daily table never goes back; no answer outlives its time |
| `swap` | 2 updaters, 4 candidates, 3 faults anywhere | refinement of `SnapshotStore`; who reports success has its own candidate in place, and who reports success or a restored snapshot leaves no journal and no artifact (which pair was restored is finding 1); recoveries refuse only what another fault in a recovery left |
| `update` | feeds of up to 3 entities, 2 runs, an error or kill at any step | only representative candidates are installed, reports are exact, exit statuses tell what `ExitCodeIsTruthful` says (1 is an incompatible candidate or an exception that escaped: finding 5), extraction is bounded, nothing temporary stays |
| `journeys` | small schedules with each feature and each defect, one in which no time passes, every query | the search returns an unbeaten journey, agrees with the direct scan, uses shortest walks, and ends; accepted schedules are whole: offsets, routes, ends of transfers and of pathways |
| `client` | 3 URLs (one invalid), 3 sockets, 1 step back | one live socket, no mix-up of endpoints, the client never gives up, backoff, freshness |
| `swap_restored`, `swap_stuck`, `client_clock`, `update_race` | small | the findings below |

Why these bounds are enough for what they are asked. Three publications are
one retained, one under way and one queued; two sockets are one that replays
or fails and one that is sent to, and handlers never touch each other's
sockets. Three feed
versions let the feed move on twice while a cycle is pending; the restart
covers the loss of everything in memory. Three faults are a failed swap, a
failed or killed recovery of it and one more in the next; the fourth candidate is the run that meets what
those left. Three WebSockets are one given up that still delivers, one
that fails and one that lives. Two stop updates on a trip that visits one stop
twice are every pair of by-sequence, by-stop, both and neither, in both orders;
three entities are a trip named twice with a chunk boundary between them. Two
sessions are one that holds a row and one that waits for it; a third would
wait behind them. A cache of one entry makes every second route evict. The
planner's schedules have five trips, three of them with stops on one day, which is two transfers.

`readside` has one scenario of database calls or of requests per behaviour:
they share no state, and `MCNext` holds the clock of the part that is not
asked. The invariants of the proofs (`IInv`, `ServerIInv`, `AnalyticsIInv`,
`DerivedIInv`, `ApiIInv`, `ClientIInv`, `UpdateIInv`, `KeeperIInv`, `ArchiveIInv`,
`StruckInv`, `CycleIInv`, `PlannerIInv`, `SearchInv`) were checked by TLC while
they were found and are proved now, so no run repeats them.

## Fairness

* Hub and handler: weak fairness for timers that were started (`wait_for`
  around the replay and around each send, the wait for the lock included), for
  coroutines that are ready and for the hand-over of a released lock. None for
  peers, for `accept()` (it has no timeout), for callers or for cancellation.
  So "every fan-out ends" holds although no peer ever has to take a byte.
* Worker: weak fairness for its own steps, as every call is under a timeout
  (aiohttp, asyncpg, the recorder's) and `run_forever` survives any exception.
  Strong fairness for a successful fetch, estimate and publication: a port that
  is tried again and again does not fail for ever. That is the assumption the
  worker's own comment makes ("Extension ports may fail transiently"). The
  built-in estimator port can raise `ValueError` deterministically, for which
  the assumption is false. The model cannot rule that out for a row that answers
  another update, or one update twice: in `PositionEstimate` a row is about the
  update it is computed from.
* Planner: weak fairness of the search, which is a loop without awaits.
* The others: only safety is stated.

## Theorems

All are for every value of the constants, from the named assumptions of the
modules (bounds are naturals, intervals are positive, scenarios consist of the
entities and members their types describe, `Absent`, `Partial` and `NoOne` are not
what they stand against). None of the properties is inductive alone; each module
of proofs states the strengthening, `IInv` or a name that ends in it, as a
conjunction of named parts. TLC agreed before they were proved. The proofs have one lemma per group of actions
and one step per action. Type correctness is only stated as a theorem.

**Hub** (in `PositionServerProofs`): type, mutual exclusion of sends, the up-to-date
registry, the forgetting of failed sockets, the delivery order and the
refinement of `SnapshotFeed`. `IInv` is `TypeOK`, `FailedIsForgotten` and

* `LockInv`: who holds a send lock is determined by where the coroutines of
  its socket stand - mutual exclusion follows;
* `QueueInv`: waiting publications are newer than the retained one, and the
  one under way is the retained one - order across publications follows;
* `SeenInv`: what a peer has seen is not newer than what is retained, and is
  older than what a pending send will hand it - order per peer follows;
* `CurrentInv`: a registered socket has the retained snapshot, or its replay
  or a task of the current fan-out still owes it, or that task failed and
  the fan-out's end will evict it - "no missed snapshot" follows when the
  fan-out is over.

**Handlers over the hub** (in the same module). First, every step of the
composition is a step of the hub or leaves it alone (`StepOfTheHub`), hence
`ServerSpec => Spec`: the handlers call `connect()` and `disconnect()` only as
the hub allows, and everything proved of the hub, the abstract feed included,
holds under them. Then `HandlerInv` relates where a handler stands to its
socket's place in the hub: a serving handler's socket finished `connect()`; a
finished eviction watch or a closed socket means that the socket is out of the
registry; and a socket evicted under a serving handler has no task of a
fan-out left, which is why closing it never cuts off a send. From it follow
`NoOrphanTask`, `NoHandlerNoRegistration`, `NoZombiePeer` and
`NoCloseDuringSend`.

**Worker** (`IngestionWorkerProofs`): type, `ETagIsAccountedFor`,
`RecordsOncePublished`, `PendingIsNeverDropped`, `PublishesInOrder`.
`RecordInv` adds that a cycle being recorded was published and that recorded
cycles come before the pending one (otherwise a retry could record it twice);
`OrderInv` that the pending cycle is the newest accepted and that the one
published last is it or precedes it in number, version and time.

**Swap** (`StaticSwapProofs`): type with "only the lock's holder works",
`NoLeftovers` and the refinement of `SnapshotStore`, for any number of
updaters, candidates and faults. The parts of `IInv` say what an updater that
is killed at any moment leaves: `DiskInv` relates disk and journal and does not
mention who is running, so it survives a kill; `RecoveryInv` says what a
recovery has put back when it stands at each removal; `SwapInv` which renames a
swap has behind it at each stage; `CandidateInv` that candidates were
validated. The refinement holds because every rename, in a swap or a recovery,
keeps `InstalledPair`, and only the write of the journal's `committed`
changes it. Two parts more give what runs report: `ContextInv`, what a run may be
doing in each context, and `NothingIsLost`, that what a swap found is in place or in
its backup until the swap commits. `ReportsAreTrue` follows from them at the
three steps that report. It says of an installation that it is the run's own, and
of a restored snapshot only that nothing is left to recover; it says nothing of
refusals. `RecoveriesRefuseOnlyTheirOwn` is about the
fault history of `MCStaticSwap`, which the module extends: by `StruckInv`, as
long as faults strike swaps only, what a rollback has moved to the failed paths is
still being cleaned up by the run that moved it, so no other run finds it.

**Static update** (`StaticUpdateProofs`): any number of runs of the command line
tool, archives, feeds and offers. `UpdateIInv` is the types and `LeftInv` (what a
run has written and not removed, it is still about, or could not remove:
`NothingLeftBehind`), `ProblemInv` (what it will report is decided by what it has
met), `CandidateInv` and `InstalledInv` (what a candidate has passed at each stage,
and that what is installed has passed all: `InstalledIsRepresentative`).
`ManifestNamesItsArchive` and `ExitCodeIsTruthful` are proved under `OneKeeper`, at
most one of the runs keeps its archive: `KeeperIInv` then says that what a run has
hashed is what it unpacks, and that who met an exception that escapes had an archive
or a feed that raises it and has installed nothing. Without `OneKeeper` they are false, which is finding 4.
The gate and the extraction are loops over data: `ReportsAreExact` (the counters
are what the feed as a whole says) and `ExtractionsAreBounded` are proved by a
loop invariant over the positions, induction being the least position at which
it would fail. `ArchiveIInv` brings them to the archives that were offered.

**Analytics** (`RouteAnalyticsProofs`): `CyclesCountedOnce` and
`WindowsAreWhole`, for any number of sessions, calls and cycles. What an open
transaction wrote is not in the tables yet, so `AnalyticsIInv` says what it
holds: `PurgeInv`, that it purges ids outside the retention only; `InsertInv`,
that it inserted an id that is new, or that it purges itself; `UpsertInv`, that
the rows it wrote are the stored ones with its cycle added, all of them when it
commits; `ApartInv`, that no two transactions inserted one id or wrote one row.
`CountInv` says of the tables that a counted cycle has its id recorded or is out
of the retention: that is why a repeated record that finds its id missing may
count again only then.

The tables that refreshes rebuild need `DerivedIInv` beside it. `RowsInv` is about
every set of rows that is stored or that an open transaction has selected and will
store: it is a whole rollup or an ordered ranking, the windows have only moved on
from it, and two of one day have a key in common, so that two inserts always
collide. `RebuildInv` says what a rebuild may hold at each stage, and `ReplaceInv`
that who has deleted a day's rows, or inserts into an empty day, is alone in it,
and that who deleted rows will insert ones that count no less. `RollupsAreWhole`
and `DailyNeverGoesBack` follow at the commit. The rollup is the sum over windows
of `RollUp`, where `AboutInv` (a window counts only cycles that have its group) leaves
one window per cycle and group; the positions of a ranking are 1, 2, ... because
they count the predecessors in a strict total order (`SortKey`, compared field by
field), by induction over how many come before.

**Path endpoint** (in the same module): `ApiIInv` says of the cache that it is a
map of at most `MaxEntries` routes, and of each item, each query under way and
each answer that its version was the route's no longer ago than its times allow
(`Recent`). `ServedIsRecent` follows: a query keeps its version for at most its
timeout, and the item's life starts when it is stored, not when it is hit.

**Client** (`VehicleFeedClientProofs`): all six of its safety properties, for
any endpoints, number of sockets and sequence of events. `ClientIInv` adds to the
types, `OneLiveSocket` and `NeverDisconnectedForGood` (inductive only together)
`ConnectionInv`, that the hook's socket lives and is of the mounted endpoint, and
that a reconnect is scheduled only without one; `StateInv`, that what is shown is
of the state's endpoint; and `TimerInv`, that unless the wall clock was set back
the freshness timer runs until the oldest time it stands for is too old.
`SilentIsStale` says that after `staleAfterMs` without a valid snapshot, with no
freshness timer pending, nothing is shown as fresh; `BackoffSurvivesOpen` what a step
may not do.

**Feed cycle** (`FeedCycleProofs`): for every feed whatsoever, what the
normalisation accepts passes the worker's own check (`NormalisedIsSound`, and
of the whole cycle `NormalisedFeedsPassTheCheck`); for every schedule, update
and time, the batch query's row is one that the function for a single trip may
give (`BatchAgreesWithSingle`), whichever of several equally good stop updates
its LIMIT 1 meets first. `CycleIInv` follows the estimates through the chunks:
`TraceInv` says that they are those of some places of the list of updates, in
order, up to the offset, and that no place with a row is missing unless the limit
cut them. From it and lemmas on every sorting and filtering between the query and
the screen follow `AcceptedFeedsAreShown` and `ShownAsEstimatedAlone`, for any
feeds, schedules, chunk sizes and limits. The assumptions they need are named where
the constants are declared: a delay is an int32, which the protobuf bindings ensure;
the imported schedule names what it has and its times are less than 1000 hours from
their day, which its loader checks; a value that is not set is none of the texts;
and the present is so far from the year 9999 that no delay leaves the range of
`datetime`.

**Planner** (`JourneySearchProofs`): all four of its safety properties, for any
directories and any sequence of queries. The one assumption is that a file that can
be read is a sequence of rows.

* `PlannerIInv`: the files before the one whose turn it is have passed their
  loaders, and offsets are those of an accepted stop_times. `AcceptedScheduleIsWhole`
  follows: every trip has its route, transfers are between known stops with
  platforms, pathways between known stops that are neither stations nor marked
  `stop_access=1`; and that the offsets cut stop_times into the trips' own rows is an
  induction over its order, by the least row out of place.
* Walks: the search over the pathways is Dijkstra's. Its invariant (`IsSearched`)
  holds along the iteration: settled stops are no later than open ones and have been
  gone on from, and each stop's time is that of a pathway from an earlier stop;
  every iteration settles a stop, so the last has settled all
  (`WalksAreShortest`).
* `SearchInv`, the invariant of the search: `LabelsInv`, every label is a ride along
  an active trip, boarded at the origin or reached by a change from an earlier
  label; `BestInv`, each state's best label is as good as every label of it, and
  of two labels of a state the later one is better; `SettledInv`, whatever best label is
  out of the heap has been gone on from, so that what can be reached from it is covered
  by labels as good.
* From it two arguments meet. As long as some journey has not been beaten, the heap
  holds a label that costs no more than it (`JourneyIsOpen`: walk along the journey to
  the first event that is not settled); so when the least label arrives, nothing
  is better (`FoundIsBest`), and when the heap is empty, there was no journey. And the legs
  of every label are a journey to its event at its cost (`LegsAreWay`,
  `FoundIsJourney`); that no part is ridden twice follows from `BestInv`.
* `JourneysAre` ties these sequences of rides, which need no recursion and no bound,
  to the reference `Journeys` that TLC enumerates; a journey has no more rides than
  there are events, as each ends at another one. `EarliestIsBest` follows for every
  schedule that is `Timely`.
* `DirectAgreesWithEarliest`: on a schedule that is also `Forward` a direct ride is a
  journey, and the best ride of a trip exists, by the least of each part of its key.

Model-checked only: all liveness (fairness and ENABLED are outside the proof
system). Recursive functions (the reference of the planner, the legs of a label, the
walks, the loops of the gate) are proved about by exhibiting a function that satisfies
the defining equation, for every size by the least one without it, and by least
counterexamples along it, since the library's induction theorems cannot be used.

## Findings

1. `swap_restored`: if removing the backup or the journal fails after the
   journal says `committed`, the swap is complete, but the run raises "previous
   snapshot restored" (`static_gtfs.py:811`; `README.md:263`).
2. `swap_stuck`: a recovery that is interrupted after it moved the new snapshot
   to the failed path leaves a disk that every later recovery refuses
   (`static_gtfs.py:664`), although the journal is kept for them.
3. `client_clock`: if the wall clock is set back, the one freshness timer fires
   too early for it and is not set again: silent data stays fresh
   (`useEstimatedVehiclePositions.ts:173`; `README.md:101`).
4. `update_race`: an archive that is kept is read twice by its path, for its
   hash and for its members, before the update lock is taken. Another run may
   replace it in between, and a snapshot is installed under the hash of another
   archive (`static_gtfs.py:855`; `docs/local-environment.md:124`).
5. `update`: a member that does not decompress (`zlib.error`) and a feed timestamp
   beyond the range of `datetime` raise what `cli_main` does not catch
   (`static_gtfs_cli.py:259`). The exception passes `raise SystemExit(cli_main())`
   (`scripts/update_vbb_gtfs_static.py:8`), and Python exits with 1, which
   `README.md:284-286` documents as "candidato válido porém incompatível"; an
   operational failure should be 2. `ExitCodeIsTruthful` therefore
   has the conjunct `Escapes`: without it, the run finds such an archive that
   exits with 1.

`RecoveriesRefuseOnlyTheirOwn` and `FreshIsRecent` show the same properties as
2 and 3 to hold without the fault or clock step that breaks them.

Disagreements without a run of their own: with `--keep-archive` the download
replaces the retained ZIP before it is validated, so a refused candidate stays
beside a snapshot it does not belong to (`static_gtfs_cli.py:203`); the terminal client refuses a
snapshot for a blank `entity_id`, which the feed may hold and the browser shows
(`websocket_client.py:127`; `AcceptedFeedsAreShown` says exactly this); and a cycle
that a retry records after its id was purged is counted again, which
`CyclesCountedOnce` allows only after the retention.

## Not modelled, and the plan

What would add most, in this order:

1. The worker composed with the hub (a cancelled `publish()` at shutdown, a
   snapshot that reaches peers before it is acknowledged).
2. The schedule as a variable: an import between two chunks of a cycle, or
   between two loads of the planner's files. Nothing in the code promises one
   schedule per snapshot; a property needs such a promise first.
3. Daylight saving in the estimator, with the two functions' conversions.

Every safety property of a passing run is proved. What proofs could still add is a
bound on the labels of a search (each improves on the rank of its state), which is
what `QueriesAreAnswered` rests on.

Left out for good: the metrics dashboard (read-only queries of an external
store), the check of the local runtime (ports and executables), the import into
PostGIS (one transaction), the lists of the read API (stateless queries),
rendering, dry runs and benchmarks (sequential I/O), geometry, bearing and speed
of a position (PostGIS), the texts of reports, and the inner
workings of asyncio, aiohttp, asyncpg and the browser, which appear only as the
steps the code can observe.

## Running

    tlc -workers 2 -config MCPositionServer.cfg PositionServer.tla
    tlc -workers 2 -config MCFeedCycle.cfg MCFeedCycle.tla
    tlapm PositionServerProofs.tla
    tlapm JourneySearchProofs.tla

and likewise for the other modules; the module and configuration of every run
are in `PROJECT.json`.
