# Bike counter: TLA+ specifications

Specifications, model-checking runs and machine-checked proofs for the backend
of this repository: a Rust service that imports bicycle counts from several
providers into PostgreSQL and serves them. All paths below are relative to
`src/backend/src/` unless they say otherwise. A reader needs the repository and
this directory; nothing else is assumed.

- `JobLifecycle` is the heart of the system: how several processes run the five
  scheduled jobs without stepping on each other.
- `SourceImport` is what the most important of those jobs does: paging through
  the channels of a data source and keeping the watermark `imported_until`. It
  implements `ImportFeed`.
- `ImportCycle` is the rest of an import, from its job to what the analytics
  read: import runs, stations, measurements and the rollups, over
  `MeasurementStore`, which implements `MaterializedView`.
- `AssetStore`, `OpenDataExport` and `TileArchive` are the files: state that is
  kept outside the database, in steps no transaction spans.

## 1. The system

### 1.1 Components

| Component | Code | State it keeps | Operations |
|---|---|---|---|
| Job tracking | `adapter/driven/postgres/job_repository.rs`, `core/domain/jobs/`, `core/application/job_heartbeat.rs`, `job_reconciliation_service.rs`, `job_service.rs`, the `run_if_due` / `execute` / `finalize` of five services, `adapter/driving/job_scheduler.rs` | tables `jobs`, `job_locks`; one heartbeat thread per running job | insert, acquire, release, heartbeat, the terminal transitions, request_cancellation, reconcile_stale_active; REST cancel |
| Source import | `core/application/data_import_service.rs`, `data_source_update_service.rs`, `adapter/driven/source_merge.rs` | `data_sources.imported_until`, `measurements`; a scanner in memory per provider | page, save, checkpoint, reset |
| Import runs | `adapter/driven/postgres/import_run_repository.rs` | table `data_source_imports` | start, progress, finish, fail, finalize orphans |
| OpenData export | `core/application/opendata_export_service.rs`, `opendata_service.rs` | table of published files, objects in S3 | publish a period in three formats, complete the newest, list, download |
| Assets | `core/application/asset_service.rs`, `asset_cleanup_service.rs`, `adapter/driven/s3_asset_storage.rs` | table `assets`, objects in S3 | store, sync bundled images, remove, clean up orphans |
| Measurement store, rollups | `adapter/driven/postgres/measurement_repository.rs`, `core/application/measurement_rollup_service.rs` | `measurements`, hourly and daily rollups, bounds per channel, the flag `backfilled` | save a batch, refresh a range, backfill, mark ready |
| Tiles | `core/application/tiles_update_service.rs`, `adapter/driven/tiles_init/` | the archive the web server serves, and its intermediates | build, swap in |
| Provider adapters | `adapter/driven/{hamburg_sta,muenster_github,leipzig_wfs,bonn_opendata,eco_counter}` | caches, scanner, readers | stations, channels, pages of measurements |
| Stations and channels, provider messages, persistent state | services of those names | one table each | upserts, appends, key-value |
| Health, BFF cache, REST, analytics, configuration, startup | `core/application/provider_health_cache.rs`, `adapter/driving/`, `main.rs` | caches | reads, mostly |
| Frontend, deployment | `src/frontend/`, `src/garage/`, `src/scripts/` | none here | none here |

### 1.2 How they interact

`main.rs` starts one scheduler per job type in every process, and a watcher. A
scheduler calls `run_if_due` in a blocking thread, once at startup and then at
each trigger of its cron expression (`adapter/driving/job_scheduler.rs`). That
looks for an active job, decides whether a run is due, and competes for the type's row in
`job_locks` (a lease, in the manner of ShedLock). The winner inserts a `jobs`
row, starts a heartbeat thread, does the work, stops the thread, finalizes the
row and releases the lock. Processes share nothing but the database (and S3 and
the tile volume). The watcher of any process may end the job of any other; so
may a client of the REST API.

The update job runs one thread per data source. A thread asks its provider for
pages (the provider's scanner decides which channel is next and what the
watermark may be), saves each page, stores the watermark, and heartbeats.

### 1.3 What is hard

- Several processes, each with a runner, a heartbeat thread and a watcher, act
  on two tables with statements that are atomic one by one and not together.
- A process dies, stalls or loses the database at any point. Leases and
  heartbeats then lapse under an owner that may still be alive.
- Cancellation has two forms (cooperative and forced), and each may come between
  any two statements of the worker.
- The import's watermark is one number for channels that progress at different
  speed; scanner, table and watermark are updated in separate steps, any of
  which may fail; and the scanner outlives the run.
- A rollup refresh is a transaction of several statements, each with a snapshot
  of its own, beside imports that commit between them; the backfill, the
  scheduled refresh and the one after an import overlap.
- Objects in S3 and archives on disk are written before or after the rows that
  describe them. A crash, another build of the program, the cleanup job or a
  second worker (after a force-cancel) may come in between.

### 1.4 What makes each component correct

- Job tracking: one owner of a type at a time while leases are kept; a terminal
  row never changes; the lock is freed with its job and only then; nothing
  blocks a type for ever.
- Source import: the watermark never passes a record that is not stored; every
  run ends; what is published is imported by some run.
- Import runs: each ends in the state its import had.
- OpenData: a published file never changes, every complete period with data is
  published in all its formats, and these agree.
- Assets: no row without its object; an object without a row goes away.
- Rollups: ready means that the rollups cover the history, and they go on
  covering it.
- Tiles: the archive served is always complete.

`PROJECT.json` lists under `hazards` the lines where these could go wrong, and
which property guards each.

## 2. Modules

| Module | What it is |
|---|---|
| `JobHistory` | Abstract specification: the jobs table as a history of status changes |
| `JobLifecycle` | The protocol of one job type: tables, runners, heartbeat threads, watchers, cancellation; implements `JobHistory` |
| `ImportFeed` | Abstract specification: what the import of a source promises to those who read its table and its row |
| `SourceImport` | The import of one data source by several processes; implements `ImportFeed` |
| `MaterializedView` | Abstract specification: what the rollups promise, a finer one and a coarser one |
| `MeasurementStore` | Measurements, rollups, bounds and readiness, statement by statement; implements `MaterializedView` |
| `ImportCycle` | EXTENDS `MeasurementStore` with its callers: import jobs and their workers, the rollup job, the watcher; implements `MeasurementStore` |
| `AssetStore` | Images: bucket, table, links of stations |
| `FileRegistry` | Abstract specification: what the registry of published files promises |
| `OpenDataExport` | Periods of measurements, published as files; implements `FileRegistry` |
| `TileArchive` | The basemap |
| `*Proofs` | Theorems about the module they are named after |
| `MC*` | Instances for TLC. `MCFiles` holds the export and the basemap, which share nothing |

### 2.1 JobLifecycle

Every statement of the repository is filtered by job type or job id, so the five
types do not meet in these tables. The model is about one type; `Init` chooses
it from `JobTypes`, because a few details depend on it:

- `tiles_update` and `measurement_rollup` check for a cancellation after their
  work once more (`finalize_after_update`); the others read the status in
  `finalize`. `Rechecks` tells them apart.
- `opendata_export` is not among the types the watcher covers
  (`heartbeat_intervals`).

State and code:

| Variable | Code |
|---|---|
| `status`, `instance`, `fresh` | columns `status`, `instance_id`, and whether `heartbeat_at` is younger than the type's interval |
| `locked_by`, `expired` | the `job_locks` row, and whether `lock_until` has passed |
| `pc`, `job`, `outcome` | where `run_if_due` / `execute` / `finalize` is, its job, the result of its work |
| `call` | which of its three statements the runner's own `heartbeat` call has reached |
| `beat` | the same for the heartbeat thread of a job |
| `sweeping` | processes whose watcher is between the two statements of `reconcile_stale_active` |
| `dead`, `faults`, `panics` | crashes, failed calls, unwound workers so far |
| `lapsed` | history: a lease ran out under a live holder |

An action is one SQL statement, or one transaction where the code has one, with
the control flow around it. `heartbeat` is three actions, and a watcher pass is
two. A restarted process has a new `instance_id`, so it is another member of
`Instances`; a crashed one never returns. Time is two bits: a heartbeat is fresh
or not, a lease runs or not. Both may lapse at any time, which covers every
schedule and every clock, and every choice of interval.

A panic leaves the row RUNNING and its heartbeat thread alive, since `stop` is
not called when `execute` unwinds.

### 2.2 SourceImport

A record is a channel and a timestamp. `published` is what the provider has,
`saved` is the measurements table, and per process there is the worker (`pc`,
`from`, `batch`) and the scanner (`anchor`, `order`, `next`, `last_real`,
`done`). `seen` and `lost` are history: the records that were in reach of the
scanner's pages, and those of pages whose save failed.

Paging follows `muenster_github/adapter.rs`, the richest of the adapters: a page
is cut by a time window and by a row budget, and a gap wider than the window is
skipped with a cursor that is no record's. The other adapters that use the
scanner page by rows only (the case of a window that is never the limit). A run
takes its anchor from the row (`Start`), syncs stations and channels, which may
fail (`SyncFails`), and with its first page request seeds the scanner unless that
still has the same anchor (`Request`).
`Fetch` takes any channel that is not exhausted where the code takes them in
turn.

The watermark is modelled as the code computes it and not as its comment
describes it. `SourceScanner::watermark` folds over a `HashMap` with

    Some(current) if current < real => current,
    Some(current) => current,
    None => real,

so it keeps the first value whatever follows. The model therefore has the
iteration order of the map as a variable (`order`), chosen when a scanner is
seeded.

Neither lock nor job is assumed: any number of processes may import the source
at once, which is what `JobLifecycle` shows can happen after a force-cancel or a
lapsed lease. A process has one scanner per source and one run at a time.
Publishing is append-only per channel. That is the provider's side; a channel
that publishes late, relative to others, is included.

`ImportFeed` sees of this the records the provider serves, the table, the
watermark, and who has a run from which anchor. Pages, scanners and cursors are
hidden: a step of a run is to save records that are served, to move the
watermark to the time of one of them past the anchor of that run, or to end.
Two runs at once may move the watermark back, and the abstract specification
lets them: each only promises to go past its own anchor.

Left out here: what the sync of stations and channels writes (the channel list
is constant) and what follows the paging, which is in `ImportCycle`; `last_updated`
and the measurement bounds of the source, which no step reads; the deadline
(`None` in the only call); equal timestamps in one channel; Hamburg's concurrent
readers.

### 2.3 MeasurementStore and MaterializedView

A measurement is its channel and its timestamp, the natural key; rows are never
rewritten, so a value adds nothing. A bucket is told by the rows its total
counts, and `hourly` and `daily` are the unions of the buckets. An hour is one
timestamp. `Calendar` gives the local day of a timestamp for each channel's
station; all that is assumed of it is that days follow each other and that
`Margin` reaches into another day (`ROLLUP_REFRESH_MARGIN_HOURS` is more than a
day and an offset).

`refresh_rollups` is one transaction at READ COMMITTED: `RefreshHours` (advisory
lock and hourly statement), `RefreshDays`, `RefreshCommit` (bounds statement and
commit) or `RefreshRollback`. Each statement reads the rows committed when it
starts; what it wrote shows at the commit. `UpsertDays` is `ON CONFLICT DO
UPDATE`: a bucket that has rows in the refreshed range is replaced, any other is
left. `MeasurementBounds` and `ChannelBounds` are the two reads that prefer the
stored bounds.

`MaterializedView` is the promise: the rollups count rows of the table and no
others, forget none, and the finer one counts nothing that the coarser one leaves
out. `hourly` is the finer one, `daily` the coarser. An open refresh is invisible
to it; a commit is its `Refresh`.

### 2.4 ImportCycle

| Variable | Code |
|---|---|
| `job` | the aggregate jobs: active or terminal (how they get there is `JobLifecycle`) |
| `run`, `facts` | `data_source_imports`: status and counters per job and source |
| `station` | `counting_stations.status`; absent before the provider first serves it |
| `wpc`, `from`, `run_rows`, `outcome` | `update_one_source` and its locals |
| `rpc`, `cursor`, `upto`, `full`, `succeeded` | `MeasurementRollupService` |
| `checked`, `unrolled`, `cut_off` | history, see the properties |

A worker goes through `BeginImport`, `SyncStations`, any number of
`ImportBatch`, `MarkStale`, its refresh, and `CloseRun`; each has its failures,
and a cancellation is found after a batch. The stale check comes before the
refresh, as in the code, and reads the bounds as they were. `ForceTerminal` ends
the job under its workers; a new job waits for them here, since two imports of a
source at once are `SourceImport`'s subject. The rollup job has a backfill until
the rollups are ready and a recent window afterwards, both in chunks.
`Crash` ends all threads and open transactions and leaves the tables; `WatchJob`
and `ReapRuns` then do what the watcher does.

Pages are abstracted: a page is any set of measurements behind the anchor (the
comparison is strict, `source_merge.rs:26`), of stations the provider has
served. A checkpoint is the time of any measurement there is behind the anchor,
as it need not be that of a record of the same page. Both are choices of the
model and no property here is about the watermark: how scanner and cursors find
it is `SourceImport`'s subject.

The stale check goes station by station, and one of its updates may fail with
some stations written (`MarkStaleFails`). It decides on the bounds of the last
refresh, so that a station whose current measurements came with this very run
may be retired by it.

### 2.5 AssetStore

An object and a row are a key and the hash of the bytes; `link` and
`image_sha256` are the columns of a station. A starting process goes through
`sync_builtin_images`: look, put, save per bundled image, then list and remove
(row first, object second). An importer goes through `sync_station_image` and
`store_provider_image`; its last step saves the station, whose link is a foreign
key. The cleanup lists objects, then rows, and deletes the difference one by one.
Each may stop anywhere. `raced` remembers keys whose upload and deletion
overlapped, `torn` builtin keys with an upload cut short or shared by two builds.

### 2.6 OpenDataExport

A measurement is a station and a day; the content of a file is the set of
measurements it was generated from, which is also its hash. `files` is the
registry, `bucket` the objects. An exporter walks through the series (a
granularity, and all stations or one) in the code's order; for each it takes the
complete periods after the newest registered one (`ExportScope`), keeps those
with measurements (`AvailablePeriods`) and drops those another exporter has
reached by then (`SkipPublished`), three reads at different times; it exports them
oldest first (`NextPeriod`), then completes the newest (`CompleteNewest`). A
period's rows are read once; for each format it looks, puts and inserts. The
insert of a key that exists fails, and the run with it (`ExportStops`, which also
stands for cancellation and crash at any point). Meanwhile measurements arrive,
for past days too, stations become active or not, and days pass. To `FileRegistry` this is a map from files
to contents that only grows: the bucket, the exporters and their walk are
hidden. `cut` remembers periods whose export did
not come to its end, `shared` files uploaded by two exporters at once, `crowded`
periods two exporters were at, and `overlapped` whether the latest run began
beside another; a run that begins alone resets it.

### 2.7 TileArchive

A file is the set of upstream builds its tiles come from, and whether it is
whole. A builder goes through the CLI cache, the source, three extracts with
three attempts each, the merge, and (the job) the rename; the command merges into
the archive itself. Files have fixed names in one directory, so builders that
meet write each other's. What a failure removes is what `update` removes; a death
removes nothing. Upstream publishes builds and prunes old ones. An extract from a
build that was pruned while it ran may succeed in the model, which covers what
the code may do and more.

## 3. Runs

| Run | Expect | Question |
|---|---|---|
| `JobLifecycle` | pass | Are lock, jobs table and owner consistent in every interleaving? |
| `JobLifecycleLive` | pass | Does every crash and failed call leave the type runnable again? |
| `UnwatchedExport` | violation | The same for the type the watcher does not list |
| `SourceImport` | pass | Do pages, gaps, failures, crashes and resets leave records out, or move the watermark wrongly? |
| `SourceImportOne` | pass | With one channel: is the watermark's promise kept by two concurrent processes, and does every run end? |
| `Watermark` | violation | With two channels: does a page's watermark cover unread records? |
| `SourceStuck` | violation | Is what the provider publishes imported at all? |
| `ImportCycle` | pass | Do rollups, bounds, readiness, stations and import runs stay right while imports, refreshes, backfill and watcher interleave and fail? |
| `BackfillComplete` | violation | Does a finished backfill cover the history? |
| `Assets` | pass | Do bucket, table and links stay together over starts of two builds, imports and the cleanup, cut short anywhere? |
| `Files` | pass | Are published files final, whole and consistent; is the served basemap whole, of one build, and built? |
| `PartialPeriod` | violation | Does a run that ends leave no period partially published? |

### 3.1 Properties of the passing runs

`LeaseExclusive`: two runners never own the type at once, as long as no lease ran
out under a live holder. `LockOutlivesItsJob`: nothing but a takeover of an
expired lease takes the lock from a runner that still owns the type; the deletes
that go with terminal transitions are scoped by instance, not by job, and could
hit a newer lock. `OneActivePerInstance` is why they do not. `NoAbandonedRunning`:
without failed calls and panics, each RUNNING job of a live process has its
runner. `StatusProtocol`: the table implements `JobHistory`.
`TypeRunnableAgain`: again and again no job is active and the lock can be had.

`NothingSkipped`: no cursor and no last record is past a record in reach that no
page returned. `FinishedRunIsComplete`: a run that has read all its channels has
everything that was in its reach in the table, but for pages whose save failed;
so a watermark that is ahead of a channel costs records only when the run is
interrupted. `FeedProtocol`: the import implements `ImportFeed`. Among other
things, a synthetic cursor never becomes the watermark, and a checkpoint is past
the anchor of its run. `EverythingImported`: everything up to the watermark is
in the table. `RunEnds`: each run ends, over every gap.

`RollupViews`: the store implements `MaterializedView`; that the hour charts
count nothing the daily totals leave out needs the order of the two statements
and the snapshots they read. `BoundsEncloseRollups`: bounds are timestamps of
rows, and enclose what is counted.
`BackfilledHistory`: once the rollups are ready, each measurement is counted, or
belongs to a run under way, or is one of two known losses: its run ended without
its refresh (`unrolled`), or it lay outside the bounds of the backfill that made
the rollups ready (`cut_off`). `ActiveIsCurrent`: a station that is active after the check of its
source had a recent measurement. `RetiredIsUncounted`, its counterpart: a station
the check retires has no recent measurement that a refresh has counted, and once
the rollups are ready the uncounted ones are of a run whose refresh is still to
come, or of the two losses; overlapping refreshes never narrow the bounds it
reads. `EndedRunsStay`: an ended run keeps its status
and counters, also from a worker that outlives its job. `RunsEnd`: no run is
shown as running for ever.

`DanglingOnlyByRace`: a row without its object comes only from an upload and a
deletion of that key at the same time; no crash makes one. `BytesMatchRow`: the
bytes served under a hash have it, but for the named cases. `HashHasLink`: a
station that remembers an image shows it, else no import would fetch it again.
`OrphansGo`: an object without a row is deleted or gets one.

`ServedAsRegistered`: the object of a registered file keeps the registered
content. `FormatsAgree`: the formats of a period say the same.
`RegistryProtocol`: the export implements `FileRegistry`: a file is registered
once and for good, after its period, from measurements of that period that are in
the table, and never from none.
`WholePeriods`: a period has all its formats, unless it is being exported or was
cut short. `RunHealsNewest`: whatever earlier runs left behind, when a run that
is alone comes to the single stations, the newest period of every series of all
stations has all its formats. `ServedWhole`: the web server never has half an archive, unless a
command has yet to finish it in place (or was stopped before it did, until a build
comes to its end) or two builders met. `OneSource`: an archive is of one
build. `BasemapBuilt`: a missing one is built in the end.

The exceptions these name are the windows the code leaves open, each with a line
of its own under the hazards of `PROJECT.json`; a history variable records when
one was met, so that nothing else passes for it.

### 3.2 Bounds

Two processes and two jobs: the shortest stories in which the lock moves from one
owner to a second and back meet all the actions, and a third process adds no
statement they could not make. One crash, one failed call and one panic may each
happen at any point. The liveness run has one job, two faults, and no panic: with
a panic the property is false (the thread keeps the abandoned job fresh), which
is listed as a hazard.

Two channels and three timestamps, a window of one and a page of one record: a
window with a record in and one beyond it, a gap, a page cut short, a channel
ahead of another, an exhausted channel that publishes again. One process there,
because scanners are private and the processes meet only in `saved` and in
`imported_until`; the run with one channel has two. Symmetry is used in runs
without liveness.

`ImportCycle`: ticks of half a day, six of them; two channels of two stations in
two time zones, whose local days begin half a day apart; one source, one job
(`MaxJobs`), a fault or cancellation anywhere (`MaxFaults`), one measurement that
may be older than the rollups and two new ones. The margin is longer than a day,
the chunk is shorter than the history. A measurement is stale when it is not of
the same tick (`Stale` is 0), so that of two new ones, one before the last tick
and one at it, a check meets none, one or both as current. One worker and the
rollup job are enough to contend for the advisory lock, as a refresh by another
worker is the same statements.

`Assets` explores two parts, each with the cleanup, which is cut short once
(`MaxStops`): two processes of different builds, one of which does not bundle the
second image any more; and a process beside the import of a station's image.
`Files` explores the export with one exporter while days pass and the month ends
(`MaxDay` three days in two months), with one exporter while stations come and
go, and with two exporters; and the basemap with the job alone and two upstream
builds (`MaxBuild`), the job beside the command, and two jobs. Two failures or
deaths (`MaxTileFaults`) let a death meet what an earlier one left. Two formats
stand for the three: a period with some and not all of them.

### 3.3 Fairness

`JobLifecycle`: the runner's statements return, work ends and the heartbeat
thread is joined, the watcher ticks on a live process (every 30 seconds), and a
heartbeat with no thread behind it, or a lease with no holder, gets old by the
clock. Work and join have strong fairness, as they are disabled while the
runner's own heartbeat call or the thread is between statements. Crashes,
errors, panics and clients are not fair. `SourceImport`: a due run starts,
and its sync, reading, saving and checkpointing return. `ImportCycle`: the threads run, a
provider's pages end, the advisory lock is granted to one who keeps asking
(strong fairness of the refresh), and the watcher passes again. `Assets`: the
cleanup job is scheduled again. `Files`: the tiles job is, at once when there is
no archive. Crashes, failures, resets, cancellations and publishing are not fair. In
`SourceImport` a cancellation (the second disjunct of `Checkpoint`) may come
after every page.

### 3.4 What the violations show

- `UnwatchedExport`: `heartbeat_intervals` leaves out `opendata_export`. A crash
  while exporting leaves a RUNNING row no one ends; no export runs again until
  the job is cancelled by hand.
- `Watermark`: see 2.2. The watermark may be ahead of a channel; if the run is
  interrupted then, the next one starts past records that nobody has read.
- `SourceStuck`: a run that finds nothing new leaves the anchor as it was and the
  scanner exhausted. The next run matches it and reads nothing, and so do all
  runs until the process restarts (or somebody resets the watermark). The
  counterexample needs neither crash nor failure: the property excludes both.
- `BackfillComplete`: `measurement_bounds` takes the bounds aggregate as soon as
  it has a row. A refresh after an import writes one for the imported days; a
  first backfill after that covers only those days and marks the rollups ready.
  The analytics then read rollups without the history before them. No import is
  needed for it: a backfill that stops after its first chunk has stored the
  bounds of that chunk, and its retry sweeps those and no more, although the
  comment says that a failed backfill is retried (`measurement_rollup_service.rs`,
  lines 173 to 175).
- `PartialPeriod`: a run stops between two formats of a day. The next run comes
  after a later day has ended, skips the partial one because it is not newer than
  the newest, publishes the later one, and completes that. The first day keeps
  its missing format for ever.

Three more surprises are hazards without a run of their own. Both stages of
`reconcile_stale_active` use one cutoff in one call, so a pass of the watcher may
take a job from RUNNING to CANCELLED. A force-cancel frees the lock of a worker
that goes on, so two processes may import, export or build at once; that is why
no module but `JobLifecycle` assumes the lock. And the scanner moves on when a
page is read, not when it is saved: after a failed save, a run with the same
anchor keeps the scanner and the page is lost, which is why `EverythingImported`
has `CallsFail = FALSE`.

## 4. Theorems

`JobLifecycleProofs` proves, for every set of instances, jobs and types and for
every bound, from the three assumptions at the head of `JobLifecycle`:

| Theorem | Statement |
|---|---|
| `TypeCorrect` | `Spec => [](TypeOK /\ HasJob)` |
| `OwnershipCorrect` | `Spec => []Ownership` |
| `LeaseIsExclusive` | `Spec => []LeaseExclusive` |
| `LockOutlives` | `Spec => LockOutlivesItsJob` |
| `OneActive` | `Spec => []OneActivePerInstance` |
| `NoAbandoned` | `Spec => []NoAbandonedRunning` |
| `Refinement` | `Spec => StatusProtocol` (`JobLifecycle` implements `JobHistory`) |

The argument. `HasJob` (a runner past its insert has a job, and that job was
born) makes the type invariant inductive. `Ownership` says that an active job
belongs to the runner working on it, or to an instance that has left it; the
terminal transitions free a lock by instance, and this is why they never free
that of another job. `LeaseStep` sums up what any step may do to lock and
holders (`LeaseEffect`). From it follow `LockOutlivesItsJob` at once, and
exclusion through `LockBacksHolder`: unless a lease lapsed, each holder has the
lock row. One lemma per invariant goes through the actions, with a
frame lemma for those that touch nothing it mentions.

`SourceImportProofs` proves, for every finite set of channels, every set of
processes, every bound on time, every window of at least one unit and every page
of at least one record (the assumptions at the head of `SourceImport`):

| Theorem | Statement |
|---|---|
| `ImportTypes` | `Spec => []TypeOK` |
| `NothingIsSkipped` | `Spec => []NothingSkipped` |
| `FeedRefinement` | `Spec => FeedProtocol` (`SourceImport` implements `ImportFeed`) |
| `FinishedRunsAreComplete` | `Spec => []FinishedRunIsComplete` |
| `OnlySlowChannelsMiss` | `Spec => []MissedIsBehind` |
| `OneChannelIsSafe` | with one channel, `Spec => []SafeWatermark` |
| `OneChannelIsComplete` | with one channel and no failed calls, `Spec => []EverythingImported` |

The argument. Lemmas about the operators come first: what the least and the
greatest timestamp of a set are (by the well-founded order of finite sets, as
nothing can be proved here by induction with a predicate), that a page is an
initial part of its window, that neither the last record nor the next cursor of
a page is past a record the page left out, and that a watermark is some
channel's last record. `Scanned` strengthens `NothingSkipped`: the cursor of a
channel that is not exhausted is never behind its last record. `RealMarks` adds
that what a checkpoint is about to store is a record, `Anchored` that a running
process works with a scanner seeded with its own anchor and that every last
record is past it, and `PagesServed` that a page holds records the provider has.
From these each step maps to a step of `ImportFeed` or to a stutter. `Finished`
says that nothing is left of an exhausted channel and that after the last page
all channels are exhausted.

`SafeWatermark`, which the run `Watermark` refutes, is what `provider_port.rs`
says of the watermark of a page. `OnlySlowChannelsMiss` delimits how it fails: a
record that a checkpoint leaves out is, failed saves aside, of a channel that
still has data and whose last record is behind the watermark. There is no such
channel when there is only one, which is `OneChannelIsSafe`.

`OneChannelIsComplete` is the promise of `imported_until` under the conditions
it needs. Its invariant, `Complete`, says of the stored watermark, each anchor,
each last record and each cursor that everything before it is in the table or in
the page at hand; a record published later is past all of them, because none is
ahead of what the channel has published. Both conditions are needed: the
run `Watermark` shows where two channels break it, and 3.4 says what a failed
save does.

`MeasurementStoreProofs` and `ImportCycleProofs`, for every calendar, margin,
chunk, set of channels, stations and sources, and number of jobs and faults (the
assumptions in the two modules):

| Theorem | Statement |
|---|---|
| `StoreTypes` | `StoreSpec => []StoreTypeOK` |
| `RollupsAreViews` | `StoreSpec => RollupViews` (`MeasurementStore` implements `MaterializedView`) |
| `BoundsAreReal` | `StoreSpec => []BoundsEncloseRollups` |
| `CycleTypes` | `Spec => []TypeOK` |
| `CycleImplementsStore` | `Spec => StoreSpec` |
| `CycleKeepsRollups` | `Spec => RollupViews /\ []BoundsEncloseRollups` |
| `RetirementsAreUncounted` | `Spec => RetiredIsUncounted` |
| `EndedRunsAreFinal` | `Spec => EndedRunsStay` |
| `ActiveStationsAreCurrent` | `Spec => []ActiveIsCurrent` |
| `BackfilledIsCounted` | `Spec => []BackfilledHistory` |
| `FirstBackfillIsComplete` | `Spec /\ BackfillFirst => []BackfillComplete` |

The argument. The store is proved about once, with callers that may ask for any
range at any time; `CycleImplementsStore` then carries its theorems over. The
invariant of the store is `RefreshInv`. An open refresh has the lock
(`LockHeld`); what its statements wrote lies in its range and the daily
statement saw what the hourly one had (`ScansNested`); and of a day it writes,
it took in all that the rollup counts (`DaysWhole`), which is what makes
overwriting a bucket harmless. `DaysWhole` needs that only whole local days are
refreshed and that no other refresh commits in between, which is what the margin,
the interior filter and the advisory lock are for. `TxShut` adds that a crash,
which rolls back every transaction at once, is a step of the store.

`CycleInv` holds the types together with what the program counters say of the
locals, `RunsInv` that a job which has not started has no runs, so that no run is
recorded twice. `HistoryInv` carries `BackfilledHistory`: a transaction belongs
to the thread that refreshes and has the range of its caller (`CallerOfTx`), the
daily statement of a worker took in the rows it processed (`ScanComplete`), and
what the backfill has left behind is counted (`BackfillSwept`). That the rows of
a range lie strictly inside its expansion is a lemma about `Calendar`.
`RetirementsAreUncounted` comes from both invariants: stored bounds enclose what
is counted, so a station with a counted current measurement has current data for
the check (`CountedIsCurrent`); the rest is what `BackfilledHistory` leaves
uncounted.

`BackfillComplete`, the promise of `execute_full`, is what the run of that name
refutes. `FirstBackfillIsComplete` says that the bounds are all there is to it:
in every history in which a backfill that starts before the rollups are ready
finds no stored bounds, with imports, refreshes, failures and crashes in any
order otherwise, the promise is kept. `BackfillFirst` is about the behaviour and
not about a constant; it is the case that `execute_full` was written for, an
installation with its history in place and no rollups yet, as long as no import
has refreshed before the backfill and the backfill does not stop on its way.

`AssetStoreProofs`, for every set of processes, builds, images and importers:

| Theorem | Statement |
|---|---|
| `AssetTypes` | `AssetSpec => []AssetTypeOK` |
| `RowsKeepTheirObjects` | `AssetSpec => []DanglingOnlyByRace` |
| `RowsMatchBytes` | `AssetSpec => []BytesMatchRow` |
| `HashesHaveLinks` | `AssetSpec => []HashHasLink` |

`PlacesOK` says which images the actors are at. `RaceInv` says that whoever is
about to save a row has its object, and whoever is about to delete an object
finds no row, unless the key has raced. `ContentInv` says that an image of a
provider has its own hash for content, and that an upload of a builtin image is
still there when its row is saved, unless it is torn.

`OpenDataExportProofs`, for every number of exporters, stations, days and formats
and every monotone assignment of days to months:

| Theorem | Statement |
|---|---|
| `ExportTypes` | `ExportSpec => []ExportTypeOK` |
| `PeriodsAreWhole` | `ExportSpec => []WholePeriods` |
| `FilesAreServed` | `ExportSpec => []ServedAsRegistered` |
| `FormatsSayTheSame` | `ExportSpec => []FormatsAgree` |
| `RegistryRefinement` | `ExportSpec => RegistryProtocol` (`OpenDataExport` implements `FileRegistry`) |
| `PublishedIsOver` | `ExportSpec => []OnlyClosedPeriods` |
| `NewestIsHealed` | `ExportSpec => []RunHealsNewest` |
| `UndisturbedRuns` | `ExportSpec /\ [](cut = {} /\ ~overlapped) => RunCompletesPeriods` |

One lemma sums up what any step may do to the files of a period; the invariants
rest on it. `WholeInv`: the formats before the one an exporter is at are
published. `ServedInv`: what an exporter has uploaded is still there when it
registers it. `FormatsInv`: at a period that is nobody else's, an exporter finds
all formats, or the registered ones are from the rows it read. `ClosedInv`: what
is to be exported was over when the exporter came to it. `ContentInv`: the rows
an exporter read are measurements of its period, and there are some. With these
two, the insert that succeeds is a `Register` of the registry, and all else that
an exporter does is invisible there.

`HealInv` carries `RunHealsNewest`. Of a run that is alone it says (`Healing`)
that the others are idle; that a series of all stations which the run has left
behind is whole at its newest period, and that none is left when the stations
come; and for the series it is at, where in it the run is (`AtScope`): which
periods are still to come, and that what it has exported since is whole. It needs
`FilledInv`, as the newest period is only completed when there are rows for it:
a registered file was generated from measurements, and these are kept.
`UndisturbedRuns` delimits what the run `PartialPeriod` shows: without runs that
were cut short or began beside one another, no run leaves a period partially
published.

`TileArchiveProofs`, for every number of jobs, commands, upstream builds and
faults:

| Theorem | Statement |
|---|---|
| `TileTypes` | `TileSpec => []TileTypeOK` |
| `ArchivesAreWhole` | `TileSpec => []ServedWhole` |
| `ArchivesHaveOneSource` | `TileSpec => []OneSource` |

`SoloInv`: while no two builders have met, one is at work at a time, the bands
before the one it is at are whole and from its source.

What is only model-checked: liveness (`TypeRunnableAgain`, `RunEnds`, `RunsEnd`,
`OrphansGo`, `BasemapBuilt`), as the prover does not reason about fairness. Every
other property of a passing run is a theorem. They matter beyond the runs: a
second job in `ImportCycle`, for one, is more than TLC can go through, and the
theorems hold for any number.

## 5. Not modelled

- The parsing, fetching and caching of the adapters: input and conversion, by far
  the largest part of the code. What they share, the paging and its scanner, is
  in `SourceImport`. The readers of Hamburg that page several fields at once are
  the part of it that could still be added.
- Analytics, listings, downloads, HTTP handlers and caches, health: reads. They
  change nothing the models hold. The analytics' choice between rollups and raw
  rows is the flag `ready`.
- Configuration, startup checks, wiring: sequential, once per process.
- `jobs.metadata`, provider messages, persistent state: written by single
  statements and read by no protocol.
- An import thread that panics: its run stays RUNNING until the job ends, which
  `WorkerFails` shows by a failing call.
- The time zone of a station changing: the rollups keep the buckets of the old
  local days. `Calendar` is a constant; the hazard is listed.
- A station's external id that two sources share: the lookup is not scoped by
  source, so one would rename the other's station. Sources have their stations
  to themselves in the model.

These parts are most of the lines of the repository, so the map covers a modest
share of them; it covers nearly all statements that change shared state.

## 6. Running

Each configuration goes with the module named in `PROJECT.json`:

    tlc -config MCJobLifecycle.cfg MCJobLifecycle.tla        # also MCJobLifecycleLive, MCUnwatchedExport
    tlc -config MCSourceImport.cfg MCSourceImport.tla        # also MCSourceImportOne, MCWatermark, MCSourceStuck
    tlc -config MCImportCycle.cfg MCImportCycle.tla          # also MCBackfillComplete
    tlc -config MCAssets.cfg MCAssets.tla
    tlc -config MCFiles.cfg MCFiles.tla                      # also MCPartialPeriod
    tlapm JobLifecycleProofs.tla                             # and the six other *Proofs.tla

The largest run, `JobLifecycle`, has about a million states.
