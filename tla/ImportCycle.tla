----------------------------- MODULE ImportCycle -----------------------------
(***************************************************************************)
(* An import from its job to what the analytics see: the aggregate job     *)
(* starts one worker per data source; a worker records an import run,      *)
(* syncs the stations, saves pages of measurements, retires the stations   *)
(* without current data, refreshes the rollups and closes its run.  The    *)
(* rollup job backfills and refreshes the same rollups meanwhile, and the  *)
(* watcher closes the runs that terminal jobs left behind.                 *)
(*                                                                         *)
(* Pages and watermarks are abstracted to what SourceImport shows of them; *)
(* the lock and the rows of the jobs are JobLifecycle's.                   *)
(***************************************************************************)
EXTENDS MeasurementStore

CONSTANTS
  Sources,
  Stations,
  StationOf,    \* the station of a channel
  SourceOf,     \* the data source of a station
  History,      \* measurements imported before there were rollups
  Published,    \* measurements the providers have, once their time has come
  Today,        \* the time the process starts at
  Chunk,        \* ROLLUP_REFRESH_CHUNK_DAYS
  Recent,       \* ROLLUP_REFRESH_DAYS
  Stale,        \* STALE_STATION_AFTER_HOURS
  Slack,        \* the minute added on both sides of a range
  MaxJobs,      \* bound: import jobs
  MaxFaults,    \* bound: failures, cancellations and crashes
  RollupJob     \* the thread of the rollup job

ASSUME CycleAssumption ==
  /\ Refreshers = Sources \cup {RollupJob} /\ RollupJob \notin Sources
  /\ StationOf \in [Channels -> Stations]
  /\ SourceOf \in [Stations -> Sources]
  /\ History \subseteq Rows /\ Published \subseteq Rows
  /\ {Today, Chunk, Recent, Stale, Slack, MaxJobs, MaxFaults} \subseteq Nat
  /\ Chunk > 0 /\ Recent <= Reach /\ 0 < Slack /\ Slack <= Reach /\ Today <= MaxTime

VARIABLES
  now,
  faults,
  station,          \* counting_stations.status
  imported_until,   \* data_sources.imported_until
  job,              \* the aggregate jobs, in the order they start
  run,              \* data_source_imports: the run of each job and source
  facts,            \* the counters of that run
  wpc,              \* the worker of each source
  from,             \*   the anchor of its run
  run_rows,         \*   the rows it processed
  outcome,          \*   what its import returned
  rpc,              \* the rollup job
  cursor,           \*   where its next chunk starts
  upto,             \*   where its range ends
  full,             \*   whether it is the backfill
  succeeded,        \* a rollup job has FINISHED
  checked,          \* history: when a source's stations were last checked
  unrolled,         \* history: rows whose run ended without its refresh
  cut_off           \* history: rows outside the bounds the first backfill went by

workerVars == <<wpc, from, run_rows, outcome>>
rollupVars == <<rpc, cursor, upto, full, succeeded, cut_off>>
runVars == <<job, run, facts>>
cycleVars == <<now, faults, station, imported_until, runVars, workerVars,
               rollupVars, checked, unrolled>>
vars == <<storeVars, cycleVars>>

-----------------------------------------------------------------------------

JobIds == 1 .. MaxJobs
Never == 0 - 1

StationsOf(s) == {st \in Stations : SourceOf[st] = s}
ChannelsOf(st) == {c \in Channels : StationOf[c] = st}
SourceOfRow(r) == SourceOf[StationOf[r[1]]]

\* The job whose workers run.
Current == CHOOSE k \in JobIds :
             job[k] # "none" /\ \A l \in JobIds : l > k => job[l] = "none"

Started == \E k \in JobIds : job[k] # "none"

Fault == faults < MaxFaults /\ faults' = faults + 1

Goto(s, label) == wpc' = [wpc EXCEPT ![s] = label]

\* The worker's thread returns; its locals are gone.
Return(s) ==
  /\ Goto(s, "done")
  /\ from' = [from EXCEPT ![s] = Never]
  /\ run_rows' = [run_rows EXCEPT ![s] = {}]
  /\ outcome' = [outcome EXCEPT ![s] = "none"]

\* Each run is told by its job and its source; only a RUNNING one is written.
SetRun(s, status) ==
  run' = IF run[Current][s] = "RUNNING"
         THEN [run EXCEPT ![Current][s] = status] ELSE run

\* Mutation: the final counters can be overwritten by a late report.
SetFactsAlways(s, f) == facts' = [facts EXCEPT ![Current][s] = f]

SetFacts(s, f) ==
  facts' = IF run[Current][s] = "RUNNING"
           THEN [facts EXCEPT ![Current][s] = f] ELSE facts

\* record_live_progress: throttled, and a failing report is only logged.
LiveFacts(s) == SetFacts(s, "live") \/ UNCHANGED facts

-----------------------------------------------------------------------------

Init ==
  /\ StoreInit
  /\ raw \in SUBSET History
  /\ now = Today
  /\ faults = 0
  /\ station = [st \in Stations |-> "absent"]
  /\ imported_until = [s \in Sources |-> Never]
  /\ job = [k \in JobIds |-> "none"]
  /\ run = [k \in JobIds |-> [s \in Sources |-> "none"]]
  /\ facts = [k \in JobIds |-> [s \in Sources |-> "zero"]]
  /\ wpc = [s \in Sources |-> "idle"]
  /\ from = [s \in Sources |-> Never]
  /\ run_rows = [s \in Sources |-> {}]
  /\ outcome = [s \in Sources |-> "none"]
  /\ rpc = "idle" /\ cursor = 0 /\ upto = 0 /\ full = FALSE /\ succeeded = FALSE
  /\ checked = [s \in Sources |-> Never]
  /\ unrolled = {} /\ cut_off = {}

-----------------------------------------------------------------------------
(* The aggregate job                                                        *)

\* One blocking thread per source (run_updates).
StartJob ==
  /\ \A s \in Sources : wpc[s] = "idle"
  /\ \A k \in JobIds : job[k] # "active"
  /\ \E k \in JobIds :
       /\ job[k] = "none" /\ \A l \in JobIds : l < k => job[l] # "none"
       /\ job' = [job EXCEPT ![k] = "active"]
  /\ wpc' = [s \in Sources |-> "start"]
  /\ UNCHANGED <<storeVars, now, faults, station, imported_until, run, facts,
                 from, run_rows, outcome, rollupVars, checked, unrolled>>

\* All workers joined: the job is finalized, whatever it is by now.
EndJob ==
  /\ Started /\ \A s \in Sources : wpc[s] = "done"
  /\ job' = [job EXCEPT ![Current] = "terminal"]
  /\ wpc' = [s \in Sources |-> "idle"]
  /\ UNCHANGED <<storeVars, now, faults, station, imported_until, run, facts,
                 from, run_rows, outcome, rollupVars, checked, unrolled>>

\* A force-cancellation, or the watcher's verdict on a stalled heartbeat: the
\* job is terminal while its workers go on.
ForceTerminal ==
  /\ Started /\ job[Current] = "active"
  /\ \E s \in Sources : wpc[s] # "idle"
  /\ Fault
  /\ job' = [job EXCEPT ![Current] = "terminal"]
  /\ UNCHANGED <<storeVars, now, station, imported_until, run, facts,
                 workerVars, rollupVars, checked, unrolled>>

\* After a crash the watcher gives the stale job its terminal status.
WatchJob ==
  /\ Started /\ job[Current] = "active"
  /\ \A s \in Sources : wpc[s] = "idle"
  /\ job' = [job EXCEPT ![Current] = "terminal"]
  /\ UNCHANGED <<storeVars, now, faults, station, imported_until, run, facts,
                 workerVars, rollupVars, checked, unrolled>>

\* Mutation: the runs of the newest job are left out.
OrphanedEarlier(k, s) == run[k][s] = "RUNNING" /\ job[k] = "terminal" /\ k # Current

Orphaned(k, s) == run[k][s] = "RUNNING" /\ job[k] = "terminal"

\* finalize_orphaned_running: every orphan in one statement.
ReapRuns ==
  /\ \E k \in JobIds, s \in Sources : Orphaned(k, s)
  /\ run' = [k \in JobIds |-> [s \in Sources |->
               IF Orphaned(k, s) THEN "FINISHED" ELSE run[k][s]]]
  /\ UNCHANGED <<storeVars, now, faults, station, imported_until, job, facts,
                 workerVars, rollupVars, checked, unrolled>>

-----------------------------------------------------------------------------
(* A worker (update_one_source)                                             *)

\* The anchor is read and the run recorded; a failing insert is only logged.
BeginImport(s) ==
  /\ wpc[s] = "start"
  /\ from' = [from EXCEPT ![s] = imported_until[s]]
  /\ run_rows' = [run_rows EXCEPT ![s] = {}]
  /\ outcome' = [outcome EXCEPT ![s] = "none"]
  /\ \/ /\ run' = [run EXCEPT ![Current][s] = "RUNNING"]
        /\ UNCHANGED faults
     \/ Fault /\ UNCHANGED run
  /\ Goto(s, "stations")
  /\ UNCHANGED <<storeVars, now, station, imported_until, job, facts,
                 rollupVars, checked, unrolled>>

\* The provider's stations are active, the others of the source inactive.
Synced(s, served) ==
  [st \in Stations |->
     CASE SourceOf[st] = s /\ st \in served -> "active"
       [] SourceOf[st] = s /\ st \notin served /\ station[st] = "active" -> "inactive"
       [] OTHER -> station[st]]

\* sync_counting_stations, then sync_channels.
SyncStations(s) ==
  /\ wpc[s] = "stations"
  /\ \E served \in SUBSET StationsOf(s) : station' = Synced(s, served)
  /\ checked' = [checked EXCEPT ![s] = Never]
  /\ LiveFacts(s)
  /\ Goto(s, "import")
  /\ UNCHANGED <<storeVars, now, faults, imported_until, job, run, from,
                 run_rows, outcome, rollupVars, unrolled>>

\* A provider or repository call of the sync fails: some rows are written.
SyncFails(s) ==
  /\ wpc[s] = "stations"
  /\ Fault
  /\ \E served \in SUBSET StationsOf(s), written \in SUBSET StationsOf(s) :
       station' = [st \in Stations |-> IF st \in written THEN Synced(s, served)[st]
                                       ELSE station[st]]
  /\ checked' = [checked EXCEPT ![s] = Never]
  /\ outcome' = [outcome EXCEPT ![s] = "error"]
  /\ Goto(s, "close")
  /\ UNCHANGED <<storeVars, now, imported_until, runVars, from, run_rows,
                 rollupVars, unrolled>>

\* What a page may hold: what the provider has by now, behind the run's anchor;
\* channels that exist are those of stations it has served before.
Available(s) ==
  {r \in Published : /\ SourceOfRow(r) = s /\ from[s] < r[2] /\ r[2] <= now
                     /\ station[StationOf[r[1]]] # "absent"}

\* The page is saved and its watermark checkpointed.
Processed(s, page) ==
  /\ SaveBatch(page)
  /\ run_rows' = [run_rows EXCEPT ![s] = @ \cup page]

\* Mutation: the watermark is set behind the newest measurement.
CheckpointBehind(s) ==
  \E w \in {imported_until[s]} \cup {r[2] + 1 : r \in Available(s)} :
    imported_until' = [imported_until EXCEPT ![s] = w]

\* The watermark of the page, which may be that of a measurement of an earlier
\* page: SourceImport shows which one.
Checkpoint(s) ==
  \E w \in {imported_until[s]} \cup {r[2] : r \in Available(s)} :
    imported_until' = [imported_until EXCEPT ![s] = w]

ImportBatch(s) ==
  /\ wpc[s] = "import"
  /\ \E page \in SUBSET Available(s) : Processed(s, page)
  /\ Checkpoint(s)
  /\ LiveFacts(s)
  /\ \E more \in BOOLEAN : Goto(s, IF more THEN "import" ELSE "stale")
  /\ UNCHANGED <<now, faults, station, job, run, from, outcome, rollupVars,
                 checked, unrolled>>

\* The heartbeat after a batch finds the cancellation: nothing is refreshed.
BatchCancelled(s) ==
  /\ wpc[s] = "import"
  /\ Fault
  /\ \E page \in SUBSET Available(s) : Processed(s, page)
  /\ Checkpoint(s)
  /\ unrolled' = unrolled \cup run_rows'[s]
  /\ outcome' = [outcome EXCEPT ![s] = "cancelled"]
  /\ Goto(s, "close")
  /\ UNCHANGED <<now, station, runVars, from, rollupVars, checked>>

\* A call fails while a page is read, saved channel by channel, or checkpointed.
BatchFails(s) ==
  /\ wpc[s] = "import"
  /\ Fault
  /\ \E page \in SUBSET Available(s) : Processed(s, page)
  /\ unrolled' = unrolled \cup run_rows'[s]
  /\ outcome' = [outcome EXCEPT ![s] = "error"]
  /\ Goto(s, "close")
  /\ UNCHANGED <<now, station, imported_until, runVars, from, rollupVars, checked>>

\* Mutation: a station without any measurement passes for current.
HasCurrentDataEmpty(st) ==
  \A c \in ChannelsOf(st) : \/ ChannelBounds(c) = NoBounds
                            \/ ChannelBounds(c).last >= now - Stale

HasCurrentData(st) ==
  \E c \in ChannelsOf(st) : ChannelBounds(c) # NoBounds
                            /\ ChannelBounds(c).last >= now - Stale

\* The stations of a source that the check has come to.
Retired(reached) ==
  [st \in Stations |->
     IF st \in reached /\ station[st] = "active" /\ ~HasCurrentData(st)
     THEN "inactive" ELSE station[st]]

\* mark_stale_stations_inactive: before the refresh, so it reads the bounds
\* as they were before this run.
MarkStale(s) ==
  /\ wpc[s] = "stale"
  /\ station' = Retired(StationsOf(s))
  /\ checked' = [checked EXCEPT ![s] = now]
  /\ IF run_rows[s] = {}
     THEN /\ Goto(s, "close")
          /\ outcome' = [outcome EXCEPT ![s] = "ok"]
     ELSE Goto(s, "refresh") /\ UNCHANGED outcome
  /\ UNCHANGED <<storeVars, now, faults, imported_until, runVars, from,
                 run_rows, rollupVars, unrolled>>

\* A read or an update fails: some of the stations are written.
MarkStaleFails(s) ==
  /\ wpc[s] = "stale"
  /\ Fault
  /\ \E reached \in SUBSET StationsOf(s) : station' = Retired(reached)
  /\ unrolled' = unrolled \cup run_rows[s]
  /\ outcome' = [outcome EXCEPT ![s] = "error"]
  /\ Goto(s, "close")
  /\ UNCHANGED <<storeVars, now, imported_until, runVars, from,
                 run_rows, rollupVars, checked>>

RunFirst(s) == Earliest({r[2] : r \in run_rows[s]}) - Slack
RunLast(s) == Latest({r[2] : r \in run_rows[s]}) + Slack

\* The run's own refresh, from its first to its last measurement.
WorkerRefresh(s) ==
  /\ wpc[s] = "refresh"
  /\ \/ RefreshHours(s, RunFirst(s), RunLast(s)) \/ RefreshDays(s)
  /\ UNCHANGED cycleVars

WorkerRefreshed(s) ==
  /\ wpc[s] = "refresh"
  /\ RefreshCommit(s)
  /\ outcome' = [outcome EXCEPT ![s] = "ok"]
  /\ Goto(s, "close")
  /\ UNCHANGED <<now, faults, station, imported_until, runVars, from, run_rows,
                 rollupVars, checked, unrolled>>

\* A refresh that fails is logged; the import counts as done.
WorkerRefreshFails(s) ==
  /\ wpc[s] = "refresh"
  /\ Fault
  /\ IF stage[s] = "none" THEN UNCHANGED storeVars ELSE RefreshRollback(s)
  /\ unrolled' = unrolled \cup run_rows[s]
  /\ outcome' = [outcome EXCEPT ![s] = "ok"]
  /\ Goto(s, "close")
  /\ UNCHANGED <<now, station, imported_until, runVars, from, run_rows,
                 rollupVars, checked>>

\* The run is closed by what the import returned.
CloseRun(s) ==
  /\ wpc[s] = "close"
  /\ SetRun(s, IF outcome[s] = "error" THEN "FAILED" ELSE "FINISHED")
  /\ IF outcome[s] = "cancelled" THEN UNCHANGED facts ELSE SetFacts(s, "final")
  /\ Return(s)
  /\ UNCHANGED <<storeVars, now, faults, station, imported_until, job,
                 rollupVars, checked, unrolled>>

\* Reading the anchor fails, before there is a run; or counting the warnings, the
\* update of the source's row or of the run does, and the run stays RUNNING.
WorkerFails(s) ==
  /\ wpc[s] \in {"start", "close"}
  /\ Fault
  /\ Return(s)
  /\ UNCHANGED <<storeVars, now, station, imported_until, runVars,
                 rollupVars, checked, unrolled>>

-----------------------------------------------------------------------------
(* The rollup job (MeasurementRollupService)                                *)

BackfillBounds == MeasurementBounds

\* The rows that the bounds leave out, because a refresh stored them.
OutsideBounds ==
  {r \in raw : r[2] < BackfillBounds.first \/ r[2] > BackfillBounds.last}

\* execute_full: until the rollups are ready, and when no job ever finished.
StartBackfill ==
  /\ rpc = "idle"
  /\ ~ready \/ ~succeeded
  /\ raw # {}
  /\ cursor' = BackfillBounds.first - Slack
  /\ upto' = BackfillBounds.last + Slack
  /\ full' = TRUE
  /\ cut_off' = IF ready THEN cut_off ELSE OutsideBounds
  /\ rpc' = "refresh"
  /\ UNCHANGED <<storeVars, now, faults, station, imported_until, runVars,
                 workerVars, succeeded, checked, unrolled>>

\* execute_recent: the self-healing window.
StartRecent ==
  /\ rpc = "idle"
  /\ ready /\ succeeded
  /\ cursor' = now - Recent
  /\ upto' = now
  /\ full' = FALSE
  /\ rpc' = "refresh"
  /\ UNCHANGED <<storeVars, now, faults, station, imported_until, runVars,
                 workerVars, succeeded, checked, unrolled, cut_off>>

RollupReturns ==
  rpc' = "idle" /\ cursor' = 0 /\ upto' = 0 /\ full' = FALSE

ChunkEnd == IF cursor + Chunk <= upto THEN cursor + Chunk ELSE upto

RollupRefresh ==
  /\ rpc = "refresh" /\ cursor < upto
  /\ RefreshHours(RollupJob, cursor, ChunkEnd) \/ RefreshDays(RollupJob)
  /\ UNCHANGED cycleVars

RollupRefreshed ==
  /\ rpc = "refresh"
  /\ RefreshCommit(RollupJob)
  /\ cursor' = ChunkEnd
  /\ UNCHANGED <<now, faults, station, imported_until, runVars, workerVars,
                 rpc, upto, full, succeeded, checked, unrolled, cut_off>>

\* A chunk fails, or a cancellation is seen between two chunks.
RollupStops ==
  /\ rpc = "refresh"
  /\ Fault
  /\ IF stage[RollupJob] = "none" THEN UNCHANGED storeVars
     ELSE RefreshRollback(RollupJob)
  /\ RollupReturns
  /\ UNCHANGED <<now, station, imported_until, runVars, workerVars,
                 succeeded, checked, unrolled, cut_off>>

\* The job is finalized: FINISHED, or CANCELLED when the request came late.
RollupFinalize ==
  /\ rpc = "refresh" /\ cursor >= upto
  /\ \/ succeeded' = TRUE /\ UNCHANGED faults
     \/ Fault /\ UNCHANGED succeeded
  /\ IF full THEN rpc' = "mark" /\ UNCHANGED <<cursor, upto, full>>
     ELSE RollupReturns
  /\ UNCHANGED <<storeVars, now, station, imported_until, runVars, workerVars,
                 checked, unrolled, cut_off>>

\* The backfill ran to its end: mark_rollups_ready, whose failure is logged.
RollupMark ==
  /\ rpc = "mark"
  /\ \/ MarkReady /\ UNCHANGED faults
     \/ Fault /\ UNCHANGED storeVars
  /\ RollupReturns
  /\ UNCHANGED <<now, station, imported_until, runVars, workerVars,
                 succeeded, checked, unrolled, cut_off>>

-----------------------------------------------------------------------------

Tick ==
  /\ now < MaxTime
  /\ now' = now + 1
  /\ UNCHANGED <<storeVars, faults, station, imported_until, runVars,
                 workerVars, rollupVars, checked, unrolled>>

InFlight ==
  UNION {run_rows[s] : s \in {t \in Sources : wpc[t] \in {"import", "stale", "refresh"}}}

\* The process dies: its threads and open transactions are gone.
Crash ==
  /\ Fault
  /\ \/ \E s \in Sources : wpc[s] # "idle"
     \/ rpc # "idle"
  /\ lock' = Nobody
  /\ stage' = [p \in Refreshers |-> "none"]
  /\ range' = [p \in Refreshers |-> <<0, 0>>]
  /\ hour_rows' = [p \in Refreshers |-> {}]
  /\ day_rows' = [p \in Refreshers |-> {}]
  /\ wpc' = [s \in Sources |-> "idle"]
  /\ from' = [s \in Sources |-> Never]
  /\ run_rows' = [s \in Sources |-> {}]
  /\ outcome' = [s \in Sources |-> "none"]
  /\ RollupReturns
  /\ unrolled' = unrolled \cup InFlight
  /\ UNCHANGED <<raw, hourly, daily, bounds, ready, now, station,
                 imported_until, runVars, succeeded, checked, cut_off>>

Worker(s) ==
  \/ BeginImport(s)
  \/ SyncStations(s) \/ SyncFails(s)
  \/ ImportBatch(s) \/ BatchCancelled(s) \/ BatchFails(s)
  \/ MarkStale(s) \/ MarkStaleFails(s)
  \/ WorkerRefresh(s) \/ WorkerRefreshed(s) \/ WorkerRefreshFails(s)
  \/ CloseRun(s) \/ WorkerFails(s)

Rollup ==
  \/ StartBackfill \/ StartRecent
  \/ RollupRefresh \/ RollupRefreshed \/ RollupStops
  \/ RollupFinalize \/ RollupMark

Next ==
  \/ StartJob \/ EndJob \/ ForceTerminal
  \/ WatchJob \/ ReapRuns
  \/ \E s \in Sources : Worker(s)
  \/ Rollup
  \/ Tick \/ Crash

Spec == Init /\ [][Next]_vars

\* The threads are scheduled and a provider's pages end; the advisory lock is
\* granted in turn; the watcher passes again and again.
Fairness ==
  /\ WF_vars(EndJob) /\ WF_vars(WatchJob) /\ WF_vars(ReapRuns)
  /\ \A s \in Sources :
       /\ WF_vars(Worker(s))
       /\ WF_vars(ImportBatch(s) /\ wpc'[s] = "stale")
       /\ SF_vars(WorkerRefresh(s))
  /\ WF_vars(RollupRefresh \/ RollupRefreshed)

FairSpec == Spec /\ Fairness

-----------------------------------------------------------------------------

TypeOK ==
  /\ StoreTypeOK
  /\ now \in Times /\ faults \in 0 .. MaxFaults
  /\ station \in [Stations -> {"absent", "active", "inactive"}]
  /\ imported_until \in [Sources -> Times \cup {Never}]
  /\ job \in [JobIds -> {"none", "active", "terminal"}]
  /\ run \in [JobIds -> [Sources -> {"none", "RUNNING", "FINISHED", "FAILED"}]]
  /\ facts \in [JobIds -> [Sources -> {"zero", "live", "final"}]]
  /\ wpc \in [Sources -> {"idle", "start", "stations", "import", "stale",
                          "refresh", "close", "done"}]
  /\ from \in [Sources -> Times \cup {Never}]
  /\ run_rows \in [Sources -> SUBSET raw]
  /\ outcome \in [Sources -> {"none", "ok", "error", "cancelled"}]
  /\ rpc \in {"idle", "refresh", "mark"}
  /\ cursor \in Asked /\ upto \in Asked
  /\ full \in BOOLEAN /\ succeeded \in BOOLEAN
  /\ checked \in [Sources -> Times \cup {Never}]
  /\ unrolled \subseteq raw /\ cut_off \subseteq raw

\* Once the analytics read the rollups (rollups_ready), every measurement is
\* counted by them, or belongs to a run whose refresh is still to come, or is
\* one of two known losses: its run ended without a refresh (cancelled,
\* failed or crashed), or it lay outside the bounds of the backfill that made
\* the rollups ready.
BackfilledHistory ==
  ready => raw \subseteq daily \cup InFlight \cup unrolled \cup cut_off

\* The promise of execute_full: when the rollups are marked as backfilled they
\* cover the whole history, except for runs that ended without a refresh.
BackfillComplete ==
  ready => raw \subseteq daily \cup InFlight \cup unrolled

\* A station that is still active after its source's check had a measurement
\* within STALE_STATION_AFTER_HOURS of that check, whatever failed, was
\* cancelled or ran at the same time.
ActiveIsCurrent ==
  \A st \in Stations :
    LET at == checked[SourceOf[st]]
    IN  station[st] = "active" /\ at # Never =>
          \E r \in raw : StationOf[r[1]] = st /\ r[2] >= at - Stale

\* The check decides on bounds as old as the last refresh.  A station it retires
\* has no measurement within STALE_STATION_AFTER_HOURS but for those that no
\* refresh has counted; and once the rollups are ready these are of a run whose
\* refresh is still to come, or of the two losses above.
RetiredIsUncounted ==
  [][\A s \in Sources : \A st \in StationsOf(s) :
       wpc[s] = "stale" /\ station[st] = "active" /\ station'[st] = "inactive" =>
         \A r \in raw :
           StationOf[r[1]] = st /\ r[2] >= now - Stale =>
             /\ r \notin daily
             /\ ready => r \in InFlight \cup unrolled \cup cut_off]_vars

\* The history of imports is append-only: a run that has ended keeps its status
\* and its counters, although its worker may outlive it (a force-cancelled job,
\* a run the watcher closed), and no run is recorded twice.
EndedRunsStay ==
  [][\A k \in JobIds, s \in Sources :
       run[k][s] \in {"FINISHED", "FAILED"} =>
         run'[k][s] = run[k][s] /\ facts'[k][s] = facts[k][s]]_vars

\* No source shows a running import forever: whatever fails, is cancelled or
\* crashes, each recorded run ends.
RunsEnd ==
  \A k \in JobIds, s \in Sources :
    run[k][s] = "RUNNING" ~> run[k][s] # "RUNNING"
=============================================================================
