------------------------- MODULE ImportCycleProofs -------------------------
(***************************************************************************)
(* Theorems about ImportCycle, for every set of sources, stations and      *)
(* channels, every history and calendar, any number of jobs and failures.  *)
(***************************************************************************)
EXTENDS ImportCycle, MeasurementStoreProofs

-----------------------------------------------------------------------------
(* Types                                                                    *)

\* The types of what ImportCycle adds to the store.
CycleTypeOK ==
  /\ now \in Times /\ faults \in 0 .. MaxFaults
  /\ station \in [Stations -> {"absent", "active", "inactive"}]
  /\ imported_until \in [Sources -> Times \cup {Never}]
  /\ job \in [JobIds -> {"none", "active", "terminal"}]
  /\ run \in [JobIds -> [Sources -> {"none", "RUNNING", "FINISHED", "FAILED"}]]
  /\ facts \in [JobIds -> [Sources -> {"zero", "live", "final"}]]
  /\ wpc \in [Sources -> {"idle", "start", "stations", "import", "stale",
                          "refresh", "close", "done"}]
  /\ from \in [Sources -> Times \cup {Never}]
  /\ run_rows \in [Sources -> SUBSET raw]
  /\ outcome \in [Sources -> {"none", "ok", "error", "cancelled"}]
  /\ rpc \in {"idle", "refresh", "mark"}
  /\ cursor \in Asked /\ upto \in Asked
  /\ full \in BOOLEAN /\ succeeded \in BOOLEAN
  /\ checked \in [Sources -> Times \cup {Never}]
  /\ unrolled \subseteq raw /\ cut_off \subseteq raw

LEMMA TypeSplit == TypeOK <=> StoreTypeOK /\ CycleTypeOK
  BY DEF TypeOK, CycleTypeOK

\* A worker that refreshes has processed rows.
WorkerRows == \A s \in Sources : wpc[s] = "refresh" => run_rows[s] # {}

CycleInv ==
  /\ CycleTypeOK /\ WorkerRows
  /\ RefreshInv /\ BoundsEncloseRollups /\ TxShut

LEMMA Constants ==
  /\ MaxTime \in Nat /\ Reach \in Nat /\ Margin \in Nat
  /\ Slack \in Nat /\ Recent \in Nat /\ Chunk \in Nat /\ Stale \in Nat /\ Today \in Times
  /\ MaxFaults \in Nat /\ MaxJobs \in Nat
  /\ 0 < Slack /\ Slack <= Reach /\ Recent <= Reach /\ 0 < Chunk
  /\ RollupJob \in Refreshers /\ Sources \subseteq Refreshers
  BY CycleAssumption, MaxTimeAssumption, ReachAssumption, MarginAssumption DEF Times

\* Ranges around timestamps are ranges a refresh may be asked for.
LEMMA AskedRange ==
  /\ \A t \in Times : t - Slack \in Asked /\ t + Slack \in Asked /\ t \in Asked
                      /\ t - Recent \in Asked
  /\ 0 \in Asked
  BY Constants DEF Times, Asked

LEMMA RunRange ==
  ASSUME CycleInv, NEW s \in Sources, wpc[s] = "refresh"
  PROVE  /\ RunFirst(s) \in Asked /\ RunLast(s) \in Asked
         /\ \A r \in run_rows[s] : RunFirst(s) <= r[2] /\ r[2] <= RunLast(s)
  <1> DEFINE times == {r[2] : r \in run_rows[s]}
  <1>1. run_rows[s] \subseteq Rows /\ run_rows[s] # {}
    BY DEF CycleInv, CycleTypeOK, WorkerRows, RefreshInv, StoreTypeOK
  <1>2. times \in SUBSET Times /\ times # {}
    BY <1>1 DEF Rows
  <1>3. /\ Earliest(times) \in Times /\ Latest(times) \in Times
        /\ \A t \in times : Earliest(times) <= t /\ Latest(times) >= t
    <2> HIDE DEF times
    <2> QED BY <1>2, EarliestOf, LatestOf
  <1>4. RunFirst(s) = Earliest(times) - Slack /\ RunLast(s) = Latest(times) + Slack
    BY DEF RunFirst, RunLast
  <1>5. \A r \in run_rows[s] : r[2] \in times /\ r[2] \in Times
    BY <1>2
  <1> HIDE DEF times
  <1>6. \A r \in run_rows[s] : RunFirst(s) <= r[2] /\ r[2] <= RunLast(s)
    <2> SUFFICES ASSUME NEW r \in run_rows[s]
                 PROVE  RunFirst(s) <= r[2] /\ r[2] <= RunLast(s)
      OBVIOUS
    <2>1. /\ Earliest(times) \in Int /\ Latest(times) \in Int /\ r[2] \in Int
          /\ Slack \in Nat /\ Earliest(times) <= r[2] /\ Latest(times) >= r[2]
      BY <1>3, <1>5, Constants DEF Times
    <2> QED
      BY <1>4, <2>1
  <1> QED
    BY <1>3, <1>4, <1>6, AskedRange

LEMMA BackfillRange ==
  ASSUME CycleInv, raw # {}
  PROVE  BackfillBounds.first \in Times /\ BackfillBounds.last \in Times
  <1> DEFINE stored == {c \in Channels : bounds[c] # NoBounds}
             times == {r[2] : r \in raw}
             firsts == {bounds[c].first : c \in stored}
             lasts == {bounds[c].last : c \in stored}
  <1>1. raw \subseteq Rows
    BY DEF CycleInv, RefreshInv, StoreTypeOK
  <1>2. times \in SUBSET Times /\ times # {}
    BY <1>1 DEF Rows
  <1>3. \A c \in stored : bounds[c].first \in Times /\ bounds[c].last \in Times
    BY <1>1 DEF CycleInv, BoundsEncloseRollups, Rows
  <1>4. firsts \in SUBSET Times /\ lasts \in SUBSET Times
    BY <1>3
  <1>5. stored # {} => firsts # {} /\ lasts # {}
    OBVIOUS
  <1>6. BackfillBounds =
          CASE stored # {} -> [first |-> Earliest(firsts), last |-> Latest(lasts)]
            [] stored = {} /\ times # {} -> [first |-> Earliest(times),
                                             last |-> Latest(times)]
            [] OTHER -> NoBounds
    BY DEF BackfillBounds, MeasurementBounds
  <1> HIDE DEF stored, times, firsts, lasts
  <1>7. CASE stored # {}
    <2>1. BackfillBounds = [first |-> Earliest(firsts), last |-> Latest(lasts)]
      BY <1>6, <1>7
    <2> QED
      BY <1>4, <1>5, <1>7, <2>1, EarliestOf, LatestOf
  <1>8. CASE stored = {}
    <2>1. BackfillBounds = [first |-> Earliest(times), last |-> Latest(times)]
      BY <1>2, <1>6, <1>8
    <2> QED
      BY <1>2, <2>1, EarliestOf, LatestOf
  <1> QED
    BY <1>7, <1>8

LEMMA ChunkRange ==
  ASSUME CycleInv
  PROVE  ChunkEnd \in Asked
  <1>1. cursor \in Int /\ upto \in Int /\ cursor \in Asked /\ upto \in Asked
    BY Constants DEF CycleInv, CycleTypeOK, Asked
  <1> QED
    BY <1>1, Constants DEF ChunkEnd, Asked

-----------------------------------------------------------------------------
(* The cycle uses the store as it is specified                              *)

\* The rows of a page are measurements.
LEMMA PageRows == \A s \in Sources : \A page \in SUBSET Available(s) : page \in SUBSET Rows
  BY CycleAssumption DEF Available

\* A crash rolls back the refresh that was under way, if any.
LEMMA CrashRollsBack ==
  ASSUME CycleInv, Crash
  PROVE  [StoreNext]_storeVars
  <1>1. /\ lock' = Nobody
        /\ stage' = [p \in Refreshers |-> "none"]
        /\ range' = [p \in Refreshers |-> <<0, 0>>]
        /\ hour_rows' = [p \in Refreshers |-> {}]
        /\ day_rows' = [p \in Refreshers |-> {}]
        /\ UNCHANGED <<raw, hourly, daily, bounds, ready>>
    BY DEF Crash
  <1>2. /\ stage \in [Refreshers -> {"none", "hourly", "daily"}]
        /\ range \in [Refreshers -> Asked \X Asked]
        /\ hour_rows \in [Refreshers -> SUBSET raw]
        /\ day_rows \in [Refreshers -> SUBSET raw]
        /\ lock \in Refreshers \cup {Nobody}
    BY DEF CycleInv, RefreshInv, StoreTypeOK
  <1>3. \A p \in Refreshers : stage[p] = "none" =>
          range[p] = <<0, 0>> /\ hour_rows[p] = {} /\ day_rows[p] = {}
    BY DEF CycleInv, TxShut
  <1>4. CASE \E p \in Refreshers : stage[p] # "none"
    <2>1. PICK p \in Refreshers : stage[p] # "none"
      BY <1>4
    <2>2. \A q \in Refreshers : q # p => stage[q] = "none"
      BY <2>1 DEF CycleInv, RefreshInv, LockHeld
    <2>3. /\ stage' = [stage EXCEPT ![p] = "none"]
          /\ range' = [range EXCEPT ![p] = <<0, 0>>]
          /\ hour_rows' = [hour_rows EXCEPT ![p] = {}]
          /\ day_rows' = [day_rows EXCEPT ![p] = {}]
      BY <1>1, <1>2, <1>3, <2>2
    <2>4. RefreshRollback(p)
      BY <1>1, <2>1, <2>3 DEF RefreshRollback, Released
    <2> QED
      BY <2>4 DEF StoreNext
  <1>5. CASE \A p \in Refreshers : stage[p] = "none"
    <2>1. lock = Nobody
      BY <1>2, <1>5 DEF CycleInv, TxShut
    <2>2. stage' = stage /\ range' = range /\ hour_rows' = hour_rows /\ day_rows' = day_rows
      BY <1>1, <1>2, <1>3, <1>5
    <2> QED
      BY <1>1, <2>1, <2>2 DEF storeVars, tx
  <1> QED
    BY <1>4, <1>5

LEMMA StoreStep == CycleInv /\ [Next]_vars => [StoreNext]_storeVars
  <1> SUFFICES ASSUME CycleInv, [Next]_vars PROVE [StoreNext]_storeVars
    OBVIOUS
  <1>1. CASE UNCHANGED storeVars
    BY <1>1
  <1>2. ASSUME NEW s \in Sources, ImportBatch(s) \/ BatchCancelled(s) \/ BatchFails(s)
        PROVE  StoreNext
    <2>1. PICK page \in SUBSET Available(s) : SaveBatch(page)
      BY <1>2 DEF ImportBatch, BatchCancelled, BatchFails, Processed
    <2> QED
      BY <2>1, PageRows DEF StoreNext
  <1>3. ASSUME NEW s \in Sources,
               WorkerRefresh(s) \/ WorkerRefreshed(s) \/ WorkerRefreshFails(s)
        PROVE  [StoreNext]_storeVars
    <2>1. s \in Refreshers /\ wpc[s] = "refresh"
      BY <1>3, Constants DEF WorkerRefresh, WorkerRefreshed, WorkerRefreshFails
    <2>2. RunFirst(s) \in Asked /\ RunLast(s) \in Asked
      BY <2>1, RunRange
    <2>3. \/ RefreshHours(s, RunFirst(s), RunLast(s)) \/ RefreshDays(s)
          \/ RefreshCommit(s) \/ RefreshRollback(s) \/ UNCHANGED storeVars
      BY <1>3 DEF WorkerRefresh, WorkerRefreshed, WorkerRefreshFails
    <2> QED
      BY <2>1, <2>2, <2>3 DEF StoreNext
  <1>4. CASE RollupRefresh \/ RollupRefreshed \/ RollupStops \/ RollupMark
    <2>1. RollupJob \in Refreshers /\ cursor \in Asked /\ ChunkEnd \in Asked
      BY ChunkRange, Constants DEF CycleInv, CycleTypeOK
    <2>2. \/ RefreshHours(RollupJob, cursor, ChunkEnd) \/ RefreshDays(RollupJob)
          \/ RefreshCommit(RollupJob) \/ RefreshRollback(RollupJob)
          \/ MarkReady \/ UNCHANGED storeVars
      BY <1>4 DEF RollupRefresh, RollupRefreshed, RollupStops, RollupMark
    <2> QED
      BY <2>1, <2>2 DEF StoreNext
  <1>5. CASE Crash
    BY <1>5, CrashRollsBack
  <1>6. \/ UNCHANGED storeVars
        \/ \E s \in Sources :
             \/ ImportBatch(s) \/ BatchCancelled(s) \/ BatchFails(s)
             \/ WorkerRefresh(s) \/ WorkerRefreshed(s) \/ WorkerRefreshFails(s)
        \/ RollupRefresh \/ RollupRefreshed \/ RollupStops \/ RollupMark
        \/ Crash
    BY DEF Next, vars, Worker, Rollup, StartJob, EndJob, ForceTerminal, WatchJob,
           ReapRuns, BeginImport, SyncStations, SyncFails, MarkStale, MarkStaleFails,
           CloseRun, WorkerFails, StartBackfill, StartRecent, RollupFinalize, Tick
  <1> QED
    BY <1>1, <1>2, <1>3, <1>4, <1>5, <1>6
-----------------------------------------------------------------------------
(* Types are kept                                                           *)

LEMMA RawGrows ==
  ASSUME StoreTypeOK, [StoreNext]_storeVars
  PROVE  raw \subseteq raw' /\ raw' \subseteq Rows
  <1>1. StoreTypeOK'
    BY StoreTypeStep
  <1> QED
    BY <1>1 DEF StoreTypeOK, StoreNext, storeVars, SaveBatch, MarkReady, RefreshHours,
                RefreshDays, RefreshCommit, RefreshRollback

LEMMA InitCycle == Init => CycleInv
  <1> SUFFICES ASSUME Init PROVE CycleTypeOK /\ WorkerRows
    BY InitRefresh, InitBounds, InitTx DEF Init, CycleInv
  <1>1. Today \in Times /\ 0 \in Asked /\ 0 \in 0 .. MaxFaults
    BY Constants, AskedRange
  <1> QED
    BY <1>1 DEF Init, CycleTypeOK, WorkerRows, Never

\* What the workers' helpers leave behind.
LEMMA HelperTypes ==
  ASSUME CycleTypeOK, NEW s \in Sources
  PROVE  /\ \A st \in {"RUNNING", "FINISHED", "FAILED"} : SetRun(s, st) =>
              run' \in [JobIds -> [Sources -> {"none", "RUNNING", "FINISHED", "FAILED"}]]
         /\ \A f \in {"zero", "live", "final"} : SetFacts(s, f) =>
              facts' \in [JobIds -> [Sources -> {"zero", "live", "final"}]]
         /\ \A served \in SUBSET Stations :
              Synced(s, served) \in [Stations -> {"absent", "active", "inactive"}]
         /\ Return(s) =>
              /\ wpc' = [wpc EXCEPT ![s] = "done"]
              /\ from' \in [Sources -> Times \cup {Never}]
              /\ run_rows' = [run_rows EXCEPT ![s] = {}]
              /\ outcome' \in [Sources -> {"none", "ok", "error", "cancelled"}]
  <1> USE DEF CycleTypeOK
  <1>1. ASSUME NEW st \in {"RUNNING", "FINISHED", "FAILED"}, SetRun(s, st)
        PROVE  run' \in [JobIds -> [Sources -> {"none", "RUNNING", "FINISHED", "FAILED"}]]
    BY <1>1 DEF SetRun
  <1>2. ASSUME NEW f \in {"zero", "live", "final"}, SetFacts(s, f)
        PROVE  facts' \in [JobIds -> [Sources -> {"zero", "live", "final"}]]
    BY <1>2 DEF SetFacts
  <1>3. ASSUME NEW served \in SUBSET Stations
        PROVE  Synced(s, served) \in [Stations -> {"absent", "active", "inactive"}]
    BY DEF Synced
  <1>4. ASSUME Return(s)
        PROVE  /\ wpc' = [wpc EXCEPT ![s] = "done"]
               /\ from' \in [Sources -> Times \cup {Never}]
               /\ run_rows' = [run_rows EXCEPT ![s] = {}]
               /\ outcome' \in [Sources -> {"none", "ok", "error", "cancelled"}]
    BY <1>4 DEF Return, Goto
  <1> QED
    BY <1>1, <1>2, <1>3, <1>4

LEMMA RunRecorded ==
  CycleTypeOK => \A s \in Sources : \A k :
    [run EXCEPT ![k][s] = "RUNNING"] \in
      [JobIds -> [Sources -> {"none", "RUNNING", "FINISHED", "FAILED"}]]
  BY DEF CycleTypeOK

LEMMA FaultType == CycleTypeOK /\ Fault => faults' \in 0 .. MaxFaults
  BY Constants DEF CycleTypeOK, Fault

LEMMA JobTypeStep ==
  ASSUME CycleInv, StartJob \/ EndJob \/ ForceTerminal \/ WatchJob \/ ReapRuns \/ Tick
  PROVE  CycleTypeOK' /\ WorkerRows'
  <1> USE DEF CycleInv, CycleTypeOK, WorkerRows, storeVars, runVars, workerVars, rollupVars
  <1>1. CASE StartJob
    BY <1>1 DEF StartJob
  <1>2. CASE EndJob
    BY <1>2 DEF EndJob
  <1>3. CASE ForceTerminal
    <2>1. faults' \in 0 .. MaxFaults
      BY <1>3, FaultType DEF ForceTerminal
    <2> QED
      BY <1>3, <2>1 DEF ForceTerminal
  <1>4. CASE WatchJob
    BY <1>4 DEF WatchJob
  <1>5. CASE ReapRuns
    BY <1>5 DEF ReapRuns
  <1>6. CASE Tick
    BY <1>6, Constants DEF Tick, Times
  <1> QED
    BY <1>1, <1>2, <1>3, <1>4, <1>5, <1>6

LEMMA WorkerTypeStep ==
  ASSUME CycleInv, NEW s \in Sources, Worker(s), raw \subseteq raw'
  PROVE  CycleTypeOK' /\ WorkerRows'
  <1> USE DEF CycleInv, CycleTypeOK, WorkerRows, storeVars, runVars, workerVars, rollupVars,
              Goto
  <1>1. CASE BeginImport(s)
    <2>1. faults' \in 0 .. MaxFaults
      BY <1>1, FaultType DEF BeginImport
    <2>2. run' \in [JobIds -> [Sources -> {"none", "RUNNING", "FINISHED", "FAILED"}]]
      <3>1. run' = [run EXCEPT ![Current][s] = "RUNNING"] \/ run' = run
        BY <1>1 DEF BeginImport
      <3>2. [run EXCEPT ![Current][s] = "RUNNING"] \in
              [JobIds -> [Sources -> {"none", "RUNNING", "FINISHED", "FAILED"}]]
        BY RunRecorded
      <3>3. run \in [JobIds -> [Sources -> {"none", "RUNNING", "FINISHED", "FAILED"}]]
        OBVIOUS
      <3> QED BY ONLY <3>1, <3>2, <3>3
    <2> QED
      BY <1>1, <2>1, <2>2 DEF BeginImport
  <1>2. CASE SyncStations(s)
    <2>1. PICK served \in SUBSET StationsOf(s) : station' = Synced(s, served)
      BY <1>2 DEF SyncStations
    <2>2. served \in SUBSET Stations
      BY DEF StationsOf
    <2>3. station' \in [Stations -> {"absent", "active", "inactive"}]
      BY <2>1, <2>2, HelperTypes
    <2>4. facts' \in [JobIds -> [Sources -> {"zero", "live", "final"}]]
      <3>1. SetFacts(s, "live") \/ facts' = facts
        BY <1>2 DEF SyncStations, LiveFacts
      <3>2. facts \in [JobIds -> [Sources -> {"zero", "live", "final"}]]
        OBVIOUS
      <3> QED BY ONLY <3>1, <3>2, HelperTypes, CycleInv, s \in Sources
    <2>5. checked' \in [Sources -> Times \cup {Never}]
      BY <1>2 DEF SyncStations
    <2> QED
      BY <1>2, <2>3, <2>4, <2>5 DEF SyncStations
  <1>3. CASE SyncFails(s)
    <2>1. PICK served \in SUBSET StationsOf(s), written \in SUBSET StationsOf(s) :
            station' = [st \in Stations |-> IF st \in written THEN Synced(s, served)[st]
                                            ELSE station[st]]
      BY <1>3 DEF SyncFails
    <2>2. served \in SUBSET Stations
      BY DEF StationsOf
    <2>3. station' \in [Stations -> {"absent", "active", "inactive"}]
      <3>1. Synced(s, served) \in [Stations -> {"absent", "active", "inactive"}]
        BY <2>2, HelperTypes
      <3> QED BY <2>1, <3>1
    <2>4. faults' \in 0 .. MaxFaults
      BY <1>3, FaultType DEF SyncFails
    <2>5. checked' \in [Sources -> Times \cup {Never}]
      BY <1>3 DEF SyncFails
    <2> QED
      BY <1>3, <2>3, <2>4, <2>5 DEF SyncFails
  <1>4. ASSUME NEW page \in SUBSET Available(s), Processed(s, page)
        PROVE  /\ run_rows' \in [Sources -> SUBSET raw']
               /\ run_rows'[s] \subseteq raw'
               /\ \A r \in page : r[2] \in Times
               /\ page \in SUBSET raw'
    <2>1. page \subseteq raw' /\ page \subseteq Rows
      BY <1>4, PageRows DEF Processed, SaveBatch
    <2> QED
      BY <1>4, <2>1 DEF Processed, Rows
  <1>5. Checkpoint(s) => imported_until' \in [Sources -> Times \cup {Never}]
    <2>1. \A r \in Available(s) : r[2] \in Times
      BY CycleAssumption DEF Available, Rows
    <2> QED
      BY <2>1 DEF Checkpoint
  <1>6. CASE ImportBatch(s)
    <2>1. PICK page \in SUBSET Available(s) : Processed(s, page) /\ Checkpoint(s)
      BY <1>6 DEF ImportBatch
    <2>2. facts' \in [JobIds -> [Sources -> {"zero", "live", "final"}]]
      <3>1. SetFacts(s, "live") \/ facts' = facts
        BY <1>6 DEF ImportBatch, LiveFacts
      <3>2. facts \in [JobIds -> [Sources -> {"zero", "live", "final"}]]
        OBVIOUS
      <3> QED BY ONLY <3>1, <3>2, HelperTypes, CycleInv, s \in Sources
    <2>3. /\ run_rows' \in [Sources -> SUBSET raw']
          /\ imported_until' \in [Sources -> Times \cup {Never}]
          /\ run_rows' = [run_rows EXCEPT ![s] = @ \cup page]
      BY <1>4, <1>5, <2>1 DEF Processed
    <2>4. wpc' = [wpc EXCEPT ![s] = "import"] \/ wpc' = [wpc EXCEPT ![s] = "stale"]
      BY <1>6 DEF ImportBatch
    <2> QED
      BY <1>6, <2>2, <2>3, <2>4 DEF ImportBatch
  <1>7. CASE BatchCancelled(s)
    <2>1. PICK page \in SUBSET Available(s) : Processed(s, page) /\ Checkpoint(s)
      BY <1>7 DEF BatchCancelled
    <2>2. faults' \in 0 .. MaxFaults
      BY <1>7, FaultType DEF BatchCancelled
    <2>3. /\ run_rows' \in [Sources -> SUBSET raw'] /\ run_rows'[s] \subseteq raw'
          /\ imported_until' \in [Sources -> Times \cup {Never}]
          /\ run_rows' = [run_rows EXCEPT ![s] = @ \cup page]
      BY <1>4, <1>5, <2>1 DEF Processed
    <2> QED
      BY <1>7, <2>2, <2>3 DEF BatchCancelled
  <1>8. CASE BatchFails(s)
    <2>1. PICK page \in SUBSET Available(s) : Processed(s, page)
      BY <1>8 DEF BatchFails
    <2>2. faults' \in 0 .. MaxFaults
      BY <1>8, FaultType DEF BatchFails
    <2>3. /\ run_rows' \in [Sources -> SUBSET raw'] /\ run_rows'[s] \subseteq raw'
          /\ run_rows' = [run_rows EXCEPT ![s] = @ \cup page]
      BY <1>4, <2>1 DEF Processed
    <2> QED
      BY <1>8, <2>2, <2>3 DEF BatchFails
  <1>9. CASE MarkStale(s)
    BY <1>9 DEF MarkStale, Retired
  <1>10. CASE MarkStaleFails(s)
    <2>1. faults' \in 0 .. MaxFaults
      BY <1>10, FaultType DEF MarkStaleFails
    <2>2. station' \in [Stations -> {"absent", "active", "inactive"}]
      BY <1>10 DEF MarkStaleFails, Retired
    <2> QED
      BY <1>10, <2>1, <2>2 DEF MarkStaleFails
  <1>11. CASE WorkerRefresh(s)
    BY <1>11 DEF WorkerRefresh, cycleVars
  <1>12. CASE WorkerRefreshed(s)
    BY <1>12 DEF WorkerRefreshed
  <1>13. CASE WorkerRefreshFails(s)
    <2>1. faults' \in 0 .. MaxFaults
      BY <1>13, FaultType DEF WorkerRefreshFails
    <2> QED
      BY <1>13, <2>1 DEF WorkerRefreshFails
  <1>14. CASE CloseRun(s)
    <2>1. run' \in [JobIds -> [Sources -> {"none", "RUNNING", "FINISHED", "FAILED"}]]
      BY <1>14, HelperTypes DEF CloseRun
    <2>2. facts' \in [JobIds -> [Sources -> {"zero", "live", "final"}]]
      BY <1>14, HelperTypes DEF CloseRun
    <2>3. Return(s)
      BY <1>14 DEF CloseRun
    <2>4. /\ wpc' = [wpc EXCEPT ![s] = "done"]
          /\ from' \in [Sources -> Times \cup {Never}]
          /\ run_rows' = [run_rows EXCEPT ![s] = {}]
          /\ outcome' \in [Sources -> {"none", "ok", "error", "cancelled"}]
      BY <2>3, HelperTypes
    <2> QED
      BY <1>14, <2>1, <2>2, <2>4 DEF CloseRun
  <1>15. CASE WorkerFails(s)
    <2>1. Return(s) /\ faults' \in 0 .. MaxFaults
      BY <1>15, FaultType DEF WorkerFails
    <2>2. /\ wpc' = [wpc EXCEPT ![s] = "done"]
          /\ from' \in [Sources -> Times \cup {Never}]
          /\ run_rows' = [run_rows EXCEPT ![s] = {}]
          /\ outcome' \in [Sources -> {"none", "ok", "error", "cancelled"}]
      BY <2>1, HelperTypes
    <2> QED
      BY <1>15, <2>1, <2>2 DEF WorkerFails
  <1> QED
    BY <1>1, <1>2, <1>3, <1>6, <1>7, <1>8, <1>9, <1>10, <1>11, <1>12, <1>13, <1>14, <1>15
       DEF Worker

LEMMA RollupTypeStep ==
  ASSUME CycleInv, Rollup \/ Crash, raw \subseteq raw'
  PROVE  CycleTypeOK' /\ WorkerRows'
  <1> USE DEF CycleInv, CycleTypeOK, WorkerRows, storeVars, runVars, workerVars, rollupVars,
              RollupReturns
  <1>1. CASE StartBackfill
    <2>1. BackfillBounds.first \in Times /\ BackfillBounds.last \in Times
      BY <1>1, BackfillRange DEF StartBackfill
    <2>2. cursor' \in Asked /\ upto' \in Asked
      BY <1>1, <2>1, AskedRange DEF StartBackfill
    <2>3. cut_off' \subseteq raw
      BY <1>1 DEF StartBackfill, OutsideBounds
    <2> QED
      BY <1>1, <2>2, <2>3 DEF StartBackfill
  <1>2. CASE StartRecent
    <2>1. cursor' \in Asked /\ upto' \in Asked
      BY <1>2, AskedRange DEF StartRecent
    <2> QED
      BY <1>2, <2>1 DEF StartRecent
  <1>3. CASE RollupRefresh
    BY <1>3 DEF RollupRefresh, cycleVars
  <1>4. CASE RollupRefreshed
    BY <1>4, ChunkRange DEF RollupRefreshed
  <1>5. CASE RollupStops
    <2>1. faults' \in 0 .. MaxFaults /\ 0 \in Asked
      BY <1>5, FaultType, AskedRange DEF RollupStops
    <2> QED
      BY <1>5, <2>1 DEF RollupStops
  <1>6. CASE RollupFinalize
    <2>1. faults' \in 0 .. MaxFaults /\ 0 \in Asked
      BY <1>6, FaultType, AskedRange DEF RollupFinalize
    <2> QED
      BY <1>6, <2>1 DEF RollupFinalize
  <1>7. CASE RollupMark
    <2>1. faults' \in 0 .. MaxFaults /\ 0 \in Asked
      BY <1>7, FaultType, AskedRange DEF RollupMark
    <2> QED
      BY <1>7, <2>1 DEF RollupMark
  <1>8. CASE Crash
    <2>1. InFlight \subseteq raw
      BY DEF InFlight
    <2>2. faults' \in 0 .. MaxFaults /\ 0 \in Asked
      BY <1>8, FaultType, AskedRange DEF Crash
    <2> QED
      BY <1>8, <2>1, <2>2 DEF Crash, Never
  <1> QED
    BY <1>1, <1>2, <1>3, <1>4, <1>5, <1>6, <1>7, <1>8 DEF Rollup

LEMMA CycleStep == CycleInv /\ [Next]_vars => CycleInv'
  <1> SUFFICES ASSUME CycleInv, [Next]_vars PROVE CycleInv'
    OBVIOUS
  <1>1. [StoreNext]_storeVars
    BY StoreStep
  <1>2. StoreTypeOK /\ RefreshInv /\ BoundsEncloseRollups /\ TxShut
    BY DEF CycleInv, RefreshInv
  <1>3. RefreshInv' /\ BoundsEncloseRollups' /\ TxShut'
    BY <1>1, <1>2, RefreshStep, BoundsStep, TxStep
  <1>4. raw \subseteq raw'
    BY <1>1, <1>2, RawGrows
  <1>5. ASSUME UNCHANGED vars PROVE CycleTypeOK' /\ WorkerRows'
    BY <1>5 DEF vars, storeVars, cycleVars, runVars, workerVars, rollupVars, CycleInv,
                CycleTypeOK, WorkerRows
  <1>6. ASSUME Next PROVE CycleTypeOK' /\ WorkerRows'
    BY <1>4, <1>6, JobTypeStep, WorkerTypeStep, RollupTypeStep DEF Next
  <1>7. CycleTypeOK' /\ WorkerRows'
    BY <1>5, <1>6
  <1> QED
    BY <1>3, <1>7 DEF CycleInv

\* The state of the jobs, the workers, the rollup job and the store keeps its
\* types: whatever is interrupted, the ranges asked for stay ranges a refresh
\* can expand, and the rows the workers and the losses name are measurements.
THEOREM CycleTypes == Spec => []TypeOK
  <1>1. CycleInv => TypeOK
    BY TypeSplit DEF CycleInv, RefreshInv
  <1> QED
    BY <1>1, InitCycle, CycleStep, PTL DEF Spec

\* The import cycle uses the store as it is specified: each of its steps, the
\* crash included, is a step of the store or leaves it alone.
THEOREM CycleImplementsStore == Spec => StoreSpec
  <1>1. Init => StoreInit
    BY DEF Init
  <1> QED
    BY <1>1, InitCycle, CycleStep, StoreStep, PTL DEF Spec, StoreSpec

\* So what holds of the store holds of the whole cycle: the rollups are views
\* of the measurements, the hourly one within the daily one, and the bounds
\* enclose what they count.
THEOREM CycleKeepsRollups == Spec => RollupViews /\ []BoundsEncloseRollups
  BY CycleImplementsStore, RollupsAreViews, BoundsAreReal, PTL

-----------------------------------------------------------------------------
(* The runs                                                                 *)

\* The first n jobs have started; a worker works for the newest one.
StartedUpTo(n) ==
  /\ \A k \in JobIds : job[k] # "none" <=> k <= n
  /\ \A s \in Sources : wpc[s] # "idle" => 1 <= n

\* A job that has not started has no runs, a worker that starts has none yet.
RunsInv ==
  /\ \E n \in 0 .. MaxJobs : StartedUpTo(n)
  /\ \A k \in JobIds, s \in Sources : job[k] = "none" => run[k][s] = "none"
  /\ \A s \in Sources : wpc[s] = "start" => run[Current][s] = "none"

LEMMA CurrentIs ==
  ASSUME NEW n \in 1 .. MaxJobs, StartedUpTo(n)
  PROVE  Current = n
  <1>1. MaxJobs \in Nat /\ n \in JobIds /\ \A k \in JobIds : k \in Int
    BY Constants DEF JobIds
  <1>2. job[n] # "none" /\ \A l \in JobIds : l > n => job[l] = "none"
    BY <1>1 DEF StartedUpTo
  <1>3. ASSUME NEW k \in JobIds, job[k] # "none", \A l \in JobIds : l > k => job[l] = "none"
        PROVE  k = n
    BY <1>1, <1>2, <1>3 DEF StartedUpTo
  <1> QED
    BY <1>1, <1>2, <1>3 DEF Current

LEMMA CurrentStarted ==
  ASSUME NEW n \in 0 .. MaxJobs, StartedUpTo(n), Started
  PROVE  Current = n /\ n \in JobIds /\ n \in 1 .. MaxJobs
  <1>1. 1 <= n
    BY Constants DEF Started, StartedUpTo, JobIds
  <1> QED
    BY <1>1, CurrentIs, Constants DEF JobIds

\* The current job keeps its place while jobs only change between started states.
LEMMA SameCurrent ==
  ASSUME NEW n \in 0 .. MaxJobs, StartedUpTo(n),
         \A k \in JobIds : job'[k] = "none" <=> job[k] = "none",
         \A s \in Sources : wpc'[s] # "idle" => wpc[s] # "idle"
  PROVE  StartedUpTo(n)' /\ (1 <= n => Current' = Current)
  <1>1. StartedUpTo(n)'
    BY DEF StartedUpTo
  <1>2. 1 <= n => Current = n
    BY CurrentIs, Constants
  <1>3. ASSUME 1 <= n PROVE Current' = n
    <2>1. MaxJobs \in Nat /\ n \in JobIds /\ \A k \in JobIds : k \in Int
      BY <1>3, Constants DEF JobIds
    <2>2. job'[n] # "none" /\ \A l \in JobIds : l > n => job'[l] = "none"
      BY <1>1, <2>1 DEF StartedUpTo
    <2>3. ASSUME NEW k \in JobIds, job'[k] # "none",
                 \A l \in JobIds : l > k => job'[l] = "none"
          PROVE  k = n
      BY <1>1, <2>1, <2>2, <2>3 DEF StartedUpTo
    <2> QED
      BY <2>1, <2>2, <2>3 DEF Current
  <1> QED
    BY <1>1, <1>2, <1>3

LEMMA InitRuns == Init => RunsInv
  <1> SUFFICES ASSUME Init PROVE RunsInv
    OBVIOUS
  <1>1. StartedUpTo(0) /\ 0 \in 0 .. MaxJobs
    BY Constants DEF Init, StartedUpTo, JobIds
  <1> QED
    BY <1>1 DEF Init, RunsInv

LEMMA RunsStep == CycleInv /\ RunsInv /\ [Next]_vars => RunsInv'
  <1> SUFFICES ASSUME CycleInv, RunsInv, [Next]_vars PROVE RunsInv'
    OBVIOUS
  <1>1. /\ job \in [JobIds -> {"none", "active", "terminal"}]
        /\ run \in [JobIds -> [Sources -> {"none", "RUNNING", "FINISHED", "FAILED"}]]
        /\ wpc \in [Sources -> {"idle", "start", "stations", "import", "stale",
                                "refresh", "close", "done"}]
    BY DEF CycleInv, CycleTypeOK
  <1>2. PICK n \in 0 .. MaxJobs : StartedUpTo(n)
    BY DEF RunsInv
  <1>3. ASSUME \A k \in JobIds : job'[k] = "none" <=> job[k] = "none",
               \A s \in Sources : /\ wpc'[s] # "idle" => wpc[s] # "idle"
                                  /\ wpc'[s] = "start" => wpc[s] = "start",
               \A k \in JobIds, s \in Sources :
                 run[k][s] = "none" /\ (job[k] = "none" \/ wpc'[s] = "start")
                   => run'[k][s] = "none"
        PROVE  RunsInv'
    <2>1. StartedUpTo(n)' /\ (1 <= n => Current' = Current)
      BY <1>2, <1>3, SameCurrent
    <2>2. ASSUME NEW s \in Sources, wpc'[s] = "start" PROVE run'[Current'][s] = "none"
      <3>1. wpc[s] = "start" /\ 1 <= n
        BY <1>2, <1>3, <2>2 DEF StartedUpTo
      <3>2. Current' = n /\ Current = n /\ n \in JobIds
        BY <1>2, <2>1, <3>1, CurrentIs, Constants DEF JobIds
      <3> QED
        BY <1>3, <2>2, <3>1, <3>2 DEF RunsInv
    <2> QED
      BY <1>3, <2>1, <2>2 DEF RunsInv
  <1>4. CASE StartJob
    <2>1. PICK k \in JobIds : /\ job[k] = "none" /\ \A l \in JobIds : l < k => job[l] # "none"
                              /\ job' = [job EXCEPT ![k] = "active"]
      BY <1>4 DEF StartJob
    <2>2. run' = run
      BY <1>4 DEF StartJob
    <2>3. k = n + 1 /\ k \in 1 .. MaxJobs
      <3>1. MaxJobs \in Nat /\ n \in Nat /\ k \in 1 .. MaxJobs /\ n < k
        BY <1>2, <2>1, Constants DEF JobIds, StartedUpTo
      <3>2. n + 1 < k => n + 1 \in JobIds /\ job[n + 1] # "none"
        BY <2>1, <3>1 DEF JobIds
      <3> QED
        BY <1>2, <3>1, <3>2 DEF StartedUpTo
    <2>4. \A l \in JobIds : job'[l] # "none" <=> l <= k
      BY <1>1, <1>2, <2>1, <2>3, Constants DEF StartedUpTo, JobIds
    <2>5. StartedUpTo(k)'
      BY <2>3, <2>4 DEF StartedUpTo
    <2>6. Current' = k
      <3>1. \A l \in JobIds : l \in Int
        BY DEF JobIds
      <3>2. job'[k] # "none" /\ \A l \in JobIds : l > k => job'[l] = "none"
        BY <2>3, <2>4, <3>1
      <3>3. ASSUME NEW m \in JobIds, job'[m] # "none",
                   \A l \in JobIds : l > m => job'[l] = "none"
            PROVE  m = k
        BY <2>1, <2>4, <3>1, <3>2, <3>3
      <3> QED
        BY <2>1, <3>2, <3>3 DEF Current
    <2>7. \A s \in Sources : run[k][s] = "none"
      BY <2>1 DEF RunsInv
    <2>8. \A l \in JobIds, s \in Sources : job'[l] = "none" => run'[l][s] = "none"
      BY <1>1, <2>1, <2>2 DEF RunsInv
    <2> QED
      BY <2>2, <2>3, <2>5, <2>6, <2>7, <2>8, Constants DEF RunsInv
  <1>5. CASE EndJob
    <2>1. Current = n /\ n \in JobIds
      BY <1>2, <1>5, CurrentStarted DEF EndJob
    <2>2. job[n] # "none"
      BY <1>2, <2>1, Constants DEF StartedUpTo, JobIds
    <2> QED
      BY <1>1, <1>3, <1>5, <2>1, <2>2 DEF EndJob
  <1>6. CASE ForceTerminal \/ WatchJob
    <2>1. Current = n /\ n \in JobIds
      BY <1>2, <1>6, CurrentStarted DEF ForceTerminal, WatchJob
    <2>2. UNCHANGED <<wpc, run>> /\ job' = [job EXCEPT ![n] = "terminal"] /\ job[n] = "active"
      BY <1>6, <2>1 DEF ForceTerminal, WatchJob, workerVars
    <2> QED
      BY <1>1, <1>3, <2>1, <2>2
  <1>7. CASE ReapRuns
    <2>1. UNCHANGED <<job, wpc>>
      BY <1>7 DEF ReapRuns, workerVars
    <2>2. \A k \in JobIds, s \in Sources : run[k][s] = "none" => run'[k][s] = "none"
      BY <1>7 DEF ReapRuns, Orphaned
    <2> QED
      BY <1>3, <2>1, <2>2
  <1>8. ASSUME NEW s \in Sources, BeginImport(s) PROVE RunsInv'
    <2>1. wpc[s] = "start" /\ 1 <= n
      BY <1>2, <1>8 DEF BeginImport, StartedUpTo
    <2>2. Current = n /\ n \in JobIds /\ job[n] # "none"
      BY <1>2, <2>1, CurrentIs, Constants DEF StartedUpTo, JobIds
    <2>3. job' = job /\ wpc' = [wpc EXCEPT ![s] = "stations"]
      BY <1>8 DEF BeginImport, Goto
    <2>4. run' = [run EXCEPT ![n][s] = "RUNNING"] \/ run' = run
      BY <1>8, <2>2 DEF BeginImport
    <2>5. \A k \in JobIds, t \in Sources : run'[k][t] = run[k][t] \/ (k = n /\ t = s)
      BY <1>1, <2>2, <2>4
    <2>6. \A t \in Sources : /\ wpc'[t] # "idle" => wpc[t] # "idle"
                             /\ wpc'[t] = "start" => wpc[t] = "start" /\ t # s
      BY <1>1, <2>1, <2>3
    <2> QED
      BY <1>3, <2>2, <2>3, <2>5, <2>6
  <1>9. ASSUME NEW s \in Sources, CloseRun(s) PROVE RunsInv'
    <2>1. job' = job /\ wpc' = [wpc EXCEPT ![s] = "done"]
      BY <1>9 DEF CloseRun, Return, Goto
    <2>2. \A k \in JobIds, t \in Sources : run[k][t] = "none" => run'[k][t] = "none"
      <3>1. PICK st \in {"FAILED", "FINISHED"} : SetRun(s, st)
        BY <1>9 DEF CloseRun
      <3> QED
        BY <1>1, <3>1 DEF SetRun
    <2>3. wpc[s] = "close"
      BY <1>9 DEF CloseRun
    <2> QED
      BY <1>1, <1>3, <2>1, <2>2, <2>3
  <1>10. ASSUME UNCHANGED <<job, run>>,
                \A s \in Sources : /\ wpc'[s] # "idle" => wpc[s] # "idle"
                                   /\ wpc'[s] = "start" => wpc[s] = "start"
         PROVE  RunsInv'
    BY <1>3, <1>10
  <1>11. ASSUME NEW s \in Sources,
                \/ SyncStations(s) \/ SyncFails(s)
                \/ ImportBatch(s) \/ BatchCancelled(s) \/ BatchFails(s)
                \/ MarkStale(s) \/ MarkStaleFails(s)
                \/ WorkerRefreshed(s) \/ WorkerRefreshFails(s) \/ WorkerFails(s)
         PROVE  RunsInv'
    <2>1. UNCHANGED <<job, run>>
      BY <1>11 DEF SyncStations, SyncFails, ImportBatch, BatchCancelled, BatchFails,
         MarkStale, MarkStaleFails, WorkerRefreshed, WorkerRefreshFails, WorkerFails, runVars
    <2>2. /\ wpc[s] # "idle"
          /\ \E label \in {"import", "stale", "refresh", "close", "done"} :
               wpc' = [wpc EXCEPT ![s] = label]
      BY <1>11 DEF SyncStations, SyncFails, ImportBatch, BatchCancelled, BatchFails,
         MarkStale, MarkStaleFails, WorkerRefreshed, WorkerRefreshFails, WorkerFails,
         Goto, Return
    <2> QED
      BY <1>1, <1>10, <2>1, <2>2
  <1>12. CASE Crash
    BY <1>10, <1>12 DEF Crash, runVars
  <1>13. ASSUME UNCHANGED <<job, run, wpc>> PROVE RunsInv'
    BY <1>10, <1>13
  <1>14. \/ UNCHANGED <<job, run, wpc>>
         \/ StartJob \/ EndJob \/ ForceTerminal \/ WatchJob \/ ReapRuns \/ Crash
         \/ \E s \in Sources :
              \/ BeginImport(s) \/ CloseRun(s)
              \/ SyncStations(s) \/ SyncFails(s)
              \/ ImportBatch(s) \/ BatchCancelled(s) \/ BatchFails(s)
              \/ MarkStale(s) \/ MarkStaleFails(s)
              \/ WorkerRefreshed(s) \/ WorkerRefreshFails(s) \/ WorkerFails(s)
    BY DEF Next, vars, cycleVars, runVars, workerVars, Worker, Rollup, WorkerRefresh,
           StartBackfill, StartRecent, RollupRefresh, RollupRefreshed, RollupStops,
           RollupFinalize, RollupMark, Tick
  <1> QED
    BY <1>4, <1>5, <1>6, <1>7, <1>8, <1>9, <1>11, <1>12, <1>13, <1>14

\* The history of imports is append-only: an ended run keeps its status and its
\* counters, although its worker may outlive it, for any number of jobs.
THEOREM EndedRunsAreFinal == Spec => EndedRunsStay
  <1> DEFINE Kept == \A k \in JobIds, s \in Sources :
                       run[k][s] \in {"FINISHED", "FAILED"} =>
                         run'[k][s] = run[k][s] /\ facts'[k][s] = facts[k][s]
  <1>1. ASSUME CycleInv, RunsInv, [Next]_vars
        PROVE  Kept
    <2> SUFFICES ASSUME NEW k \in JobIds, NEW s \in Sources,
                        run[k][s] \in {"FINISHED", "FAILED"}
                 PROVE  run'[k][s] = run[k][s] /\ facts'[k][s] = facts[k][s]
      OBVIOUS
    <2>1. /\ run \in [JobIds -> [Sources -> {"none", "RUNNING", "FINISHED", "FAILED"}]]
          /\ facts \in [JobIds -> [Sources -> {"zero", "live", "final"}]]
      BY <1>1 DEF CycleInv, CycleTypeOK
    <2>2. ASSUME NEW t \in Sources, NEW st, SetRun(t, st) PROVE run'[k][s] = run[k][s]
      BY <2>1, <2>2 DEF SetRun
    <2>3. ASSUME NEW t \in Sources, NEW f, SetFacts(t, f) PROVE facts'[k][s] = facts[k][s]
      BY <2>1, <2>3 DEF SetFacts
    <2>4. ASSUME NEW t \in Sources, BeginImport(t)
          PROVE  run'[k][s] = run[k][s] /\ facts'[k][s] = facts[k][s]
      <3>1. run[Current][t] = "none" /\ facts' = facts
        BY <1>1, <2>4 DEF BeginImport, RunsInv
      <3>2. run' = [run EXCEPT ![Current][t] = "RUNNING"] \/ run' = run
        BY <2>4 DEF BeginImport
      <3>3. ~ (k = Current /\ s = t)
        BY <3>1
      <3> QED
        BY <2>1, <3>1, <3>2, <3>3
    <2>5. ASSUME NEW t \in Sources, SyncStations(t) \/ ImportBatch(t) \/ CloseRun(t)
          PROVE  run'[k][s] = run[k][s] /\ facts'[k][s] = facts[k][s]
      <3>1. facts' = facts \/ \E f : SetFacts(t, f)
        BY <2>5 DEF SyncStations, ImportBatch, CloseRun, LiveFacts
      <3>2. run' = run \/ \E st : SetRun(t, st)
        BY <2>5 DEF SyncStations, ImportBatch, CloseRun
      <3> QED
        BY <2>2, <2>3, <3>1, <3>2
    <2>6. CASE ReapRuns
      BY <2>1, <2>6 DEF ReapRuns, Orphaned
    <2>7. \/ UNCHANGED <<run, facts>>
          \/ ReapRuns
          \/ \E t \in Sources : BeginImport(t) \/ SyncStations(t) \/ ImportBatch(t)
                                \/ CloseRun(t)
      BY <1>1 DEF Next, vars, cycleVars, runVars, workerVars, Worker, Rollup, StartJob,
         EndJob, ForceTerminal, WatchJob, SyncFails, BatchCancelled, BatchFails,
         MarkStale, MarkStaleFails, WorkerRefresh, WorkerRefreshed, WorkerRefreshFails,
         WorkerFails, StartBackfill, StartRecent, RollupRefresh, RollupRefreshed,
         RollupStops, RollupFinalize, RollupMark, Tick, Crash
    <2> QED
      BY <2>4, <2>5, <2>6, <2>7
  <1>2. CycleInv /\ RunsInv /\ [Next]_vars => [Kept]_vars
    BY <1>1
  <1> QED
    BY <1>2, InitCycle, CycleStep, InitRuns, RunsStep, PTL DEF Spec, EndedRunsStay

-----------------------------------------------------------------------------
(* The stations                                                             *)

\* The bounds the check reads are timestamps of rows, stored or scanned.
LEMMA CurrentDataIsReal ==
  ASSUME CycleInv, NEW st \in Stations, HasCurrentData(st)
  PROVE  \E r \in raw : StationOf[r[1]] = st /\ r[2] >= now - Stale
  <1>1. PICK c \in ChannelsOf(st) : /\ ChannelBounds(c) # NoBounds
                                    /\ ChannelBounds(c).last >= now - Stale
    BY DEF HasCurrentData
  <1>2. c \in Channels /\ StationOf[c] = st
    BY DEF ChannelsOf
  <1>3. raw \subseteq Rows /\ BoundsEncloseRollups
    BY DEF CycleInv, RefreshInv, StoreTypeOK
  <1>4. <<c, ChannelBounds(c).last>> \in raw
    <2>1. RealBounds(c, bounds[c])
      BY <1>2, <1>3 DEF BoundsEncloseRollups, RealBounds
    <2>2. RealBounds(c, BoundsOf(c, raw))
      BY <1>2, <1>3, BoundsOfRows
    <2> QED
      BY <1>1, <2>1, <2>2 DEF ChannelBounds, RealBounds
  <1> QED
    BY <1>1, <1>2, <1>4

LEMMA StationsStep ==
  ASSUME CycleInv, ActiveIsCurrent, [Next]_vars
  PROVE  ActiveIsCurrent'
  <1>1. raw \subseteq raw'
    BY StoreStep, RawGrows DEF CycleInv, RefreshInv
  <1>2. SourceOf \in [Stations -> Sources]
    BY CycleAssumption
  <1>3. checked \in [Sources -> Times \cup {Never}]
    BY DEF CycleInv, CycleTypeOK
  <1>4. ASSUME NEW s \in Sources, checked' = [checked EXCEPT ![s] = Never],
               \A st \in Stations : SourceOf[st] # s => station'[st] = station[st]
        PROVE  ActiveIsCurrent'
    BY <1>1, <1>2, <1>3, <1>4 DEF ActiveIsCurrent
  <1>5. ASSUME NEW s \in Sources, SyncStations(s) \/ SyncFails(s) PROVE ActiveIsCurrent'
    <2>1. checked' = [checked EXCEPT ![s] = Never]
      BY <1>5 DEF SyncStations, SyncFails
    <2>2. ASSUME NEW st \in Stations, NEW served, SourceOf[st] # s
          PROVE  Synced(s, served)[st] = station[st]
      BY <2>2 DEF Synced
    <2>3. \A st \in Stations : SourceOf[st] # s => station'[st] = station[st]
      BY <1>5, <2>2 DEF SyncStations, SyncFails
    <2> QED
      BY <1>4, <2>1, <2>3
  <1>6. ASSUME NEW s \in Sources, MarkStale(s) PROVE ActiveIsCurrent'
    <2>1. /\ checked' = [checked EXCEPT ![s] = now]
          /\ \A st \in Stations :
               station'[st] = IF /\ SourceOf[st] = s /\ station[st] = "active"
                                 /\ ~HasCurrentData(st)
                              THEN "inactive" ELSE station[st]
      BY <1>6 DEF MarkStale, Retired, StationsOf
    <2> SUFFICES ASSUME NEW st \in Stations, station'[st] = "active",
                        checked'[SourceOf[st]] # Never
                 PROVE  \E r \in raw' : /\ StationOf[r[1]] = st
                                        /\ r[2] >= checked'[SourceOf[st]] - Stale
      BY DEF ActiveIsCurrent
    <2>2. CASE SourceOf[st] = s
      <3>1. HasCurrentData(st) /\ checked'[SourceOf[st]] = now
        BY <1>3, <2>1, <2>2
      <3> QED
        BY <1>1, <3>1, CurrentDataIsReal
    <2>3. CASE SourceOf[st] # s
      BY <1>1, <1>2, <1>3, <2>1, <2>3 DEF ActiveIsCurrent
    <2> QED
      BY <2>2, <2>3
  <1>7. ASSUME checked' = checked,
               \A st \in Stations : station'[st] = "active" => station[st] = "active"
        PROVE  ActiveIsCurrent'
    BY <1>1, <1>7 DEF ActiveIsCurrent
  <1>8. ASSUME NEW s \in Sources, MarkStaleFails(s) PROVE ActiveIsCurrent'
    <2>1. checked' = checked
      BY <1>8 DEF MarkStaleFails
    <2>2. \A st \in Stations : station'[st] = "active" => station[st] = "active"
      BY <1>8 DEF MarkStaleFails, Retired
    <2> QED
      BY <1>7, <2>1, <2>2
  <1>9. \/ UNCHANGED <<station, checked>>
        \/ \E s \in Sources : SyncStations(s) \/ SyncFails(s) \/ MarkStale(s)
                              \/ MarkStaleFails(s)
    BY DEF Next, vars, cycleVars, runVars, workerVars, rollupVars, Worker, Rollup, StartJob,
       EndJob, ForceTerminal, WatchJob, ReapRuns, BeginImport, ImportBatch, BatchCancelled,
       BatchFails, WorkerRefresh, WorkerRefreshed, WorkerRefreshFails,
       CloseRun, WorkerFails, StartBackfill, StartRecent, RollupRefresh, RollupRefreshed,
       RollupStops, RollupFinalize, RollupMark, Tick, Crash
  <1> QED
    BY <1>5, <1>6, <1>7, <1>8, <1>9

\* A station that is still active after its source's check had a measurement
\* within the window of that check: stored bounds, written by refreshes that
\* overlap, never show more than the measurements do.
THEOREM ActiveStationsAreCurrent == Spec => []ActiveIsCurrent
  <1>1. Init => ActiveIsCurrent
    BY CycleAssumption DEF Init, ActiveIsCurrent
  <1>2. CycleInv /\ ActiveIsCurrent /\ [Next]_vars => ActiveIsCurrent'
    BY StationsStep
  <1> QED
    BY <1>1, <1>2, InitCycle, CycleStep, PTL DEF Spec

-----------------------------------------------------------------------------
(* The history the analytics see                                            *)

\* The rows that are counted, will be, or are known to be lost.
Counted == daily \cup InFlight \cup unrolled \cup cut_off

\* A transaction is of a thread that refreshes, for the range of its caller.
CallerOfTx ==
  /\ \A s \in Sources : stage[s] # "none" =>
       wpc[s] = "refresh" /\ range[s] = <<RunFirst(s), RunLast(s)>>
  /\ stage[RollupJob] # "none" =>
       rpc = "refresh" /\ cursor < upto /\ range[RollupJob] = <<cursor, ChunkEnd>>

\* The daily statement of a worker took in the rows it processed, that of the
\* rollup job left out no row of its range that is not counted.
ScanComplete ==
  /\ \A s \in Sources : stage[s] = "daily" => run_rows[s] \subseteq day_rows[s]
  /\ stage[RollupJob] = "daily" =>
       \A r \in Interior(cursor, ChunkEnd) : r \in day_rows[RollupJob] \/ r \in Counted

\* What the backfill has left behind is counted.
BackfillSwept ==
  /\ full /\ rpc # "idle" =>
       \A r \in raw : r \in Counted \/ (cursor <= r[2] /\ r[2] < upto)
  /\ rpc = "mark" => full /\ upto <= cursor

HistoryInv == CallerOfTx /\ ScanComplete /\ BackfillSwept /\ BackfilledHistory

\* The days of a range's own timestamps are inside the expanded range.
LEMMA InRange ==
  ASSUME raw \subseteq Rows, NEW first \in Asked, NEW last \in Asked,
         NEW r \in raw, first <= r[2], r[2] <= last
  PROVE  r \in Interior(first, last)
  <1>1. PICK c \in Channels, t \in Times : r = <<c, t>>
    BY DEF Rows
  <1>2. /\ t \in Span /\ first \in Span /\ last \in Span
        /\ first - Margin \in Span /\ last + Margin \in Span
        /\ (first - Margin) + Margin = first
        /\ t \in Int /\ first \in Int /\ last \in Int /\ first - Margin \in Int
        /\ last + Margin \in Int /\ first <= t /\ t <= last
    BY <1>1, Constants DEF Times, Asked, Span
  <1>3. /\ Calendar[c][first - Margin] < Calendar[c][first]
        /\ Calendar[c][last] < Calendar[c][last + Margin]
    BY <1>2, CalendarAssumption
  <1>4. Calendar[c][first] <= Calendar[c][t] /\ Calendar[c][t] <= Calendar[c][last]
    BY <1>2, CalendarAssumption
  <1>5. /\ Calendar[c][first - Margin] \in Int /\ Calendar[c][first] \in Int
        /\ Calendar[c][t] \in Int /\ Calendar[c][last] \in Int
        /\ Calendar[c][last + Margin] \in Int
    BY <1>2, CalendarAssumption
  <1>6. /\ Calendar[c][first - Margin] < Calendar[c][t]
        /\ Calendar[c][t] < Calendar[c][last + Margin]
    BY <1>3, <1>4, <1>5
  <1>7. Margin # 0
    <2>1. Margin = 0 => last + Margin = last
      BY <1>2
    <2> QED
      BY <1>3, <1>5, <2>1
  <1>8. first - Margin <= t /\ t < last + Margin
    BY <1>2, <1>7, Constants
  <1> QED
    BY <1>1, <1>6, <1>8 DEF Interior, Covered, LocalDay

LEMMA InitHistory == Init => HistoryInv
  BY CycleAssumption
     DEF Init, StoreInit, HistoryInv, CallerOfTx, ScanComplete, BackfillSwept,
         BackfilledHistory


Underway == {"import", "stale", "refresh"}

LEMMA InFlightIs ==
  /\ \A r : r \in InFlight <=>
       \E s \in Sources : wpc[s] \in Underway /\ r \in run_rows[s]
  /\ \A r : r \in InFlight' <=>
       \E s \in Sources : wpc'[s] \in Underway /\ r \in run_rows'[s]
  BY DEF InFlight, Underway

\* What is counted stays counted.
LEMMA DailyGrows ==
  ASSUME RefreshInv, [StoreNext]_storeVars
  PROVE  /\ daily \subseteq daily'
         /\ \A p \in Refreshers : RefreshCommit(p) => day_rows[p] \subseteq daily'
  <1>1. \A p \in Refreshers : RefreshCommit(p) =>
          daily \subseteq daily' /\ day_rows[p] \subseteq daily'
    BY CommitGrows
  <1>2. daily' = daily \/ \E p \in Refreshers : RefreshCommit(p)
    BY DEF StoreNext, storeVars, SaveBatch, MarkReady, RefreshHours, RefreshDays,
           RefreshRollback
  <1> QED
    BY <1>1, <1>2

\* A worker's step touches its own rows, and drops none that is not counted.
LEMMA WorkerCounts ==
  ASSUME CycleInv, HistoryInv, NEW s \in Sources, Worker(s),
         [StoreNext]_storeVars
  PROVE  /\ \A t \in Sources \ {s} : wpc'[t] = wpc[t] /\ run_rows'[t] = run_rows[t]
         /\ wpc[s] \in Underway =>
              \/ wpc'[s] \in Underway /\ run_rows[s] \subseteq run_rows'[s]
              \/ run_rows[s] \subseteq unrolled'
              \/ run_rows[s] \subseteq daily'
         /\ \/ raw' = raw
            \/ raw' \ raw \subseteq unrolled'
            \/ wpc'[s] \in Underway /\ raw' \ raw \subseteq run_rows'[s]
         /\ unrolled \subseteq unrolled' /\ cut_off' = cut_off
  <1>1. /\ wpc \in [Sources -> {"idle", "start", "stations", "import", "stale",
                                "refresh", "close", "done"}]
        /\ run_rows \in [Sources -> SUBSET raw]
    BY DEF CycleInv, CycleTypeOK
  <1> USE DEF Underway, Goto, workerVars, rollupVars
  <1>2. CASE BeginImport(s)
    BY <1>1, <1>2 DEF BeginImport, storeVars
  <1>3. CASE SyncStations(s) \/ SyncFails(s)
    BY <1>1, <1>3 DEF SyncStations, SyncFails, storeVars
  <1>4. CASE ImportBatch(s)
    <2>1. PICK page : Processed(s, page)
      BY <1>4 DEF ImportBatch
    <2>2. raw' = raw \cup page /\ run_rows' = [run_rows EXCEPT ![s] = @ \cup page]
      BY <2>1 DEF Processed, SaveBatch
    <2>3. wpc[s] = "import"
          /\ (wpc' = [wpc EXCEPT ![s] = "import"] \/ wpc' = [wpc EXCEPT ![s] = "stale"])
      BY <1>4 DEF ImportBatch
    <2>4. UNCHANGED <<unrolled, cut_off>>
      BY <1>4 DEF ImportBatch
    <2> QED
      BY <1>1, <2>2, <2>3, <2>4
  <1>5. CASE BatchCancelled(s) \/ BatchFails(s)
    <2>1. PICK page : Processed(s, page)
      BY <1>5 DEF BatchCancelled, BatchFails
    <2>2. raw' = raw \cup page /\ run_rows' = [run_rows EXCEPT ![s] = @ \cup page]
      BY <2>1 DEF Processed, SaveBatch
    <2>3. wpc' = [wpc EXCEPT ![s] = "close"] /\ unrolled' = unrolled \cup run_rows'[s]
          /\ cut_off' = cut_off
      BY <1>5 DEF BatchCancelled, BatchFails
    <2> QED
      BY <1>1, <2>2, <2>3
  <1>6. CASE MarkStale(s)
    <2>1. run_rows' = run_rows /\ UNCHANGED <<raw, unrolled, cut_off>>
      BY <1>6 DEF MarkStale, storeVars
    <2>2. \/ run_rows[s] = {} /\ wpc' = [wpc EXCEPT ![s] = "close"]
          \/ wpc' = [wpc EXCEPT ![s] = "refresh"]
      BY <1>6 DEF MarkStale
    <2> QED
      BY <1>1, <2>1, <2>2
  <1>7. CASE MarkStaleFails(s)
    BY <1>1, <1>7 DEF MarkStaleFails, storeVars
  <1>8. CASE WorkerRefresh(s)
    BY <1>1, <1>8 DEF WorkerRefresh, cycleVars, RefreshHours, RefreshDays
  <1>9. CASE WorkerRefreshed(s)
    <2>1. stage[s] = "daily" /\ s \in Refreshers /\ raw' = raw
      BY <1>9, Constants DEF WorkerRefreshed, RefreshCommit
    <2>2. run_rows[s] \subseteq day_rows[s]
      BY <2>1 DEF HistoryInv, ScanComplete
    <2>3. day_rows[s] \subseteq daily'
      BY <1>9, <2>1, DailyGrows DEF WorkerRefreshed, CycleInv
    <2> QED
      BY <1>1, <1>9, <2>1, <2>2, <2>3 DEF WorkerRefreshed
  <1>10. CASE WorkerRefreshFails(s)
    <2>1. raw' = raw
      BY <1>10 DEF WorkerRefreshFails, storeVars, RefreshRollback
    <2> QED
      BY <1>1, <1>10, <2>1 DEF WorkerRefreshFails
  <1>11. CASE CloseRun(s) \/ WorkerFails(s)
    BY <1>1, <1>11 DEF CloseRun, WorkerFails, Return, storeVars
  <1> QED
    BY <1>2, <1>3, <1>4, <1>5, <1>6, <1>7, <1>8, <1>9, <1>10, <1>11 DEF Worker

LEMMA CountedGrows ==
  ASSUME CycleInv, HistoryInv, [Next]_vars, ready \/ ~StartBackfill
  PROVE  Counted \subseteq Counted' /\ raw' \ raw \subseteq Counted'
  <1>1. [StoreNext]_storeVars
    BY StoreStep
  <1>2. daily \subseteq daily'
    BY <1>1, DailyGrows DEF CycleInv
  <1>3. ASSUME NEW s \in Sources, Worker(s)
        PROVE  Counted \subseteq Counted' /\ raw' \ raw \subseteq Counted'
    <2>1. unrolled \subseteq unrolled' /\ cut_off' = cut_off
      BY <1>1, <1>3, WorkerCounts
    <2>2. InFlight \subseteq InFlight' \cup unrolled' \cup daily'
      <3> SUFFICES ASSUME NEW t \in Sources, wpc[t] \in Underway, NEW r \in run_rows[t]
                   PROVE  r \in InFlight' \cup unrolled' \cup daily'
        BY InFlightIs
      <3>1. CASE t # s
        BY <1>1, <1>3, <3>1, WorkerCounts, InFlightIs
      <3>2. CASE t = s
        BY <1>1, <1>3, <3>2, WorkerCounts, InFlightIs
      <3> QED BY <3>1, <3>2
    <2>3. raw' \ raw \subseteq InFlight' \cup unrolled'
      BY <1>1, <1>3, WorkerCounts, InFlightIs
    <2> QED
      BY <1>2, <2>1, <2>2, <2>3 DEF Counted
  <1>4. ASSUME UNCHANGED raw, unrolled \subseteq unrolled', cut_off \subseteq cut_off',
               InFlight \subseteq InFlight' \cup unrolled'
        PROVE  Counted \subseteq Counted' /\ raw' \ raw \subseteq Counted'
    BY <1>2, <1>4 DEF Counted
  <1>5. CASE StartJob
    <2>1. \A s \in Sources : wpc[s] = "idle"
      BY <1>5 DEF StartJob
    <2>2. InFlight = {}
      BY <2>1 DEF InFlight
    <2> QED
      BY <1>4, <1>5, <2>2 DEF StartJob, storeVars, rollupVars
  <1>6. CASE EndJob
    <2>1. \A s \in Sources : wpc[s] = "done"
      BY <1>6 DEF EndJob
    <2>2. InFlight = {}
      BY <2>1 DEF InFlight
    <2> QED
      BY <1>4, <1>6, <2>2 DEF EndJob, storeVars, rollupVars
  <1>7. CASE Crash
    BY <1>4, <1>7 DEF Crash
  <1>8. CASE StartBackfill
    <2>1. ready
      BY <1>8
    <2> QED
      BY <1>4, <1>8, <2>1 DEF StartBackfill, storeVars, workerVars, InFlight
  <1>9. ASSUME UNCHANGED <<raw, wpc, run_rows, unrolled, cut_off>>
        PROVE  Counted \subseteq Counted' /\ raw' \ raw \subseteq Counted'
    BY <1>4, <1>9 DEF InFlight
  <1>10. \/ UNCHANGED <<raw, wpc, run_rows, unrolled, cut_off>>
         \/ StartJob \/ EndJob \/ Crash \/ StartBackfill
         \/ \E s \in Sources : Worker(s)
    BY DEF Next, vars, cycleVars, storeVars, workerVars, rollupVars, Rollup,
       ForceTerminal, WatchJob, ReapRuns, StartRecent, RollupRefresh, RefreshHours,
       RefreshDays, RollupRefreshed, RefreshCommit, RollupStops, RefreshRollback,
       RollupFinalize, RollupMark, MarkReady, Tick
  <1> QED
    BY <1>3, <1>5, <1>6, <1>7, <1>8, <1>9, <1>10

\* Steps that leave transactions and the rollup job alone.
LEMMA QuietKeeps ==
  ASSUME CycleInv, HistoryInv, [Next]_vars,
         UNCHANGED <<stage, range, day_rows, rpc, cursor, upto, full, ready>>,
         \A s \in Sources : stage[s] # "none" =>
           wpc'[s] = wpc[s] /\ run_rows'[s] = run_rows[s]
  PROVE  HistoryInv'
  <1>1. Counted \subseteq Counted' /\ raw' \ raw \subseteq Counted'
    BY CountedGrows DEF StartBackfill
  <1>2. ASSUME NEW s \in Sources, stage[s] # "none"
        PROVE  RunFirst(s)' = RunFirst(s) /\ RunLast(s)' = RunLast(s)
    BY <1>2 DEF RunFirst, RunLast
  <1>3. ChunkEnd' = ChunkEnd
    BY DEF ChunkEnd
  <1>4. CallerOfTx'
    BY <1>2, <1>3 DEF HistoryInv, CallerOfTx
  <1>5. \A r \in Interior(cursor, ChunkEnd)' : r \in Interior(cursor, ChunkEnd) \/ r \in Counted'
    BY <1>1, <1>3 DEF Interior, Covered, LocalDay
  <1>6. ScanComplete'
    BY <1>1, <1>5 DEF HistoryInv, ScanComplete
  <1>7. BackfillSwept' /\ BackfilledHistory'
    BY <1>1 DEF HistoryInv, BackfillSwept, BackfilledHistory, Counted
  <1> QED
    BY <1>4, <1>6, <1>7 DEF HistoryInv

\* A worker's refresh leaves the rollup job alone.
LEMMA WorkerRefreshKeeps ==
  ASSUME CycleInv, HistoryInv, [Next]_vars, NEW s \in Sources,
         WorkerRefresh(s) \/ WorkerRefreshed(s) \/ WorkerRefreshFails(s)
  PROVE  HistoryInv'
  <1>1. Counted \subseteq Counted' /\ raw' \ raw \subseteq Counted'
    <2>1. rpc' = rpc
      BY DEF WorkerRefresh, WorkerRefreshed, WorkerRefreshFails, cycleVars, rollupVars
    <2> QED
      BY <2>1, CountedGrows DEF StartBackfill
  <1>2. /\ s \in Refreshers /\ RollupJob # s /\ RollupJob \in Refreshers
        /\ Sources \subseteq Refreshers
    BY CycleAssumption
  <1>3. /\ UNCHANGED <<raw, rpc, cursor, upto, full, ready>>
        /\ run_rows' = run_rows
        /\ \A t \in Sources : t # s => wpc'[t] = wpc[t]
    <2>1. UNCHANGED <<raw, rpc, cursor, upto, full, ready, run_rows>>
      BY DEF WorkerRefresh, WorkerRefreshed, WorkerRefreshFails, cycleVars, workerVars,
         rollupVars, storeVars, RefreshHours, RefreshDays, RefreshCommit, RefreshRollback
    <2>2. wpc' = wpc \/ wpc' = [wpc EXCEPT ![s] = "close"]
      BY DEF WorkerRefresh, WorkerRefreshed, WorkerRefreshFails, cycleVars, workerVars, Goto
    <2>3. DOMAIN wpc = Sources
      BY DEF CycleInv, CycleTypeOK
    <2> QED
      BY <2>1, <2>2, <2>3
  <1>4. /\ stage \in [Refreshers -> {"none", "hourly", "daily"}]
        /\ range \in [Refreshers -> Asked \X Asked]
        /\ day_rows \in [Refreshers -> SUBSET raw] /\ raw \subseteq Rows
        /\ run_rows \in [Sources -> SUBSET raw]
    BY DEF CycleInv, RefreshInv, StoreTypeOK, CycleTypeOK
  <1>5. \A p \in Refreshers : p # s =>
          stage'[p] = stage[p] /\ range'[p] = range[p] /\ day_rows'[p] = day_rows[p]
    BY <1>2, <1>4 DEF WorkerRefresh, WorkerRefreshed, WorkerRefreshFails, storeVars, tx,
       RefreshHours, RefreshDays, RefreshCommit, RefreshRollback, Released
  <1>6. /\ ChunkEnd' = ChunkEnd
        /\ Interior(cursor, ChunkEnd)' = Interior(cursor, ChunkEnd)
        /\ \A t \in Sources : RunFirst(t)' = RunFirst(t) /\ RunLast(t)' = RunLast(t)
    BY <1>3 DEF ChunkEnd, RunFirst, RunLast, Interior, Covered, LocalDay
  <1>7. stage'[s] # "none" =>
          /\ wpc'[s] = "refresh" /\ range'[s] = <<RunFirst(s), RunLast(s)>>
          /\ stage'[s] = "daily" => run_rows[s] \subseteq day_rows'[s]
    <2>1. CASE WorkerRefresh(s) /\ RefreshHours(s, RunFirst(s), RunLast(s))
      BY <1>2, <1>4, <2>1 DEF WorkerRefresh, RefreshHours, cycleVars, workerVars
    <2>2. CASE WorkerRefresh(s) /\ RefreshDays(s)
      <3>1. stage[s] = "hourly" /\ range' = range /\ wpc' = wpc
            /\ day_rows'[s] = Interior(range[s][1], range[s][2])
        BY <1>2, <1>4, <2>2 DEF WorkerRefresh, RefreshDays, cycleVars, workerVars
      <3>2. wpc[s] = "refresh" /\ range[s] = <<RunFirst(s), RunLast(s)>>
        BY <3>1 DEF HistoryInv, CallerOfTx
      <3>3. /\ RunFirst(s) \in Asked /\ RunLast(s) \in Asked
            /\ \A r \in run_rows[s] : RunFirst(s) <= r[2] /\ r[2] <= RunLast(s)
        BY <3>2, RunRange
      <3>4. \A r \in run_rows[s] : r \in Interior(RunFirst(s), RunLast(s))
        BY <1>4, <3>3, InRange
      <3> QED
        BY <3>1, <3>2, <3>4
    <2>3. CASE WorkerRefreshed(s) \/ WorkerRefreshFails(s)
      <3>1. stage'[s] = "none"
        BY <1>2, <1>4, <2>3 DEF WorkerRefreshed, WorkerRefreshFails, RefreshCommit,
           RefreshRollback, Released, storeVars, tx
      <3> QED BY <3>1
    <2> QED
      BY <2>1, <2>2, <2>3 DEF WorkerRefresh
  <1>8. CallerOfTx'
    BY <1>2, <1>3, <1>5, <1>6, <1>7 DEF HistoryInv, CallerOfTx
  <1>9. ScanComplete'
    BY <1>1, <1>2, <1>3, <1>5, <1>6, <1>7 DEF HistoryInv, ScanComplete
  <1>10. BackfillSwept' /\ BackfilledHistory'
    BY <1>1, <1>3 DEF HistoryInv, BackfillSwept, BackfilledHistory, Counted
  <1> QED
    BY <1>8, <1>9, <1>10 DEF HistoryInv

\* A backfill that starts sweeps all that the bounds enclose; once the rollups
\* are ready everything is counted already.
LEMMA BackfillKeeps ==
  ASSUME CycleInv, HistoryInv, [Next]_vars, StartBackfill
  PROVE  HistoryInv'
  <1>1. /\ UNCHANGED <<raw, daily, ready, stage, range, day_rows, wpc, run_rows, unrolled>>
        /\ rpc = "idle" /\ rpc' = "refresh"
        /\ cut_off' = IF ready THEN cut_off ELSE OutsideBounds
        /\ cursor' = BackfillBounds.first - Slack /\ upto' = BackfillBounds.last + Slack
    BY DEF StartBackfill, storeVars, tx, workerVars
  <1>2. /\ RollupJob \in Refreshers /\ RollupJob \notin Sources
        /\ stage[RollupJob] = "none"
    BY <1>1, CycleAssumption DEF HistoryInv, CallerOfTx, CycleInv, RefreshInv, StoreTypeOK
  <1>3. \A t \in Sources : RunFirst(t)' = RunFirst(t) /\ RunLast(t)' = RunLast(t)
    BY <1>1 DEF RunFirst, RunLast
  <1>4. CallerOfTx' /\ ScanComplete'
    BY <1>1, <1>2, <1>3 DEF HistoryInv, CallerOfTx, ScanComplete
  <1>5. BackfilledHistory'
    BY <1>1 DEF HistoryInv, BackfilledHistory, InFlight
  <1>6. \A r \in raw : r \in Counted' \/ (cursor' <= r[2] /\ r[2] < upto')
    <2> SUFFICES ASSUME NEW r \in raw, r \notin Counted'
                 PROVE  cursor' <= r[2] /\ r[2] < upto'
      OBVIOUS
    <2>1. ~ready
      BY <1>1, <1>5 DEF BackfilledHistory, Counted
    <2>2. ~ (r[2] < BackfillBounds.first) /\ ~ (r[2] > BackfillBounds.last)
      BY <1>1, <2>1 DEF Counted, OutsideBounds
    <2>3. /\ BackfillBounds.first \in Int /\ BackfillBounds.last \in Int
          /\ r[2] \in Int
      BY BackfillRange, Constants DEF StartBackfill, CycleInv, RefreshInv, StoreTypeOK,
         Rows, Times
    <2> QED
      BY <1>1, <2>2, <2>3, Constants
  <1> QED
    BY <1>1, <1>4, <1>5, <1>6 DEF HistoryInv, BackfillSwept

\* The rollup job's steps leave the workers and their transactions alone.
LEMMA RollupKeeps ==
  ASSUME CycleInv, HistoryInv, [Next]_vars, Rollup, ~StartBackfill
  PROVE  HistoryInv'
  <1>1. Counted \subseteq Counted' /\ raw' = raw
    <2>1. raw' = raw
      BY DEF Rollup, StartBackfill, StartRecent, RollupRefresh, RollupRefreshed,
         RollupStops, RollupFinalize, RollupMark, storeVars, RefreshHours, RefreshDays,
         RefreshCommit, RefreshRollback, MarkReady
    <2> QED BY <2>1, CountedGrows
  <1>2. RollupJob \in Refreshers /\ RollupJob \notin Sources /\ Sources \subseteq Refreshers
    BY CycleAssumption
  <1>3. /\ stage \in [Refreshers -> {"none", "hourly", "daily"}]
        /\ range \in [Refreshers -> Asked \X Asked]
        /\ day_rows \in [Refreshers -> SUBSET raw] /\ raw \subseteq Rows
        /\ rpc \in {"idle", "refresh", "mark"}
        /\ cursor \in Asked /\ upto \in Asked /\ cursor \in Int /\ upto \in Int
        /\ \A r \in raw : r[2] \in Int /\ r[2] \in Times
    BY Constants DEF CycleInv, RefreshInv, StoreTypeOK, CycleTypeOK, Asked, Rows, Times
  <1>4. /\ wpc' = wpc /\ run_rows' = run_rows
        /\ \A p \in Sources :
             stage'[p] = stage[p] /\ range'[p] = range[p] /\ day_rows'[p] = day_rows[p]
    BY <1>2, <1>3 DEF Rollup, StartBackfill, StartRecent, RollupRefresh, RollupRefreshed,
       RollupStops, RollupFinalize, RollupMark, storeVars, tx, cycleVars, workerVars,
       RefreshHours, RefreshDays, RefreshCommit, RefreshRollback, Released, MarkReady
  <1>5. \A t \in Sources : RunFirst(t)' = RunFirst(t) /\ RunLast(t)' = RunLast(t)
    BY <1>4 DEF RunFirst, RunLast
  <1>6. ASSUME stage'[RollupJob] # "none" =>
                 /\ rpc' = "refresh" /\ cursor' < upto'
                 /\ range'[RollupJob] = <<cursor', ChunkEnd'>>,
               stage'[RollupJob] = "daily" =>
                 \A r \in Interior(cursor, ChunkEnd)' :
                   r \in day_rows'[RollupJob] \/ r \in Counted',
               full' /\ rpc' # "idle" =>
                 \A r \in raw : r \in Counted' \/ (cursor' <= r[2] /\ r[2] < upto'),
               rpc' = "mark" => full' /\ upto' <= cursor',
               ready' => ready \/ raw \subseteq Counted
        PROVE  HistoryInv'
    <2>1. CallerOfTx' /\ ScanComplete' /\ BackfillSwept'
      BY <1>1, <1>4, <1>5, <1>6 DEF HistoryInv, CallerOfTx, ScanComplete, BackfillSwept
    <2>2. BackfilledHistory'
      BY <1>1, <1>6 DEF HistoryInv, BackfilledHistory, Counted
    <2> QED
      BY <2>1, <2>2 DEF HistoryInv
  <1>7. CASE StartRecent
    BY <1>3, <1>6, <1>7 DEF StartRecent, storeVars, tx, HistoryInv, CallerOfTx
  <1>8. CASE RollupRefresh
    <2>1. UNCHANGED <<rpc, cursor, upto, full, ready>> /\ rpc = "refresh" /\ cursor < upto
      BY <1>8 DEF RollupRefresh, cycleVars, rollupVars, RefreshHours, RefreshDays
    <2>2. /\ ChunkEnd' = ChunkEnd
          /\ Interior(cursor, ChunkEnd)' = Interior(cursor, ChunkEnd)
      BY <1>1, <2>1 DEF ChunkEnd, Interior, Covered, LocalDay
    <2>3. CASE RefreshHours(RollupJob, cursor, ChunkEnd)
      <3>1. stage'[RollupJob] = "hourly" /\ range'[RollupJob] = <<cursor, ChunkEnd>>
        BY <1>2, <1>3, <2>3 DEF RefreshHours
      <3> QED
        BY <1>1, <1>6, <2>1, <2>2, <3>1 DEF HistoryInv, BackfillSwept
    <2>4. CASE RefreshDays(RollupJob)
      <3>1. stage[RollupJob] = "hourly" /\ range' = range
            /\ day_rows'[RollupJob] = Interior(range[RollupJob][1], range[RollupJob][2])
        BY <1>2, <1>3, <2>4 DEF RefreshDays
      <3>2. range[RollupJob] = <<cursor, ChunkEnd>>
        BY <3>1 DEF HistoryInv, CallerOfTx
      <3> QED
        BY <1>1, <1>6, <2>1, <2>2, <3>1, <3>2 DEF HistoryInv, BackfillSwept
    <2> QED
      BY <1>8, <2>3, <2>4 DEF RollupRefresh
  <1>9. CASE RollupRefreshed
    <2>1. /\ RefreshCommit(RollupJob) /\ cursor' = ChunkEnd /\ rpc = "refresh"
          /\ UNCHANGED <<rpc, upto, full, ready>>
      BY <1>9 DEF RollupRefreshed, RefreshCommit
    <2>2. stage[RollupJob] = "daily" /\ stage'[RollupJob] = "none"
      BY <1>2, <1>3, <2>1 DEF RefreshCommit, Released
    <2>3. /\ range[RollupJob] = <<cursor, ChunkEnd>>
          /\ \A r \in Interior(cursor, ChunkEnd) : r \in day_rows[RollupJob] \/ r \in Counted
      BY <2>2 DEF HistoryInv, CallerOfTx, ScanComplete
    <2>4. day_rows[RollupJob] \subseteq Counted'
      BY <1>2, <2>1, StoreStep, DailyGrows DEF CycleInv, Counted
    <2>5. full => \A r \in raw : r \in Counted' \/ (ChunkEnd <= r[2] /\ r[2] < upto)
      <3> SUFFICES ASSUME full, NEW r \in raw, r \notin Counted'
                   PROVE  ChunkEnd <= r[2] /\ r[2] < upto
        OBVIOUS
      <3>1. cursor <= r[2] /\ r[2] < upto
        BY <1>1, <2>1 DEF HistoryInv, BackfillSwept
      <3>2. r \notin Interior(cursor, ChunkEnd)
        BY <1>1, <2>3, <2>4
      <3>3. ChunkEnd \in Asked /\ ChunkEnd \in Int
        BY ChunkRange, Constants DEF Asked
      <3>4. ~ (r[2] <= ChunkEnd)
        BY <1>3, <3>1, <3>2, <3>3, InRange
      <3> QED
        BY <1>3, <3>1, <3>3, <3>4
    <2> QED
      BY <1>6, <2>1, <2>2, <2>5
  <1>10. ASSUME stage'[RollupJob] = "none", RollupReturns,
                ready' => ready \/ raw \subseteq Counted
         PROVE  HistoryInv'
    BY <1>6, <1>10 DEF RollupReturns
  <1>11. CASE RollupStops
    <2>1. stage'[RollupJob] = "none" /\ ready' = ready
      BY <1>2, <1>3, <1>11 DEF RollupStops, storeVars, tx, RefreshRollback, Released
    <2> QED
      BY <1>10, <1>11, <2>1 DEF RollupStops
  <1>12. CASE RollupFinalize
    <2>1. UNCHANGED <<stage, ready>> /\ rpc = "refresh" /\ cursor >= upto
      BY <1>12 DEF RollupFinalize, storeVars, tx
    <2>2. stage'[RollupJob] = "none"
      BY <1>2, <1>3, <2>1 DEF HistoryInv, CallerOfTx
    <2>3. CASE full
      <3>1. rpc' = "mark" /\ UNCHANGED <<cursor, upto, full>>
        BY <1>12, <2>3 DEF RollupFinalize
      <3> QED
        BY <1>1, <1>3, <1>6, <2>1, <2>2, <2>3, <3>1 DEF HistoryInv, BackfillSwept
    <2>4. CASE ~full
      BY <1>10, <1>12, <2>1, <2>2, <2>4 DEF RollupFinalize
    <2> QED BY <2>3, <2>4
  <1>13. CASE RollupMark
    <2>1. stage' = stage /\ rpc = "mark" /\ RollupReturns
      BY <1>13 DEF RollupMark, MarkReady, storeVars, tx
    <2>2. stage'[RollupJob] = "none"
      BY <1>2, <1>3, <2>1 DEF HistoryInv, CallerOfTx
    <2>3. full /\ upto <= cursor
      BY <2>1 DEF HistoryInv, BackfillSwept
    <2>4. \A r \in raw : r \in Counted \/ (cursor <= r[2] /\ r[2] < upto)
      BY <2>1, <2>3 DEF HistoryInv, BackfillSwept
    <2>5. raw \subseteq Counted
      BY <1>3, <2>3, <2>4
    <2> QED
      BY <1>10, <2>1, <2>2, <2>5
  <1> QED
    BY <1>7, <1>8, <1>9, <1>11, <1>12, <1>13 DEF Rollup

LEMMA HistoryStep == CycleInv /\ HistoryInv /\ [Next]_vars => HistoryInv'
  <1> SUFFICES ASSUME CycleInv, HistoryInv, [Next]_vars PROVE HistoryInv'
    OBVIOUS
  <1> USE DEF workerVars, rollupVars, storeVars, tx
  <1>1. ASSUME NEW s \in Sources,
               WorkerRefresh(s) \/ WorkerRefreshed(s) \/ WorkerRefreshFails(s)
        PROVE  HistoryInv'
    BY <1>1, WorkerRefreshKeeps
  <1>2. CASE Rollup
    BY <1>2, BackfillKeeps, RollupKeeps
  <1>3. CASE Crash
    <2>1. Counted \subseteq Counted' /\ raw' = raw
      BY <1>3, CountedGrows DEF Crash, RollupReturns, StartBackfill
    <2>2. /\ \A p \in Refreshers : stage'[p] = "none"
          /\ rpc' = "idle" /\ ready' = ready
      BY <1>3 DEF Crash, RollupReturns
    <2>3. CallerOfTx' /\ ScanComplete' /\ BackfillSwept'
      BY <2>2, Constants DEF CallerOfTx, ScanComplete, BackfillSwept
    <2>4. BackfilledHistory'
      BY <2>1, <2>2 DEF HistoryInv, BackfilledHistory, Counted
    <2> QED
      BY <2>3, <2>4 DEF HistoryInv
  <1>4. ASSUME UNCHANGED <<stage, range, day_rows, rpc, cursor, upto, full, ready>>,
               \A s \in Sources : wpc[s] = "refresh" =>
                 wpc'[s] = wpc[s] /\ run_rows'[s] = run_rows[s]
        PROVE  HistoryInv'
    BY <1>4, QuietKeeps DEF HistoryInv, CallerOfTx
  <1>5. CASE StartJob \/ EndJob
    BY <1>4, <1>5 DEF StartJob, EndJob
  <1>6. ASSUME NEW s \in Sources, wpc[s] # "refresh", Worker(s)
        PROVE  HistoryInv'
    <2>1. \A t \in Sources \ {s} : wpc'[t] = wpc[t] /\ run_rows'[t] = run_rows[t]
      BY <1>6, StoreStep, WorkerCounts
    <2>2. UNCHANGED <<stage, range, day_rows, rpc, cursor, upto, full, ready>>
      BY <1>6 DEF Worker, BeginImport, SyncStations, SyncFails, ImportBatch,
         BatchCancelled, BatchFails, Processed, SaveBatch, MarkStale, MarkStaleFails,
         WorkerRefresh, WorkerRefreshed, WorkerRefreshFails, CloseRun, WorkerFails
    <2> QED
      BY <1>4, <1>6, <2>1, <2>2
  <1>7. ASSUME NEW s \in Sources, wpc[s] = "refresh", Worker(s)
        PROVE  WorkerRefresh(s) \/ WorkerRefreshed(s) \/ WorkerRefreshFails(s)
    BY <1>7 DEF Worker, BeginImport, SyncStations, SyncFails, ImportBatch,
         BatchCancelled, BatchFails, MarkStale, MarkStaleFails, CloseRun, WorkerFails
  <1>8. CASE ForceTerminal \/ WatchJob \/ ReapRuns \/ Tick \/ UNCHANGED vars
    BY <1>4, <1>8 DEF ForceTerminal, WatchJob, ReapRuns, Tick, vars, cycleVars
  <1> QED
    BY <1>1, <1>2, <1>3, <1>5, <1>6, <1>7, <1>8 DEF Next

\* Once the analytics read the rollups, a measurement they do not count belongs
\* to a run still to refresh, or to one of two known losses: its run ended
\* without its refresh, or it lay outside the bounds of the backfill that made
\* the rollups ready.
THEOREM BackfilledIsCounted == Spec => []BackfilledHistory
  <1>1. HistoryInv => BackfilledHistory
    BY DEF HistoryInv
  <1> QED
    BY <1>1, InitCycle, CycleStep, InitHistory, HistoryStep, PTL DEF Spec

-----------------------------------------------------------------------------
(* The stale check                                                          *)

\* A measurement that the daily rollup counts shows in its channel's bounds, so
\* its station has current data as long as the measurement is current.
LEMMA CountedIsCurrent ==
  ASSUME CycleInv, NEW r \in daily, r \in raw, r[2] >= now - Stale
  PROVE  HasCurrentData(StationOf[r[1]])
  <1>1. raw \subseteq Rows /\ BoundsEncloseRollups /\ now \in Times
    BY DEF CycleInv, RefreshInv, StoreTypeOK, CycleTypeOK
  <1>2. PICK c \in Channels, t \in Times : r = <<c, t>>
    BY <1>1 DEF Rows
  <1>3. ChannelBounds(c) # NoBounds /\ t <= ChannelBounds(c).last
    <2>1. CASE bounds[c] = NoBounds
      <3>1. NoBounds.last = 0 - 1
        BY DEF NoBounds
      <3>2. t <= 0 - 1
        BY <1>1, <1>2, <2>1, <3>1 DEF BoundsEncloseRollups
      <3> QED
        BY <3>2, Constants DEF Times
    <2>2. CASE bounds[c] # NoBounds
      BY <1>1, <1>2, <2>2 DEF BoundsEncloseRollups, ChannelBounds
    <2> QED
      BY <2>1, <2>2
  <1>4. ChannelBounds(c).last \in Times
    <2>1. RealBounds(c, bounds[c])
      BY <1>1 DEF BoundsEncloseRollups, RealBounds
    <2>2. RealBounds(c, BoundsOf(c, raw))
      BY <1>1, BoundsOfRows
    <2> QED
      BY <1>1, <1>3, <2>1, <2>2 DEF ChannelBounds, RealBounds, Rows
  <1>5. ChannelBounds(c).last >= now - Stale
    <2>1. /\ t \in Int /\ ChannelBounds(c).last \in Int /\ now \in Int /\ Stale \in Int
          /\ t >= now - Stale
      BY <1>1, <1>2, <1>4, Constants DEF Times
    <2> QED
      BY <1>3, <2>1
  <1>6. c \in ChannelsOf(StationOf[r[1]])
    BY <1>2 DEF ChannelsOf
  <1> QED
    BY <1>3, <1>5, <1>6 DEF HasCurrentData

LEMMA RetirementStep ==
  ASSUME CycleInv, HistoryInv, [Next]_vars, NEW s \in Sources,
         NEW st \in StationsOf(s),
         wpc[s] = "stale", station[st] = "active", station'[st] = "inactive"
  PROVE  ~HasCurrentData(st)
  <1>1. st \in Stations /\ SourceOf[st] = s
    BY DEF StationsOf
  <1>2. \/ UNCHANGED station
        \/ \E t \in Sources : SyncStations(t) \/ SyncFails(t) \/ MarkStale(t)
                              \/ MarkStaleFails(t)
    BY DEF Next, vars, cycleVars, runVars, workerVars, rollupVars, Worker, Rollup, StartJob,
       EndJob, ForceTerminal, WatchJob, ReapRuns, BeginImport, ImportBatch, BatchCancelled,
       BatchFails, WorkerRefresh, WorkerRefreshed, WorkerRefreshFails,
       CloseRun, WorkerFails, StartBackfill, StartRecent, RollupRefresh, RollupRefreshed,
       RollupStops, RollupFinalize, RollupMark, Tick, Crash
  <1>3. ASSUME NEW t \in Sources, SyncStations(t) \/ SyncFails(t) PROVE FALSE
    <2>1. wpc[t] = "stations"
      BY <1>3 DEF SyncStations, SyncFails
    <2>2. SourceOf[st] # t
      BY <1>1, <2>1
    <2>3. \A served : Synced(t, served)[st] = station[st]
      BY <1>1, <2>2 DEF Synced
    <2>4. station'[st] = station[st]
      BY <1>1, <1>3, <2>3 DEF SyncStations, SyncFails
    <2> QED
      BY <2>4
  <1>4. ASSUME NEW t \in Sources, MarkStale(t) \/ MarkStaleFails(t)
        PROVE  ~HasCurrentData(st)
    <2>1. PICK reached : station' = Retired(reached)
      BY <1>4 DEF MarkStale, MarkStaleFails
    <2> QED
      BY <1>1, <2>1 DEF Retired
  <1> QED
    BY <1>2, <1>3, <1>4

\* The stale check retires no station on account of bounds that forgot what the
\* rollups count: whatever refreshes overlap with it, a current measurement of a
\* station it retires is one that no refresh has counted yet, of a run still to
\* refresh or of the two known losses once the rollups are ready.
THEOREM RetirementsAreUncounted == Spec => RetiredIsUncounted
  <1> DEFINE Allowed ==
        \A s \in Sources : \A st \in StationsOf(s) :
          wpc[s] = "stale" /\ station[st] = "active" /\ station'[st] = "inactive" =>
            \A r \in raw :
              StationOf[r[1]] = st /\ r[2] >= now - Stale =>
                /\ r \notin daily
                /\ ready => r \in InFlight \cup unrolled \cup cut_off
  <1>1. ASSUME CycleInv, HistoryInv, [Next]_vars PROVE Allowed
    <2> SUFFICES ASSUME NEW s \in Sources, NEW st \in StationsOf(s),
                        wpc[s] = "stale", station[st] = "active", station'[st] = "inactive",
                        NEW r \in raw, StationOf[r[1]] = st, r[2] >= now - Stale
                 PROVE  /\ r \notin daily
                        /\ ready => r \in InFlight \cup unrolled \cup cut_off
      OBVIOUS
    <2>1. r \notin daily
      BY <1>1, RetirementStep, CountedIsCurrent
    <2>2. ready => r \in InFlight \cup unrolled \cup cut_off
      BY <1>1, <2>1 DEF HistoryInv, BackfilledHistory
    <2> QED
      BY <2>1, <2>2
  <1>2. CycleInv /\ HistoryInv /\ [Next]_vars => [Allowed]_vars
    BY <1>1
  <1> QED
    BY <1>2, InitCycle, CycleStep, InitHistory, HistoryStep, PTL
    DEF Spec, RetiredIsUncounted

-----------------------------------------------------------------------------
(* The first backfill                                                       *)

\* No refresh has stored the bounds of a channel when a backfill starts.
BackfillFirst ==
  [][StartBackfill => ready \/ \A c \in Channels : bounds[c] = NoBounds]_vars

\* Bounds taken from the measurements leave none of them out.
LEMMA ScannedBounds ==
  ASSUME CycleInv, raw # {}, \A c \in Channels : bounds[c] = NoBounds
  PROVE  OutsideBounds = {}
  <1> DEFINE times == {r[2] : r \in raw}
  <1>1. times \in SUBSET Times /\ times # {} /\ \A r \in raw : r[2] \in times
    BY DEF CycleInv, RefreshInv, StoreTypeOK, Rows
  <1>2. BackfillBounds = [first |-> Earliest(times), last |-> Latest(times)]
    BY <1>1 DEF BackfillBounds, MeasurementBounds
  <1> HIDE DEF times
  <1>3. /\ Earliest(times) \in Times /\ Latest(times) \in Times
        /\ \A t \in times : Earliest(times) <= t /\ Latest(times) >= t
    BY <1>1, EarliestOf, LatestOf
  <1>4. \A t \in Times : t \in Int
    BY Constants DEF Times
  <1> QED
    BY <1>1, <1>2, <1>3, <1>4 DEF OutsideBounds

\* The promise of execute_full holds of every history of imports, refreshes,
\* failures and crashes in which each backfill that starts before the rollups
\* are ready finds no bounds stored: then a measurement that they leave out
\* can only be one of a run that ended without its refresh.
THEOREM FirstBackfillIsComplete == Spec /\ BackfillFirst => []BackfillComplete
  <1> DEFINE NoneCut == cut_off = {}
             Bare == StartBackfill => ready \/ \A c \in Channels : bounds[c] = NoBounds
  <1>1. Init => NoneCut
    BY DEF Init
  <1>2. CycleInv /\ NoneCut /\ [Next]_vars /\ [Bare]_vars => NoneCut'
    <2> SUFFICES ASSUME CycleInv, NoneCut, [Next]_vars, [Bare]_vars PROVE NoneCut'
      OBVIOUS
    <2>1. CASE StartBackfill
      <3>1. vars' # vars
        BY <2>1 DEF StartBackfill, vars, cycleVars, rollupVars
      <3> QED
        BY <2>1, <3>1, ScannedBounds DEF StartBackfill
    <2>2. CASE ~StartBackfill
      BY <2>2 DEF Next, vars, cycleVars, rollupVars, Rollup, Worker, StartJob, EndJob,
         ForceTerminal, WatchJob, ReapRuns, BeginImport, SyncStations, SyncFails,
         ImportBatch, BatchCancelled, BatchFails, MarkStale, MarkStaleFails,
         WorkerRefresh, WorkerRefreshed, WorkerRefreshFails, CloseRun, WorkerFails,
         StartRecent, RollupRefresh, RollupRefreshed, RollupStops, RollupFinalize,
         RollupMark, Tick, Crash
    <2> QED BY <2>1, <2>2
  <1>3. BackfilledHistory /\ NoneCut => BackfillComplete
    BY DEF BackfilledHistory, BackfillComplete
  <1> HIDE DEF NoneCut
  <1>4. BackfillFirst <=> [][Bare]_vars
    BY DEF BackfillFirst
  <1> HIDE DEF Bare
  <1> QED
    BY <1>1, <1>2, <1>3, <1>4, InitCycle, CycleStep, BackfilledIsCounted, PTL DEF Spec
=============================================================================
