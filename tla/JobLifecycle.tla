---------------------------- MODULE JobLifecycle ----------------------------
(***************************************************************************)
(* The protocol of one scheduled job type: the `jobs` and `job_locks`      *)
(* tables, the runner of every process instance (`run_if_due`, `execute`,  *)
(* `finalize`), its heartbeat thread, the watcher and the REST             *)
(* cancellation.  Every repository statement is filtered by job type or    *)
(* job id, so the five job types do not interact through these tables and  *)
(* one type is modelled at a time; which one is chosen in Init.            *)
(*                                                                         *)
(* Time is abstracted to what the code compares it with: a heartbeat is    *)
(* fresh or older than the type's interval, a lease is running or expired. *)
(* Either may lapse at any moment, also under a live owner (a paused       *)
(* process, a slow pool, a database outage).                               *)
(***************************************************************************)
EXTENDS Naturals, FiniteSets

CONSTANTS
  Instances,    \* process starts: a restart is another instance_id
  Jobs,         \* job ids (Uuid::new_v4)
  Nobody,       \* no lock row
  NoJob,
  JobTypes,     \* the job types a behaviour may be about
  MaxCrashes,   \* bound: instances that die
  MaxFaults,    \* bound: repository calls that return Err
  MaxPanics     \* bound: workers that unwind out of execute

ASSUME NobodyAssumption == Nobody \notin Instances
ASSUME NoJobAssumption == NoJob \notin Jobs
ASSUME BoundsAssumption == /\ MaxCrashes \in Nat
                           /\ MaxFaults \in Nat
                           /\ MaxPanics \in Nat

VARIABLES
  jobType,      \* the type this behaviour is about
  status,       \* the jobs table: status,
  instance,     \*   instance_id,
  fresh,        \*   heartbeat_at is younger than the type's interval
  locked_by,    \* the type's job_locks row, or Nobody when there is none
  expired,      \*   lock_until has passed
  dead,         \* the processes that crashed (one not started yet takes no step)
  pc,           \* where each process' runner of the type is
  job,          \* the job the runner works on
  outcome,      \* what its work returned, until finalize has used it
  call,         \* the runner's own heartbeat call, between two statements
  beat,         \* the heartbeat thread of each job
  sweeping,     \* the processes whose watcher is between its two statements
  faults,
  panics,
  lapsed        \* history: the lease ran out under a live holder

vars == <<jobType, status, instance, fresh, locked_by, expired, dead, pc, job,
          outcome, call, beat, sweeping, faults, panics, lapsed>>

-----------------------------------------------------------------------------
(* The tables.                                                             *)

History == INSTANCE JobHistory

jobs == <<status, instance, fresh>>
lock == <<locked_by, expired>>
tables == <<jobs, lock>>

Unborn == "NONE"
JobStatus == {"RUNNING", "FINISHED", "FAILED", "CANCELLATION_REQUESTED", "CANCELLED"}
ActiveStatus == {"RUNNING", "CANCELLATION_REQUESTED"}

Active(j) == status[j] \in ActiveStatus

\* Mutation: a job that was asked to stop is not listed.
find_running_by_type == {j \in Jobs : status[j] = "RUNNING"}

find_active_by_type == {j \in Jobs : Active(j)}
find_last_finished_by_type == {j \in Jobs : status[j] = "FINISHED"}

\* Mutation: the owner is not recorded.
InsertUnowned(j, i) ==
  /\ status' = [status EXCEPT ![j] = "RUNNING"]
  /\ fresh' = [fresh EXCEPT ![j] = TRUE]
  /\ UNCHANGED instance

\* Job::running: born RUNNING, owned, with a fresh heartbeat.
insert(j, i) ==
  /\ status' = [status EXCEPT ![j] = "RUNNING"]
  /\ instance' = [instance EXCEPT ![j] = i]
  /\ fresh' = [fresh EXCEPT ![j] = TRUE]

Unlock == locked_by' = Nobody /\ expired' = FALSE

\* Mutation: the DELETE is not scoped to the job's instance.
FreeLockUnscoped(owners) == IF owners # {} THEN Unlock ELSE UNCHANGED lock

\* The DELETE that goes with a terminal transition of jobs of these owners.
FreeLock(owners) == IF locked_by \in owners THEN Unlock ELSE UNCHANGED lock

\* Jobs that end leave the lock with them.  (A terminal row's heartbeat is
\* never read again.)
SetTerminal(ended, terminal) ==
  /\ status' = [j \in Jobs |-> IF j \in ended THEN terminal ELSE status[j]]
  /\ fresh' = [j \in Jobs |-> j \notin ended /\ fresh[j]]
  /\ UNCHANGED instance
  /\ FreeLock({instance[j] : j \in ended})

\* Mutation: the UPDATE is not guarded by the status.
set_finished_unguarded(j) == SetTerminal({j}, "FINISHED")

\* A transition that finds no row in the right status changes nothing: the
\* callers log the error and go on.
set_finished(j) ==
  SetTerminal({k \in {j} : status[k] = "RUNNING"}, "FINISHED")

set_failed(j) ==
  SetTerminal({k \in {j} : status[k] = "RUNNING"}, "FAILED")

mark_cancelled(j) ==
  SetTerminal({k \in {j} : Active(k)}, "CANCELLED")

RequestStop(asked) ==
  /\ status' = [j \in Jobs |-> IF j \in asked THEN "CANCELLATION_REQUESTED" ELSE status[j]]
  /\ UNCHANGED <<instance, fresh, lock>>

request_cancellation(j) == RequestStop({k \in {j} : status[k] = "RUNNING"})

release(i) == FreeLock({i})

\* heartbeat is three statements: refresh the row, extend the lease when the
\* row was refreshed, read the status back.
RefreshHits(j, i) == instance[j] = i /\ status[j] = "RUNNING"

heartbeat_refresh(j, i) ==
  /\ fresh' = [fresh EXCEPT ![j] = @ \/ RefreshHits(j, i)]
  /\ UNCHANGED <<status, instance>>

heartbeat_extend(i) ==
  /\ expired' = (expired /\ locked_by # i)
  /\ UNCHANGED locked_by

\* The types JobReconciliationService sweeps; opendata_export is not listed.
heartbeat_intervals ==
  {"data_source_update", "asset_cleanup", "tiles_update", "measurement_rollup"}

\* The two runners that heartbeat once more after the work instead of reading
\* the job back, and that treat a failed heartbeat as "not cancelled".
Rechecks == jobType \in {"tiles_update", "measurement_rollup"}

-----------------------------------------------------------------------------

Phase == {"idle", "checked", "acquired", "working", "stopping", "reading",
          "rechecking", "mark_cancelled", "set_finished", "set_failed",
          "releasing"}

Init ==
  /\ jobType \in JobTypes
  /\ status = [j \in Jobs |-> Unborn]
  /\ instance = [j \in Jobs |-> Nobody]
  /\ fresh = [j \in Jobs |-> FALSE]
  /\ locked_by = Nobody
  /\ expired = FALSE
  /\ dead = {}
  /\ pc = [i \in Instances |-> "idle"]
  /\ job = [i \in Instances |-> NoJob]
  /\ outcome = [i \in Instances |-> "none"]
  /\ call = [i \in Instances |-> "none"]
  /\ beat = [j \in Jobs |-> "off"]
  /\ sweeping = {}
  /\ faults = 0
  /\ panics = 0
  /\ lapsed = FALSE

\* A repository call returns Err.
Fault == faults < MaxFaults /\ faults' = faults + 1

At(i, phase) == pc[i] = phase
Goto(i, phase) == pc' = [pc EXCEPT ![i] = phase]

threads == <<call, beat, sweeping>>
environment == <<jobType, dead, panics, lapsed>>

-----------------------------------------------------------------------------
(* Processes.                                                              *)

\* Between any two statements: runner, threads and watcher vanish, the tables
\* keep what was committed.
Crash(i) ==
  /\ i \notin dead
  /\ Cardinality(dead) < MaxCrashes
  /\ dead' = dead \cup {i}
  /\ pc' = [pc EXCEPT ![i] = "idle"]
  /\ job' = [job EXCEPT ![i] = NoJob]
  /\ outcome' = [outcome EXCEPT ![i] = "none"]
  /\ call' = [call EXCEPT ![i] = "none"]
  /\ beat' = [j \in Jobs |-> IF instance[j] = i THEN "off" ELSE beat[j]]
  /\ sweeping' = sweeping \ {i}
  /\ UNCHANGED <<jobType, tables, faults, panics, lapsed>>

-----------------------------------------------------------------------------
(* The runner: run_if_due and execute.                                     *)

\* Bound: there is an unused job id for every runner past the check.
IdsLeft == Cardinality({k \in Instances : pc[k] \in {"checked", "acquired"}})
             < Cardinality({j \in Jobs : status[j] = Unborn})

\* No active job: go on.  (An active job, or Err, returns and changes nothing.)
FindActive(i) ==
  /\ At(i, "idle")
  /\ i \notin dead
  /\ find_active_by_type = {}
  /\ IdsLeft
  /\ Goto(i, "checked")
  /\ UNCHANGED <<tables, job, outcome, threads, environment, faults>>

\* The last success is not overdue, or looking for it returns Err.
NotDue(i) ==
  /\ At(i, "checked")
  /\ \/ find_last_finished_by_type # {} /\ UNCHANGED faults
     \/ Fault
  /\ Goto(i, "idle")
  /\ UNCHANGED <<tables, job, outcome, threads, environment>>

\* Mutation: the upsert has no WHERE clause.
AcquirableAlways == TRUE

\* Mutation: the upsert does nothing on conflict.
AcquirableFree == locked_by = Nobody

\* The upsert wins a missing row, or one whose lock_until has passed.
Acquirable == locked_by = Nobody \/ expired

acquire(i) == locked_by' = i /\ expired' = FALSE

Acquire(i) ==
  /\ At(i, "checked")
  /\ Acquirable
  /\ acquire(i)
  /\ Goto(i, "acquired")
  /\ UNCHANGED <<jobs, job, outcome, threads, environment, faults>>

\* Another holder's lease is running: skip.
AcquireLoses(i) ==
  /\ At(i, "checked")
  /\ ~Acquirable
  /\ Goto(i, "idle")
  /\ UNCHANGED <<tables, job, outcome, threads, environment, faults>>

\* acquire returns Err; the upsert may have been committed all the same.
AcquireError(i) ==
  /\ At(i, "checked")
  /\ Fault
  /\ \/ Acquirable /\ acquire(i)
     \/ UNCHANGED lock
  /\ Goto(i, "idle")
  /\ UNCHANGED <<jobs, job, outcome, threads, environment>>

InsertJob(i, j) ==
  /\ At(i, "acquired")
  /\ status[j] = Unborn
  /\ insert(j, i)
  /\ job' = [job EXCEPT ![i] = j]
  /\ beat' = [beat EXCEPT ![j] = "sleeping"]
  /\ Goto(i, "working")
  /\ UNCHANGED <<lock, outcome, call, sweeping, environment, faults>>

\* insert returns Err (committed or not): the lock is released, no work.
InsertError(i, j) ==
  /\ At(i, "acquired")
  /\ Fault
  /\ status[j] = Unborn
  /\ \/ insert(j, i)
     \/ UNCHANGED jobs
  /\ Goto(i, "releasing")
  /\ UNCHANGED <<lock, job, outcome, threads, environment>>

\* The work ends by itself, with success or with an error.
WorkDone(i) ==
  /\ At(i, "working")
  /\ call[i] = "none"
  /\ \E o \in {"ok", "err"} : outcome' = [outcome EXCEPT ![i] = o]
  /\ Goto(i, "stopping")
  /\ UNCHANGED <<tables, job, threads, environment, faults>>

\* The work unwinds: the scheduler drops the JoinError, nothing stops the
\* heartbeat thread.  (The source update turns a panic of a source's thread
\* into an error.)
Panic(i) ==
  /\ At(i, "working")
  /\ jobType # "data_source_update"
  /\ call[i] = "none"
  /\ panics < MaxPanics
  /\ panics' = panics + 1
  /\ Goto(i, "idle")
  /\ job' = [job EXCEPT ![i] = NoJob]
  /\ UNCHANGED <<jobType, dead, lapsed, tables, outcome, threads, faults>>

-----------------------------------------------------------------------------
(* The runner's own heartbeat call: check_cancellation at a sub-task       *)
(* boundary, and the recheck of the tiles and rollup runners.              *)

CheckRefresh(i) ==
  /\ At(i, "working") \/ At(i, "rechecking")
  /\ call[i] = "none"
  /\ heartbeat_refresh(job[i], i)
  /\ call' = [call EXCEPT ![i] = IF RefreshHits(job[i], i) THEN "extend" ELSE "observe"]
  /\ UNCHANGED <<lock, pc, job, outcome, beat, sweeping, environment, faults>>

CheckExtend(i) ==
  /\ call[i] = "extend"
  /\ heartbeat_extend(i)
  /\ call' = [call EXCEPT ![i] = "observe"]
  /\ UNCHANGED <<jobs, pc, job, outcome, beat, sweeping, environment, faults>>

CancelSeen(j) == status[j] \in {"CANCELLATION_REQUESTED", "CANCELLED"}

\* What the runner returns with when it meets a cancellation in its work: the
\* source update swallows it (Ok), cleanup and export return Err(Cancelled).
CancelledOutcome ==
  CASE Rechecks -> {"cancelled"}
    [] jobType = "data_source_update" -> {"ok"}
    [] OTHER -> {"err"}

CheckObserve(i) ==
  /\ call[i] = "observe"
  /\ call' = [call EXCEPT ![i] = "none"]
  /\ \/ /\ pc[i] = "working"
        /\ ~CancelSeen(job[i])
        /\ UNCHANGED <<pc, outcome>>
     \/ /\ pc[i] = "working"
        /\ CancelSeen(job[i])
        /\ \E o \in CancelledOutcome : outcome' = [outcome EXCEPT ![i] = o]
        /\ Goto(i, "stopping")
     \/ /\ pc[i] = "rechecking"
        /\ Goto(i, IF CancelSeen(job[i]) THEN "mark_cancelled" ELSE "set_finished")
        /\ UNCHANGED outcome
  /\ UNCHANGED <<tables, job, beat, sweeping, environment, faults>>

\* A statement of the call fails: an error of the work, except for the two
\* runners that go on as if nothing was requested.
CheckError(i) ==
  /\ At(i, "working") \/ At(i, "rechecking")
  /\ Fault
  /\ call' = [call EXCEPT ![i] = "none"]
  /\ \/ /\ ~Rechecks
        /\ outcome' = [outcome EXCEPT ![i] = "err"]
        /\ Goto(i, "stopping")
     \/ /\ Rechecks
        /\ Goto(i, IF pc[i] = "working" THEN "working" ELSE "set_finished")
        /\ UNCHANGED outcome
  /\ UNCHANGED <<tables, job, beat, sweeping, environment>>

-----------------------------------------------------------------------------
(* The runner: heartbeat.stop and finalize.                                *)

\* stop() joins the thread, so it waits for a beat in flight.
Joinable(j) == beat[j] \in {"off", "sleeping"}

\* Mutation: a failed build or refresh returns without a transition.
AfterStopSilent(o) ==
  CASE ~Rechecks -> "reading"
    [] Rechecks /\ o = "ok" -> "rechecking"
    [] Rechecks /\ o = "cancelled" -> "mark_cancelled"
    [] OTHER -> "releasing"

AfterStop(o) ==
  CASE ~Rechecks -> "reading"
    [] Rechecks /\ o = "ok" -> "rechecking"
    [] Rechecks /\ o = "cancelled" -> "mark_cancelled"
    [] OTHER -> "set_failed"

StopHeartbeat(i) ==
  /\ At(i, "stopping")
  /\ Joinable(job[i])
  /\ beat' = [beat EXCEPT ![job[i]] = "off"]
  /\ Goto(i, AfterStop(outcome[i]))
  /\ outcome' = [outcome EXCEPT ![i] = IF Rechecks THEN "none" ELSE @]
  /\ UNCHANGED <<tables, job, call, sweeping, environment, faults>>

Verdict(o) == IF o = "ok" THEN "set_finished" ELSE "set_failed"

\* finalize reads the job and decides which transition to write.
ReadStatus(i) ==
  /\ At(i, "reading")
  /\ Goto(i, IF CancelSeen(job[i]) THEN "mark_cancelled" ELSE Verdict(outcome[i]))
  /\ outcome' = [outcome EXCEPT ![i] = "none"]
  /\ UNCHANGED <<tables, job, threads, environment, faults>>

\* find_by_id(..).ok() turns a failed read into "no status".
ReadStatusError(i) ==
  /\ At(i, "reading")
  /\ Fault
  /\ Goto(i, Verdict(outcome[i]))
  /\ outcome' = [outcome EXCEPT ![i] = "none"]
  /\ UNCHANGED <<tables, job, threads, environment>>

MarkCancelled(i) ==
  /\ At(i, "mark_cancelled")
  /\ mark_cancelled(job[i])
  /\ Goto(i, "releasing")
  /\ UNCHANGED <<job, outcome, threads, environment, faults>>

SetFinished(i) ==
  /\ At(i, "set_finished")
  /\ set_finished(job[i])
  /\ Goto(i, "releasing")
  /\ UNCHANGED <<job, outcome, threads, environment, faults>>

SetFailed(i) ==
  /\ At(i, "set_failed")
  /\ set_failed(job[i])
  /\ Goto(i, "releasing")
  /\ UNCHANGED <<job, outcome, threads, environment, faults>>

\* The transition fails and rolls back; it is logged and the lock released.
\* (Err after a commit looks like the transition itself.)
FinalizeError(i) ==
  /\ \E phase \in {"mark_cancelled", "set_finished", "set_failed"} : At(i, phase)
  /\ Fault
  /\ Goto(i, "releasing")
  /\ UNCHANGED <<tables, job, outcome, threads, environment>>

Return(i) ==
  /\ Goto(i, "idle")
  /\ job' = [job EXCEPT ![i] = NoJob]
  /\ UNCHANGED <<jobs, outcome, threads, environment>>

Release(i) ==
  /\ At(i, "releasing")
  /\ release(i)
  /\ UNCHANGED faults
  /\ Return(i)

ReleaseError(i) ==
  /\ At(i, "releasing")
  /\ Fault
  /\ UNCHANGED lock
  /\ Return(i)

-----------------------------------------------------------------------------
(* The heartbeat thread of a job.                                          *)

BeatRefresh(j) ==
  /\ beat[j] = "sleeping"
  /\ heartbeat_refresh(j, instance[j])
  /\ beat' = [beat EXCEPT ![j] =
                IF RefreshHits(j, instance[j]) THEN "extend" ELSE "observe"]
  /\ UNCHANGED <<lock, pc, job, outcome, call, sweeping, environment, faults>>

BeatExtend(j) ==
  /\ beat[j] = "extend"
  /\ heartbeat_extend(instance[j])
  /\ beat' = [beat EXCEPT ![j] = "observe"]
  /\ UNCHANGED <<jobs, pc, job, outcome, call, sweeping, environment, faults>>

\* Still RUNNING: sleep and beat again; anything else ends the thread.
BeatObserve(j) ==
  /\ beat[j] = "observe"
  /\ beat' = [beat EXCEPT ![j] = IF status[j] = "RUNNING" THEN "sleeping" ELSE "off"]
  /\ UNCHANGED <<tables, pc, job, outcome, call, sweeping, environment, faults>>

\* A failed statement is retried at the next tick.
BeatError(j) ==
  /\ beat[j] \in {"extend", "observe"}
  /\ Fault
  /\ beat' = [beat EXCEPT ![j] = "sleeping"]
  /\ UNCHANGED <<tables, pc, job, outcome, call, sweeping, environment>>

-----------------------------------------------------------------------------
(* Time.                                                                   *)

GoStale(j) ==
  /\ Active(j)
  /\ fresh[j]
  /\ fresh' = [fresh EXCEPT ![j] = FALSE]
  /\ UNCHANGED <<status, instance, lock, pc, job, outcome, threads, environment, faults>>

HoldingPhase == {"acquired", "working", "stopping", "reading", "rechecking",
                 "mark_cancelled", "set_finished", "set_failed"}

\* Instance i's runner believes it owns the type: it won the lock, and the job
\* it recorded (if it got that far) is still RUNNING.
Holds(i) ==
  /\ pc[i] \in HoldingPhase
  /\ job[i] # NoJob => status[job[i]] = "RUNNING"

Expire ==
  /\ locked_by # Nobody
  /\ ~expired
  /\ expired' = TRUE
  /\ lapsed' = (lapsed \/ Holds(locked_by))
  /\ UNCHANGED <<jobType, jobs, locked_by, dead, pc, job, outcome, threads, faults, panics>>

-----------------------------------------------------------------------------
(* The watcher: reconcile_stale_active is two statements.                  *)

Stale(s) == {j \in Jobs : status[j] = s /\ ~fresh[j]}

\* Stage 1: stale RUNNING rows are asked to stop.
ReconcileRequest(i) ==
  /\ i \notin dead
  /\ jobType \in heartbeat_intervals
  /\ i \notin sweeping
  /\ RequestStop(Stale("RUNNING"))
  /\ sweeping' = sweeping \cup {i}
  /\ UNCHANGED <<pc, job, outcome, call, beat, environment, faults>>

\* Stage 2: stale requested rows are cancelled and their owners' lock freed.
ReconcileCancel(i) ==
  /\ i \in sweeping
  /\ SetTerminal(Stale("CANCELLATION_REQUESTED"), "CANCELLED")
  /\ sweeping' = sweeping \ {i}
  /\ UNCHANGED <<pc, job, outcome, call, beat, environment, faults>>

\* A failed statement is logged; the pass goes on with the next type.
ReconcileError(i) ==
  /\ i \in sweeping
  /\ Fault
  /\ sweeping' = sweeping \ {i}
  /\ UNCHANGED <<tables, pc, job, outcome, call, beat, environment>>

-----------------------------------------------------------------------------
(* REST: JobService::cancel reads the job and, when it is still active, acts *)
(* on what it read (an already requested job only when forced).  Every row  *)
(* was RUNNING once, so with any delay between the read and the write, and  *)
(* any number of calls in flight, a call may reach a row in any status.     *)

Cancel(j, force) ==
  /\ status[j] # Unborn
  /\ IF force THEN mark_cancelled(j) ELSE request_cancellation(j)
  /\ UNCHANGED <<pc, job, outcome, threads, environment, faults>>

-----------------------------------------------------------------------------
Runner(i) ==
  \/ FindActive(i) \/ NotDue(i)
  \/ Acquire(i) \/ AcquireLoses(i) \/ AcquireError(i)
  \/ \E j \in Jobs : InsertJob(i, j) \/ InsertError(i, j)
  \/ WorkDone(i) \/ Panic(i)
  \/ CheckRefresh(i) \/ CheckExtend(i) \/ CheckObserve(i) \/ CheckError(i)
  \/ StopHeartbeat(i) \/ ReadStatus(i) \/ ReadStatusError(i)
  \/ MarkCancelled(i) \/ SetFinished(i) \/ SetFailed(i) \/ FinalizeError(i)
  \/ Release(i) \/ ReleaseError(i)

Beat(j) == BeatRefresh(j) \/ BeatExtend(j) \/ BeatObserve(j) \/ BeatError(j)

Watcher(i) == ReconcileRequest(i) \/ ReconcileCancel(i) \/ ReconcileError(i)

Next ==
  \/ \E i \in Instances : Crash(i) \/ Runner(i) \/ Watcher(i)
  \/ \E j \in Jobs : Beat(j) \/ GoStale(j) \/ \E force \in BOOLEAN : Cancel(j, force)
  \/ Expire

Spec == Init /\ [][Next]_vars

-----------------------------------------------------------------------------
(* Safety.                                                                 *)

\* Every variable has its type, and a row has an owner exactly when it has
\* been inserted (Job::running always records the instance).
TypeOK ==
  /\ jobType \in JobTypes
  /\ status \in [Jobs -> JobStatus \cup {Unborn}]
  /\ instance \in [Jobs -> Instances \cup {Nobody}]
  /\ fresh \in [Jobs -> BOOLEAN]
  /\ \A j \in Jobs : status[j] = Unborn <=> instance[j] = Nobody
  /\ locked_by \in Instances \cup {Nobody}
  /\ expired \in BOOLEAN
  /\ dead \subseteq Instances
  /\ pc \in [Instances -> Phase]
  /\ job \in [Instances -> Jobs \cup {NoJob}]
  /\ outcome \in [Instances -> {"none", "ok", "err", "cancelled"}]
  /\ call \in [Instances -> {"none", "extend", "observe"}]
  /\ beat \in [Jobs -> {"off", "sleeping", "extend", "observe"}]
  /\ sweeping \subseteq Instances
  /\ faults \in Nat
  /\ panics \in Nat
  /\ lapsed \in BOOLEAN

\* ShedLock's promise: as long as no lease ran out under a live holder, no two
\* runners of the type own it at once, whatever cancellations, watchers,
\* crashes and failed calls happen in between.
LeaseExclusive ==
  lapsed \/ \A i, k \in Instances : Holds(i) /\ Holds(k) => i = k

\* A worker's job is never left RUNNING behind its back: on a process that is
\* up, and unless a call failed or a worker panicked, some runner still works
\* on every RUNNING job.  (The late cancellation that finalize misses leaves
\* CANCELLATION_REQUESTED, never RUNNING.)
NoAbandonedRunning ==
  faults = 0 /\ panics = 0 =>
    \A j \in Jobs :
      status[j] = "RUNNING" /\ instance[j] \notin dead =>
        /\ job[instance[j]] = j
        /\ pc[instance[j]] # "releasing"

\* The check for an active job is not atomic with the insert, so two instances
\* may each have one; a single instance never has two active jobs of a type,
\* which is what makes freeing "the lock of the job's instance" right.
OneActivePerInstance ==
  \A j, k \in Jobs :
    Active(j) /\ Active(k) /\ instance[j] = instance[k] => j = k

\* Only a takeover of an expired lease takes the lock from a runner that still
\* owns the type: the DELETE of another job's terminal transition, of the
\* watcher or of a late release never hits a lock a newer job acquired.
LockOutlivesItsJob ==
  [][\A i \in Instances :
       Holds(i) /\ locked_by = i /\ locked_by' # i =>
         expired \/ ~Holds(i)']_vars

\* The jobs table is a history: rows are born RUNNING, follow the status
\* machine, and no retry, watcher or late worker rewrites a terminal row.
StatusProtocol == History!Spec

-----------------------------------------------------------------------------
(* Fairness.  Work ends, every call returns, the watcher ticks every 30    *)
(* seconds on a live process, and a heartbeat or lease nobody renews gets  *)
(* old.  Nothing is assumed of crashes, errors, panics or REST clients.    *)

\* The runner's own steps once it has passed the check.
Proceed(i) ==
  \/ NotDue(i) \/ Acquire(i) \/ AcquireLoses(i)
  \/ \E j \in Jobs : InsertJob(i, j)
  \/ CheckExtend(i) \/ CheckObserve(i)
  \/ pc[i] = "rechecking" /\ CheckRefresh(i)
  \/ ReadStatus(i) \/ MarkCancelled(i) \/ SetFinished(i) \/ SetFailed(i) \/ Release(i)

\* A heartbeat with no thread behind it, a lease with no holder behind it.
Ages(j) == beat[j] = "off" /\ GoStale(j)
LeaseEnds == locked_by # Nobody /\ ~Holds(locked_by) /\ Expire

Fairness ==
  /\ \A i \in Instances :
       /\ WF_vars(Proceed(i))
       /\ SF_vars(WorkDone(i))
       /\ SF_vars(StopHeartbeat(i))
       /\ WF_vars(ReconcileRequest(i))
       /\ WF_vars(ReconcileCancel(i))
  /\ \A j \in Jobs :
       /\ WF_vars(BeatExtend(j) \/ BeatObserve(j))
       /\ WF_vars(Ages(j))
  /\ WF_vars(LeaseEnds)

FairSpec == Spec /\ Fairness
-----------------------------------------------------------------------------
(* Liveness.                                                               *)

Startable == find_active_by_type = {} /\ Acquirable

\* A crashed or lost worker cannot block the type: again and again no job is
\* active and the lock can be had.  As terminal rows stay terminal, this also
\* says that every active job ends.
TypeRunnableAgain == []<>Startable
=============================================================================
