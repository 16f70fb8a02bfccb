------------------------- MODULE JobLifecycleProofs -------------------------
(***************************************************************************)
(* Proofs about JobLifecycle, for every set of instances and jobs, every   *)
(* job type and every bound.                                               *)
(***************************************************************************)
EXTENDS JobLifecycle, TLAPS

-----------------------------------------------------------------------------
(* The repository statements.                                              *)

\* A terminal transition of born rows keeps the tables well typed.
LEMMA SetTerminalType ==
  ASSUME TypeOK, NEW ended \in SUBSET Jobs, NEW s \in JobStatus,
         \A j \in ended : status[j] # Unborn,
         SetTerminal(ended, s)
  PROVE  /\ status' \in [Jobs -> JobStatus \cup {Unborn}]
         /\ instance' = instance
         /\ fresh' \in [Jobs -> BOOLEAN]
         /\ \A j \in Jobs : status'[j] = Unborn <=> status[j] = Unborn
         /\ locked_by' \in Instances \cup {Nobody}
         /\ expired' \in BOOLEAN
  <1>1. s # Unborn
    BY DEF JobStatus, Unborn
  <1> QED
    BY <1>1 DEF TypeOK, SetTerminal, FreeLock, Unlock, lock

\* Each of the three transitions a runner writes for its job is a
\* SetTerminal, so it keeps the tables well typed.
LEMMA RunnerTransitionType ==
  ASSUME TypeOK, NEW j \in Jobs,
         set_finished(j) \/ set_failed(j) \/ mark_cancelled(j)
  PROVE  /\ status' \in [Jobs -> JobStatus \cup {Unborn}]
         /\ instance' = instance
         /\ fresh' \in [Jobs -> BOOLEAN]
         /\ \A k \in Jobs : status'[k] = Unborn <=> status[k] = Unborn
         /\ locked_by' \in Instances \cup {Nobody}
         /\ expired' \in BOOLEAN
  <1> DEFINE running == {k \in {j} : status[k] = "RUNNING"}
             active == {k \in {j} : Active(k)}
  <1>1. /\ running \in SUBSET Jobs /\ \A k \in running : status[k] # Unborn
        /\ active \in SUBSET Jobs /\ \A k \in active : status[k] # Unborn
    BY DEF Active, ActiveStatus, Unborn
  <1>2. {"FINISHED", "FAILED", "CANCELLED"} \subseteq JobStatus
    BY DEF JobStatus
  <1> HIDE DEF running, active
  <1>3. CASE set_finished(j)
    BY <1>1, <1>2, <1>3, SetTerminalType DEF set_finished, running
  <1>4. CASE set_failed(j)
    BY <1>1, <1>2, <1>4, SetTerminalType DEF set_failed, running
  <1>5. CASE mark_cancelled(j)
    BY <1>1, <1>2, <1>5, SetTerminalType DEF mark_cancelled, active
  <1> QED
    BY <1>3, <1>4, <1>5

\* A request to stop keeps the tables well typed.
LEMMA RequestStopType ==
  ASSUME TypeOK, NEW asked \in SUBSET Jobs,
         \A j \in asked : status[j] # Unborn,
         RequestStop(asked)
  PROVE  /\ status' \in [Jobs -> JobStatus \cup {Unborn}]
         /\ \A j \in Jobs : status'[j] = Unborn <=> status[j] = Unborn
         /\ UNCHANGED <<instance, fresh, locked_by, expired>>
  <1>1. "CANCELLATION_REQUESTED" \in JobStatus /\ "CANCELLATION_REQUESTED" # Unborn
    BY DEF JobStatus, Unborn
  <1> QED
    BY <1>1 DEF TypeOK, RequestStop, lock

-----------------------------------------------------------------------------
(* Type correctness.                                                       *)

\* The phases in which a runner has a job.
WorkPhase == HoldingPhase \ {"acquired"}

\* A runner has a job from its insert until it returns.
HasJob ==
  \A i \in Instances :
    /\ pc[i] \in {"idle", "checked", "acquired"} => job[i] = NoJob
    /\ pc[i] \in WorkPhase => job[i] \in Jobs

\* Base case of the type invariant: the tables start empty and every
\* runner idle.
LEMMA InitType == Init => TypeOK /\ HasJob
  <1> SUFFICES ASSUME Init
               PROVE  TypeOK /\ HasJob
    OBVIOUS
  <1>1. status \in [Jobs -> JobStatus \cup {Unborn}]
    BY DEF Init
  <1>2. \A j \in Jobs : status[j] = Unborn <=> instance[j] = Nobody
    BY DEF Init
  <1>3. pc \in [Instances -> Phase]
    BY DEF Init, Phase
  <1>4. /\ instance \in [Jobs -> Instances \cup {Nobody}]
        /\ fresh \in [Jobs -> BOOLEAN]
        /\ locked_by \in Instances \cup {Nobody}
        /\ expired \in BOOLEAN
        /\ job \in [Instances -> Jobs \cup {NoJob}]
    BY DEF Init
  <1>5. TypeOK
    BY <1>1, <1>2, <1>3, <1>4 DEF Init, TypeOK
  <1>6. HasJob
    BY DEF Init, HasJob, WorkPhase, HoldingPhase
  <1> QED
    BY <1>5, <1>6

\* Every action keeps the variables in their types, and an owner recorded
\* on exactly the rows that were inserted.
LEMMA TypeStep == TypeOK /\ HasJob /\ [Next]_vars => TypeOK'
  <1> SUFFICES ASSUME TypeOK, HasJob, [Next]_vars
               PROVE  TypeOK'
    OBVIOUS
  <1> USE DEF At, Goto, tables, jobs, lock, threads, environment
  <1>1. ASSUME NEW i \in Instances, Crash(i)
        PROVE  TypeOK'
    BY <1>1 DEF TypeOK, Crash, Phase, JobStatus, Unborn
  <1>2. ASSUME NEW i \in Instances, FindActive(i)
        PROVE  TypeOK'
    BY <1>2 DEF TypeOK, FindActive, Phase, JobStatus, Unborn
  <1>3. ASSUME NEW i \in Instances, NotDue(i)
        PROVE  TypeOK'
    BY <1>3, BoundsAssumption DEF TypeOK, NotDue, Phase, JobStatus, Unborn, Fault
  <1>4. ASSUME NEW i \in Instances, Acquire(i)
        PROVE  TypeOK'
    BY <1>4 DEF TypeOK, Acquire, Phase, JobStatus, Unborn, acquire
  <1>5. ASSUME NEW i \in Instances, AcquireLoses(i)
        PROVE  TypeOK'
    BY <1>5 DEF TypeOK, AcquireLoses, Phase, JobStatus, Unborn
  <1>6. ASSUME NEW i \in Instances, AcquireError(i)
        PROVE  TypeOK'
    <2>1. /\ locked_by' \in Instances \cup {Nobody}
          /\ expired' \in BOOLEAN
      BY <1>6 DEF AcquireError, acquire, TypeOK
    <2>2. faults' \in Nat
      BY <1>6 DEF AcquireError, Fault, TypeOK
    <2> QED
      BY <1>6, <2>1, <2>2 DEF AcquireError, TypeOK, Phase
  <1>7. ASSUME NEW i \in Instances, NEW j \in Jobs, InsertJob(i, j)
        PROVE  TypeOK'
    BY <1>7, NobodyAssumption DEF TypeOK, InsertJob, Phase, JobStatus, Unborn, insert
  <1>8. ASSUME NEW i \in Instances, NEW j \in Jobs, InsertError(i, j)
        PROVE  TypeOK'
    <2>1. /\ status' \in [Jobs -> JobStatus \cup {Unborn}]
          /\ instance' \in [Jobs -> Instances \cup {Nobody}]
          /\ fresh' \in [Jobs -> BOOLEAN]
          /\ \A k \in Jobs : status'[k] = Unborn <=> instance'[k] = Nobody
      <3>1. CASE insert(j, i)
        BY <3>1, NobodyAssumption DEF insert, TypeOK, JobStatus, Unborn
      <3>2. CASE UNCHANGED jobs
        BY <3>2 DEF TypeOK
      <3> QED
        BY <1>8, <3>1, <3>2 DEF InsertError
    <2>2. faults' \in Nat
      BY <1>8 DEF InsertError, Fault, TypeOK
    <2> QED
      BY <1>8, <2>1, <2>2 DEF InsertError, TypeOK, Phase
  <1>9. ASSUME NEW i \in Instances, WorkDone(i)
        PROVE  TypeOK'
    BY <1>9 DEF TypeOK, WorkDone, Phase, JobStatus, Unborn
  <1>10. ASSUME NEW i \in Instances, Panic(i)
        PROVE  TypeOK'
    BY <1>10, BoundsAssumption DEF TypeOK, Panic, Phase, JobStatus, Unborn
  <1>11. ASSUME NEW i \in Instances, CheckRefresh(i)
        PROVE  TypeOK'
    BY <1>11 DEF TypeOK, CheckRefresh, Phase, JobStatus, Unborn, heartbeat_refresh, RefreshHits
  <1>12. ASSUME NEW i \in Instances, CheckExtend(i)
        PROVE  TypeOK'
    BY <1>12 DEF TypeOK, CheckExtend, Phase, JobStatus, Unborn, heartbeat_extend
  <1>13. ASSUME NEW i \in Instances, CheckObserve(i)
        PROVE  TypeOK'
    BY <1>13 DEF TypeOK, CheckObserve, Phase, JobStatus, Unborn, CancelledOutcome
  <1>14. ASSUME NEW i \in Instances, CheckError(i)
        PROVE  TypeOK'
    BY <1>14, BoundsAssumption DEF TypeOK, CheckError, Phase, JobStatus, Unborn, Fault
  <1>15. ASSUME NEW i \in Instances, StopHeartbeat(i)
        PROVE  TypeOK'
    BY <1>15 DEF TypeOK, StopHeartbeat, Phase, JobStatus, Unborn, AfterStop
  <1>16. ASSUME NEW i \in Instances, ReadStatus(i)
        PROVE  TypeOK'
    BY <1>16 DEF TypeOK, ReadStatus, Phase, JobStatus, Unborn, Verdict
  <1>17. ASSUME NEW i \in Instances, ReadStatusError(i)
        PROVE  TypeOK'
    BY <1>17, BoundsAssumption DEF TypeOK, ReadStatusError, Phase, JobStatus, Unborn, Verdict, Fault
  <1>18. ASSUME NEW i \in Instances, MarkCancelled(i)
        PROVE  TypeOK'
    <2>1. job[i] \in Jobs
      BY <1>18 DEF MarkCancelled, HasJob, WorkPhase, HoldingPhase
    <2> QED
      BY <1>18, <2>1, RunnerTransitionType DEF MarkCancelled, TypeOK, Phase
  <1>19. ASSUME NEW i \in Instances, SetFinished(i)
        PROVE  TypeOK'
    <2>1. job[i] \in Jobs
      BY <1>19 DEF SetFinished, HasJob, WorkPhase, HoldingPhase
    <2> QED
      BY <1>19, <2>1, RunnerTransitionType DEF SetFinished, TypeOK, Phase
  <1>20. ASSUME NEW i \in Instances, SetFailed(i)
        PROVE  TypeOK'
    <2>1. job[i] \in Jobs
      BY <1>20 DEF SetFailed, HasJob, WorkPhase, HoldingPhase
    <2> QED
      BY <1>20, <2>1, RunnerTransitionType DEF SetFailed, TypeOK, Phase
  <1>21. ASSUME NEW i \in Instances, FinalizeError(i)
        PROVE  TypeOK'
    BY <1>21, BoundsAssumption DEF TypeOK, FinalizeError, Phase, JobStatus, Unborn, Fault
  <1>22. ASSUME NEW i \in Instances, Release(i)
        PROVE  TypeOK'
    BY <1>22 DEF TypeOK, Release, Phase, JobStatus, Unborn, release, FreeLock, Unlock, Return
  <1>23. ASSUME NEW i \in Instances, ReleaseError(i)
        PROVE  TypeOK'
    BY <1>23, BoundsAssumption DEF TypeOK, ReleaseError, Phase, JobStatus, Unborn, Return, Fault
  <1>24. ASSUME NEW i \in Instances, ReconcileRequest(i)
        PROVE  TypeOK'
    <2>1. Stale("RUNNING") \in SUBSET Jobs /\ \A j \in Stale("RUNNING") : status[j] # Unborn
      BY DEF Stale, Unborn
    <2> QED
      BY <1>24, <2>1, RequestStopType DEF ReconcileRequest, TypeOK
  <1>25. ASSUME NEW i \in Instances, ReconcileCancel(i)
        PROVE  TypeOK'
    <2>1. /\ Stale("CANCELLATION_REQUESTED") \in SUBSET Jobs
          /\ \A j \in Stale("CANCELLATION_REQUESTED") : status[j] # Unborn
          /\ "CANCELLED" \in JobStatus
      BY DEF Stale, Unborn, JobStatus
    <2> QED
      BY <1>25, <2>1, SetTerminalType DEF ReconcileCancel, TypeOK
  <1>26. ASSUME NEW i \in Instances, ReconcileError(i)
        PROVE  TypeOK'
    BY <1>26, BoundsAssumption DEF TypeOK, ReconcileError, Phase, JobStatus, Unborn, Fault
  <1>27. ASSUME NEW j \in Jobs, BeatRefresh(j)
        PROVE  TypeOK'
    BY <1>27 DEF TypeOK, BeatRefresh, Phase, JobStatus, Unborn, heartbeat_refresh, RefreshHits
  <1>28. ASSUME NEW j \in Jobs, BeatExtend(j)
        PROVE  TypeOK'
    BY <1>28 DEF TypeOK, BeatExtend, Phase, JobStatus, Unborn, heartbeat_extend
  <1>29. ASSUME NEW j \in Jobs, BeatObserve(j)
        PROVE  TypeOK'
    BY <1>29 DEF TypeOK, BeatObserve, Phase, JobStatus, Unborn
  <1>30. ASSUME NEW j \in Jobs, BeatError(j)
        PROVE  TypeOK'
    BY <1>30, BoundsAssumption DEF TypeOK, BeatError, Phase, JobStatus, Unborn, Fault
  <1>31. ASSUME NEW j \in Jobs, GoStale(j)
        PROVE  TypeOK'
    BY <1>31 DEF TypeOK, GoStale, Phase, JobStatus, Unborn
  <1>32. ASSUME NEW j \in Jobs, NEW force \in BOOLEAN, Cancel(j, force)
        PROVE  TypeOK'
    <2>1. CASE force
      BY <1>32, <2>1, RunnerTransitionType DEF Cancel, TypeOK
    <2>2. CASE ~force
      <3> DEFINE asked == {k \in {j} : status[k] = "RUNNING"}
      <3>1. asked \in SUBSET Jobs /\ \A k \in asked : status[k] # Unborn
        BY DEF Unborn
      <3> HIDE DEF asked
      <3> QED
        BY <1>32, <2>2, <3>1, RequestStopType
        DEF Cancel, request_cancellation, asked, TypeOK
    <2> QED
      BY <2>1, <2>2
  <1>33. CASE Expire
    BY <1>33 DEF Expire, TypeOK
  <1>34. CASE UNCHANGED vars
    BY <1>34 DEF vars, TypeOK
  <1> QED
    BY <1>1, <1>2, <1>3, <1>4, <1>5, <1>6, <1>7, <1>8, <1>9, <1>10, <1>11,
       <1>12, <1>13, <1>14, <1>15, <1>16, <1>17, <1>18, <1>19, <1>20,
       <1>21, <1>22, <1>23, <1>24, <1>25, <1>26, <1>27, <1>28, <1>29,
       <1>30, <1>31, <1>32, <1>33, <1>34
    DEF Next, Runner, Watcher, Beat

\* A runner has a job exactly in the phases that work on one: acquire comes
\* before the insert, and release forgets the job.
LEMMA HasJobStep == TypeOK /\ HasJob /\ [Next]_vars => HasJob'
  <1> SUFFICES ASSUME TypeOK, HasJob, [Next]_vars
               PROVE  HasJob'
    OBVIOUS
  <1> USE DEF TypeOK, HasJob, WorkPhase, HoldingPhase, At, Goto, threads
  <1>1. ASSUME NEW i \in Instances, Crash(i)
        PROVE  HasJob'
    BY <1>1 DEF Crash
  <1>2. ASSUME NEW i \in Instances, FindActive(i)
        PROVE  HasJob'
    BY <1>2 DEF FindActive
  <1>3. ASSUME NEW i \in Instances, NotDue(i)
        PROVE  HasJob'
    BY <1>3 DEF NotDue
  <1>4. ASSUME NEW i \in Instances, Acquire(i)
        PROVE  HasJob'
    BY <1>4 DEF Acquire
  <1>5. ASSUME NEW i \in Instances, AcquireLoses(i)
        PROVE  HasJob'
    BY <1>5 DEF AcquireLoses
  <1>6. ASSUME NEW i \in Instances, AcquireError(i)
        PROVE  HasJob'
    BY <1>6 DEF AcquireError
  <1>7. ASSUME NEW i \in Instances, NEW j \in Jobs, InsertJob(i, j)
        PROVE  HasJob'
    BY <1>7, NoJobAssumption DEF InsertJob
  <1>8. ASSUME NEW i \in Instances, NEW j \in Jobs, InsertError(i, j)
        PROVE  HasJob'
    BY <1>8 DEF InsertError
  <1>9. ASSUME NEW i \in Instances, WorkDone(i)
        PROVE  HasJob'
    BY <1>9 DEF WorkDone
  <1>10. ASSUME NEW i \in Instances, Panic(i)
        PROVE  HasJob'
    BY <1>10 DEF Panic
  <1>11. ASSUME NEW i \in Instances, CheckRefresh(i)
        PROVE  HasJob'
    BY <1>11 DEF CheckRefresh
  <1>12. ASSUME NEW i \in Instances, CheckExtend(i)
        PROVE  HasJob'
    BY <1>12 DEF CheckExtend
  <1>13. ASSUME NEW i \in Instances, CheckObserve(i)
        PROVE  HasJob'
    BY <1>13 DEF CheckObserve
  <1>14. ASSUME NEW i \in Instances, CheckError(i)
        PROVE  HasJob'
    BY <1>14 DEF CheckError
  <1>15. ASSUME NEW i \in Instances, StopHeartbeat(i)
        PROVE  HasJob'
    BY <1>15 DEF StopHeartbeat, AfterStop
  <1>16. ASSUME NEW i \in Instances, ReadStatus(i)
        PROVE  HasJob'
    BY <1>16 DEF ReadStatus, Verdict
  <1>17. ASSUME NEW i \in Instances, ReadStatusError(i)
        PROVE  HasJob'
    BY <1>17 DEF ReadStatusError, Verdict
  <1>18. ASSUME NEW i \in Instances, MarkCancelled(i)
        PROVE  HasJob'
    BY <1>18 DEF MarkCancelled
  <1>19. ASSUME NEW i \in Instances, SetFinished(i)
        PROVE  HasJob'
    BY <1>19 DEF SetFinished
  <1>20. ASSUME NEW i \in Instances, SetFailed(i)
        PROVE  HasJob'
    BY <1>20 DEF SetFailed
  <1>21. ASSUME NEW i \in Instances, FinalizeError(i)
        PROVE  HasJob'
    BY <1>21 DEF FinalizeError
  <1>22. ASSUME NEW i \in Instances, Release(i)
        PROVE  HasJob'
    BY <1>22 DEF Release, Return
  <1>23. ASSUME NEW i \in Instances, ReleaseError(i)
        PROVE  HasJob'
    BY <1>23 DEF ReleaseError, Return
  <1>24. ASSUME NEW i \in Instances, ReconcileRequest(i)
        PROVE  HasJob'
    BY <1>24 DEF ReconcileRequest
  <1>25. ASSUME NEW i \in Instances, ReconcileCancel(i)
        PROVE  HasJob'
    BY <1>25 DEF ReconcileCancel
  <1>26. ASSUME NEW i \in Instances, ReconcileError(i)
        PROVE  HasJob'
    BY <1>26 DEF ReconcileError
  <1>27. ASSUME NEW j \in Jobs, BeatRefresh(j)
        PROVE  HasJob'
    BY <1>27 DEF BeatRefresh
  <1>28. ASSUME NEW j \in Jobs, BeatExtend(j)
        PROVE  HasJob'
    BY <1>28 DEF BeatExtend
  <1>29. ASSUME NEW j \in Jobs, BeatObserve(j)
        PROVE  HasJob'
    BY <1>29 DEF BeatObserve
  <1>30. ASSUME NEW j \in Jobs, BeatError(j)
        PROVE  HasJob'
    BY <1>30 DEF BeatError
  <1>31. ASSUME NEW j \in Jobs, GoStale(j)
        PROVE  HasJob'
    BY <1>31 DEF GoStale
  <1>32. ASSUME NEW j \in Jobs, NEW force \in BOOLEAN, Cancel(j, force)
        PROVE  HasJob'
    BY <1>32 DEF Cancel
  <1>33. CASE Expire
    BY <1>33 DEF Expire
  <1>34. CASE UNCHANGED vars
    BY <1>34 DEF vars
  <1> QED
    BY <1>1, <1>2, <1>3, <1>4, <1>5, <1>6, <1>7, <1>8, <1>9, <1>10, <1>11,
       <1>12, <1>13, <1>14, <1>15, <1>16, <1>17, <1>18, <1>19, <1>20,
       <1>21, <1>22, <1>23, <1>24, <1>25, <1>26, <1>27, <1>28, <1>29,
       <1>30, <1>31, <1>32, <1>33, <1>34
    DEF Next, Runner, Watcher, Beat

-----------------------------------------------------------------------------
(* Who owns which active job.                                              *)

\* The owner of a job is the instance whose runner works on it, and an active
\* job nobody works on any more was left by a runner that has not started
\* another run since.
Ownership ==
  /\ \A i \in Instances : job[i] \in Jobs => instance[job[i]] = i
  /\ \A j \in Jobs : Active(j) /\ job[instance[j]] # j =>
                       pc[instance[j]] \in {"idle", "releasing"}

\* What a terminal transition of a set of jobs does to the other columns.
LEMMA SetTerminalEffect ==
  ASSUME TypeOK, NEW ended \in SUBSET Jobs, NEW s \in JobStatus \ ActiveStatus,
         SetTerminal(ended, s)
  PROVE  /\ \A k \in Jobs : status'[k] = IF k \in ended THEN s ELSE status[k]
         /\ \A k \in Jobs : Active(k)' <=> Active(k) /\ k \notin ended
         /\ instance' = instance
         /\ \/ UNCHANGED lock
            \/ \E k \in ended : locked_by = instance[k] /\ Unlock
  <1>1. \A k \in Jobs : status'[k] = IF k \in ended THEN s ELSE status[k]
    BY DEF SetTerminal
  <1>2. \A k \in Jobs : Active(k)' <=> Active(k) /\ k \notin ended
    BY <1>1 DEF Active
  <1> QED
    BY <1>1, <1>2 DEF SetTerminal, FreeLock

\* What the transition a runner writes for its job does.
LEMMA RunnerTransitionEffect ==
  ASSUME TypeOK, NEW j \in Jobs,
         set_finished(j) \/ set_failed(j) \/ mark_cancelled(j)
  PROVE  /\ \A k \in Jobs : status'[k] = "RUNNING" <=> status[k] = "RUNNING" /\ k # j
         /\ \A k \in Jobs : Active(k)' => Active(k)
         /\ instance' = instance
         /\ \/ UNCHANGED lock
            \/ locked_by = instance[j] /\ Active(j) /\ Unlock
  <1>1. ASSUME NEW ended \in SUBSET Jobs, ended \subseteq {j}, NEW s \in JobStatus \ ActiveStatus,
               status[j] = "RUNNING" => j \in ended, \A k \in ended : Active(k),
               SetTerminal(ended, s)
        PROVE  /\ \A k \in Jobs : status'[k] = "RUNNING" <=> status[k] = "RUNNING" /\ k # j
               /\ \A k \in Jobs : Active(k)' => Active(k)
               /\ instance' = instance
               /\ \/ UNCHANGED lock
                  \/ locked_by = instance[j] /\ Active(j) /\ Unlock
    <2>1. s # "RUNNING"
      BY DEF ActiveStatus
    <2> QED
      BY <1>1, <2>1, SetTerminalEffect
  <1>2. {"FINISHED", "FAILED", "CANCELLED"} \subseteq JobStatus \ ActiveStatus
    BY DEF JobStatus, ActiveStatus
  <1>3. CASE set_finished(j)
    <2> DEFINE ended == {k \in {j} : status[k] = "RUNNING"}
    <2>1. /\ ended \in SUBSET Jobs /\ ended \subseteq {j}
          /\ status[j] = "RUNNING" => j \in ended
          /\ \A k \in ended : Active(k)
      BY DEF Active, ActiveStatus
    <2>2. SetTerminal(ended, "FINISHED")
      BY <1>3 DEF set_finished
    <2> HIDE DEF ended
    <2> QED
      BY <1>1, <1>2, <2>1, <2>2
  <1>4. CASE set_failed(j)
    <2> DEFINE ended == {k \in {j} : status[k] = "RUNNING"}
    <2>1. /\ ended \in SUBSET Jobs /\ ended \subseteq {j}
          /\ status[j] = "RUNNING" => j \in ended
          /\ \A k \in ended : Active(k)
      BY DEF Active, ActiveStatus
    <2>2. SetTerminal(ended, "FAILED")
      BY <1>4 DEF set_failed
    <2> HIDE DEF ended
    <2> QED
      BY <1>1, <1>2, <2>1, <2>2
  <1>5. CASE mark_cancelled(j)
    <2> DEFINE ended == {k \in {j} : Active(k)}
    <2>1. /\ ended \in SUBSET Jobs /\ ended \subseteq {j}
          /\ status[j] = "RUNNING" => j \in ended
          /\ \A k \in ended : Active(k)
      BY DEF Active, ActiveStatus
    <2>2. SetTerminal(ended, "CANCELLED")
      BY <1>5 DEF mark_cancelled
    <2> HIDE DEF ended
    <2> QED
      BY <1>1, <1>2, <2>1, <2>2
  <1> QED
    BY <1>3, <1>4, <1>5

\* A request to stop changes no row that is not RUNNING.
LEMMA RequestStopEffect ==
  ASSUME TypeOK, NEW asked \in SUBSET Jobs,
         \A k \in asked : status[k] = "RUNNING",
         RequestStop(asked)
  PROVE  /\ \A k \in Jobs : status'[k] = "RUNNING" <=> status[k] = "RUNNING" /\ k \notin asked
         /\ \A k \in Jobs : Active(k)' <=> Active(k)
         /\ UNCHANGED <<instance, fresh, locked_by, expired>>
  BY DEF TypeOK, RequestStop, Active, ActiveStatus, lock

\* A step that keeps the owners and the runners' jobs, revives no job and
\* moves runners only within their jobs' phases keeps the ownership.
LEMMA OwnershipFrame ==
  ASSUME TypeOK, HasJob, Ownership, TypeOK', HasJob',
         UNCHANGED <<instance, job>>,
         \A j \in Jobs : Active(j)' => Active(j),
         \A i \in Instances :
           pc[i] \in {"idle", "releasing"} => pc'[i] \in {"idle", "releasing"}
  PROVE  Ownership'
  <1>1. \A i \in Instances : job'[i] \in Jobs => instance'[job'[i]] = i
    BY DEF Ownership
  <1>2. ASSUME NEW j \in Jobs, Active(j)', job'[instance'[j]] # j
        PROVE  pc'[instance'[j]] \in {"idle", "releasing"}
    <2>1. Active(j) /\ job[instance[j]] # j
      BY <1>2
    <2>2. instance[j] \in Instances
      BY <2>1 DEF TypeOK, Active, ActiveStatus, Unborn
    <2> QED
      BY <2>1, <2>2 DEF Ownership
  <1> QED
    BY <1>1, <1>2 DEF Ownership

\* Every action keeps Ownership: only the insert makes a job active, and a
\* runner inserts only after it left its previous job terminal or idle.
LEMMA OwnershipStep ==
  TypeOK /\ HasJob /\ Ownership /\ TypeOK' /\ HasJob' /\ [Next]_vars => Ownership'
  <1> SUFFICES ASSUME TypeOK, HasJob, Ownership, TypeOK', HasJob', [Next]_vars
               PROVE  Ownership'
    OBVIOUS
  <1> USE DEF At, Goto, tables, jobs, lock, threads, environment
  <1>1. ASSUME NEW i \in Instances, Crash(i)
        PROVE  Ownership'
    <2>1. \A k \in Instances : job'[k] \in Jobs => instance'[job'[k]] = k
      BY <1>1, NoJobAssumption DEF Crash, TypeOK, Ownership
    <2>2. ASSUME NEW j \in Jobs, Active(j)', job'[instance'[j]] # j
          PROVE  pc'[instance'[j]] \in {"idle", "releasing"}
      <3>1. Active(j) /\ instance'[j] = instance[j] /\ instance[j] \in Instances
        BY <1>1, <2>2 DEF Crash, TypeOK, Active, ActiveStatus, Unborn
      <3>2. CASE instance[j] = i
        BY <1>1, <3>1, <3>2 DEF Crash, TypeOK
      <3>3. CASE instance[j] # i
        BY <1>1, <2>2, <3>1, <3>3 DEF Crash, TypeOK, Ownership
      <3> QED
        BY <3>2, <3>3
    <2> QED
      BY <2>1, <2>2 DEF Ownership
  <1>2. ASSUME NEW i \in Instances, FindActive(i)
        PROVE  Ownership'
    <2>1. \A j \in Jobs : ~Active(j)
      BY <1>2 DEF FindActive, find_active_by_type
    <2>2. UNCHANGED <<status, instance, job>>
      BY <1>2 DEF FindActive
    <2> QED
      BY <2>1, <2>2 DEF Ownership, Active
  <1>3. ASSUME NEW i \in Instances, NotDue(i)
        PROVE  Ownership'
    BY <1>3, OwnershipFrame DEF NotDue, Active, TypeOK
  <1>4. ASSUME NEW i \in Instances, Acquire(i)
        PROVE  Ownership'
    BY <1>4, OwnershipFrame DEF Acquire, Active, TypeOK, acquire
  <1>5. ASSUME NEW i \in Instances, AcquireLoses(i)
        PROVE  Ownership'
    BY <1>5, OwnershipFrame DEF AcquireLoses, Active, TypeOK
  <1>6. ASSUME NEW i \in Instances, AcquireError(i)
        PROVE  Ownership'
    BY <1>6, OwnershipFrame DEF AcquireError, Active, TypeOK, acquire
  <1>7. ASSUME NEW i \in Instances, NEW j \in Jobs, InsertJob(i, j)
        PROVE  Ownership'
    <2>1. \A k \in Instances : job[k] # j
      BY <1>7, NobodyAssumption DEF InsertJob, Ownership, TypeOK
    <2>2. /\ instance' = [instance EXCEPT ![j] = i]
          /\ job' = [job EXCEPT ![i] = j]
          /\ pc' = [pc EXCEPT ![i] = "working"]
          /\ status' = [status EXCEPT ![j] = "RUNNING"]
      BY <1>7 DEF InsertJob, insert
    <2>3. \A k \in Instances : job'[k] \in Jobs => instance'[job'[k]] = k
      BY <2>1, <2>2 DEF Ownership, TypeOK
    <2>4. ASSUME NEW k \in Jobs, Active(k)', job'[instance'[k]] # k
          PROVE  pc'[instance'[k]] \in {"idle", "releasing"}
      <3>1. k # j
        BY <2>2, <2>4 DEF TypeOK
      <3>2. Active(k) /\ instance'[k] = instance[k] /\ instance[k] \in Instances
        BY <3>1, <2>2, <2>4 DEF TypeOK, Active, ActiveStatus, Unborn
      <3>3. instance[k] # i
        BY <1>7, <3>2, NoJobAssumption DEF InsertJob, Ownership, HasJob
      <3> QED
        BY <2>2, <2>4, <3>2, <3>3 DEF TypeOK, Ownership
    <2> QED
      BY <2>3, <2>4 DEF Ownership
  <1>8. ASSUME NEW i \in Instances, NEW j \in Jobs, InsertError(i, j)
        PROVE  Ownership'
    <2>1. CASE UNCHANGED jobs
      BY <1>8, <2>1, OwnershipFrame DEF InsertError, Active, TypeOK
    <2>2. CASE insert(j, i)
      <3>1. \A k \in Instances : job[k] # j
        BY <1>8, NobodyAssumption DEF InsertError, Ownership, TypeOK
      <3>2. /\ instance' = [instance EXCEPT ![j] = i]
            /\ job' = job
            /\ pc' = [pc EXCEPT ![i] = "releasing"]
            /\ status' = [status EXCEPT ![j] = "RUNNING"]
        BY <1>8, <2>2 DEF InsertError, insert
      <3>3. \A k \in Instances : job'[k] \in Jobs => instance'[job'[k]] = k
        BY <3>1, <3>2 DEF Ownership, TypeOK
      <3>4. ASSUME NEW k \in Jobs, Active(k)', job'[instance'[k]] # k
            PROVE  pc'[instance'[k]] \in {"idle", "releasing"}
        <4>1. CASE k = j
          BY <3>2, <4>1 DEF TypeOK
        <4>2. CASE k # j
          <5>1. Active(k) /\ instance'[k] = instance[k] /\ instance[k] \in Instances
            BY <4>2, <3>2, <3>4 DEF TypeOK, Active, ActiveStatus, Unborn
          <5> QED
            BY <5>1, <3>2, <3>4 DEF TypeOK, Ownership
        <4> QED
          BY <4>1, <4>2
      <3> QED
        BY <3>3, <3>4 DEF Ownership
    <2> QED
      BY <1>8, <2>1, <2>2 DEF InsertError
  <1>9. ASSUME NEW i \in Instances, WorkDone(i)
        PROVE  Ownership'
    BY <1>9, OwnershipFrame DEF WorkDone, Active, TypeOK
  <1>10. ASSUME NEW i \in Instances, Panic(i)
        PROVE  Ownership'
    <2>1. \A k \in Instances : job'[k] \in Jobs => instance'[job'[k]] = k
      BY <1>10, NoJobAssumption DEF Panic, TypeOK, Ownership
    <2>2. ASSUME NEW j \in Jobs, Active(j)', job'[instance'[j]] # j
          PROVE  pc'[instance'[j]] \in {"idle", "releasing"}
      <3>1. Active(j) /\ instance'[j] = instance[j] /\ instance[j] \in Instances
        BY <1>10, <2>2 DEF Panic, TypeOK, Active, ActiveStatus, Unborn
      <3>2. CASE instance[j] = i
        BY <1>10, <3>1, <3>2 DEF Panic, TypeOK
      <3>3. CASE instance[j] # i
        BY <1>10, <2>2, <3>1, <3>3 DEF Panic, TypeOK, Ownership
      <3> QED
        BY <3>2, <3>3
    <2> QED
      BY <2>1, <2>2 DEF Ownership
  <1>11. ASSUME NEW i \in Instances, CheckRefresh(i)
        PROVE  Ownership'
    BY <1>11, OwnershipFrame DEF CheckRefresh, Active, TypeOK, heartbeat_refresh
  <1>12. ASSUME NEW i \in Instances, CheckExtend(i)
        PROVE  Ownership'
    BY <1>12, OwnershipFrame DEF CheckExtend, Active, TypeOK
  <1>13. ASSUME NEW i \in Instances, CheckObserve(i)
        PROVE  Ownership'
    BY <1>13, OwnershipFrame DEF CheckObserve, Active, TypeOK
  <1>14. ASSUME NEW i \in Instances, CheckError(i)
        PROVE  Ownership'
    BY <1>14, OwnershipFrame DEF CheckError, Active, TypeOK
  <1>15. ASSUME NEW i \in Instances, StopHeartbeat(i)
        PROVE  Ownership'
    BY <1>15, OwnershipFrame DEF StopHeartbeat, Active, TypeOK, AfterStop
  <1>16. ASSUME NEW i \in Instances, ReadStatus(i)
        PROVE  Ownership'
    BY <1>16, OwnershipFrame DEF ReadStatus, Active, TypeOK, Verdict
  <1>17. ASSUME NEW i \in Instances, ReadStatusError(i)
        PROVE  Ownership'
    BY <1>17, OwnershipFrame DEF ReadStatusError, Active, TypeOK, Verdict
  <1>18. ASSUME NEW i \in Instances, MarkCancelled(i)
        PROVE  Ownership'
    <2>1. job[i] \in Jobs
      BY <1>18 DEF MarkCancelled, HasJob, WorkPhase, HoldingPhase
    <2> QED
      BY <1>18, <2>1, RunnerTransitionEffect, OwnershipFrame DEF MarkCancelled, TypeOK
  <1>19. ASSUME NEW i \in Instances, SetFinished(i)
        PROVE  Ownership'
    <2>1. job[i] \in Jobs
      BY <1>19 DEF SetFinished, HasJob, WorkPhase, HoldingPhase
    <2> QED
      BY <1>19, <2>1, RunnerTransitionEffect, OwnershipFrame DEF SetFinished, TypeOK
  <1>20. ASSUME NEW i \in Instances, SetFailed(i)
        PROVE  Ownership'
    <2>1. job[i] \in Jobs
      BY <1>20 DEF SetFailed, HasJob, WorkPhase, HoldingPhase
    <2> QED
      BY <1>20, <2>1, RunnerTransitionEffect, OwnershipFrame DEF SetFailed, TypeOK
  <1>21. ASSUME NEW i \in Instances, FinalizeError(i)
        PROVE  Ownership'
    BY <1>21, OwnershipFrame DEF FinalizeError, Active, TypeOK
  <1>22. ASSUME NEW i \in Instances, Release(i)
        PROVE  Ownership'
    <2>1. \A k \in Instances : job'[k] \in Jobs => instance'[job'[k]] = k
      BY <1>22, NoJobAssumption DEF Release, Return, TypeOK, Ownership
    <2>2. ASSUME NEW j \in Jobs, Active(j)', job'[instance'[j]] # j
          PROVE  pc'[instance'[j]] \in {"idle", "releasing"}
      <3>1. Active(j) /\ instance'[j] = instance[j] /\ instance[j] \in Instances
        BY <1>22, <2>2 DEF Release, Return, TypeOK, Active, ActiveStatus, Unborn
      <3>2. CASE instance[j] = i
        BY <1>22, <3>1, <3>2 DEF Release, Return, TypeOK
      <3>3. CASE instance[j] # i
        BY <1>22, <2>2, <3>1, <3>3 DEF Release, Return, TypeOK, Ownership
      <3> QED
        BY <3>2, <3>3
    <2> QED
      BY <2>1, <2>2 DEF Ownership
  <1>23. ASSUME NEW i \in Instances, ReleaseError(i)
        PROVE  Ownership'
    <2>1. \A k \in Instances : job'[k] \in Jobs => instance'[job'[k]] = k
      BY <1>23, NoJobAssumption DEF ReleaseError, Return, TypeOK, Ownership
    <2>2. ASSUME NEW j \in Jobs, Active(j)', job'[instance'[j]] # j
          PROVE  pc'[instance'[j]] \in {"idle", "releasing"}
      <3>1. Active(j) /\ instance'[j] = instance[j] /\ instance[j] \in Instances
        BY <1>23, <2>2 DEF ReleaseError, Return, TypeOK, Active, ActiveStatus, Unborn
      <3>2. CASE instance[j] = i
        BY <1>23, <3>1, <3>2 DEF ReleaseError, Return, TypeOK
      <3>3. CASE instance[j] # i
        BY <1>23, <2>2, <3>1, <3>3 DEF ReleaseError, Return, TypeOK, Ownership
      <3> QED
        BY <3>2, <3>3
    <2> QED
      BY <2>1, <2>2 DEF Ownership
  <1>24. ASSUME NEW i \in Instances, ReconcileRequest(i)
        PROVE  Ownership'
    <2>1. Stale("RUNNING") \in SUBSET Jobs /\ \A k \in Stale("RUNNING") : status[k] = "RUNNING"
      BY DEF Stale
    <2> QED
      BY <1>24, <2>1, RequestStopEffect, OwnershipFrame DEF ReconcileRequest
  <1>25. ASSUME NEW i \in Instances, ReconcileCancel(i)
        PROVE  Ownership'
    <2>1. Stale("CANCELLATION_REQUESTED") \in SUBSET Jobs /\ "CANCELLED" \in JobStatus \ ActiveStatus
      BY DEF Stale, JobStatus, ActiveStatus
    <2> QED
      BY <1>25, <2>1, SetTerminalEffect, OwnershipFrame DEF ReconcileCancel
  <1>26. ASSUME NEW i \in Instances, ReconcileError(i)
        PROVE  Ownership'
    BY <1>26, OwnershipFrame DEF ReconcileError, Active, TypeOK
  <1>27. ASSUME NEW j \in Jobs, BeatRefresh(j)
        PROVE  Ownership'
    BY <1>27, OwnershipFrame DEF BeatRefresh, Active, TypeOK, heartbeat_refresh
  <1>28. ASSUME NEW j \in Jobs, BeatExtend(j)
        PROVE  Ownership'
    BY <1>28, OwnershipFrame DEF BeatExtend, Active, TypeOK
  <1>29. ASSUME NEW j \in Jobs, BeatObserve(j)
        PROVE  Ownership'
    BY <1>29, OwnershipFrame DEF BeatObserve, Active, TypeOK
  <1>30. ASSUME NEW j \in Jobs, BeatError(j)
        PROVE  Ownership'
    BY <1>30, OwnershipFrame DEF BeatError, Active, TypeOK
  <1>31. ASSUME NEW j \in Jobs, GoStale(j)
        PROVE  Ownership'
    BY <1>31, OwnershipFrame DEF GoStale, Active, TypeOK
  <1>32. ASSUME NEW j \in Jobs, NEW force \in BOOLEAN, Cancel(j, force)
        PROVE  Ownership'
    <2>1. CASE force
      BY <1>32, <2>1, RunnerTransitionEffect, OwnershipFrame DEF Cancel
    <2>2. CASE ~force
      <3> DEFINE asked == {k \in {j} : status[k] = "RUNNING"}
      <3>1. asked \in SUBSET Jobs /\ \A k \in asked : status[k] = "RUNNING"
        OBVIOUS
      <3> HIDE DEF asked
      <3> QED
        BY <1>32, <2>2, <3>1, RequestStopEffect, OwnershipFrame
        DEF Cancel, request_cancellation, asked
    <2> QED
      BY <2>1, <2>2
  <1>33. CASE Expire
    BY <1>33, OwnershipFrame DEF Expire, Active, TypeOK
  <1>34. CASE UNCHANGED vars
    BY <1>34, OwnershipFrame DEF vars, Active
  <1> QED
    BY <1>1, <1>2, <1>3, <1>4, <1>5, <1>6, <1>7, <1>8, <1>9, <1>10, <1>11,
       <1>12, <1>13, <1>14, <1>15, <1>16, <1>17, <1>18, <1>19, <1>20,
       <1>21, <1>22, <1>23, <1>24, <1>25, <1>26, <1>27, <1>28, <1>29,
       <1>30, <1>31, <1>32, <1>33, <1>34
    DEF Next, Runner, Watcher, Beat

-----------------------------------------------------------------------------
(* What a step may do to the lease: nothing, or take it, free it, let it   *)
(* run out.                                                                *)

NoNewHolder == \A m \in Instances : Holds(m)' => Holds(m)

Quiet == UNCHANGED <<locked_by, lapsed>> /\ (expired' => expired) /\ NoNewHolder

Take(k) ==
  /\ Acquirable
  /\ locked_by' = k /\ ~expired' /\ UNCHANGED lapsed
  /\ \A m \in Instances : Holds(m)' => m = k \/ Holds(m)

Free(k) ==
  /\ locked_by = k
  /\ Unlock /\ UNCHANGED lapsed
  /\ ~Holds(k)'
  /\ NoNewHolder

RunOut ==
  /\ UNCHANGED locked_by
  /\ lapsed' = (lapsed \/ Holds(locked_by))
  /\ NoNewHolder

LeaseEffect ==
  Quiet \/ RunOut \/ \E k \in Instances : Take(k) \/ Free(k)

\* A step that leaves the lock alone and gives no runner a claim on it is
\* quiet.
LEMMA QuietFrame ==
  ASSUME TypeOK,
         UNCHANGED <<locked_by, lapsed, job>>, expired' => expired,
         \A k \in Jobs : status'[k] = "RUNNING" => status[k] = "RUNNING",
         \A m \in Instances : pc'[m] \in HoldingPhase => pc[m] \in HoldingPhase
  PROVE  Quiet
  BY DEF Quiet, NoNewHolder, Holds, TypeOK

\* The lock of an active job's owner is no longer backed by that job once it
\* has ended.
LEMMA EndedOwnerHoldsNot ==
  ASSUME TypeOK, HasJob, Ownership, UNCHANGED <<pc, job>>,
         NEW j \in Jobs, Active(j), status'[j] # "RUNNING",
         NEW i, i = instance[j]
  PROVE  i \in Instances /\ ~Holds(i)'
  <1>1. i \in Instances
    BY DEF TypeOK, Active, ActiveStatus, Unborn
  <1>2. CASE job[i] = j
    BY <1>1, <1>2, NoJobAssumption DEF Holds
  <1>3. CASE job[i] # j
    BY <1>1, <1>3 DEF Ownership, Holds, HoldingPhase
  <1> QED
    BY <1>1, <1>2, <1>3

\* What any step can do to the lock: nothing, let the lease run out, take a
\* free or expired row, or free the row of an owner whose job has ended.
LEMMA LeaseStep ==
  TypeOK /\ HasJob /\ Ownership /\ [Next]_vars => LeaseEffect
  <1> SUFFICES ASSUME TypeOK, HasJob, Ownership, [Next]_vars
               PROVE  LeaseEffect
    OBVIOUS
  <1> USE DEF At, Goto, tables, jobs, lock, threads, environment
  <1>1. ASSUME NEW i \in Instances, Crash(i)
        PROVE  LeaseEffect
    <2>1. NoNewHolder
      BY <1>1 DEF Crash, NoNewHolder, Holds, HoldingPhase, TypeOK
    <2> QED
      BY <1>1, <2>1 DEF Crash, LeaseEffect, Quiet
  <1>2. ASSUME NEW i \in Instances, FindActive(i)
        PROVE  LeaseEffect
    BY <1>2, QuietFrame DEF FindActive, LeaseEffect, HoldingPhase, TypeOK
  <1>3. ASSUME NEW i \in Instances, NotDue(i)
        PROVE  LeaseEffect
    BY <1>3, QuietFrame DEF NotDue, LeaseEffect, HoldingPhase, TypeOK
  <1>4. ASSUME NEW i \in Instances, Acquire(i)
        PROVE  LeaseEffect
    <2>1. \A m \in Instances : Holds(m)' => m = i \/ Holds(m)
      BY <1>4 DEF Acquire, Holds, TypeOK
    <2> QED
      BY <1>4, <2>1 DEF Acquire, acquire, LeaseEffect, Take
  <1>5. ASSUME NEW i \in Instances, AcquireLoses(i)
        PROVE  LeaseEffect
    BY <1>5, QuietFrame DEF AcquireLoses, LeaseEffect, HoldingPhase, TypeOK
  <1>6. ASSUME NEW i \in Instances, AcquireError(i)
        PROVE  LeaseEffect
    <2>1. NoNewHolder
      BY <1>6 DEF AcquireError, NoNewHolder, Holds, HoldingPhase, TypeOK
    <2>2. CASE UNCHANGED lock
      BY <1>6, <2>1, <2>2 DEF AcquireError, LeaseEffect, Quiet
    <2>3. CASE Acquirable /\ acquire(i)
      BY <1>6, <2>1, <2>3 DEF AcquireError, acquire, LeaseEffect, Take, NoNewHolder
    <2> QED
      BY <1>6, <2>2, <2>3 DEF AcquireError
  <1>7. ASSUME NEW i \in Instances, NEW j \in Jobs, InsertJob(i, j)
        PROVE  LeaseEffect
    <2>1. /\ pc' = [pc EXCEPT ![i] = "working"]
          /\ job' = [job EXCEPT ![i] = j]
          /\ status' = [status EXCEPT ![j] = "RUNNING"]
          /\ job[i] = NoJob
      BY <1>7 DEF InsertJob, insert, HasJob
    <2>2. \A m \in Instances : job[m] # j
      BY <1>7, NobodyAssumption DEF InsertJob, Ownership, TypeOK
    <2>3. NoNewHolder
      BY <1>7, <2>1, <2>2 DEF InsertJob, NoNewHolder, Holds, HoldingPhase, TypeOK
    <2> QED
      BY <1>7, <2>3 DEF InsertJob, LeaseEffect, Quiet
  <1>8. ASSUME NEW i \in Instances, NEW j \in Jobs, InsertError(i, j)
        PROVE  LeaseEffect
    <2>1. \A m \in Instances : job[m] # j
      BY <1>8, NobodyAssumption DEF InsertError, Ownership, TypeOK
    <2>2. \A k \in Jobs : k # j => status'[k] = status[k]
      BY <1>8 DEF InsertError, insert, TypeOK
    <2>3. NoNewHolder
      BY <1>8, <2>1, <2>2 DEF InsertError, NoNewHolder, Holds, HoldingPhase, TypeOK
    <2> QED
      BY <1>8, <2>3 DEF InsertError, LeaseEffect, Quiet
  <1>9. ASSUME NEW i \in Instances, WorkDone(i)
        PROVE  LeaseEffect
    BY <1>9, QuietFrame DEF WorkDone, LeaseEffect, HoldingPhase, TypeOK
  <1>10. ASSUME NEW i \in Instances, Panic(i)
        PROVE  LeaseEffect
    <2>1. NoNewHolder
      BY <1>10 DEF Panic, NoNewHolder, Holds, HoldingPhase, TypeOK
    <2> QED
      BY <1>10, <2>1 DEF Panic, LeaseEffect, Quiet
  <1>11. ASSUME NEW i \in Instances, CheckRefresh(i)
        PROVE  LeaseEffect
    BY <1>11, QuietFrame DEF CheckRefresh, LeaseEffect, HoldingPhase, TypeOK, heartbeat_refresh
  <1>12. ASSUME NEW i \in Instances, CheckExtend(i)
        PROVE  LeaseEffect
    BY <1>12, QuietFrame DEF CheckExtend, LeaseEffect, HoldingPhase, TypeOK, heartbeat_extend
  <1>13. ASSUME NEW i \in Instances, CheckObserve(i)
        PROVE  LeaseEffect
    BY <1>13, QuietFrame DEF CheckObserve, LeaseEffect, HoldingPhase, TypeOK
  <1>14. ASSUME NEW i \in Instances, CheckError(i)
        PROVE  LeaseEffect
    BY <1>14, QuietFrame DEF CheckError, LeaseEffect, HoldingPhase, TypeOK
  <1>15. ASSUME NEW i \in Instances, StopHeartbeat(i)
        PROVE  LeaseEffect
    BY <1>15, QuietFrame DEF StopHeartbeat, LeaseEffect, HoldingPhase, TypeOK, AfterStop
  <1>16. ASSUME NEW i \in Instances, ReadStatus(i)
        PROVE  LeaseEffect
    BY <1>16, QuietFrame DEF ReadStatus, LeaseEffect, HoldingPhase, TypeOK, Verdict
  <1>17. ASSUME NEW i \in Instances, ReadStatusError(i)
        PROVE  LeaseEffect
    BY <1>17, QuietFrame DEF ReadStatusError, LeaseEffect, HoldingPhase, TypeOK, Verdict
  <1>18. ASSUME NEW i \in Instances, MarkCancelled(i)
        PROVE  LeaseEffect
    <2>1. job[i] \in Jobs /\ instance[job[i]] = i
      BY <1>18 DEF MarkCancelled, HasJob, WorkPhase, HoldingPhase, Ownership
    <2>2. /\ pc' = [pc EXCEPT ![i] = "releasing"] /\ UNCHANGED <<job, lapsed>>
          /\ \A k \in Jobs : status'[k] = "RUNNING" => status[k] = "RUNNING"
          /\ UNCHANGED lock \/ (locked_by = i /\ Unlock)
      BY <1>18, <2>1, RunnerTransitionEffect DEF MarkCancelled
    <2>3. CASE UNCHANGED lock
      BY <2>2, <2>3, QuietFrame DEF LeaseEffect, TypeOK, HoldingPhase
    <2>4. CASE locked_by = i /\ Unlock
      <3>1. ~Holds(i)' /\ NoNewHolder
        BY <2>2 DEF NoNewHolder, Holds, HoldingPhase, TypeOK
      <3> QED
        BY <2>2, <2>4, <3>1 DEF LeaseEffect, Free
    <2> QED
      BY <2>2, <2>3, <2>4
  <1>19. ASSUME NEW i \in Instances, SetFinished(i)
        PROVE  LeaseEffect
    <2>1. job[i] \in Jobs /\ instance[job[i]] = i
      BY <1>19 DEF SetFinished, HasJob, WorkPhase, HoldingPhase, Ownership
    <2>2. /\ pc' = [pc EXCEPT ![i] = "releasing"] /\ UNCHANGED <<job, lapsed>>
          /\ \A k \in Jobs : status'[k] = "RUNNING" => status[k] = "RUNNING"
          /\ UNCHANGED lock \/ (locked_by = i /\ Unlock)
      BY <1>19, <2>1, RunnerTransitionEffect DEF SetFinished
    <2>3. CASE UNCHANGED lock
      BY <2>2, <2>3, QuietFrame DEF LeaseEffect, TypeOK, HoldingPhase
    <2>4. CASE locked_by = i /\ Unlock
      <3>1. ~Holds(i)' /\ NoNewHolder
        BY <2>2 DEF NoNewHolder, Holds, HoldingPhase, TypeOK
      <3> QED
        BY <2>2, <2>4, <3>1 DEF LeaseEffect, Free
    <2> QED
      BY <2>2, <2>3, <2>4
  <1>20. ASSUME NEW i \in Instances, SetFailed(i)
        PROVE  LeaseEffect
    <2>1. job[i] \in Jobs /\ instance[job[i]] = i
      BY <1>20 DEF SetFailed, HasJob, WorkPhase, HoldingPhase, Ownership
    <2>2. /\ pc' = [pc EXCEPT ![i] = "releasing"] /\ UNCHANGED <<job, lapsed>>
          /\ \A k \in Jobs : status'[k] = "RUNNING" => status[k] = "RUNNING"
          /\ UNCHANGED lock \/ (locked_by = i /\ Unlock)
      BY <1>20, <2>1, RunnerTransitionEffect DEF SetFailed
    <2>3. CASE UNCHANGED lock
      BY <2>2, <2>3, QuietFrame DEF LeaseEffect, TypeOK, HoldingPhase
    <2>4. CASE locked_by = i /\ Unlock
      <3>1. ~Holds(i)' /\ NoNewHolder
        BY <2>2 DEF NoNewHolder, Holds, HoldingPhase, TypeOK
      <3> QED
        BY <2>2, <2>4, <3>1 DEF LeaseEffect, Free
    <2> QED
      BY <2>2, <2>3, <2>4
  <1>21. ASSUME NEW i \in Instances, FinalizeError(i)
        PROVE  LeaseEffect
    BY <1>21, QuietFrame DEF FinalizeError, LeaseEffect, HoldingPhase, TypeOK
  <1>22. ASSUME NEW i \in Instances, Release(i)
        PROVE  LeaseEffect
    <2>1. NoNewHolder /\ ~Holds(i)'
      BY <1>22 DEF Release, Return, NoNewHolder, Holds, HoldingPhase, TypeOK
    <2>2. CASE locked_by = i
      BY <1>22, <2>1, <2>2 DEF Release, release, FreeLock, Return, LeaseEffect, Free
    <2>3. CASE locked_by # i
      BY <1>22, <2>1, <2>3 DEF Release, release, FreeLock, Return, LeaseEffect, Quiet
    <2> QED
      BY <2>2, <2>3
  <1>23. ASSUME NEW i \in Instances, ReleaseError(i)
        PROVE  LeaseEffect
    <2>1. NoNewHolder
      BY <1>23 DEF ReleaseError, Return, NoNewHolder, Holds, HoldingPhase, TypeOK
    <2> QED
      BY <1>23, <2>1 DEF ReleaseError, Return, LeaseEffect, Quiet
  <1>24. ASSUME NEW i \in Instances, ReconcileRequest(i)
        PROVE  LeaseEffect
    <2>1. Stale("RUNNING") \in SUBSET Jobs /\ \A k \in Stale("RUNNING") : status[k] = "RUNNING"
      BY DEF Stale
    <2> QED
      BY <1>24, <2>1, RequestStopEffect, QuietFrame DEF ReconcileRequest, LeaseEffect
  <1>25. ASSUME NEW i \in Instances, ReconcileCancel(i)
        PROVE  LeaseEffect
    <2> DEFINE ended == Stale("CANCELLATION_REQUESTED")
    <2>1. /\ ended \in SUBSET Jobs
          /\ \A k \in ended : Active(k)
          /\ "CANCELLED" \in JobStatus \ ActiveStatus
      BY DEF Stale, JobStatus, ActiveStatus, Active
    <2> HIDE DEF ended
    <2>2. /\ \A k \in Jobs : status'[k] = IF k \in ended THEN "CANCELLED" ELSE status[k]
          /\ UNCHANGED <<pc, job, lapsed>>
          /\ \/ UNCHANGED lock
             \/ \E k \in ended : locked_by = instance[k] /\ Unlock
      BY <1>25, <2>1, SetTerminalEffect DEF ReconcileCancel, ended
    <2>3. CASE UNCHANGED lock
      BY <2>2, <2>3, QuietFrame DEF LeaseEffect
    <2>4. ASSUME NEW k \in ended, NEW o, o = instance[k], locked_by = o, Unlock
          PROVE  LeaseEffect
      <3>1. o \in Instances /\ ~Holds(o)'
        BY <2>1, <2>2, <2>4, EndedOwnerHoldsNot
      <3>2. NoNewHolder
        BY <2>2 DEF NoNewHolder, Holds, TypeOK
      <3> QED
        BY <2>2, <2>4, <3>1, <3>2 DEF LeaseEffect, Free
    <2> QED
      BY <2>2, <2>3, <2>4
  <1>26. ASSUME NEW i \in Instances, ReconcileError(i)
        PROVE  LeaseEffect
    BY <1>26, QuietFrame DEF ReconcileError, LeaseEffect, HoldingPhase, TypeOK
  <1>27. ASSUME NEW j \in Jobs, BeatRefresh(j)
        PROVE  LeaseEffect
    BY <1>27, QuietFrame DEF BeatRefresh, LeaseEffect, HoldingPhase, TypeOK, heartbeat_refresh
  <1>28. ASSUME NEW j \in Jobs, BeatExtend(j)
        PROVE  LeaseEffect
    BY <1>28, QuietFrame DEF BeatExtend, LeaseEffect, HoldingPhase, TypeOK, heartbeat_extend
  <1>29. ASSUME NEW j \in Jobs, BeatObserve(j)
        PROVE  LeaseEffect
    BY <1>29, QuietFrame DEF BeatObserve, LeaseEffect, HoldingPhase, TypeOK
  <1>30. ASSUME NEW j \in Jobs, BeatError(j)
        PROVE  LeaseEffect
    BY <1>30, QuietFrame DEF BeatError, LeaseEffect, HoldingPhase, TypeOK
  <1>31. ASSUME NEW j \in Jobs, GoStale(j)
        PROVE  LeaseEffect
    BY <1>31, QuietFrame DEF GoStale, LeaseEffect, HoldingPhase, TypeOK
  <1>32. ASSUME NEW j \in Jobs, NEW force \in BOOLEAN, Cancel(j, force)
        PROVE  LeaseEffect
    <2>1. CASE force
      <3>1. mark_cancelled(j) /\ UNCHANGED <<pc, job, lapsed>>
        BY <1>32, <2>1 DEF Cancel
      <3>2. /\ \A k \in Jobs : status'[k] = "RUNNING" <=> status[k] = "RUNNING" /\ k # j
            /\ UNCHANGED lock \/ (locked_by = instance[j] /\ Active(j) /\ Unlock)
        BY <3>1, RunnerTransitionEffect
      <3>3. CASE UNCHANGED lock
        BY <3>1, <3>2, <3>3, QuietFrame DEF LeaseEffect
      <3>4. ASSUME NEW o, o = instance[j], locked_by = o, Active(j), Unlock
            PROVE  LeaseEffect
        <4>1. o \in Instances /\ ~Holds(o)'
          BY <3>1, <3>2, <3>4, EndedOwnerHoldsNot
        <4>2. NoNewHolder
          BY <3>1, <3>2 DEF NoNewHolder, Holds, TypeOK
        <4> QED
          BY <3>1, <3>4, <4>1, <4>2 DEF LeaseEffect, Free
      <3> QED
        BY <3>2, <3>3, <3>4
    <2>2. CASE ~force
      <3> DEFINE asked == {k \in {j} : status[k] = "RUNNING"}
      <3>1. asked \in SUBSET Jobs /\ \A k \in asked : status[k] = "RUNNING"
        OBVIOUS
      <3> HIDE DEF asked
      <3> QED
        BY <1>32, <2>2, <3>1, RequestStopEffect, QuietFrame
        DEF Cancel, request_cancellation, asked, LeaseEffect
    <2> QED
      BY <2>1, <2>2
  <1>33. CASE Expire
    <2>1. NoNewHolder
      BY <1>33 DEF Expire, NoNewHolder, Holds
    <2> QED
      BY <1>33, <2>1 DEF Expire, LeaseEffect, RunOut
  <1>34. CASE UNCHANGED vars
    BY <1>34, QuietFrame DEF vars, LeaseEffect
  <1> QED
    BY <1>1, <1>2, <1>3, <1>4, <1>5, <1>6, <1>7, <1>8, <1>9, <1>10, <1>11,
       <1>12, <1>13, <1>14, <1>15, <1>16, <1>17, <1>18, <1>19, <1>20,
       <1>21, <1>22, <1>23, <1>24, <1>25, <1>26, <1>27, <1>28, <1>29,
       <1>30, <1>31, <1>32, <1>33, <1>34
    DEF Next, Runner, Watcher, Beat

-----------------------------------------------------------------------------
(* What a step may do to the jobs table: a runner that has won the lock    *)
(* inserts one row, or born rows move along the edges of JobHistory.       *)

Born(i, j) ==
  /\ pc[i] = "acquired"
  /\ status[j] = Unborn
  /\ status' = [status EXCEPT ![j] = "RUNNING"]
  /\ instance' = [instance EXCEPT ![j] = i]

Moved ==
  /\ UNCHANGED instance
  /\ \A k \in Jobs : \/ status'[k] = status[k]
                     \/ Active(k) /\ <<status[k], status'[k]>> \in History!Allowed

StatusEffect == Moved \/ \E i \in Instances, j \in Jobs : Born(i, j)

\* A guarded terminal transition is one of the status machine's moves.
LEMMA MovedByEnd ==
  ASSUME TypeOK, NEW ended \in SUBSET Jobs, NEW s \in {"FINISHED", "FAILED", "CANCELLED"},
         \A k \in ended : status[k] = "RUNNING" \/ (Active(k) /\ s = "CANCELLED"),
         SetTerminal(ended, s)
  PROVE  Moved
  BY DEF Moved, SetTerminal, Active, ActiveStatus, History!Allowed, History!Unborn

\* What a runner writes for its job is one of the status machine's moves.
LEMMA MovedByRunner ==
  ASSUME TypeOK, NEW j \in Jobs,
         set_finished(j) \/ set_failed(j) \/ mark_cancelled(j)
  PROVE  Moved
  <1>1. CASE set_finished(j)
    <2> DEFINE ended == {k \in {j} : status[k] = "RUNNING"}
    <2>1. ended \in SUBSET Jobs /\ \A k \in ended : status[k] = "RUNNING"
      OBVIOUS
    <2>2. SetTerminal(ended, "FINISHED")
      BY <1>1 DEF set_finished
    <2> HIDE DEF ended
    <2> QED
      BY <2>1, <2>2, MovedByEnd
  <1>2. CASE set_failed(j)
    <2> DEFINE ended == {k \in {j} : status[k] = "RUNNING"}
    <2>1. ended \in SUBSET Jobs /\ \A k \in ended : status[k] = "RUNNING"
      OBVIOUS
    <2>2. SetTerminal(ended, "FAILED")
      BY <1>2 DEF set_failed
    <2> HIDE DEF ended
    <2> QED
      BY <2>1, <2>2, MovedByEnd
  <1>3. CASE mark_cancelled(j)
    <2> DEFINE ended == {k \in {j} : Active(k)}
    <2>1. ended \in SUBSET Jobs /\ \A k \in ended : Active(k)
      OBVIOUS
    <2>2. SetTerminal(ended, "CANCELLED")
      BY <1>3 DEF mark_cancelled
    <2> HIDE DEF ended
    <2> QED
      BY <2>1, <2>2, MovedByEnd
  <1> QED
    BY <1>1, <1>2, <1>3

\* A request to stop RUNNING jobs is one of the status machine's moves.
LEMMA MovedByRequest ==
  ASSUME TypeOK, NEW asked \in SUBSET Jobs,
         \A k \in asked : status[k] = "RUNNING",
         RequestStop(asked)
  PROVE  Moved
  BY DEF Moved, RequestStop, Active, ActiveStatus, History!Allowed

\* Every action moves the status column along the status machine or inserts
\* one new row.
LEMMA StatusStep == TypeOK /\ HasJob /\ [Next]_vars => StatusEffect
  <1> SUFFICES ASSUME TypeOK, HasJob, [Next]_vars
               PROVE  StatusEffect
    OBVIOUS
  <1> USE DEF At, Goto, tables, jobs, lock, threads, environment
  <1>1. ASSUME NEW i \in Instances, Crash(i)
        PROVE  StatusEffect
    BY <1>1 DEF Crash, StatusEffect, Moved
  <1>2. ASSUME NEW i \in Instances, FindActive(i)
        PROVE  StatusEffect
    BY <1>2 DEF FindActive, StatusEffect, Moved
  <1>3. ASSUME NEW i \in Instances, NotDue(i)
        PROVE  StatusEffect
    BY <1>3 DEF NotDue, StatusEffect, Moved
  <1>4. ASSUME NEW i \in Instances, Acquire(i)
        PROVE  StatusEffect
    BY <1>4 DEF Acquire, StatusEffect, Moved
  <1>5. ASSUME NEW i \in Instances, AcquireLoses(i)
        PROVE  StatusEffect
    BY <1>5 DEF AcquireLoses, StatusEffect, Moved
  <1>6. ASSUME NEW i \in Instances, AcquireError(i)
        PROVE  StatusEffect
    BY <1>6 DEF AcquireError, StatusEffect, Moved
  <1>7. ASSUME NEW i \in Instances, NEW j \in Jobs, InsertJob(i, j)
        PROVE  StatusEffect
    <2>1. Born(i, j)
      BY <1>7 DEF InsertJob, insert, Born
    <2> QED
      BY <2>1 DEF StatusEffect
  <1>8. ASSUME NEW i \in Instances, NEW j \in Jobs, InsertError(i, j)
        PROVE  StatusEffect
    <2>1. CASE insert(j, i)
      BY <1>8, <2>1 DEF InsertError, insert, Born, StatusEffect
    <2>2. CASE UNCHANGED jobs
      BY <2>2 DEF StatusEffect, Moved
    <2> QED
      BY <1>8, <2>1, <2>2 DEF InsertError
  <1>9. ASSUME NEW i \in Instances, WorkDone(i)
        PROVE  StatusEffect
    BY <1>9 DEF WorkDone, StatusEffect, Moved
  <1>10. ASSUME NEW i \in Instances, Panic(i)
        PROVE  StatusEffect
    BY <1>10 DEF Panic, StatusEffect, Moved
  <1>11. ASSUME NEW i \in Instances, CheckRefresh(i)
        PROVE  StatusEffect
    BY <1>11 DEF CheckRefresh, StatusEffect, Moved, heartbeat_refresh
  <1>12. ASSUME NEW i \in Instances, CheckExtend(i)
        PROVE  StatusEffect
    BY <1>12 DEF CheckExtend, StatusEffect, Moved
  <1>13. ASSUME NEW i \in Instances, CheckObserve(i)
        PROVE  StatusEffect
    BY <1>13 DEF CheckObserve, StatusEffect, Moved
  <1>14. ASSUME NEW i \in Instances, CheckError(i)
        PROVE  StatusEffect
    BY <1>14 DEF CheckError, StatusEffect, Moved
  <1>15. ASSUME NEW i \in Instances, StopHeartbeat(i)
        PROVE  StatusEffect
    BY <1>15 DEF StopHeartbeat, StatusEffect, Moved
  <1>16. ASSUME NEW i \in Instances, ReadStatus(i)
        PROVE  StatusEffect
    BY <1>16 DEF ReadStatus, StatusEffect, Moved
  <1>17. ASSUME NEW i \in Instances, ReadStatusError(i)
        PROVE  StatusEffect
    BY <1>17 DEF ReadStatusError, StatusEffect, Moved
  <1>18. ASSUME NEW i \in Instances, MarkCancelled(i)
        PROVE  StatusEffect
    <2>1. job[i] \in Jobs
      BY <1>18 DEF MarkCancelled, HasJob, WorkPhase, HoldingPhase
    <2> QED
      BY <1>18, <2>1, MovedByRunner DEF MarkCancelled, StatusEffect
  <1>19. ASSUME NEW i \in Instances, SetFinished(i)
        PROVE  StatusEffect
    <2>1. job[i] \in Jobs
      BY <1>19 DEF SetFinished, HasJob, WorkPhase, HoldingPhase
    <2> QED
      BY <1>19, <2>1, MovedByRunner DEF SetFinished, StatusEffect
  <1>20. ASSUME NEW i \in Instances, SetFailed(i)
        PROVE  StatusEffect
    <2>1. job[i] \in Jobs
      BY <1>20 DEF SetFailed, HasJob, WorkPhase, HoldingPhase
    <2> QED
      BY <1>20, <2>1, MovedByRunner DEF SetFailed, StatusEffect
  <1>21. ASSUME NEW i \in Instances, FinalizeError(i)
        PROVE  StatusEffect
    BY <1>21 DEF FinalizeError, StatusEffect, Moved
  <1>22. ASSUME NEW i \in Instances, Release(i)
        PROVE  StatusEffect
    BY <1>22 DEF Release, StatusEffect, Moved, Return
  <1>23. ASSUME NEW i \in Instances, ReleaseError(i)
        PROVE  StatusEffect
    BY <1>23 DEF ReleaseError, StatusEffect, Moved, Return
  <1>24. ASSUME NEW i \in Instances, ReconcileRequest(i)
        PROVE  StatusEffect
    <2>1. Stale("RUNNING") \in SUBSET Jobs /\ \A k \in Stale("RUNNING") : status[k] = "RUNNING"
      BY DEF Stale
    <2> QED
      BY <1>24, <2>1, MovedByRequest DEF ReconcileRequest, StatusEffect
  <1>25. ASSUME NEW i \in Instances, ReconcileCancel(i)
        PROVE  StatusEffect
    <2> DEFINE ended == Stale("CANCELLATION_REQUESTED")
    <2>1. ended \in SUBSET Jobs /\ \A k \in ended : Active(k)
      BY DEF Stale, Active, ActiveStatus
    <2>2. SetTerminal(ended, "CANCELLED")
      BY <1>25 DEF ReconcileCancel
    <2> HIDE DEF ended
    <2> QED
      BY <2>1, <2>2, MovedByEnd DEF StatusEffect
  <1>26. ASSUME NEW i \in Instances, ReconcileError(i)
        PROVE  StatusEffect
    BY <1>26 DEF ReconcileError, StatusEffect, Moved
  <1>27. ASSUME NEW j \in Jobs, BeatRefresh(j)
        PROVE  StatusEffect
    BY <1>27 DEF BeatRefresh, StatusEffect, Moved, heartbeat_refresh
  <1>28. ASSUME NEW j \in Jobs, BeatExtend(j)
        PROVE  StatusEffect
    BY <1>28 DEF BeatExtend, StatusEffect, Moved
  <1>29. ASSUME NEW j \in Jobs, BeatObserve(j)
        PROVE  StatusEffect
    BY <1>29 DEF BeatObserve, StatusEffect, Moved
  <1>30. ASSUME NEW j \in Jobs, BeatError(j)
        PROVE  StatusEffect
    BY <1>30 DEF BeatError, StatusEffect, Moved
  <1>31. ASSUME NEW j \in Jobs, GoStale(j)
        PROVE  StatusEffect
    BY <1>31 DEF GoStale, StatusEffect, Moved
  <1>32. ASSUME NEW j \in Jobs, NEW force \in BOOLEAN, Cancel(j, force)
        PROVE  StatusEffect
    <2>1. CASE force
      BY <1>32, <2>1, MovedByRunner DEF Cancel, StatusEffect
    <2>2. CASE ~force
      <3> DEFINE asked == {k \in {j} : status[k] = "RUNNING"}
      <3>1. asked \in SUBSET Jobs /\ \A k \in asked : status[k] = "RUNNING"
        OBVIOUS
      <3>2. RequestStop(asked)
        BY <1>32, <2>2 DEF Cancel, request_cancellation
      <3> HIDE DEF asked
      <3> QED
        BY <3>1, <3>2, MovedByRequest DEF StatusEffect
    <2> QED
      BY <2>1, <2>2
  <1>33. CASE Expire
    BY <1>33 DEF Expire, StatusEffect, Moved
  <1>34. CASE UNCHANGED vars
    BY <1>34 DEF vars, StatusEffect, Moved
  <1> QED
    BY <1>1, <1>2, <1>3, <1>4, <1>5, <1>6, <1>7, <1>8, <1>9, <1>10, <1>11,
       <1>12, <1>13, <1>14, <1>15, <1>16, <1>17, <1>18, <1>19, <1>20,
       <1>21, <1>22, <1>23, <1>24, <1>25, <1>26, <1>27, <1>28, <1>29,
       <1>30, <1>31, <1>32, <1>33, <1>34
    DEF Next, Runner, Watcher, Beat

-----------------------------------------------------------------------------
(* Running jobs and the runners that work on them.                         *)

\* A step that makes no job RUNNING and takes no runner off its job keeps
\* NoAbandonedRunning.
LEMMA NoAbandonedFrame ==
  ASSUME TypeOK, NoAbandonedRunning,
         UNCHANGED <<instance, job>>,
         (faults' = 0 => faults = 0) /\ (panics' = 0 => panics = 0),
         dead \subseteq dead',
         \A k \in Jobs : status'[k] = "RUNNING" => status[k] = "RUNNING",
         \A m \in Instances : pc'[m] = "releasing" => pc[m] = "releasing"
  PROVE  NoAbandonedRunning'
  <1> SUFFICES ASSUME faults' = 0, panics' = 0, NEW j \in Jobs,
                      status'[j] = "RUNNING", instance'[j] \notin dead'
               PROVE  job'[instance'[j]] = j /\ pc'[instance'[j]] # "releasing"
    BY DEF NoAbandonedRunning
  <1>1. instance[j] \in Instances
    BY DEF TypeOK, Unborn
  <1> QED
    BY <1>1 DEF NoAbandonedRunning

\* Every action keeps NoAbandonedRunning: a runner that leaves a job without
\* a terminal transition has had a failed call or a panic.
LEMMA NoAbandonedStep ==
  TypeOK /\ HasJob /\ NoAbandonedRunning /\ [Next]_vars => NoAbandonedRunning'
  <1> SUFFICES ASSUME TypeOK, HasJob, NoAbandonedRunning, [Next]_vars
               PROVE  NoAbandonedRunning'
    OBVIOUS
  <1> USE DEF At, Goto, tables, jobs, lock, threads, environment
  <1>1. ASSUME NEW i \in Instances, Crash(i)
        PROVE  NoAbandonedRunning'
    <2>1. \A m \in Instances : m # i => pc'[m] = pc[m] /\ job'[m] = job[m]
      BY <1>1 DEF Crash, TypeOK
    <2> QED
      BY <1>1, <2>1 DEF Crash, NoAbandonedRunning, TypeOK, Unborn
  <1>2. ASSUME NEW i \in Instances, FindActive(i)
        PROVE  NoAbandonedRunning'
    BY <1>2, NoAbandonedFrame DEF FindActive, TypeOK
  <1>3. ASSUME NEW i \in Instances, NotDue(i)
        PROVE  NoAbandonedRunning'
    <2>1. faults' = 0 => faults = 0
      BY <1>3 DEF NotDue, Fault, TypeOK
    <2> QED
      BY <1>3, <2>1, NoAbandonedFrame DEF NotDue, TypeOK
  <1>4. ASSUME NEW i \in Instances, Acquire(i)
        PROVE  NoAbandonedRunning'
    BY <1>4, NoAbandonedFrame DEF Acquire, TypeOK
  <1>5. ASSUME NEW i \in Instances, AcquireLoses(i)
        PROVE  NoAbandonedRunning'
    BY <1>5, NoAbandonedFrame DEF AcquireLoses, TypeOK
  <1>6. ASSUME NEW i \in Instances, AcquireError(i)
        PROVE  NoAbandonedRunning'
    <2>1. faults' # 0
      BY <1>6 DEF AcquireError, Fault, TypeOK
    <2> QED
      BY <2>1 DEF NoAbandonedRunning
  <1>7. ASSUME NEW i \in Instances, NEW j \in Jobs, InsertJob(i, j)
        PROVE  NoAbandonedRunning'
    <2>1. /\ instance' = [instance EXCEPT ![j] = i]
          /\ job' = [job EXCEPT ![i] = j]
          /\ pc' = [pc EXCEPT ![i] = "working"]
          /\ status' = [status EXCEPT ![j] = "RUNNING"]
          /\ UNCHANGED <<faults, panics, dead>>
          /\ job[i] = NoJob
      BY <1>7 DEF InsertJob, insert, HasJob
    <2>2. ASSUME NEW k \in Jobs, status'[k] = "RUNNING", instance'[k] \notin dead,
                 faults = 0, panics = 0
          PROVE  job'[instance'[k]] = k /\ pc'[instance'[k]] # "releasing"
      <3>1. CASE k = j
        BY <2>1, <3>1 DEF TypeOK
      <3>2. CASE k # j
        <4>1. status[k] = "RUNNING" /\ instance'[k] = instance[k] /\ instance[k] \in Instances
          BY <2>1, <2>2, <3>2 DEF TypeOK, Unborn
        <4>2. job[instance[k]] = k /\ pc[instance[k]] # "releasing"
          BY <2>2, <4>1 DEF NoAbandonedRunning
        <4>3. instance[k] # i
          BY <2>1, <4>2, NoJobAssumption
        <4> QED
          BY <2>1, <4>1, <4>2, <4>3 DEF TypeOK
      <3> QED
        BY <3>1, <3>2
    <2> QED
      BY <2>1, <2>2 DEF NoAbandonedRunning
  <1>8. ASSUME NEW i \in Instances, NEW j \in Jobs, InsertError(i, j)
        PROVE  NoAbandonedRunning'
    <2>1. faults' # 0
      BY <1>8 DEF InsertError, Fault, TypeOK
    <2> QED
      BY <2>1 DEF NoAbandonedRunning
  <1>9. ASSUME NEW i \in Instances, WorkDone(i)
        PROVE  NoAbandonedRunning'
    BY <1>9, NoAbandonedFrame DEF WorkDone, TypeOK
  <1>10. ASSUME NEW i \in Instances, Panic(i)
        PROVE  NoAbandonedRunning'
    <2>1. panics' # 0
      BY <1>10 DEF Panic, TypeOK
    <2> QED
      BY <2>1 DEF NoAbandonedRunning
  <1>11. ASSUME NEW i \in Instances, CheckRefresh(i)
        PROVE  NoAbandonedRunning'
    BY <1>11, NoAbandonedFrame DEF CheckRefresh, TypeOK, heartbeat_refresh
  <1>12. ASSUME NEW i \in Instances, CheckExtend(i)
        PROVE  NoAbandonedRunning'
    BY <1>12, NoAbandonedFrame DEF CheckExtend, TypeOK
  <1>13. ASSUME NEW i \in Instances, CheckObserve(i)
        PROVE  NoAbandonedRunning'
    BY <1>13, NoAbandonedFrame DEF CheckObserve, TypeOK
  <1>14. ASSUME NEW i \in Instances, CheckError(i)
        PROVE  NoAbandonedRunning'
    <2>1. faults' # 0
      BY <1>14 DEF CheckError, Fault, TypeOK
    <2> QED
      BY <2>1 DEF NoAbandonedRunning
  <1>15. ASSUME NEW i \in Instances, StopHeartbeat(i)
        PROVE  NoAbandonedRunning'
    BY <1>15, NoAbandonedFrame DEF StopHeartbeat, TypeOK, AfterStop
  <1>16. ASSUME NEW i \in Instances, ReadStatus(i)
        PROVE  NoAbandonedRunning'
    BY <1>16, NoAbandonedFrame DEF ReadStatus, TypeOK, Verdict
  <1>17. ASSUME NEW i \in Instances, ReadStatusError(i)
        PROVE  NoAbandonedRunning'
    <2>1. faults' # 0
      BY <1>17 DEF ReadStatusError, Fault, TypeOK
    <2> QED
      BY <2>1 DEF NoAbandonedRunning
  <1>18. ASSUME NEW i \in Instances, MarkCancelled(i)
        PROVE  NoAbandonedRunning'
    <2>1. job[i] \in Jobs
      BY <1>18 DEF MarkCancelled, HasJob, WorkPhase, HoldingPhase
    <2>2. \A k \in Jobs : status'[k] = "RUNNING" => status[k] = "RUNNING" /\ k # job[i]
      BY <1>18, <2>1, RunnerTransitionEffect DEF MarkCancelled
    <2>3. /\ UNCHANGED <<instance, job, faults, panics, dead>>
          /\ pc' = [pc EXCEPT ![i] = "releasing"]
      BY <1>18, <2>1, RunnerTransitionEffect DEF MarkCancelled
    <2> QED
      BY <2>2, <2>3 DEF NoAbandonedRunning, TypeOK, Unborn
  <1>19. ASSUME NEW i \in Instances, SetFinished(i)
        PROVE  NoAbandonedRunning'
    <2>1. job[i] \in Jobs
      BY <1>19 DEF SetFinished, HasJob, WorkPhase, HoldingPhase
    <2>2. \A k \in Jobs : status'[k] = "RUNNING" => status[k] = "RUNNING" /\ k # job[i]
      BY <1>19, <2>1, RunnerTransitionEffect DEF SetFinished
    <2>3. /\ UNCHANGED <<instance, job, faults, panics, dead>>
          /\ pc' = [pc EXCEPT ![i] = "releasing"]
      BY <1>19, <2>1, RunnerTransitionEffect DEF SetFinished
    <2> QED
      BY <2>2, <2>3 DEF NoAbandonedRunning, TypeOK, Unborn
  <1>20. ASSUME NEW i \in Instances, SetFailed(i)
        PROVE  NoAbandonedRunning'
    <2>1. job[i] \in Jobs
      BY <1>20 DEF SetFailed, HasJob, WorkPhase, HoldingPhase
    <2>2. \A k \in Jobs : status'[k] = "RUNNING" => status[k] = "RUNNING" /\ k # job[i]
      BY <1>20, <2>1, RunnerTransitionEffect DEF SetFailed
    <2>3. /\ UNCHANGED <<instance, job, faults, panics, dead>>
          /\ pc' = [pc EXCEPT ![i] = "releasing"]
      BY <1>20, <2>1, RunnerTransitionEffect DEF SetFailed
    <2> QED
      BY <2>2, <2>3 DEF NoAbandonedRunning, TypeOK, Unborn
  <1>21. ASSUME NEW i \in Instances, FinalizeError(i)
        PROVE  NoAbandonedRunning'
    <2>1. faults' # 0
      BY <1>21 DEF FinalizeError, Fault, TypeOK
    <2> QED
      BY <2>1 DEF NoAbandonedRunning
  <1>22. ASSUME NEW i \in Instances, Release(i)
        PROVE  NoAbandonedRunning'
    <2>1. /\ UNCHANGED <<status, instance, faults, panics, dead>>
          /\ \A m \in Instances : m # i => pc'[m] = pc[m] /\ job'[m] = job[m]
          /\ pc[i] = "releasing"
      BY <1>22 DEF Release, Return, TypeOK
    <2> QED
      BY <2>1 DEF NoAbandonedRunning, TypeOK, Unborn
  <1>23. ASSUME NEW i \in Instances, ReleaseError(i)
        PROVE  NoAbandonedRunning'
    <2>1. faults' # 0
      BY <1>23 DEF ReleaseError, Fault, TypeOK
    <2> QED
      BY <2>1 DEF NoAbandonedRunning
  <1>24. ASSUME NEW i \in Instances, ReconcileRequest(i)
        PROVE  NoAbandonedRunning'
    <2>1. Stale("RUNNING") \in SUBSET Jobs /\ \A k \in Stale("RUNNING") : status[k] = "RUNNING"
      BY DEF Stale
    <2> QED
      BY <1>24, <2>1, RequestStopEffect, NoAbandonedFrame DEF ReconcileRequest
  <1>25. ASSUME NEW i \in Instances, ReconcileCancel(i)
        PROVE  NoAbandonedRunning'
    <2>1. Stale("CANCELLATION_REQUESTED") \in SUBSET Jobs /\ "CANCELLED" \in JobStatus \ ActiveStatus
      BY DEF Stale, JobStatus, ActiveStatus
    <2> QED
      BY <1>25, <2>1, SetTerminalEffect, NoAbandonedFrame DEF ReconcileCancel
  <1>26. ASSUME NEW i \in Instances, ReconcileError(i)
        PROVE  NoAbandonedRunning'
    <2>1. faults' # 0
      BY <1>26 DEF ReconcileError, Fault, TypeOK
    <2> QED
      BY <2>1 DEF NoAbandonedRunning
  <1>27. ASSUME NEW j \in Jobs, BeatRefresh(j)
        PROVE  NoAbandonedRunning'
    BY <1>27, NoAbandonedFrame DEF BeatRefresh, TypeOK, heartbeat_refresh
  <1>28. ASSUME NEW j \in Jobs, BeatExtend(j)
        PROVE  NoAbandonedRunning'
    BY <1>28, NoAbandonedFrame DEF BeatExtend, TypeOK
  <1>29. ASSUME NEW j \in Jobs, BeatObserve(j)
        PROVE  NoAbandonedRunning'
    BY <1>29, NoAbandonedFrame DEF BeatObserve, TypeOK
  <1>30. ASSUME NEW j \in Jobs, BeatError(j)
        PROVE  NoAbandonedRunning'
    <2>1. faults' # 0
      BY <1>30 DEF BeatError, Fault, TypeOK
    <2> QED
      BY <2>1 DEF NoAbandonedRunning
  <1>31. ASSUME NEW j \in Jobs, GoStale(j)
        PROVE  NoAbandonedRunning'
    BY <1>31, NoAbandonedFrame DEF GoStale, TypeOK
  <1>32. ASSUME NEW j \in Jobs, NEW force \in BOOLEAN, Cancel(j, force)
        PROVE  NoAbandonedRunning'
    <2>1. CASE force
      BY <1>32, <2>1, RunnerTransitionEffect, NoAbandonedFrame DEF Cancel
    <2>2. CASE ~force
      <3> DEFINE asked == {k \in {j} : status[k] = "RUNNING"}
      <3>1. asked \in SUBSET Jobs /\ \A k \in asked : status[k] = "RUNNING"
        OBVIOUS
      <3> HIDE DEF asked
      <3> QED
        BY <1>32, <2>2, <3>1, RequestStopEffect, NoAbandonedFrame
        DEF Cancel, request_cancellation, asked
    <2> QED
      BY <2>1, <2>2
  <1>33. CASE Expire
    BY <1>33, NoAbandonedFrame DEF Expire, TypeOK
  <1>34. CASE UNCHANGED vars
    BY <1>34, NoAbandonedFrame DEF vars
  <1> QED
    BY <1>1, <1>2, <1>3, <1>4, <1>5, <1>6, <1>7, <1>8, <1>9, <1>10, <1>11,
       <1>12, <1>13, <1>14, <1>15, <1>16, <1>17, <1>18, <1>19, <1>20,
       <1>21, <1>22, <1>23, <1>24, <1>25, <1>26, <1>27, <1>28, <1>29,
       <1>30, <1>31, <1>32, <1>33, <1>34
    DEF Next, Runner, Watcher, Beat

-----------------------------------------------------------------------------
(* The theorems.                                                           *)

\* Every state is well typed, and a runner past its insert has its job.
THEOREM TypeCorrect == Spec => [](TypeOK /\ HasJob)
  <1>1. Init => TypeOK /\ HasJob
    BY InitType
  <1>2. TypeOK /\ HasJob /\ [Next]_vars => (TypeOK /\ HasJob)'
    BY TypeStep, HasJobStep
  <1> QED
    BY <1>1, <1>2, PTL DEF Spec

\* Active jobs belong to the runner that works on them or to an idle one.
THEOREM OwnershipCorrect == Spec => []Ownership
  <1>1. Init => Ownership
    BY NoJobAssumption DEF Init, Ownership, Active, ActiveStatus, Unborn
  <1>2. TypeOK /\ HasJob /\ Ownership /\ (TypeOK /\ HasJob)' /\ [Next]_vars
          => Ownership'
    BY OwnershipStep
  <1> QED
    BY <1>1, <1>2, TypeCorrect, PTL DEF Spec

\* The inductive core of LeaseExclusive: as long as no lease ran out under a
\* live holder, whoever believes it owns the type is named by an unexpired lock.
LockBacksHolder ==
  ~lapsed => \A m \in Instances : Holds(m) => locked_by = m /\ ~expired

\* Every step keeps the lock with the runner that holds it, until a lease
\* runs out under a live holder.
LEMMA LockBacksHolderStep ==
  TypeOK /\ LockBacksHolder /\ LeaseEffect => LockBacksHolder'
  <1> SUFFICES ASSUME TypeOK, LockBacksHolder, LeaseEffect, ~lapsed',
                      NEW m \in Instances, Holds(m)'
               PROVE  locked_by' = m /\ ~expired'
    BY DEF LockBacksHolder
  <1>1. CASE Quiet
    BY <1>1 DEF Quiet, NoNewHolder, LockBacksHolder, TypeOK
  <1>2. CASE RunOut
    <2>1. Holds(m) /\ ~lapsed /\ ~Holds(locked_by)
      BY <1>2 DEF RunOut, NoNewHolder, TypeOK
    <2>2. locked_by = m
      BY <2>1 DEF LockBacksHolder
    <2> QED
      BY <2>1, <2>2
  <1>3. ASSUME NEW k \in Instances, Take(k)
        PROVE  locked_by' = m /\ ~expired'
    <2>1. ~Holds(m)
      BY <1>3, NobodyAssumption DEF Take, Acquirable, LockBacksHolder
    <2> QED
      BY <1>3, <2>1 DEF Take
  <1>4. ASSUME NEW k \in Instances, Free(k)
        PROVE  FALSE
    BY <1>4 DEF Free, NoNewHolder, LockBacksHolder
  <1> QED
    BY <1>1, <1>2, <1>3, <1>4 DEF LeaseEffect

\* No two runners own the type at once unless a lease ran out under a live
\* holder: ShedLock's promise, for every number of instances and jobs.
THEOREM LeaseIsExclusive == Spec => []LeaseExclusive
  <1>1. Init => LockBacksHolder
    BY DEF Init, LockBacksHolder, Holds, HoldingPhase
  <1>2. TypeOK /\ HasJob /\ Ownership /\ LockBacksHolder /\ [Next]_vars
          => LockBacksHolder'
    BY LeaseStep, LockBacksHolderStep
  <1>3. LockBacksHolder => LeaseExclusive
    BY DEF LockBacksHolder, LeaseExclusive
  <1> QED
    BY <1>1, <1>2, <1>3, TypeCorrect, OwnershipCorrect, PTL DEF Spec

\* Only a takeover of an expired lease takes the lock from a holder.
THEOREM LockOutlives == Spec => LockOutlivesItsJob
  <1>1. TypeOK /\ HasJob /\ Ownership /\ [Next]_vars =>
          [\A i \in Instances : Holds(i) /\ locked_by = i /\ locked_by' # i =>
             expired \/ ~Holds(i)']_vars
    <2> SUFFICES ASSUME TypeOK, HasJob, Ownership, [Next]_vars,
                        NEW i \in Instances, Holds(i), locked_by = i,
                        locked_by' # i, ~expired
                 PROVE  ~Holds(i)'
      OBVIOUS
    <2>1. LeaseEffect
      BY LeaseStep
    <2>2. ~Quiet /\ ~RunOut
      BY DEF Quiet, RunOut
    <2>3. \A k \in Instances : ~Take(k)
      BY NobodyAssumption DEF Take, Acquirable
    <2>4. PICK k \in Instances : Free(k)
      BY <2>1, <2>2, <2>3 DEF LeaseEffect
    <2> QED
      BY <2>4 DEF Free
  <1> QED
    BY <1>1, TypeCorrect, OwnershipCorrect, PTL DEF Spec, LockOutlivesItsJob

\* The jobs table implements the history JobHistory promises.
THEOREM Refinement == Spec => StatusProtocol
  <1>1. Init => History!Init
    BY DEF Init, History!Init, Unborn, History!Unborn
  <1>2. TypeOK /\ HasJob /\ [Next]_vars => [History!Next]_status
    <2> SUFFICES ASSUME TypeOK, HasJob, [Next]_vars
                 PROVE  History!Next
      OBVIOUS
    <2>1. StatusEffect
      BY StatusStep
    <2>2. CASE Moved
      BY <2>2 DEF Moved, History!Next
    <2>3. ASSUME NEW i \in Instances, NEW j \in Jobs, Born(i, j)
          PROVE  History!Next
      BY <2>3 DEF Born, TypeOK, Unborn, History!Next, History!Allowed, History!Unborn
    <2> QED
      BY <2>1, <2>2, <2>3 DEF StatusEffect
  <1> QED
    BY <1>1, <1>2, TypeCorrect, PTL DEF Spec, StatusProtocol, History!Spec

\* An instance never has two active jobs of the type.
THEOREM OneActive == Spec => []OneActivePerInstance
  <1>1. Init => OneActivePerInstance
    BY DEF Init, OneActivePerInstance, Active, ActiveStatus, Unborn
  <1>2. TypeOK /\ HasJob /\ Ownership /\ OneActivePerInstance /\ [Next]_vars
          => OneActivePerInstance'
    <2> SUFFICES ASSUME TypeOK, HasJob, Ownership, OneActivePerInstance, [Next]_vars,
                        NEW j \in Jobs, Active(j)', NEW k \in Jobs, Active(k)',
                        instance'[j] = instance'[k]
                 PROVE  j = k
      BY DEF OneActivePerInstance
    <2>1. StatusEffect
      BY StatusStep
    <2>2. CASE Moved
      BY <2>2 DEF Moved, Active, OneActivePerInstance
    <2>3. ASSUME NEW i \in Instances, NEW n \in Jobs, Born(i, n)
          PROVE  j = k
      <3>1. \A m \in Jobs : Active(m) => instance[m] # i
        BY <2>3, NoJobAssumption DEF Born, HasJob, Ownership
      <3>2. /\ status' = [status EXCEPT ![n] = "RUNNING"]
            /\ instance' = [instance EXCEPT ![n] = i]
        BY <2>3 DEF Born
      <3>3. /\ j # n => Active(j) /\ instance'[j] = instance[j]
            /\ k # n => Active(k) /\ instance'[k] = instance[k]
            /\ instance'[n] = i
        BY <3>2 DEF Active, TypeOK
      <3> QED
        BY <3>1, <3>3 DEF OneActivePerInstance
    <2> QED
      BY <2>1, <2>2, <2>3 DEF StatusEffect
  <1> QED
    BY <1>1, <1>2, TypeCorrect, OwnershipCorrect, PTL DEF Spec

\* Without failed calls and panics, a RUNNING job of a live process has a
\* runner on it.
THEOREM NoAbandoned == Spec => []NoAbandonedRunning
  <1>1. Init => NoAbandonedRunning
    BY DEF Init, NoAbandonedRunning, Unborn
  <1>2. TypeOK /\ HasJob /\ NoAbandonedRunning /\ [Next]_vars => NoAbandonedRunning'
    BY NoAbandonedStep
  <1> QED
    BY <1>1, <1>2, TypeCorrect, PTL DEF Spec

=============================================================================
