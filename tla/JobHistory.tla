----------------------------- MODULE JobHistory -----------------------------
(***************************************************************************)
(* What the job tracking promises to a reader of the `jobs` table: every   *)
(* run is one row that is born RUNNING, a requested cancellation can only  *)
(* be answered by CANCELLED, and a terminal row is history that nothing    *)
(* rewrites.                                                               *)
(***************************************************************************)
CONSTANT Jobs

VARIABLE status

JobStatus == {"RUNNING", "FINISHED", "FAILED", "CANCELLATION_REQUESTED", "CANCELLED"}

\* A row that has not been inserted yet.
Unborn == "NONE"

Init == status = [j \in Jobs |-> Unborn]

Allowed ==
  { <<Unborn, "RUNNING">>,
    <<"RUNNING", "FINISHED">>,
    <<"RUNNING", "FAILED">>,
    <<"RUNNING", "CANCELLATION_REQUESTED">>,
    <<"RUNNING", "CANCELLED">>,
    <<"CANCELLATION_REQUESTED", "CANCELLED">> }

\* One statement may move several rows (the watcher's bulk updates), each
\* along an allowed edge.
Next == \A j \in Jobs :
          \/ status'[j] = status[j]
          \/ <<status[j], status'[j]>> \in Allowed

Spec == Init /\ [][Next]_status
=============================================================================
