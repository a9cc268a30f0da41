---------------------------- MODULE JobLifecycle ----------------------------
(* What a client of the API may rely on when it polls the status of a solver
   job: the life of one solver_jobs row per job, without the queue, the worker,
   the lock or the progress bridge behind it.  SolverJob implements it.

   The one irregular edge is RecordQueueId: the API writes the row a second
   time after it has handed the job to the queue, and that write sets the
   status back to "queued" whatever the worker has made of the row since. *)
CONSTANT Jobs

VARIABLES
  status,   \* the status column, "absent" before the insert, "deleted" after the project
  pending   \* pending[j]: the request that created j has not made its second write

vars == <<status, pending>>

Final == {"succeeded", "failed", "cancelled"}

Init ==
  /\ status = [j \in Jobs |-> "absent"]
  /\ pending = [j \in Jobs |-> FALSE]

Submit(j) ==
  /\ status[j] = "absent"
  /\ status' = [status EXCEPT ![j] = "queued"]
  /\ pending' = [pending EXCEPT ![j] = TRUE]

RecordQueueId(j) ==
  /\ pending[j]
  /\ status[j] # "deleted"
  /\ status' = [status EXCEPT ![j] = "queued"]
  /\ pending' = [pending EXCEPT ![j] = FALSE]

\* The request ends without its second write.
Abandon(j) ==
  /\ pending[j]
  /\ pending' = [pending EXCEPT ![j] = FALSE]
  /\ UNCHANGED status

Start(j) ==
  /\ status[j] = "queued"
  /\ status' = [status EXCEPT ![j] = "running"]
  /\ UNCHANGED pending

\* A row is finished from "running", or from a "queued" that hides a running
\* attempt, which only a completed RecordQueueId can have left there.
Finish(j) ==
  /\ \/ status[j] = "running"
     \/ status[j] = "queued" /\ ~pending[j]
  /\ \E s \in Final : status' = [status EXCEPT ![j] = s]
  /\ UNCHANGED pending

DeleteAll ==
  /\ status' = [j \in Jobs |-> "deleted"]
  /\ UNCHANGED pending

Next ==
  \/ \E j \in Jobs : Submit(j) \/ RecordQueueId(j) \/ Abandon(j) \/ Start(j) \/ Finish(j)
  \/ DeleteAll

Spec == Init /\ [][Next]_vars
=============================================================================
