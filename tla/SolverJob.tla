------------------------------ MODULE SolverJob ------------------------------
(* The life of solver jobs: POST /projects/<id>/jobs and POST /jobs/<id>/cancel
   (api/jobs.py), the arq queue (external), and the worker coroutine
   run_solver_job with its Redis lock, cancel poller and progress bridge
   (jobs/solver_job.py) over the solver_jobs rows (repositories/jobs.py).

   Every database session is one step: it commits or it does nothing.  The
   steps of the API handlers, of every attempt, of its poller and of its drain
   task interleave freely; faults are enabled by kind and counted. *)
EXTENDS Naturals, FiniteSets

CONSTANTS
  Jobs,         \* the jobs clients ask for, one row each
  Targets,      \* the (project, revision, operation) triples locks are named after
  Target,       \* Target[j]: the triple of job j
  NoJob,        \* value of a lock that is not held
  Interactive,  \* jobs whose operation is given the _cancel and _progress callbacks
  LayoutJobs,   \* jobs whose operation yields a layout: every one but "validate"
  Cancels,      \* bound: jobs whose client asks to cancel, once each
  MaxTries,     \* WorkerSettings.max_tries
  MaxJobs,      \* WORKER_CONCURRENCY: attempts that may run at once
  MaxBuffer,    \* bound: progress items waiting in one bridge
  FaultKinds,   \* faults the environment of this instance can produce
  MaxFaults     \* bound: faults in one behaviour

ASSUME JobAssumption ==
  /\ Target \in [Jobs -> Targets]
  /\ NoJob \notin Jobs
  /\ Interactive \subseteq Jobs /\ LayoutJobs \subseteq Jobs
  /\ \A i, j \in Jobs : Target[i] = Target[j] =>
       (i \in Interactive <=> j \in Interactive) /\ (i \in LayoutJobs <=> j \in LayoutJobs)
  /\ MaxTries \in Nat /\ MaxJobs \in Nat /\ MaxBuffer \in Nat /\ MaxFaults \in Nat

VARIABLES
  api,         \* api[j]: where the request that creates j is
  cancelling,  \* cancelling[j]: where the cancel request for j is
  status,      \* solver_jobs.status; "absent" before the insert, "deleted" after the project
  layouts,     \* layout rows whose solver_job_id is j
  result,      \* which of them result_layout_id names, 0 for NULL
  arq,         \* the queue's view of the job
  tries,       \* arq's job_try
  aborted,     \* j is in arq's abort set
  lock,        \* lock[t]: value of abb:lock:t
  flag,        \* flag[j]: abb:cancel:j exists
  pc,          \* where the attempt at j is
  outcome,     \* what the attempt is about to write
  verdict,     \* how the coroutine ends
  poller,      \* the cancel poller and its event, while the solver runs
  drain,       \* the drain task
  buf,         \* progress items in the bridge's queue
  late,        \* late[j]: solver threads that outlived their interrupted attempt at j
  faults       \* faults so far

apiVars == <<api, cancelling>>
rowVars == <<status, layouts, result>>
arqVars == <<arq, tries, aborted>>
redisVars == <<lock, flag>>
taskVars == <<poller, drain, buf, late>>
attemptVars == <<pc, outcome, verdict, poller, drain, buf, late>>
vars == <<api, cancelling, status, layouts, result, arq, tries, aborted,
          lock, flag, pc, outcome, verdict, poller, drain, buf, late, faults>>

Final == {"succeeded", "failed", "cancelled"}
Interruptions == {"cancelled", "timedout", "aborted"}

TypeOK ==
  /\ api \in [Jobs -> {"idle", "enqueue", "record", "done", "failed"}]
  /\ cancelling \in [Jobs -> {"no", "flagged", "answered"}]
  /\ status \in [Jobs -> {"absent", "queued", "running", "deleted"} \cup Final]
  /\ layouts \in [Jobs -> Nat] /\ result \in [Jobs -> Nat]
  /\ arq \in [Jobs -> {"none", "queued", "running", "orphan", "done"}]
  /\ tries \in [Jobs -> 0..MaxTries]
  /\ aborted \in [Jobs -> BOOLEAN]
  /\ lock \in [Targets -> Jobs \cup {NoJob}]
  /\ flag \in [Jobs -> BOOLEAN]
  /\ pc \in [Jobs -> {"idle", "read", "lock", "mark", "solve", "layout", "drain",
                      "write", "cleanup", "release", "end"}]
  /\ outcome \in [Jobs -> {"none", "transient"} \cup Final]
  /\ verdict \in [Jobs -> {"none", "return", "retry", "error"} \cup Interruptions]
  /\ poller \in [Jobs -> {"off", "polling", "set", "dead"}]
  /\ drain \in [Jobs -> {"off", "on", "done", "killed"}]
  /\ buf \in [Jobs -> 0..MaxBuffer]
  /\ late \in [Jobs -> Nat]
  /\ faults \in 0..MaxFaults

Init ==
  /\ api = [j \in Jobs |-> "idle"]
  /\ cancelling = [j \in Jobs |-> "no"]
  /\ status = [j \in Jobs |-> "absent"]
  /\ layouts = [j \in Jobs |-> 0]
  /\ result = [j \in Jobs |-> 0]
  /\ arq = [j \in Jobs |-> "none"]
  /\ tries = [j \in Jobs |-> 0]
  /\ aborted = [j \in Jobs |-> FALSE]
  /\ lock = [t \in Targets |-> NoJob]
  /\ flag = [j \in Jobs |-> FALSE]
  /\ pc = [j \in Jobs |-> "idle"]
  /\ outcome = [j \in Jobs |-> "none"]
  /\ verdict = [j \in Jobs |-> "none"]
  /\ poller = [j \in Jobs |-> "off"]
  /\ drain = [j \in Jobs |-> "off"]
  /\ buf = [j \in Jobs |-> 0]
  /\ late = [j \in Jobs |-> 0]
  /\ faults = 0

-----------------------------------------------------------------------------
(* Shared pieces *)

\* A fault of kind k happens in this step.
Fault(k) ==
  /\ k \in FaultKinds
  /\ faults < MaxFaults
  /\ faults' = faults + 1

\* A write for j fails: the database is unreachable, or the row went away with
\* its project (LookupError from update_job_status, a foreign key violation
\* from create_layout, NOT_FOUND from _resolve_inputs).
WriteFails(j) ==
  \/ status[j] = "deleted" /\ UNCHANGED faults
  \/ Fault("db")

\* repositories/jobs.update_job_status: no condition on the status the row has.
UpdateStatus(j, s) ==
  /\ status[j] # "deleted"
  /\ status' = [status EXCEPT ![j] = s]

Goto(j, p) == pc' = [pc EXCEPT ![j] = p]

\* The coroutine of job j is over and arq is about to see how.
Leave(j, v) ==
  /\ Goto(j, "end")
  /\ verdict' = [verdict EXCEPT ![j] = v]

\* The attempt holds the lock as far as its own control flow knows.
InCritical(j) ==
  pc[j] \in {"mark", "solve", "layout", "drain", "write", "cleanup", "release"}

Running == {j \in Jobs : pc[j] # "idle"}

-----------------------------------------------------------------------------
(* The API handlers *)

\* create_job, first session: the row is inserted "queued" and committed.
CreateJob(j) ==
  /\ api[j] = "idle" /\ status[j] = "absent"
  /\ api' = [api EXCEPT ![j] = "enqueue"]
  /\ status' = [status EXCEPT ![j] = "queued"]
  /\ UNCHANGED <<cancelling, layouts, result, arqVars, redisVars, attemptVars, faults>>

\* create_job, enqueue_job: an exception is logged and swallowed.
Enqueue(j) ==
  /\ api[j] = "enqueue"
  /\ api' = [api EXCEPT ![j] = "record"]
  /\ \/ arq' = [arq EXCEPT ![j] = "queued"] /\ UNCHANGED faults
     \/ Fault("enqueue") /\ UNCHANGED arq
  /\ UNCHANGED <<cancelling, rowVars, tries, aborted, redisVars, attemptVars>>

\* create_job, second session: queue_job_id is stored with status "queued".
RecordQueueId(j) ==
  /\ api[j] = "record"
  /\ UpdateStatus(j, "queued")
  /\ api' = [api EXCEPT ![j] = "done"]
  /\ UNCHANGED <<cancelling, layouts, result, arqVars, redisVars, attemptVars, faults>>

\* That session fails: the request ends in an error, the queue keeps the job.
RecordFails(j) ==
  /\ api[j] = "record"
  /\ WriteFails(j)
  /\ api' = [api EXCEPT ![j] = "failed"]
  /\ UNCHANGED <<cancelling, rowVars, arqVars, redisVars, attemptVars>>

\* The API process dies between the handler's steps.
ApiCrash(j) ==
  /\ api[j] \in {"enqueue", "record"}
  /\ Fault("api")
  /\ api' = [api EXCEPT ![j] = "failed"]
  /\ UNCHANGED <<cancelling, rowVars, arqVars, redisVars, attemptVars>>

\* cancel_job sets the flag before it looks at the row.
RequestCancel(j) ==
  /\ j \in Cancels /\ api[j] # "idle" /\ cancelling[j] = "no"
  /\ cancelling' = [cancelling EXCEPT ![j] = "flagged"]
  /\ flag' = [flag EXCEPT ![j] = TRUE]
  /\ UNCHANGED <<api, rowVars, arqVars, lock, attemptVars, faults>>

\* cancel_job, best-effort abort.  It needs the stored queue id; whether the
\* abort reaches arq is left open: any exception of Job.abort is swallowed.
AbortArq(j) ==
  /\ cancelling[j] = "flagged"
  /\ cancelling' = [cancelling EXCEPT ![j] = "answered"]
  /\ \/ /\ api[j] = "done" /\ status[j] # "deleted"
        /\ aborted' = [aborted EXCEPT ![j] = TRUE]
     \/ UNCHANGED aborted
  /\ UNCHANGED <<api, rowVars, arq, tries, redisVars, attemptVars, faults>>

\* DELETE /projects/<id>: jobs and layouts go with the project (ON DELETE CASCADE).
DeleteProject ==
  /\ Fault("delete")
  /\ status' = [j \in Jobs |-> "deleted"]
  /\ layouts' = [j \in Jobs |-> 0]
  /\ result' = [j \in Jobs |-> 0]
  /\ UNCHANGED <<apiVars, arqVars, redisVars, attemptVars>>

-----------------------------------------------------------------------------
(* The arq worker around the coroutine (external) *)

\* A free slot takes the job: job_try goes up and the abort mark is consumed.
Pick(j) ==
  /\ arq[j] = "queued" /\ ~aborted[j] /\ tries[j] < MaxTries
  /\ Cardinality(Running) < MaxJobs
  /\ arq' = [arq EXCEPT ![j] = "running"]
  /\ tries' = [tries EXCEPT ![j] = @ + 1]
  /\ Goto(j, "read")
  /\ UNCHANGED <<apiVars, rowVars, aborted, redisVars, outcome, verdict, taskVars, faults>>

\* job_try above max_tries, or aborted before the start: arq gives the job up
\* without running the coroutine, so nobody touches the row.
GiveUp(j) ==
  /\ arq[j] = "queued" /\ (aborted[j] \/ tries[j] >= MaxTries)
  /\ Cardinality(Running) < MaxJobs
  /\ arq' = [arq EXCEPT ![j] = "done"]
  /\ aborted' = [aborted EXCEPT ![j] = FALSE]
  /\ UNCHANGED <<apiVars, rowVars, tries, redisVars, attemptVars, faults>>

\* The attempt's tasks and local state are gone.
ForgetAttempt(j) ==
  /\ Goto(j, "idle")
  /\ outcome' = [outcome EXCEPT ![j] = "none"]
  /\ verdict' = [verdict EXCEPT ![j] = "none"]
  /\ poller' = [poller EXCEPT ![j] = "off"]
  /\ drain' = [drain EXCEPT ![j] = "off"]
  /\ buf' = [buf EXCEPT ![j] = 0]

\* Retry, and CancelledError that is not an abort, put the job back; a value,
\* any other exception, a job_timeout and an abort finish it.
Settle(j) ==
  /\ pc[j] = "end"
  /\ arq' = [arq EXCEPT ![j] =
               IF verdict[j] \in {"retry", "cancelled"} THEN "queued" ELSE "done"]
  /\ ForgetAttempt(j)
  /\ UNCHANGED <<apiVars, rowVars, tries, aborted, redisVars, faults, late>>

\* The worker process dies; arq's in-progress key outlives it.
WorkerCrash(j) ==
  /\ pc[j] # "idle"
  /\ Fault("crash")
  /\ arq' = [arq EXCEPT ![j] = "orphan"]
  /\ ForgetAttempt(j)
  /\ UNCHANGED <<apiVars, rowVars, tries, aborted, redisVars, late>>

InProgressExpires(j) ==
  /\ arq[j] = "orphan"
  /\ arq' = [arq EXCEPT ![j] = "queued"]
  /\ UNCHANGED <<apiVars, rowVars, tries, aborted, redisVars, attemptVars, faults>>

\* CancelledError is raised where the coroutine waits: job_timeout ("timedout"),
\* worker shutdown ("cancelled") or an abort.  Inside the try block it runs the
\* finally block; a drain task that is being awaited is cancelled with it.  The
\* thread asyncio.to_thread gave a solver to is not: it runs on without its
\* attempt, and what it pushes lies behind the bridge's sentinel.
Interrupt(j, why) ==
  /\ verdict[j] \notin Interruptions
  /\ IF why = "aborted"
     THEN aborted[j] /\ aborted' = [aborted EXCEPT ![j] = FALSE] /\ UNCHANGED faults
     ELSE Fault("interrupt") /\ UNCHANGED aborted
  /\ verdict' = [verdict EXCEPT ![j] = why]
  /\ poller' = [poller EXCEPT ![j] = "off"]
  /\ \/ pc[j] \in {"read", "lock", "mark"} /\ Goto(j, "end") /\ UNCHANGED drain
     \/ pc[j] \in {"solve", "layout", "drain", "write", "cleanup"}
        /\ Goto(j, "cleanup") /\ UNCHANGED drain
     \/ /\ pc[j] \in {"drain", "cleanup"} /\ drain[j] = "on"
        /\ drain' = [drain EXCEPT ![j] = "killed"]
        /\ Goto(j, IF pc[j] = "drain" THEN "cleanup" ELSE "end")
     \/ pc[j] = "release" /\ Goto(j, "end") /\ UNCHANGED drain
  /\ \/ UNCHANGED late   \* no thread: the inputs are being read, or the solver is done
     \/ pc[j] = "solve" /\ late' = [late EXCEPT ![j] = @ + 1]
  /\ UNCHANGED <<apiVars, rowVars, arq, tries, redisVars, outcome, buf>>

\* A solver thread without an attempt ends: it looks at the cancel event the
\* finally block has set, reaches its deadline, or dies with its process.
LateSolverEnds(j) ==
  /\ late[j] > 0
  /\ late' = [late EXCEPT ![j] = @ - 1]
  /\ UNCHANGED <<apiVars, rowVars, arqVars, redisVars, pc, outcome, verdict, poller, drain, buf, faults>>

-----------------------------------------------------------------------------
(* run_solver_job *)

\* Mutation of ReadRow: a final row does not end the attempt.
ReadRowNoBail(j) ==
  /\ pc[j] = "read"
  /\ IF status[j] = "deleted"
     THEN Leave(j, "return")
     ELSE Goto(j, "lock") /\ UNCHANGED verdict
  /\ UNCHANGED <<apiVars, rowVars, arqVars, redisVars, outcome, taskVars, faults>>

\* Step 1: the row is read; a missing or final one ends the attempt.
ReadRow(j) ==
  /\ pc[j] = "read"
  /\ IF status[j] \in Final \cup {"deleted"}
     THEN Leave(j, "return")
     ELSE Goto(j, "lock") /\ UNCHANGED verdict
  /\ UNCHANGED <<apiVars, rowVars, arqVars, redisVars, outcome, taskVars, faults>>

\* Mutation of AcquireLock: SET without NX.
AcquireLockNoNX(j) ==
  /\ pc[j] = "lock"
  /\ lock' = [lock EXCEPT ![Target[j]] = j]
  /\ poller' = [poller EXCEPT ![j] = "polling"]
  /\ drain' = [drain EXCEPT ![j] = "on"]
  /\ Goto(j, "mark")
  /\ UNCHANGED <<apiVars, rowVars, arqVars, flag, outcome, verdict, buf, faults, late>>

\* Steps 2 to 4: SET NX, then the poller and the drain task start; whoever
\* loses defers with Retry.  The drain task writes nothing before "solve".
AcquireLock(j) ==
  /\ pc[j] = "lock"
  /\ IF lock[Target[j]] = NoJob
     THEN /\ lock' = [lock EXCEPT ![Target[j]] = j]
          /\ poller' = [poller EXCEPT ![j] = "polling"]
          /\ drain' = [drain EXCEPT ![j] = "on"]
          /\ Goto(j, "mark") /\ UNCHANGED verdict
     ELSE Leave(j, "retry") /\ UNCHANGED <<lock, poller, drain>>
  /\ UNCHANGED <<apiVars, rowVars, arqVars, flag, outcome, buf, faults, late>>

\* Step 5, still outside the try block.
MarkRunning(j) ==
  /\ pc[j] = "mark"
  /\ UpdateStatus(j, "running")
  /\ Goto(j, "solve")
  /\ UNCHANGED <<apiVars, layouts, result, arqVars, redisVars, outcome, verdict, taskVars, faults>>

\* An exception before the try block: no finally runs.
FailEarly(j) ==
  /\ pc[j] \in {"read", "lock", "mark"}
  /\ \/ pc[j] = "mark" /\ WriteFails(j)
     \/ Fault("db")
  /\ Leave(j, "error")
  /\ UNCHANGED <<apiVars, rowVars, arqVars, redisVars, outcome, taskVars>>

\* _progress, from the solver thread.
PushProgress(j) ==
  /\ pc[j] = "solve" /\ j \in Interactive
  /\ buf[j] < MaxBuffer
  /\ buf' = [buf EXCEPT ![j] = @ + 1]
  /\ UNCHANGED <<apiVars, rowVars, arqVars, redisVars, pc, outcome, verdict, poller, drain, faults, late>>

\* One turn of _drain_progress: the event and status "running" in one session,
\* or nothing when that session fails.
DrainItem(j) ==
  /\ drain[j] = "on" /\ buf[j] > 0
  /\ buf' = [buf EXCEPT ![j] = @ - 1]
  /\ \/ UpdateStatus(j, "running") /\ UNCHANGED faults
     \/ WriteFails(j) /\ UNCHANGED status
  /\ UNCHANGED <<apiVars, layouts, result, arqVars, redisVars, pc, outcome, verdict, poller, drain, late>>

\* _poll_cancel sees the flag, or ends silently on a Redis error.
PollCancel(j) ==
  /\ pc[j] = "solve" /\ poller[j] = "polling"
  /\ \/ flag[j] /\ poller' = [poller EXCEPT ![j] = "set"] /\ UNCHANGED faults
     \/ Fault("redis") /\ poller' = [poller EXCEPT ![j] = "dead"]
  /\ UNCHANGED <<apiVars, rowVars, arqVars, redisVars, pc, outcome, verdict, drain, buf, late>>

\* The solver is done and nobody looks at the cancel event any more.
EndSolve(j) ==
  /\ pc[j] = "solve"
  /\ poller' = [poller EXCEPT ![j] = "off"]
  /\ UNCHANGED <<apiVars, rowVars, arqVars, redisVars, verdict, drain, buf, late>>

\* The operation's body returns.
SolverReturns(j) ==
  /\ EndSolve(j)
  /\ IF j \in LayoutJobs
     THEN Goto(j, "layout") /\ UNCHANGED outcome
     ELSE Goto(j, "drain") /\ outcome' = [outcome EXCEPT ![j] = "succeeded"]
  /\ UNCHANGED faults

\* Mutation of SolverRaises: SolverCancelled is raised without a cancel request.
SolverRaisesUnasked(j, o) ==
  /\ EndSolve(j)
  /\ IF o = "transient" THEN WriteFails(j) ELSE UNCHANGED faults
  /\ Goto(j, "drain")
  /\ outcome' = [outcome EXCEPT ![j] = o]

\* It raises: SolverCancelled once the event is set, SolverTimeout or a
\* DomainError, or any other exception.
SolverRaises(j, o) ==
  /\ EndSolve(j)
  /\ CASE o = "cancelled" -> j \in Interactive /\ poller[j] = "set" /\ UNCHANGED faults
       [] o = "failed"    -> UNCHANGED faults
       [] o = "transient" -> WriteFails(j)
  /\ Goto(j, "drain")
  /\ outcome' = [outcome EXCEPT ![j] = o]

CreateLayout(j) ==
  /\ pc[j] = "layout"
  /\ \/ /\ status[j] # "deleted"
        /\ layouts' = [layouts EXCEPT ![j] = @ + 1]
        /\ outcome' = [outcome EXCEPT ![j] = "succeeded"]
        /\ UNCHANGED faults
     \/ /\ WriteFails(j)
        /\ outcome' = [outcome EXCEPT ![j] = "transient"]
        /\ UNCHANGED layouts
  /\ Goto(j, "drain")
  /\ UNCHANGED <<apiVars, status, result, arqVars, redisVars, verdict, taskVars>>

\* _finish_progress, first call: the sentinel is behind every item, so the
\* drain task ends with an empty queue, or is cancelled after five seconds.
AwaitDrain(j) ==
  /\ drain[j] = "on"
  /\ \/ buf[j] = 0 /\ drain' = [drain EXCEPT ![j] = "done"] /\ UNCHANGED <<buf, faults>>
     \/ /\ Fault("stall")
        /\ drain' = [drain EXCEPT ![j] = "killed"]
        /\ buf' = [buf EXCEPT ![j] = 0]

\* Mutation of FinishProgress: the bridge is closed and nobody awaits the drain.
FinishProgressNoAwait(j) ==
  /\ pc[j] = "drain"
  /\ Goto(j, "write")
  /\ UNCHANGED <<apiVars, rowVars, arqVars, redisVars, outcome, verdict, taskVars, faults>>

\* Mutation of FinishProgress: no sentinel is queued and the wait has no limit.
FinishProgressNoSentinel(j) ==
  /\ pc[j] = "drain"
  /\ \/ drain[j] = "done" /\ Goto(j, "write") /\ UNCHANGED verdict
     \/ /\ drain[j] = "killed" /\ Goto(j, "cleanup")
        /\ verdict' = [verdict EXCEPT ![j] = "cancelled"]
  /\ UNCHANGED <<apiVars, rowVars, arqVars, redisVars, outcome, poller, drain, buf, faults, late>>

\* Before every status write of the try block.  A second call finds the task
\* over: finished, which is harmless, or cancelled, and then wait_for raises
\* the CancelledError that suppress(TimeoutError, Exception) lets through.
FinishProgress(j) ==
  /\ pc[j] = "drain"
  /\ \/ AwaitDrain(j) /\ Goto(j, "write") /\ UNCHANGED verdict
     \/ drain[j] = "done" /\ Goto(j, "write") /\ UNCHANGED <<verdict, drain, buf, faults>>
     \/ /\ drain[j] = "killed" /\ Goto(j, "cleanup")
        /\ verdict' = [verdict EXCEPT ![j] = "cancelled"]
        /\ UNCHANGED <<drain, buf, faults>>
  /\ UNCHANGED <<apiVars, rowVars, arqVars, redisVars, outcome, poller, late>>

\* Mutation of WriteOutcome: the first layout row of the job is taken for the result.
WriteOutcomeFirstLayout(j) ==
  /\ pc[j] = "write"
  /\ UpdateStatus(j, IF outcome[j] = "transient" THEN "running" ELSE outcome[j])
  /\ result' = IF outcome[j] = "succeeded"
               THEN [result EXCEPT ![j] = IF j \in LayoutJobs THEN 1 ELSE 0]
               ELSE result
  /\ verdict' = [verdict EXCEPT ![j] = IF outcome[j] = "transient" THEN "retry" ELSE "return"]
  /\ Goto(j, "cleanup")
  /\ UNCHANGED <<apiVars, layouts, arqVars, redisVars, outcome, taskVars, faults>>

\* Mutation of WriteOutcome: the transient handler stores its own status name.
WriteOutcomeRaw(j) ==
  /\ pc[j] = "write"
  /\ UpdateStatus(j, outcome[j])
  /\ result' = IF outcome[j] = "succeeded"
               THEN [result EXCEPT ![j] = IF j \in LayoutJobs THEN layouts[j] ELSE 0]
               ELSE result
  /\ verdict' = [verdict EXCEPT ![j] = IF outcome[j] = "transient" THEN "retry" ELSE "return"]
  /\ Goto(j, "cleanup")
  /\ UNCHANGED <<apiVars, layouts, arqVars, redisVars, outcome, taskVars, faults>>

\* The status write that ends the attempt.
WriteOutcome(j) ==
  /\ pc[j] = "write"
  /\ UpdateStatus(j, IF outcome[j] = "transient" THEN "running" ELSE outcome[j])
  /\ result' = IF outcome[j] = "succeeded"
               THEN [result EXCEPT ![j] = IF j \in LayoutJobs THEN layouts[j] ELSE 0]
               ELSE result
  /\ verdict' = [verdict EXCEPT ![j] = IF outcome[j] = "transient" THEN "retry" ELSE "return"]
  /\ Goto(j, "cleanup")
  /\ UNCHANGED <<apiVars, layouts, arqVars, redisVars, outcome, taskVars, faults>>

\* Only the success write is inside the try block: its failure is handled as a
\* transient error.  A failure in a handler leaves the coroutine.
WriteOutcomeFails(j) ==
  /\ pc[j] = "write"
  /\ WriteFails(j)
  /\ IF outcome[j] = "succeeded"
     THEN /\ outcome' = [outcome EXCEPT ![j] = "transient"]
          /\ Goto(j, "drain") /\ UNCHANGED verdict
     ELSE /\ verdict' = [verdict EXCEPT ![j] = "error"]
          /\ Goto(j, "cleanup") /\ UNCHANGED outcome
  /\ UNCHANGED <<apiVars, rowVars, arqVars, redisVars, taskVars>>

\* The finally block up to its _finish_progress, which skips the release when
\* the drain task was cancelled before.
Cleanup(j) ==
  /\ pc[j] = "cleanup"
  /\ \/ AwaitDrain(j) /\ Goto(j, "release") /\ UNCHANGED verdict
     \/ drain[j] = "done" /\ Goto(j, "release") /\ UNCHANGED <<verdict, drain, buf, faults>>
     \/ /\ drain[j] = "killed"
        /\ Leave(j, IF verdict[j] \in Interruptions THEN verdict[j] ELSE "cancelled")
        /\ UNCHANGED <<drain, buf, faults>>
  /\ UNCHANGED <<apiVars, rowVars, arqVars, redisVars, outcome, poller, late>>

\* Compare-and-delete of the lock; a Redis error is suppressed.
ReleaseLock(j) ==
  /\ pc[j] = "release"
  /\ \/ /\ lock' = [lock EXCEPT ![Target[j]] = IF @ = j THEN NoJob ELSE @]
        /\ UNCHANGED faults
     \/ Fault("redis") /\ UNCHANGED lock
  /\ Goto(j, "end")
  /\ UNCHANGED <<apiVars, rowVars, arqVars, flag, outcome, verdict, taskVars>>

\* The lock's TTL (900 s) is longer than job_timeout (660 s) and the cleanup
\* after it, so it never runs out under its own attempt.
LockExpires(t) ==
  /\ lock[t] # NoJob /\ ~InCritical(lock[t])
  /\ lock' = [lock EXCEPT ![t] = NoJob]
  /\ UNCHANGED <<apiVars, rowVars, arqVars, flag, attemptVars, faults>>

CancelFlagExpires(j) ==
  /\ flag[j]
  /\ flag' = [flag EXCEPT ![j] = FALSE]
  /\ UNCHANGED <<apiVars, rowVars, arqVars, lock, attemptVars, faults>>

-----------------------------------------------------------------------------
Request(j) ==
  \/ CreateJob(j) \/ Enqueue(j) \/ RecordQueueId(j) \/ RecordFails(j) \/ ApiCrash(j)
  \/ RequestCancel(j) \/ AbortArq(j)

Queue(j) ==
  \/ Pick(j) \/ GiveUp(j) \/ Settle(j) \/ WorkerCrash(j) \/ InProgressExpires(j)
  \/ \E why \in Interruptions : Interrupt(j, why)
  \/ LateSolverEnds(j)

Attempt(j) ==
  \/ ReadRow(j) \/ AcquireLock(j) \/ MarkRunning(j) \/ FailEarly(j)
  \/ PushProgress(j) \/ DrainItem(j) \/ PollCancel(j)
  \/ SolverReturns(j) \/ \E o \in {"cancelled", "failed", "transient"} : SolverRaises(j, o)
  \/ CreateLayout(j) \/ FinishProgress(j) \/ WriteOutcome(j) \/ WriteOutcomeFails(j)
  \/ Cleanup(j) \/ ReleaseLock(j)

Next ==
  \/ \E j \in Jobs : Request(j) \/ Queue(j) \/ Attempt(j) \/ CancelFlagExpires(j)
  \/ \E t \in Targets : LockExpires(t)
  \/ DeleteProject

Spec == Init /\ [][Next]_vars

\* What moves an attempt on.  FinishProgress waits for DrainItem, and a solver
\* always ends: every search loop has a deadline or an iteration bound.
Advance(j) ==
  \/ ReadRow(j) \/ AcquireLock(j) \/ MarkRunning(j) \/ FailEarly(j)
  \/ SolverReturns(j) \/ CreateLayout(j) \/ FinishProgress(j)
  \/ WriteOutcome(j) \/ WriteOutcomeFails(j) \/ Cleanup(j) \/ ReleaseLock(j)

Fairness ==
  \A j \in Jobs :
    /\ WF_vars(Pick(j) \/ GiveUp(j))
    /\ WF_vars(Advance(j))
    /\ WF_vars(DrainItem(j))
    /\ WF_vars(Settle(j))
    /\ WF_vars(InProgressExpires(j))

FairSpec == Spec /\ Fairness

-----------------------------------------------------------------------------
(* Properties *)

IsFinal(j) == status[j] \in Final

\* Nothing but the environment's choices has disturbed the jobs so far.
Undisturbed == faults = 0 /\ \A j \in Jobs : cancelling[j] # "answered"

\* "Serialises concurrent jobs on the same target": two attempts for one
\* (project, revision, operation) are never both between taking the lock and
\* giving it back, whatever crashes, expires or is interrupted.  So layouts are
\* stored and outcomes written for a target by one attempt at a time.  Solver
\* threads are serialised less: one that outlived its interrupted attempt
\* (late) runs beside the solver of the next holder of the lock.
LockExclusion ==
  \A i, j \in Jobs : i # j /\ Target[i] = Target[j] => ~(InCritical(i) /\ InCritical(j))

\* No late progress write, second attempt or retry takes a row out of a final
\* status.  The one write that does is the API's own second session, which
\* stores the queue id and sets "queued" unconditionally.
OnlyApiReopens ==
  [][\A j \in Jobs :
       IsFinal(j) /\ status'[j] # status[j] =>
         \/ status'[j] = "deleted"
         \/ status'[j] = "queued" /\ api[j] = "record" /\ api'[j] = "done"]_vars

\* A client that sees "succeeded" and fetches the result gets the layout of the
\* attempt that succeeded, never one an earlier attempt left behind.
SucceededNamesNewestLayout ==
  \A j \in Jobs : status[j] = "succeeded" => result[j] = layouts[j]

\* Retries, crashes and re-deliveries leave at most one layout row per try.
LayoutsBoundedByTries ==
  \A j \in Jobs : layouts[j] <= tries[j]

\* A job ends "cancelled" only if its client asked for it, through the flag,
\* the poller and a solver that looks at the event.
CancelledWasAsked ==
  \A j \in Jobs : status[j] = "cancelled" => cancelling[j] # "no" /\ j \in Interactive

\* A queued job is eventually written final, unless a fault or an abort got in
\* the way: the promise behind "collisions defer the loser by 5 seconds", which
\* holds of a job that has its target to itself and fails where two share one.
EnqueuedJobFinishes ==
  \A j \in Jobs : arq[j] = "queued" ~> (IsFinal(j) \/ ~Undisturbed)

Lifecycle == INSTANCE JobLifecycle
  WITH pending <- [j \in Jobs |-> api[j] \in {"enqueue", "record"}]

\* The rows live the life JobLifecycle promises to clients.
ImplementsLifecycle == Lifecycle!Spec
=============================================================================
