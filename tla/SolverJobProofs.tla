--------------------------- MODULE SolverJobProofs ---------------------------
(* Proofs about SolverJob, for any number of jobs, targets, tries, slots and
   faults of every kind.  Everything rests on one inductive invariant, IInv. *)
EXTENDS SolverJob, TLAPS

-----------------------------------------------------------------------------
(* The inductive invariant *)

\* The steps between the first read of the row and its last write.
Working == {"lock", "mark", "solve", "layout", "drain", "write"}

\* The queue, the request and the attempt of a job agree on how far it has come.
QueueInv ==
  \A j \in Jobs :
    /\ pc[j] # "idle" => arq[j] = "running"
    /\ arq[j] # "none" => api[j] \in {"record", "done", "failed"}
    /\ status[j] = "absent" => api[j] = "idle"

\* What the attempt's control flow knows: an outcome before it is written, a
\* drain task that is over before the write, no task without an attempt.
FlowInv ==
  \A j \in Jobs :
    /\ pc[j] \in {"drain", "write"} => outcome[j] # "none"
    /\ pc[j] = "write" => drain[j] \in {"done", "killed"}
    /\ pc[j] = "idle" => drain[j] = "off"

\* A row in a final status has no attempt that still works towards a write and
\* no drain task that could.
FinalInv ==
  \A j \in Jobs : IsFinal(j) => pc[j] \notin Working /\ drain[j] # "on"

\* While the solver's attempt is under way the row says so, unless the API's
\* second write has hidden it, which happens once.
MarkedInv ==
  \A j \in Jobs :
    pc[j] \in {"solve", "layout", "drain", "write"} =>
      \/ status[j] \in {"running", "deleted"}
      \/ status[j] = "queued" /\ api[j] \in {"done", "failed"}

\* An attempt past the lock is the one the lock names.
LockInv == \A j \in Jobs : InCritical(j) => lock[Target[j]] = j

\* Layout rows: one per try, none for an operation without a layout, and the
\* newest one is the result of a success.
LayoutInv ==
  \A j \in Jobs :
    /\ layouts[j] <= tries[j]
    /\ pc[j] \in {"read", "lock", "mark", "solve", "layout"} => layouts[j] < tries[j]
    /\ j \notin LayoutJobs => layouts[j] = 0 /\ pc[j] # "layout"
    /\ status[j] = "succeeded" => result[j] = layouts[j]

\* A cancellation is passed on from the request to the flag, the poller's
\* event, the outcome and the row, and comes from nowhere else.
CancelInv ==
  \A j \in Jobs :
    /\ flag[j] \/ poller[j] = "set" => cancelling[j] # "no"
    /\ outcome[j] = "cancelled" \/ status[j] = "cancelled" =>
         cancelling[j] # "no" /\ j \in Interactive

IInv ==
  TypeOK /\ QueueInv /\ FlowInv /\ FinalInv /\ MarkedInv /\ LockInv /\ LayoutInv /\ CancelInv

-----------------------------------------------------------------------------
(* Every action preserves the invariant *)

USE JobAssumption DEF IInv, TypeOK, Final, Interruptions, QueueInv, FlowInv, FinalInv,
  IsFinal, Working, MarkedInv, LockInv, InCritical, LayoutInv, CancelInv

\* The count of faults stays within its bound.
LEMMA FaultCounts ==
  ASSUME TypeOK, NEW k, Fault(k)
  PROVE  faults' \in 0..MaxFaults
BY DEF Fault

LEMMA WriteFailsCounts ==
  ASSUME TypeOK, NEW j, WriteFails(j)
  PROVE  faults' \in 0..MaxFaults
<1>1. CASE UNCHANGED faults
  BY <1>1
<1>2. CASE Fault("db")
  BY <1>2, FaultCounts
<1> QED
  BY <1>1, <1>2 DEF WriteFails

LEMMA CreateJobInv ==
  ASSUME IInv, NEW j \in Jobs, CreateJob(j)
  PROVE  IInv'
BY DEF CreateJob, arqVars, redisVars, attemptVars

LEMMA EnqueueInv ==
  ASSUME IInv, NEW j \in Jobs, Enqueue(j)
  PROVE  IInv'
BY DEF Enqueue, Fault, rowVars, redisVars, attemptVars

LEMMA RecordQueueIdInv ==
  ASSUME IInv, NEW j \in Jobs, RecordQueueId(j)
  PROVE  IInv'
BY DEF RecordQueueId, UpdateStatus, arqVars, redisVars, attemptVars

LEMMA RecordFailsInv ==
  ASSUME IInv, NEW j \in Jobs, RecordFails(j)
  PROVE  IInv'
BY DEF RecordFails, WriteFails, Fault, rowVars, arqVars, redisVars, attemptVars

LEMMA ApiCrashInv ==
  ASSUME IInv, NEW j \in Jobs, ApiCrash(j)
  PROVE  IInv'
BY DEF ApiCrash, Fault, rowVars, arqVars, redisVars, attemptVars

LEMMA RequestCancelInv ==
  ASSUME IInv, NEW j \in Jobs, RequestCancel(j)
  PROVE  IInv'
BY DEF RequestCancel, rowVars, arqVars, attemptVars

LEMMA AbortArqInv ==
  ASSUME IInv, NEW j \in Jobs, AbortArq(j)
  PROVE  IInv'
<1>1. CASE aborted' = [aborted EXCEPT ![j] = TRUE]
  BY <1>1 DEF AbortArq, rowVars, redisVars, attemptVars
<1>2. CASE UNCHANGED aborted
  BY <1>2 DEF AbortArq, rowVars, redisVars, attemptVars
<1> QED
  BY <1>1, <1>2 DEF AbortArq

LEMMA PickInv ==
  ASSUME IInv, NEW j \in Jobs, Pick(j)
  PROVE  IInv'
BY DEF Pick, Goto, apiVars, rowVars, redisVars, taskVars

LEMMA GiveUpInv ==
  ASSUME IInv, NEW j \in Jobs, GiveUp(j)
  PROVE  IInv'
BY DEF GiveUp, apiVars, rowVars, redisVars, attemptVars

LEMMA SettleInv ==
  ASSUME IInv, NEW j \in Jobs, Settle(j)
  PROVE  IInv'
BY DEF Settle, ForgetAttempt, Goto, apiVars, rowVars, redisVars

LEMMA WorkerCrashInv ==
  ASSUME IInv, NEW j \in Jobs, WorkerCrash(j)
  PROVE  IInv'
BY DEF WorkerCrash, ForgetAttempt, Goto, Fault, apiVars, rowVars, redisVars

LEMMA InProgressExpiresInv ==
  ASSUME IInv, NEW j \in Jobs, InProgressExpires(j)
  PROVE  IInv'
BY DEF InProgressExpires, apiVars, rowVars, redisVars, attemptVars

LEMMA InterruptInv ==
  ASSUME IInv, NEW j \in Jobs, NEW why \in Interruptions, Interrupt(j, why)
  PROVE  IInv'
<1>1. aborted' \in [Jobs -> BOOLEAN] /\ faults' \in 0..MaxFaults
  <2>1. CASE aborted' = [aborted EXCEPT ![j] = FALSE] /\ UNCHANGED faults
    BY <2>1
  <2>2. CASE Fault("interrupt") /\ UNCHANGED aborted
    BY <2>2, FaultCounts
  <2> QED
    BY <2>1, <2>2 DEF Interrupt
<1>2. /\ UNCHANGED <<apiVars, rowVars, arq, tries, redisVars, outcome, buf>>
      /\ late' \in [Jobs -> Nat]
      /\ verdict' = [verdict EXCEPT ![j] = why]
      /\ poller' = [poller EXCEPT ![j] = "off"]
  BY DEF Interrupt
<1>3. CASE pc[j] \in {"read", "lock", "mark"} /\ Goto(j, "end") /\ UNCHANGED drain
  BY <1>1, <1>2, <1>3 DEF Goto, apiVars, rowVars, redisVars
<1>4. CASE /\ pc[j] \in {"solve", "layout", "drain", "write", "cleanup"}
           /\ Goto(j, "cleanup") /\ UNCHANGED drain
  BY <1>1, <1>2, <1>4 DEF Goto, apiVars, rowVars, redisVars
<1>5. CASE /\ pc[j] \in {"drain", "cleanup"} /\ drain[j] = "on"
           /\ drain' = [drain EXCEPT ![j] = "killed"]
           /\ Goto(j, IF pc[j] = "drain" THEN "cleanup" ELSE "end")
  <2>1. CASE pc[j] = "drain"
    BY <1>1, <1>2, <1>5, <2>1 DEF Goto, apiVars, rowVars, redisVars
  <2>2. CASE pc[j] = "cleanup"
    BY <1>1, <1>2, <1>5, <2>2 DEF Goto, apiVars, rowVars, redisVars
  <2> QED
    BY <1>5, <2>1, <2>2
<1>6. CASE pc[j] = "release" /\ Goto(j, "end") /\ UNCHANGED drain
  BY <1>1, <1>2, <1>6 DEF Goto, apiVars, rowVars, redisVars
<1> QED
  BY <1>3, <1>4, <1>5, <1>6 DEF Interrupt

LEMMA LateSolverEndsInv ==
  ASSUME IInv, NEW j \in Jobs, LateSolverEnds(j)
  PROVE  IInv'
BY DEF LateSolverEnds, apiVars, rowVars, arqVars, redisVars

LEMMA ReadRowInv ==
  ASSUME IInv, NEW j \in Jobs, ReadRow(j)
  PROVE  IInv'
<1>1. /\ pc[j] = "read"
      /\ UNCHANGED <<apiVars, rowVars, arqVars, redisVars, outcome, taskVars, faults>>
  BY DEF ReadRow
<1>2. CASE pc' = [pc EXCEPT ![j] = "end"] /\ verdict' = [verdict EXCEPT ![j] = "return"]
  BY <1>1, <1>2 DEF apiVars, rowVars, arqVars, redisVars, taskVars
<1>3. CASE pc' = [pc EXCEPT ![j] = "lock"] /\ UNCHANGED verdict /\ ~IsFinal(j)
  BY <1>1, <1>3 DEF apiVars, rowVars, arqVars, redisVars, taskVars
<1> QED
  BY <1>2, <1>3 DEF ReadRow, Leave, Goto

LEMMA AcquireLockInv ==
  ASSUME IInv, NEW j \in Jobs, AcquireLock(j)
  PROVE  IInv'
<1> Target[j] \in Targets
  OBVIOUS
<1>1. CASE lock[Target[j]] = NoJob
  <2> /\ lock' = [lock EXCEPT ![Target[j]] = j]
      /\ poller' = [poller EXCEPT ![j] = "polling"]
      /\ drain' = [drain EXCEPT ![j] = "on"]
      /\ pc' = [pc EXCEPT ![j] = "mark"]
      /\ pc[j] = "lock"
      /\ UNCHANGED <<apiVars, rowVars, arqVars, flag, outcome, verdict, buf, late, faults>>
    BY <1>1 DEF AcquireLock, Goto
  <2> QED
    BY <1>1 DEF apiVars, rowVars, arqVars
<1>2. CASE lock[Target[j]] # NoJob
  <2> /\ pc' = [pc EXCEPT ![j] = "end"]
      /\ verdict' = [verdict EXCEPT ![j] = "retry"]
      /\ pc[j] = "lock"
      /\ UNCHANGED <<apiVars, rowVars, arqVars, redisVars, outcome, poller, drain, buf, late, faults>>
    BY <1>2 DEF AcquireLock, Leave, Goto, redisVars
  <2> QED
    BY <1>2 DEF apiVars, rowVars, arqVars, redisVars
<1> QED
  BY <1>1, <1>2

LEMMA MarkRunningInv ==
  ASSUME IInv, NEW j \in Jobs, MarkRunning(j)
  PROVE  IInv'
BY DEF MarkRunning, UpdateStatus, Goto, apiVars, arqVars, redisVars, taskVars

LEMMA FailEarlyInv ==
  ASSUME IInv, NEW j \in Jobs, FailEarly(j)
  PROVE  IInv'
BY DEF FailEarly, WriteFails, Fault, Leave, Goto, apiVars, rowVars, arqVars, redisVars, taskVars

LEMMA PushProgressInv ==
  ASSUME IInv, NEW j \in Jobs, PushProgress(j)
  PROVE  IInv'
BY DEF PushProgress, apiVars, rowVars, arqVars, redisVars

LEMMA DrainItemInv ==
  ASSUME IInv, NEW j \in Jobs, DrainItem(j)
  PROVE  IInv'
<1>1. CASE UpdateStatus(j, "running") /\ UNCHANGED faults
  BY <1>1 DEF DrainItem, UpdateStatus, apiVars, arqVars, redisVars
<1>2. CASE WriteFails(j) /\ UNCHANGED status
  BY <1>2 DEF DrainItem, WriteFails, Fault, apiVars, arqVars, redisVars
<1> QED
  BY <1>1, <1>2 DEF DrainItem

LEMMA PollCancelInv ==
  ASSUME IInv, NEW j \in Jobs, PollCancel(j)
  PROVE  IInv'
<1>1. /\ pc[j] = "solve"
      /\ UNCHANGED <<apiVars, rowVars, arqVars, redisVars, pc, outcome, verdict, drain, buf, late>>
  BY DEF PollCancel
<1>2. CASE flag[j] /\ poller' = [poller EXCEPT ![j] = "set"] /\ UNCHANGED faults
  BY <1>1, <1>2 DEF apiVars, rowVars, arqVars, redisVars
<1>3. CASE Fault("redis") /\ poller' = [poller EXCEPT ![j] = "dead"]
  BY <1>1, <1>3, FaultCounts DEF apiVars, rowVars, arqVars, redisVars
<1> QED
  BY <1>2, <1>3 DEF PollCancel

LEMMA SolverReturnsInv ==
  ASSUME IInv, NEW j \in Jobs, SolverReturns(j)
  PROVE  IInv'
<1>1. /\ pc[j] = "solve"
      /\ poller' = [poller EXCEPT ![j] = "off"]
      /\ UNCHANGED <<apiVars, rowVars, arqVars, redisVars, verdict, drain, buf, late, faults>>
  BY DEF SolverReturns, EndSolve
<1>2. CASE j \in LayoutJobs /\ pc' = [pc EXCEPT ![j] = "layout"] /\ UNCHANGED outcome
  BY <1>1, <1>2 DEF apiVars, rowVars, arqVars, redisVars
<1>3. CASE /\ j \notin LayoutJobs
           /\ pc' = [pc EXCEPT ![j] = "drain"]
           /\ outcome' = [outcome EXCEPT ![j] = "succeeded"]
  BY <1>1, <1>3 DEF apiVars, rowVars, arqVars, redisVars
<1> QED
  BY <1>2, <1>3 DEF SolverReturns, Goto

LEMMA SolverRaisesInv ==
  ASSUME IInv, NEW j \in Jobs, NEW o \in {"cancelled", "failed", "transient"},
         SolverRaises(j, o)
  PROVE  IInv'
<1>1. faults' \in 0..MaxFaults
  <2>1. CASE UNCHANGED faults
    BY <2>1
  <2>2. CASE WriteFails(j)
    BY <2>2, WriteFailsCounts
  <2> QED
    BY <2>1, <2>2 DEF SolverRaises
<1>2. o = "cancelled" => j \in Interactive /\ poller[j] = "set"
  BY DEF SolverRaises
<1> QED
  BY <1>1, <1>2 DEF SolverRaises, EndSolve, Goto, apiVars, rowVars, arqVars, redisVars

LEMMA CreateLayoutInv ==
  ASSUME IInv, NEW j \in Jobs, CreateLayout(j)
  PROVE  IInv'
<1>1. CASE /\ layouts' = [layouts EXCEPT ![j] = @ + 1]
           /\ outcome' = [outcome EXCEPT ![j] = "succeeded"]
           /\ UNCHANGED faults
  BY <1>1 DEF CreateLayout, Goto, apiVars, arqVars, redisVars, taskVars
<1>2. CASE /\ WriteFails(j)
           /\ outcome' = [outcome EXCEPT ![j] = "transient"]
           /\ UNCHANGED layouts
  BY <1>2 DEF CreateLayout, WriteFails, Fault, Goto, apiVars, arqVars, redisVars, taskVars
<1> QED
  BY <1>1, <1>2 DEF CreateLayout

\* How the wait for the drain task ends.
LEMMA AwaitDrainEnds ==
  ASSUME IInv, NEW j \in Jobs, AwaitDrain(j)
  PROVE  /\ \E d \in {"done", "killed"} : drain' = [drain EXCEPT ![j] = d]
         /\ buf' \in [Jobs -> 0..MaxBuffer]
         /\ faults' \in 0..MaxFaults
         /\ drain[j] = "on"
<1>1. CASE buf[j] = 0 /\ drain' = [drain EXCEPT ![j] = "done"] /\ UNCHANGED <<buf, faults>>
  BY <1>1 DEF AwaitDrain
<1>2. CASE /\ Fault("stall")
           /\ drain' = [drain EXCEPT ![j] = "killed"]
           /\ buf' = [buf EXCEPT ![j] = 0]
  BY <1>2, FaultCounts DEF AwaitDrain
<1> QED
  BY <1>1, <1>2 DEF AwaitDrain

LEMMA FinishProgressInv ==
  ASSUME IInv, NEW j \in Jobs, FinishProgress(j)
  PROVE  IInv'
<1>1. CASE AwaitDrain(j) /\ Goto(j, "write") /\ UNCHANGED verdict
  <2>1. PICK d \in {"done", "killed"} : drain' = [drain EXCEPT ![j] = d]
    BY <1>1, AwaitDrainEnds
  <2>2. /\ buf' \in [Jobs -> 0..MaxBuffer] /\ faults' \in 0..MaxFaults
        /\ drain[j] = "on"
    BY <1>1, AwaitDrainEnds
  <2>3. /\ pc[j] = "drain" /\ pc' = [pc EXCEPT ![j] = "write"]
        /\ UNCHANGED <<apiVars, rowVars, arqVars, redisVars, outcome, poller, late, verdict>>
    BY <1>1 DEF FinishProgress, Goto
  <2> QED
    BY <2>1, <2>2, <2>3 DEF apiVars, rowVars, arqVars, redisVars
<1>2. CASE drain[j] = "done" /\ Goto(j, "write") /\ UNCHANGED <<verdict, drain, buf, faults>>
  BY <1>2 DEF FinishProgress, Goto, apiVars, rowVars, arqVars, redisVars
<1>3. CASE /\ drain[j] = "killed" /\ Goto(j, "cleanup")
           /\ verdict' = [verdict EXCEPT ![j] = "cancelled"]
           /\ UNCHANGED <<drain, buf, faults>>
  BY <1>3 DEF FinishProgress, Goto, apiVars, rowVars, arqVars, redisVars
<1> QED
  BY <1>1, <1>2, <1>3 DEF FinishProgress

LEMMA WriteOutcomeInv ==
  ASSUME IInv, NEW j \in Jobs, WriteOutcome(j)
  PROVE  IInv'
BY DEF WriteOutcome, UpdateStatus, Goto, apiVars, arqVars, redisVars, taskVars

LEMMA WriteOutcomeFailsInv ==
  ASSUME IInv, NEW j \in Jobs, WriteOutcomeFails(j)
  PROVE  IInv'
<1>1. faults' \in 0..MaxFaults
  BY WriteFailsCounts DEF WriteOutcomeFails
<1>2. UNCHANGED <<apiVars, rowVars, arqVars, redisVars, taskVars>> /\ pc[j] = "write"
  BY DEF WriteOutcomeFails
<1>3. CASE /\ outcome' = [outcome EXCEPT ![j] = "transient"]
           /\ pc' = [pc EXCEPT ![j] = "drain"] /\ UNCHANGED verdict
  BY <1>1, <1>2, <1>3 DEF apiVars, rowVars, arqVars, redisVars, taskVars
<1>4. CASE /\ verdict' = [verdict EXCEPT ![j] = "error"]
           /\ pc' = [pc EXCEPT ![j] = "cleanup"] /\ UNCHANGED outcome
  BY <1>1, <1>2, <1>4 DEF apiVars, rowVars, arqVars, redisVars, taskVars
<1> QED
  BY <1>3, <1>4 DEF WriteOutcomeFails, Goto

LEMMA CleanupInv ==
  ASSUME IInv, NEW j \in Jobs, Cleanup(j)
  PROVE  IInv'
<1>1. CASE AwaitDrain(j) /\ Goto(j, "release") /\ UNCHANGED verdict
  <2>1. PICK d \in {"done", "killed"} : drain' = [drain EXCEPT ![j] = d]
    BY <1>1, AwaitDrainEnds
  <2>2. /\ buf' \in [Jobs -> 0..MaxBuffer] /\ faults' \in 0..MaxFaults
        /\ drain[j] = "on"
    BY <1>1, AwaitDrainEnds
  <2>3. /\ pc[j] = "cleanup" /\ pc' = [pc EXCEPT ![j] = "release"]
        /\ UNCHANGED <<apiVars, rowVars, arqVars, redisVars, outcome, poller, late, verdict>>
    BY <1>1 DEF Cleanup, Goto
  <2> QED
    BY <2>1, <2>2, <2>3 DEF apiVars, rowVars, arqVars, redisVars
<1>2. CASE drain[j] = "done" /\ Goto(j, "release") /\ UNCHANGED <<verdict, drain, buf, faults>>
  BY <1>2 DEF Cleanup, Goto, apiVars, rowVars, arqVars, redisVars
<1>3. CASE /\ drain[j] = "killed"
           /\ Leave(j, IF verdict[j] \in Interruptions THEN verdict[j] ELSE "cancelled")
           /\ UNCHANGED <<drain, buf, faults>>
  BY <1>3 DEF Cleanup, Leave, Goto, apiVars, rowVars, arqVars, redisVars
<1> QED
  BY <1>1, <1>2, <1>3 DEF Cleanup

LEMMA ReleaseLockInv ==
  ASSUME IInv, NEW j \in Jobs, ReleaseLock(j)
  PROVE  IInv'
<1>1. faults' \in 0..MaxFaults
  BY FaultCounts DEF ReleaseLock
<1>2. CASE lock' = [lock EXCEPT ![Target[j]] = IF @ = j THEN NoJob ELSE @]
  BY <1>1, <1>2 DEF ReleaseLock, Goto, apiVars, rowVars, arqVars, taskVars
<1>3. CASE UNCHANGED lock
  BY <1>1, <1>3 DEF ReleaseLock, Goto, apiVars, rowVars, arqVars, taskVars
<1> QED
  BY <1>2, <1>3 DEF ReleaseLock

LEMMA LockExpiresInv ==
  ASSUME IInv, NEW t \in Targets, LockExpires(t)
  PROVE  IInv'
BY DEF LockExpires, apiVars, rowVars, arqVars, attemptVars

LEMMA CancelFlagExpiresInv ==
  ASSUME IInv, NEW j \in Jobs, CancelFlagExpires(j)
  PROVE  IInv'
BY DEF CancelFlagExpires, apiVars, rowVars, arqVars, attemptVars

LEMMA DeleteProjectInv ==
  ASSUME IInv, DeleteProject
  PROVE  IInv'
BY DEF DeleteProject, Fault, apiVars, arqVars, redisVars, attemptVars

LEMMA InitInv == Init => IInv
BY DEF Init

HIDE JobAssumption DEF IInv, TypeOK, Final, Interruptions, QueueInv, FlowInv, FinalInv,
  IsFinal, Working, MarkedInv, LockInv, InCritical, LayoutInv, CancelInv

LEMMA RequestInv ==
  ASSUME IInv, NEW j \in Jobs, Request(j)
  PROVE  IInv'
BY CreateJobInv, EnqueueInv, RecordQueueIdInv, RecordFailsInv, ApiCrashInv,
   RequestCancelInv, AbortArqInv DEF Request

LEMMA QueueStepInv ==
  ASSUME IInv, NEW j \in Jobs, Queue(j)
  PROVE  IInv'
BY PickInv, GiveUpInv, SettleInv, WorkerCrashInv, InProgressExpiresInv, InterruptInv,
   LateSolverEndsInv
   DEF Queue

LEMMA AttemptInv ==
  ASSUME IInv, NEW j \in Jobs, Attempt(j)
  PROVE  IInv'
BY ReadRowInv, AcquireLockInv, MarkRunningInv, FailEarlyInv, PushProgressInv,
   DrainItemInv, PollCancelInv, SolverReturnsInv, SolverRaisesInv, CreateLayoutInv,
   FinishProgressInv, WriteOutcomeInv, WriteOutcomeFailsInv, CleanupInv, ReleaseLockInv
   DEF Attempt

\* The invariant holds of every behaviour, for all constants that satisfy
\* JobAssumption.
THEOREM Invariant == Spec => []IInv
<1>1. ASSUME IInv, [Next]_vars PROVE IInv'
  <2>1. CASE \E j \in Jobs : Request(j)
    BY <1>1, <2>1, RequestInv
  <2>2. CASE \E j \in Jobs : Queue(j)
    BY <1>1, <2>2, QueueStepInv
  <2>3. CASE \E j \in Jobs : Attempt(j)
    BY <1>1, <2>3, AttemptInv
  <2>4. CASE \E j \in Jobs : CancelFlagExpires(j)
    BY <1>1, <2>4, CancelFlagExpiresInv
  <2>5. CASE \E t \in Targets : LockExpires(t)
    BY <1>1, <2>5, LockExpiresInv
  <2>6. CASE DeleteProject
    BY <1>1, <2>6, DeleteProjectInv
  <2>7. CASE UNCHANGED vars
    BY <1>1, <2>7 DEF IInv, TypeOK, Final, Interruptions, QueueInv, FlowInv, FinalInv, IsFinal,
          Working, MarkedInv, LockInv, InCritical, LayoutInv, CancelInv, vars
  <2> QED
    BY <1>1, <2>1, <2>2, <2>3, <2>4, <2>5, <2>6, <2>7 DEF Next
<1> QED
  BY <1>1, InitInv, PTL DEF Spec

-----------------------------------------------------------------------------
(* What follows from it *)

\* Every variable stays within the states the code has names for.
THEOREM TypeCorrect == Spec => []TypeOK
<1>1. IInv => TypeOK
  BY DEF IInv
<1> QED
  BY <1>1, Invariant, PTL

\* No two attempts for one (project, revision, operation) are ever both between
\* taking the lock and giving it back: a target's layouts are stored and its
\* outcomes written by one attempt at a time.  It says nothing of the solver
\* thread an interrupted attempt leaves behind (late), which the lock does not
\* cover.
THEOREM MutualExclusion == Spec => []LockExclusion
<1>1. IInv => LockExclusion
  <2> SUFFICES ASSUME IInv, NEW i \in Jobs, NEW j \in Jobs, i # j, Target[i] = Target[j],
                      InCritical(i), InCritical(j)
               PROVE  FALSE
    BY DEF LockExclusion
  <2>1. lock[Target[i]] = i /\ lock[Target[j]] = j
    BY DEF IInv, LockInv
  <2> QED
    BY <2>1
<1> QED
  BY <1>1, Invariant, PTL

\* GET /jobs/<id>/result serves the layout of the attempt that succeeded.
THEOREM ResultIsNewest == Spec => []SucceededNamesNewestLayout
<1>1. IInv => SucceededNamesNewestLayout
  BY DEF IInv, LayoutInv, SucceededNamesNewestLayout
<1> QED
  BY <1>1, Invariant, PTL

\* Retries and re-deliveries leave at most one layout row per try.
THEOREM LayoutBound == Spec => []LayoutsBoundedByTries
<1>1. IInv => LayoutsBoundedByTries
  BY DEF IInv, LayoutInv, LayoutsBoundedByTries
<1> QED
  BY <1>1, Invariant, PTL

\* No job ends "cancelled" that nobody cancelled.
THEOREM CancelOrigin == Spec => []CancelledWasAsked
<1>1. IInv => CancelledWasAsked
  BY DEF IInv, CancelInv, CancelledWasAsked
<1> QED
  BY <1>1, Invariant, PTL

-----------------------------------------------------------------------------
(* The status column *)

\* The steps of the abstract life that one step of the system can be.
Reopens(j) == status'[j] = "queued" /\ api[j] = "record" /\ api'[j] = "done"

\* A row in a final status keeps it, or its project is deleted, or the API's
\* second write reopens it.
LEMMA FinalStep ==
  ASSUME IInv, [Next]_vars, NEW j \in Jobs, IsFinal(j), status'[j] # status[j]
  PROVE  status'[j] = "deleted" \/ Reopens(j)
<1> USE DEF rowVars
<1>1. ASSUME NEW i \in Jobs, Request(i) PROVE Reopens(j)
  <2>1. status[j] # "absent"
    BY DEF IsFinal, Final
  <2>2. CASE CreateJob(i)
    BY <2>1, <2>2 DEF CreateJob, IInv, TypeOK
  <2>3. CASE RecordQueueId(i)
    BY <2>3 DEF RecordQueueId, UpdateStatus, Reopens, IInv, TypeOK
  <2> QED
    BY <1>1, <2>2, <2>3 DEF Request, Enqueue, RecordFails, ApiCrash, RequestCancel, AbortArq
<1>2. ASSUME NEW i \in Jobs PROVE ~Queue(i)
  BY DEF Queue, Pick, GiveUp, Settle, WorkerCrash, InProgressExpires, Interrupt,
     LateSolverEnds
<1>3. ASSUME NEW i \in Jobs PROVE ~Attempt(i)
  <2>1. pc[j] \notin Working /\ drain[j] # "on"
    BY DEF IInv, FinalInv
  <2>2. ~MarkRunning(i) /\ ~WriteOutcome(i) /\ ~DrainItem(i)
    BY <2>1 DEF MarkRunning, WriteOutcome, DrainItem, UpdateStatus, Working, IInv, TypeOK
  <2> QED
    BY <2>2 DEF Attempt, ReadRow, AcquireLock, FailEarly, PushProgress, PollCancel,
       SolverReturns, SolverRaises, EndSolve, CreateLayout, FinishProgress,
       WriteOutcomeFails, Cleanup, ReleaseLock
<1>4. CASE DeleteProject
  BY <1>4 DEF DeleteProject
<1> QED
  BY <1>1, <1>2, <1>3, <1>4 DEF Next, CancelFlagExpires, LockExpires, vars

\* No worker-side write, late or repeated, takes a row out of a final status.
THEOREM FinalIsKept == Spec => OnlyApiReopens
<1>1. IInv /\ [Next]_vars =>
        [\A j \in Jobs :
           IsFinal(j) /\ status'[j] # status[j] =>
             \/ status'[j] = "deleted"
             \/ status'[j] = "queued" /\ api[j] = "record" /\ api'[j] = "done"]_vars
  BY FinalStep DEF Reopens
<1> QED
  BY <1>1, Invariant, PTL DEF Spec, OnlyApiReopens

-----------------------------------------------------------------------------
(* The system implements the life of a row that clients are promised *)

\* Steps that leave status and the requests alone are stutters of JobLifecycle.
LEMMA OthersStutter ==
  ASSUME NEW j \in Jobs,
         \/ RequestCancel(j) \/ AbortArq(j) \/ Queue(j) \/ CancelFlagExpires(j)
         \/ ReadRow(j) \/ AcquireLock(j) \/ FailEarly(j) \/ PushProgress(j) \/ PollCancel(j)
         \/ SolverReturns(j) \/ \E o \in {"cancelled", "failed", "transient"} : SolverRaises(j, o)
         \/ CreateLayout(j) \/ FinishProgress(j) \/ WriteOutcomeFails(j)
         \/ Cleanup(j) \/ ReleaseLock(j)
  PROVE  UNCHANGED <<api, status>>
BY DEF RequestCancel, AbortArq, Queue, Pick, GiveUp, Settle, WorkerCrash, InProgressExpires,
  Interrupt, LateSolverEnds, CancelFlagExpires, ReadRow, AcquireLock, FailEarly, PushProgress, PollCancel,
  SolverReturns, SolverRaises, EndSolve, CreateLayout, FinishProgress, WriteOutcomeFails,
  Cleanup, ReleaseLock, apiVars, rowVars

\* A write of "running" by the worker starts a queued row and repeats itself on
\* a running one.
LEMMA WriteRunningStarts ==
  ASSUME IInv, NEW j \in Jobs, UNCHANGED api,
         status' = [status EXCEPT ![j] = "running"], status[j] \in {"queued", "running"}
  PROVE  Lifecycle!Start(j) \/ UNCHANGED <<api, status>>
<1>1. CASE status[j] = "queued"
  BY <1>1 DEF Lifecycle!Start
<1>2. CASE status[j] = "running"
  BY <1>2 DEF IInv, TypeOK
<1> QED
  BY <1>1, <1>2

\* A request that makes its second write, or ends without it, is pending no more.
LEMMA RequestEnds ==
  ASSUME IInv, NEW j \in Jobs, RecordQueueId(j) \/ RecordFails(j) \/ ApiCrash(j)
  PROVE  [i \in Jobs |-> api'[i] \in {"enqueue", "record"}]
           = [[i \in Jobs |-> api[i] \in {"enqueue", "record"}] EXCEPT ![j] = FALSE]
<1> DEFINE before == [i \in Jobs |-> api[i] \in {"enqueue", "record"}]
           after == [before EXCEPT ![j] = FALSE]
<1>0. /\ DOMAIN api = Jobs
      /\ \E v \in {"done", "failed"} : api' = [api EXCEPT ![j] = v]
  <2>1. DOMAIN api = Jobs
    BY DEF IInv, TypeOK
  <2>2. CASE RecordQueueId(j)
    <3>1. api' = [api EXCEPT ![j] = "done"]
      BY <2>2 DEF RecordQueueId
    <3> QED
      BY <2>1, <3>1
  <2>3. CASE RecordFails(j) \/ ApiCrash(j)
    <3>1. api' = [api EXCEPT ![j] = "failed"]
      BY <2>3 DEF RecordFails, ApiCrash
    <3> QED
      BY <2>1, <3>1
  <2> QED
    BY <2>2, <2>3
<1>1. ASSUME NEW i \in Jobs PROVE (api'[i] \in {"enqueue", "record"}) = after[i]
  <2>1. CASE i = j
    <3>1. api'[i] \in {"done", "failed"}
      BY <1>0, <2>1
    <3>2. ~(api'[i] \in {"enqueue", "record"})
      BY <3>1
    <3>3. after[i] = FALSE
      BY <2>1
    <3> HIDE DEF after
    <3>4. (api'[i] \in {"enqueue", "record"}) = FALSE
      BY <3>2
    <3> QED
      BY <3>3, <3>4, Zenon
  <2>2. CASE i # j
    <3>1. api'[i] = api[i]
      BY <1>0, <2>2
    <3>2. after[i] = before[i]
      BY <2>2
    <3>3. before[i] = (api[i] \in {"enqueue", "record"})
      OBVIOUS
    <3> HIDE DEF after, before
    <3> QED
      BY <3>1, <3>2, <3>3
  <2> QED
    BY <2>1, <2>2
<1>2. [i \in Jobs |-> api'[i] \in {"enqueue", "record"}] = [i \in Jobs |-> after[i]]
  <2> HIDE DEF after
  <2> QED
    BY <1>1, Zenon
<1>3. after = [i \in Jobs |-> after[i]]
  OBVIOUS
<1> QED
  BY <1>2, <1>3

\* The steps of the request.
LEMMA RequestImplements ==
  ASSUME IInv, NEW j \in Jobs, Request(j)
  PROVE  \/ Lifecycle!Submit(j) \/ Lifecycle!RecordQueueId(j) \/ Lifecycle!Abandon(j)
         \/ UNCHANGED Lifecycle!vars
<1> DEFINE P(a) == [i \in Jobs |-> a[i] \in {"enqueue", "record"}]
<1>1. CASE CreateJob(j)
  <2>1. P(api') = [P(api) EXCEPT ![j] = TRUE]
    BY <1>1 DEF CreateJob, IInv, TypeOK
  <2> QED
    BY <1>1, <2>1 DEF CreateJob, Lifecycle!Submit
<1>2. CASE RecordQueueId(j)
  <2>1. P(api') = [P(api) EXCEPT ![j] = FALSE]
    BY <1>2, RequestEnds
  <2> QED
    BY <1>2, <2>1 DEF RecordQueueId, UpdateStatus, Lifecycle!RecordQueueId
<1>3. CASE RecordFails(j) \/ ApiCrash(j)
  <2>1. P(api') = [P(api) EXCEPT ![j] = FALSE]
    BY <1>3, RequestEnds
  <2> QED
    BY <1>3, <2>1 DEF RecordFails, ApiCrash, rowVars, Lifecycle!Abandon
<1>4. CASE Enqueue(j)
  <2>1. P(api') = P(api)
    BY <1>4 DEF Enqueue, IInv, TypeOK
  <2> QED
    BY <1>4, <2>1 DEF Enqueue, rowVars, Lifecycle!vars
<1>5. CASE RequestCancel(j) \/ AbortArq(j)
  BY <1>5, OthersStutter DEF Lifecycle!vars
<1> QED
  BY <1>1, <1>2, <1>3, <1>4, <1>5 DEF Request

\* The steps of the attempt.
LEMMA AttemptImplements ==
  ASSUME IInv, NEW j \in Jobs, Attempt(j)
  PROVE  Lifecycle!Start(j) \/ Lifecycle!Finish(j) \/ UNCHANGED Lifecycle!vars
<1>1. CASE MarkRunning(j) \/ DrainItem(j)
  <2>1. UNCHANGED api /\ (UNCHANGED status \/ UpdateStatus(j, "running"))
    BY <1>1 DEF MarkRunning, DrainItem, apiVars
  <2>2. pc[j] # "idle" /\ ~IsFinal(j)
    BY <1>1 DEF MarkRunning, DrainItem, IInv, FlowInv, FinalInv, Working
  <2>3. UpdateStatus(j, "running") => status[j] \in {"queued", "running"}
    BY <2>2 DEF UpdateStatus, IInv, QueueInv, IsFinal, TypeOK
  <2> QED
    BY <2>1, <2>3, WriteRunningStarts DEF UpdateStatus, Lifecycle!vars
<1>2. CASE WriteOutcome(j)
  <2>1. UNCHANGED api
    BY <1>2 DEF WriteOutcome, apiVars
  <2>2. \/ status[j] = "running"
        \/ status[j] = "queued" /\ api[j] \in {"done", "failed"}
    BY <1>2 DEF WriteOutcome, UpdateStatus, IInv, MarkedInv
  <2>3. CASE outcome[j] = "transient"
    BY <1>2, <2>1, <2>2, <2>3, WriteRunningStarts DEF WriteOutcome, UpdateStatus, Lifecycle!vars
  <2>4. CASE outcome[j] # "transient"
    <3>1. outcome[j] \in Final
      BY <1>2, <2>4 DEF WriteOutcome, IInv, FlowInv, TypeOK
    <3>2. status' = [status EXCEPT ![j] = outcome[j]]
      BY <1>2, <2>4 DEF WriteOutcome, UpdateStatus
    <3> QED
      BY <2>1, <2>2, <3>1, <3>2 DEF Lifecycle!Finish, Lifecycle!Final, Final
  <2> QED
    BY <2>3, <2>4
<1>3. CASE ~MarkRunning(j) /\ ~DrainItem(j) /\ ~WriteOutcome(j)
  BY <1>3, OthersStutter DEF Attempt, Lifecycle!vars
<1> QED
  BY <1>1, <1>2, <1>3

\* SolverJob implements JobLifecycle, with a request pending from the first
\* session of create_job to its second.
THEOREM Refinement == Spec => ImplementsLifecycle
<1>1. Init => Lifecycle!Init
  <2> SUFFICES ASSUME Init PROVE Lifecycle!Init
    OBVIOUS
  <2>1. \A j \in Jobs : ~(api[j] \in {"enqueue", "record"})
    BY DEF Init
  <2>2. \A j \in Jobs : (api[j] \in {"enqueue", "record"}) = FALSE
    BY <2>1
  <2>3. [j \in Jobs |-> api[j] \in {"enqueue", "record"}] = [j \in Jobs |-> FALSE]
    BY <2>2, Zenon
  <2> QED
    BY <2>3 DEF Init, Lifecycle!Init
<1>2. IInv /\ [Next]_vars => [Lifecycle!Next]_Lifecycle!vars
  <2> SUFFICES ASSUME IInv, [Next]_vars PROVE Lifecycle!Next \/ UNCHANGED Lifecycle!vars
    OBVIOUS
  <2>1. ASSUME NEW j \in Jobs, Request(j) PROVE Lifecycle!Next \/ UNCHANGED Lifecycle!vars
    BY <2>1, RequestImplements DEF Lifecycle!Next
  <2>2. ASSUME NEW j \in Jobs, Attempt(j) PROVE Lifecycle!Next \/ UNCHANGED Lifecycle!vars
    BY <2>2, AttemptImplements DEF Lifecycle!Next
  <2>3. ASSUME NEW j \in Jobs, Queue(j) \/ CancelFlagExpires(j) PROVE UNCHANGED Lifecycle!vars
    BY <2>3, OthersStutter DEF Lifecycle!vars
  <2>4. CASE DeleteProject
    BY <2>4 DEF DeleteProject, apiVars, Lifecycle!Next, Lifecycle!DeleteAll
  <2>5. CASE \E t \in Targets : LockExpires(t)
    BY <2>5 DEF LockExpires, apiVars, rowVars, Lifecycle!vars
  <2>6. CASE UNCHANGED vars
    BY <2>6 DEF vars, Lifecycle!vars
  <2> QED
    BY <2>1, <2>2, <2>3, <2>4, <2>5, <2>6 DEF Next
<1> QED
  BY <1>1, <1>2, Invariant, PTL DEF Spec, ImplementsLifecycle, Lifecycle!Spec

=============================================================================
