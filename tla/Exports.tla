------------------------------- MODULE Exports -------------------------------
(* Exports of layouts: POST /layouts/<id>/exports and the download (api/exports.py),
   run_export_job (jobs/export_job.py), the hourly purge (jobs/retention.py), the
   exports rows (repositories/exports.py) and their objects in S3
   (services/storage.py).  Bytes are identified with the version of the project
   document they were rendered from. *)
EXTENDS Naturals, FiniteSets

CONSTANTS
  Exports,     \* the exports clients ask for
  None,        \* no object, no checksum
  MaxTries,    \* WorkerSettings.max_tries
  MaxEdits,    \* bound: saves of the project document
  FaultKinds,  \* "enqueue", "db", "s3", "crash", "timeout", "shutdown", "delete"
  MaxFaults    \* bound: faults in one behaviour

ASSUME ExportAssumption ==
  /\ None \notin Nat /\ None \notin Exports
  /\ MaxTries \in Nat /\ MaxEdits \in Nat /\ MaxFaults \in Nat

VARIABLES
  draft,     \* version of projects.document
  status,    \* exports.status, "absent" before the insert, "purged" or "deleted" after
  sum,       \* checksum_sha256
  retain,    \* retention_until: NULL, ahead, or past
  object,    \* the object under the export's key
  queue,     \* "unsent" until create_export has enqueued the job, then arq's view of it
  tries,     \* arq's job_try
  pc,        \* where the attempt is
  work,      \* the document the attempt read
  late,      \* bytes an upload thread that nobody awaits may still store
  outlived,  \* exports for which there was ever such a thread
  listed,    \* rows the purge has still to go through
  purging,   \* the row it is at
  download,  \* download[e]: idle, has read the row, served, broken
  faults

rowVars == <<status, sum, retain>>
jobVars == <<queue, tries, pc, work, late, outlived>>
purgeVars == <<listed, purging>>
vars == <<draft, status, sum, retain, object, queue, tries, pc, work, late,
          outlived, listed, purging, download, faults>>

Versions == 0..MaxEdits

TypeOK ==
  /\ draft \in Versions
  /\ status \in [Exports -> {"absent", "pending", "running", "succeeded", "failed",
                             "purged", "deleted"}]
  /\ sum \in [Exports -> Versions \cup {None}]
  /\ retain \in [Exports -> {"null", "ahead", "past"}]
  /\ object \in [Exports -> Versions \cup {None}]
  /\ queue \in [Exports -> {"none", "unsent", "queued", "running", "done"}]
  /\ tries \in [Exports -> 0..MaxTries]
  /\ pc \in [Exports -> {"idle", "read", "render", "upload", "finish", "fail", "end"}]
  /\ work \in [Exports -> Versions]
  /\ late \in [Exports -> Versions \cup {None}]
  /\ outlived \subseteq Exports /\ listed \subseteq Exports
  /\ purging \in Exports \cup {None}
  /\ download \in [Exports -> {"idle", "ready", "served", "broken"}]
  /\ faults \in 0..MaxFaults

Init ==
  /\ draft = 0
  /\ status = [e \in Exports |-> "absent"]
  /\ sum = [e \in Exports |-> None]
  /\ retain = [e \in Exports |-> "null"]
  /\ object = [e \in Exports |-> None]
  /\ queue = [e \in Exports |-> "none"]
  /\ tries = [e \in Exports |-> 0]
  /\ pc = [e \in Exports |-> "idle"]
  /\ work = [e \in Exports |-> 0]
  /\ late = [e \in Exports |-> None]
  /\ outlived = {} /\ listed = {} /\ purging = None
  /\ download = [e \in Exports |-> "idle"]
  /\ faults = 0

Fault(k) ==
  /\ k \in FaultKinds
  /\ faults < MaxFaults
  /\ faults' = faults + 1

HasRow(e) == status[e] \in {"pending", "running", "succeeded", "failed"}

Goto(e, p) == pc' = [pc EXCEPT ![e] = p]

\* The coroutine of export e ends, with a value or an error.
End(e) == Goto(e, "end") /\ UNCHANGED queue

-----------------------------------------------------------------------------
(* The project and the API *)

\* PUT /projects/<id>/document, as far as exports see it.
Edit ==
  /\ draft < MaxEdits
  /\ draft' = draft + 1
  /\ UNCHANGED <<rowVars, object, jobVars, purgeVars, download, faults>>

\* DELETE /projects/<id>: the rows go (ON DELETE CASCADE), the objects stay.
DeleteProject ==
  /\ Fault("delete")
  /\ status' = [e \in Exports |-> "deleted"]
  /\ UNCHANGED <<draft, sum, retain, object, jobVars, purgeVars, download>>

\* create_export, the session that inserts the row.
CreateExport(e) ==
  /\ status[e] = "absent"
  /\ status' = [status EXCEPT ![e] = "pending"]
  /\ queue' = [queue EXCEPT ![e] = "unsent"]
  /\ UNCHANGED <<draft, sum, retain, object, tries, pc, work, late, outlived, purgeVars, download, faults>>

\* create_export hands the job to arq; an exception is logged and swallowed.
Enqueue(e) ==
  /\ queue[e] = "unsent"
  /\ \/ queue' = [queue EXCEPT ![e] = "queued"] /\ UNCHANGED faults
     \/ Fault("enqueue") /\ queue' = [queue EXCEPT ![e] = "done"]
  /\ UNCHANGED <<draft, rowVars, object, tries, pc, work, late, outlived, purgeVars, download>>

\* download_export, the session: only a succeeded row has a key to fetch.  One
\* download of each export is followed.
DownloadRow(e) ==
  /\ download[e] = "idle" /\ status[e] = "succeeded"
  /\ download' = [download EXCEPT ![e] = "ready"]
  /\ UNCHANGED <<draft, rowVars, object, jobVars, purgeVars, faults>>

\* download_export, the fetch, after the session is closed.
DownloadObject(e) ==
  /\ download[e] = "ready"
  /\ download' = [download EXCEPT ![e] = IF object[e] = None THEN "broken" ELSE "served"]
  /\ UNCHANGED <<draft, rowVars, object, jobVars, purgeVars, faults>>

-----------------------------------------------------------------------------
(* run_export_job *)

\* arq starts the job, or gives it up once its tries are used (external).
Pick(e) ==
  /\ queue[e] = "queued"
  /\ IF tries[e] < MaxTries
     THEN /\ tries' = [tries EXCEPT ![e] = @ + 1]
          /\ queue' = [queue EXCEPT ![e] = "running"]
          /\ Goto(e, "read")
     ELSE queue' = [queue EXCEPT ![e] = "done"] /\ UNCHANGED <<tries, pc>>
  /\ UNCHANGED <<draft, rowVars, object, work, late, outlived, purgeVars, download, faults>>

\* Mutation of ReadRow: a succeeded export is rendered again.
ReadRowAgain(e) ==
  /\ pc[e] = "read"
  /\ IF HasRow(e)
     THEN /\ status' = [status EXCEPT ![e] = IF @ = "succeeded" THEN @ ELSE "running"]
          /\ work' = [work EXCEPT ![e] = draft]
          /\ Goto(e, "render")
          /\ UNCHANGED queue
     ELSE End(e) /\ UNCHANGED <<status, work>>
  /\ UNCHANGED <<draft, sum, retain, object, tries, late, outlived, purgeVars, download, faults>>

\* The first session: a row that is gone or has succeeded ends the attempt,
\* otherwise the row is "running" and the project's current document is read.
\* An export outlives neither its layout nor its project, so the branches for
\* those being gone are only met half-way through a deletion and fail like it.
ReadRow(e) ==
  /\ pc[e] = "read"
  /\ \/ /\ HasRow(e) /\ status[e] # "succeeded"
        /\ status' = [status EXCEPT ![e] = "running"]
        /\ work' = [work EXCEPT ![e] = draft]
        /\ Goto(e, "render")
        /\ UNCHANGED <<queue, faults>>
     \/ /\ ~HasRow(e) \/ status[e] = "succeeded"
        /\ End(e) /\ UNCHANGED <<status, work, faults>>
     \/ Fault("db") /\ End(e) /\ UNCHANGED <<status, work>>
  /\ UNCHANGED <<draft, sum, retain, object, tries, late, outlived, purgeVars, download>>

\* render_export, which may raise for this layout and format.
Render(e) ==
  /\ pc[e] = "render"
  /\ Goto(e, "upload") \/ Goto(e, "fail")
  /\ UNCHANGED <<draft, rowVars, object, queue, tries, work, late, outlived, purgeVars, download, faults>>

\* Mutation of Upload: a failed upload is taken for a finished one.
UploadUnchecked(e) ==
  /\ pc[e] = "upload"
  /\ \/ object' = [object EXCEPT ![e] = work[e]] /\ UNCHANGED faults
     \/ Fault("s3") /\ UNCHANGED object
  /\ Goto(e, "finish")
  /\ UNCHANGED <<draft, rowVars, queue, tries, work, late, outlived, purgeVars, download>>

\* put_object overwrites what an earlier attempt stored under the key.
Upload(e) ==
  /\ pc[e] = "upload"
  /\ \/ object' = [object EXCEPT ![e] = work[e]] /\ Goto(e, "finish") /\ UNCHANGED faults
     \/ Fault("s3") /\ Goto(e, "fail") /\ UNCHANGED object
  /\ UNCHANGED <<draft, rowVars, queue, tries, work, late, outlived, purgeVars, download>>

\* Mutation of Finish: a status that ck_exports_status_allowed does not know.
FinishRaw(e) ==
  /\ pc[e] = "finish"
  /\ HasRow(e)
  /\ status' = [status EXCEPT ![e] = "done"]
  /\ sum' = [sum EXCEPT ![e] = work[e]]
  /\ End(e)
  /\ UNCHANGED <<draft, retain, object, tries, work, late, outlived, purgeVars, download, faults>>

\* The last session.  A row that is gone is a LookupError, and the object stays.
Finish(e) ==
  /\ pc[e] = "finish"
  /\ \/ /\ HasRow(e)
        /\ status' = [status EXCEPT ![e] = "succeeded"]
        /\ sum' = [sum EXCEPT ![e] = work[e]]
        /\ retain' = [retain EXCEPT ![e] = "ahead"]
        /\ UNCHANGED faults
     \/ ~HasRow(e) /\ UNCHANGED <<rowVars, faults>>
     \/ Fault("db") /\ UNCHANGED rowVars
  /\ End(e)
  /\ UNCHANGED <<draft, object, tries, work, late, outlived, purgeVars, download>>

\* Mutation of WriteFailed: the handlers only log the error.
WriteFailedNot(e) ==
  /\ pc[e] = "fail"
  /\ End(e)
  /\ UNCHANGED <<draft, rowVars, object, tries, work, late, outlived, purgeVars, download, faults>>

\* The session of the two error handlers.
WriteFailed(e) ==
  /\ pc[e] = "fail"
  /\ \/ HasRow(e) /\ status' = [status EXCEPT ![e] = "failed"] /\ UNCHANGED faults
     \/ ~HasRow(e) /\ UNCHANGED <<status, faults>>
     \/ Fault("db") /\ UNCHANGED status
  /\ End(e)
  /\ UNCHANGED <<draft, sum, retain, object, tries, work, late, outlived, purgeVars, download>>

\* arq stores that the job is over (external); only CancelledError runs it again.
Settle(e) ==
  /\ pc[e] = "end"
  /\ Goto(e, "idle")
  /\ queue' = [queue EXCEPT ![e] = "done"]
  /\ UNCHANGED <<draft, rowVars, object, tries, work, late, outlived, purgeVars, download, faults>>

\* The attempt is cut short: the worker dies or shuts down, and the job runs
\* again, or job_timeout ends it.  An upload runs in a thread of its own, which
\* only a dying worker takes along, perhaps when S3 already has the object.
Interrupt(e, why) ==
  /\ pc[e] # "idle" /\ (pc[e] = "end" => why = "crash")
  /\ Fault(why)
  /\ Goto(e, "idle")
  /\ queue' = [queue EXCEPT ![e] = IF why = "timeout" THEN "done" ELSE "queued"]
  /\ IF pc[e] = "upload"
     THEN IF why = "crash"
          THEN /\ UNCHANGED <<late, outlived>>
               /\ \/ object' = [object EXCEPT ![e] = work[e]]
                  \/ UNCHANGED object
          ELSE /\ late' = [late EXCEPT ![e] = work[e]]
               /\ outlived' = outlived \cup {e}
               /\ UNCHANGED object
     ELSE UNCHANGED <<late, outlived, object>>
  /\ UNCHANGED <<draft, rowVars, tries, work, purgeVars, download>>

\* The upload thread of an attempt that is over stores its object.
LateUpload(e) ==
  /\ late[e] # None
  /\ object' = [object EXCEPT ![e] = late[e]]
  /\ late' = [late EXCEPT ![e] = None]
  /\ UNCHANGED <<draft, rowVars, queue, tries, pc, work, outlived, purgeVars, download, faults>>

-----------------------------------------------------------------------------
(* purge_expired_exports *)

\* Time passes.
Expire(e) ==
  /\ retain[e] = "ahead"
  /\ retain' = [retain EXCEPT ![e] = "past"]
  /\ UNCHANGED <<draft, status, sum, object, jobVars, purgeVars, download, faults>>

Expired == {e \in Exports : HasRow(e) /\ retain[e] = "past"}

\* Mutation of ExpiredRows: rows with a deadline, past or not.
AnyDeadlineRows == {e \in Exports : HasRow(e) /\ retain[e] # "null"}

\* list_expired_exports.
ExpiredRows == Expired

\* The hourly cron job lists what has expired.
PurgeList ==
  /\ listed = {} /\ purging = None
  /\ ExpiredRows # {}
  /\ listed' = ExpiredRows
  /\ UNCHANGED <<draft, rowVars, object, jobVars, purging, download, faults>>

\* storage.delete; it swallows every error.
PurgeObject(e) ==
  /\ purging = None /\ e \in listed
  /\ purging' = e
  /\ listed' = listed \ {e}
  /\ \/ object' = [object EXCEPT ![e] = None] /\ UNCHANGED faults
     \/ Fault("s3") /\ UNCHANGED object
  /\ UNCHANGED <<draft, rowVars, jobVars, download>>

\* Mutation of PurgeRow: the session ends before the delete.
PurgeRowNot(e) ==
  /\ purging = e
  /\ purging' = None
  /\ UNCHANGED <<draft, rowVars, object, jobVars, listed, download, faults>>

\* The row is read again and deleted if it is still there.
PurgeRow(e) ==
  /\ purging = e
  /\ purging' = None
  /\ status' = [status EXCEPT ![e] = IF HasRow(e) THEN "purged" ELSE @]
  /\ UNCHANGED <<draft, sum, retain, object, jobVars, listed, download, faults>>

\* An exception of that session, or the end of the worker, stops the purge.
PurgeStops ==
  /\ listed # {} \/ purging # None
  /\ Fault("db") \/ Fault("crash")
  /\ listed' = {} /\ purging' = None
  /\ UNCHANGED <<draft, rowVars, object, jobVars, download>>

-----------------------------------------------------------------------------
Work(e) == ReadRow(e) \/ Render(e) \/ Upload(e) \/ Finish(e) \/ WriteFailed(e) \/ Settle(e)

Purge == PurgeList \/ \E e \in Exports : PurgeObject(e) \/ PurgeRow(e)

Next ==
  \/ Edit \/ DeleteProject
  \/ \E e \in Exports :
       \/ CreateExport(e) \/ Enqueue(e) \/ DownloadRow(e) \/ DownloadObject(e)
       \/ Pick(e) \/ Work(e) \/ LateUpload(e) \/ Expire(e)
       \/ \E why \in {"crash", "timeout", "shutdown"} : Interrupt(e, why)
  \/ Purge \/ PurgeStops

Spec == Init /\ [][Next]_vars

\* The API handler goes on, the worker picks what is queued and works on it, and
\* the cron job comes round every hour.
Fairness ==
  /\ \A e \in Exports : WF_vars(Enqueue(e)) /\ WF_vars(Pick(e)) /\ WF_vars(Work(e))
  /\ WF_vars(Purge)

FairSpec == Spec /\ Fairness

-----------------------------------------------------------------------------
(* Properties *)

\* A row that says "succeeded" has its object, through retries, crashes and
\* failed uploads, until the purge has begun on it.
SucceededHasObject ==
  \A e \in Exports : status[e] = "succeeded" => object[e] # None \/ retain[e] = "past"

\* checksum_sha256 is that of the bytes under the key: a job that runs again
\* after an attempt that stored its object, or its success, never leaves other
\* bytes there.  Only an upload thread that outlives its attempt can.
ChecksumMatchesObject ==
  \A e \in Exports \ outlived :
    status[e] = "succeeded" /\ object[e] # None => object[e] = sum[e]

\* A download that finds no object is one of an expired export: the purge is
\* the only thing that takes an object from under a row a client has read.
BrokenDownloadExpired ==
  \A e \in Exports : download[e] = "broken" => retain[e] = "past"

\* An export ends "succeeded" or "failed", unless a fault got in the way.
ExportSettles ==
  \A e \in Exports :
    status[e] = "pending" ~> (status[e] \in {"succeeded", "failed"} \/ faults > 0)

\* The purge gets to every expired row, though it stops at the first error.
ExpiredArePurged ==
  \A e \in Exports :
    status[e] = "succeeded" /\ retain[e] = "past" ~> status[e] \in {"purged", "deleted"}
=============================================================================
