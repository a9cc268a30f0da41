---------------------------- MODULE ExportsProofs ----------------------------
(* Proofs about Exports, for any number of exports, tries, edits and faults. *)
EXTENDS Exports, TLAPS

-----------------------------------------------------------------------------
(* The inductive invariant *)

\* An attempt that still works has no success behind it: ReadRow ends the attempt
\* of a succeeded export, and no other attempt of the export runs meanwhile.
WorkInv ==
  \A e \in Exports :
    pc[e] \in {"render", "upload", "finish", "fail"} => status[e] # "succeeded"

\* A deadline is set by a success, exactly, and outlives the row.
DeadlineInv ==
  \A e \in Exports :
    /\ status[e] = "succeeded" => retain[e] # "null"
    /\ retain[e] # "null" => status[e] \in {"succeeded", "purged", "deleted"}

\* What the purge has listed has expired, and stays so.
PurgeInv == \A e \in Exports : e \in listed \/ purging = e => retain[e] = "past"

\* The object is there from the upload on, until the deadline is over.
ObjectInv ==
  \A e \in Exports :
    /\ retain[e] = "ahead" => object[e] # None
    /\ pc[e] = "finish" /\ retain[e] = "null" => object[e] # None

\* Without an upload thread that outlives its attempt, what the attempt stored is
\* what it is about to sign, and what was signed is what is stored.
BytesInv ==
  \A e \in Exports :
    /\ late[e] # None => e \in outlived
    /\ e \notin outlived =>
         /\ pc[e] = "finish" /\ retain[e] = "null" => object[e] = work[e]
         /\ status[e] = "succeeded" /\ object[e] # None => object[e] = sum[e]

\* Only a success is downloaded.
DownloadInv ==
  \A e \in Exports :
    /\ download[e] # "idle" => retain[e] # "null"
    /\ download[e] = "broken" => retain[e] = "past"

IInv == TypeOK /\ WorkInv /\ DeadlineInv /\ PurgeInv /\ ObjectInv /\ BytesInv /\ DownloadInv

-----------------------------------------------------------------------------
(* Every action preserves the invariant *)

USE ExportAssumption DEF IInv, TypeOK, WorkInv, DeadlineInv, PurgeInv, ObjectInv, BytesInv,
  DownloadInv, Versions, HasRow, Goto, End, rowVars, jobVars, purgeVars

\* The count of faults stays within its bound.
LEMMA FaultCounts ==
  ASSUME TypeOK, NEW k, Fault(k)
  PROVE  faults' \in 0..MaxFaults
BY DEF Fault

LEMMA EditInv ==
  ASSUME IInv, Edit
  PROVE  IInv'
BY DEF Edit

LEMMA DeleteProjectInv ==
  ASSUME IInv, DeleteProject
  PROVE  IInv'
BY DEF DeleteProject, Fault

LEMMA RequestInv ==
  ASSUME IInv, NEW e \in Exports,
         CreateExport(e) \/ Enqueue(e) \/ DownloadRow(e) \/ DownloadObject(e)
  PROVE  IInv'
<1>1. CASE CreateExport(e)
  BY <1>1 DEF CreateExport
<1>2. CASE Enqueue(e)
  BY <1>2 DEF Enqueue, Fault
<1>3. CASE DownloadRow(e)
  BY <1>3 DEF DownloadRow
<1>4. CASE DownloadObject(e)
  BY <1>4 DEF DownloadObject
<1> QED
  BY <1>1, <1>2, <1>3, <1>4

LEMMA PickInv ==
  ASSUME IInv, NEW e \in Exports, Pick(e)
  PROVE  IInv'
<1>1. CASE tries[e] < MaxTries
  BY <1>1 DEF Pick
<1>2. CASE ~(tries[e] < MaxTries)
  BY <1>2 DEF Pick
<1> QED
  BY <1>1, <1>2

LEMMA ReadRowInv ==
  ASSUME IInv, NEW e \in Exports, ReadRow(e)
  PROVE  IInv'
BY DEF ReadRow, Fault

LEMMA RenderInv ==
  ASSUME IInv, NEW e \in Exports, Render(e)
  PROVE  IInv'
BY DEF Render

LEMMA UploadInv ==
  ASSUME IInv, NEW e \in Exports, Upload(e)
  PROVE  IInv'
BY DEF Upload, Fault

LEMMA FinishInv ==
  ASSUME IInv, NEW e \in Exports, Finish(e)
  PROVE  IInv'
<1>1. CASE HasRow(e) /\ ~UNCHANGED status
  BY <1>1 DEF Finish, Fault
<1>2. CASE UNCHANGED rowVars
  BY <1>2 DEF Finish, Fault
<1> QED
  BY <1>1, <1>2 DEF Finish

LEMMA WriteFailedInv ==
  ASSUME IInv, NEW e \in Exports, WriteFailed(e)
  PROVE  IInv'
BY DEF WriteFailed, Fault

LEMMA SettleInv ==
  ASSUME IInv, NEW e \in Exports, Settle(e)
  PROVE  IInv'
BY DEF Settle

LEMMA InterruptInv ==
  ASSUME IInv, NEW e \in Exports, NEW why, Interrupt(e, why)
  PROVE  IInv'
<1>1. faults' \in 0..MaxFaults
  BY FaultCounts DEF Interrupt
<1>2. CASE pc[e] # "upload"
  BY <1>1, <1>2 DEF Interrupt
<1>3. CASE pc[e] = "upload" /\ why = "crash"
  BY <1>1, <1>3 DEF Interrupt
<1>4. CASE pc[e] = "upload" /\ why # "crash"
  BY <1>1, <1>4 DEF Interrupt
<1> QED
  BY <1>2, <1>3, <1>4

LEMMA LateUploadInv ==
  ASSUME IInv, NEW e \in Exports, LateUpload(e)
  PROVE  IInv'
BY DEF LateUpload

LEMMA ExpireInv ==
  ASSUME IInv, NEW e \in Exports, Expire(e)
  PROVE  IInv'
BY DEF Expire

LEMMA PurgeStepInv ==
  ASSUME IInv, Purge \/ PurgeStops
  PROVE  IInv'
<1>1. CASE PurgeList
  BY <1>1 DEF PurgeList, ExpiredRows, Expired
<1>2. ASSUME NEW e \in Exports, PurgeObject(e)
      PROVE  IInv'
  BY <1>2 DEF PurgeObject, Fault
<1>3. ASSUME NEW e \in Exports, PurgeRow(e)
      PROVE  IInv'
  BY <1>3 DEF PurgeRow
<1>4. CASE PurgeStops
  BY <1>4 DEF PurgeStops, Fault
<1> QED
  BY <1>1, <1>2, <1>3, <1>4 DEF Purge

-----------------------------------------------------------------------------
(* What follows *)

\* The inductive invariant holds from the insert of the row to the purge.
THEOREM Invariant == Spec => []IInv
<1>1. Init => IInv
  BY DEF Init
<1>2. IInv /\ [Next]_vars => IInv'
  <2> SUFFICES ASSUME IInv, [Next]_vars PROVE IInv'
    OBVIOUS
  <2>1. CASE Edit \/ DeleteProject
    BY <2>1, EditInv, DeleteProjectInv
  <2>2. ASSUME NEW e \in Exports,
               CreateExport(e) \/ Enqueue(e) \/ DownloadRow(e) \/ DownloadObject(e)
        PROVE  IInv'
    BY <2>2, RequestInv
  <2>3. ASSUME NEW e \in Exports, Pick(e) \/ Work(e) \/ LateUpload(e) \/ Expire(e)
        PROVE  IInv'
    BY <2>3, PickInv, ReadRowInv, RenderInv, UploadInv, FinishInv, WriteFailedInv, SettleInv,
       LateUploadInv, ExpireInv DEF Work
  <2>4. ASSUME NEW e \in Exports, NEW why, Interrupt(e, why)
        PROVE  IInv'
    BY <2>4, InterruptInv
  <2>5. CASE Purge \/ PurgeStops
    BY <2>5, PurgeStepInv
  <2>6. CASE UNCHANGED vars
    BY <2>6 DEF vars
  <2> HIDE DEF IInv
  <2> QED
    BY <2>1, <2>2, <2>3, <2>4, <2>5, <2>6 DEF Next
<1> QED
  BY <1>1, <1>2, PTL DEF Spec

\* The variables of the API, the worker, the storage and the purge keep their types.
THEOREM TypeCorrect == Spec => []TypeOK
BY Invariant, PTL

\* Whatever attempts are cut short or run again, an export that reads "succeeded" has
\* bytes to download until its retention is over (run_export_job, purge_expired_exports).
THEOREM ObjectOfSuccess == Spec => []SucceededHasObject
<1>1. IInv => SucceededHasObject
  BY DEF SucceededHasObject
<1> QED
  BY <1>1, Invariant, PTL

\* A checksum describes the stored bytes though a document edited between two attempts
\* makes the second store others (run_export_job, its upload and its last session).
THEOREM ChecksumOfObject == Spec => []ChecksumMatchesObject
<1>1. IInv => ChecksumMatchesObject
  BY DEF ChecksumMatchesObject
<1> QED
  BY <1>1, Invariant, PTL

\* A client whose download finds nothing asked for an expired export (download_export
\* against purge_expired_exports).
THEOREM BrokenDownload == Spec => []BrokenDownloadExpired
<1>1. IInv => BrokenDownloadExpired
  BY DEF BrokenDownloadExpired
<1> QED
  BY <1>1, Invariant, PTL

=============================================================================
