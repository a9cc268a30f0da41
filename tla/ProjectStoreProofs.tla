-------------------------- MODULE ProjectStoreProofs --------------------------
(* Proofs about ProjectStore, for any number of writers, saves, requests and keys. *)
EXTENDS ProjectStore, TLAPS

-----------------------------------------------------------------------------
(* The inductive invariant *)

\* A writer works on a version that was current when it loaded it, and there is one
\* document to each version.
SeenInv ==
  \A w \in Writers :
    seen[w] # NoDraft =>
      /\ seen[w].version <= draft.version
      /\ seen[w].version = draft.version => seen[w].doc = draft.doc

\* No acknowledged edit has been overwritten, also behind a DELETE.
AckedInv == acked \subseteq draft.doc

\* The revisions have a highest number.
NumberInv == revs = {} \/ \E n \in Numbers : \A m \in Numbers : m <= n

\* Only a job request takes the steps of create_job.
FlowInv ==
  \A r \in Requests :
    at[r] \in {"probe", "insert", "enqueue", "record", "reply"} => r \in JobRequests

\* A request reads the project after it was sent, and freezes what it read.
ReadInv ==
  /\ \A r \in Requests :
       at[r] \in {"probe", "resolve", "freeze", "insert", "commit"} => asked[r] \subseteq read[r]
  /\ \A v \in revs : at[v.by] # "idle" /\ asked[v.by] \subseteq v.doc

\* As long as nothing has gone wrong, every job is on its way to the queue or there,
\* and so is the one a request is going to answer with.
JobInv ==
  /\ \A s \in jobs : faults = 0 => s \in queued \/ at[s] = "enqueue"
  /\ \A r \in JobRequests :
       at[r] \in {"enqueue", "record", "reply", "answered"} =>
         /\ names[r] \in JobRequests
         /\ faults = 0 => names[r] \in queued \/ at[names[r]] = "enqueue"

IInv == Types /\ SeenInv /\ AckedInv /\ NumberInv /\ FlowInv /\ ReadInv /\ JobInv

-----------------------------------------------------------------------------
(* Every action preserves the invariant *)

USE StoreAssumption DEF IInv, Types, SeenInv, AckedInv, FlowInv, ReadInv, JobInv,
  Goto, EndSession, rowVars, writerVars, requestVars

\* A loaded draft is told from nothing loaded.
LEMMA DraftIsLoaded ==
  ASSUME NEW d \in Draft
  PROVE  d # NoDraft
<1>1. d.doc \subseteq Writers \X Nat
  BY DEF Draft, Edits
<1>2. d \in [version : Nat, doc : SUBSET (Writers \X Nat)]
  BY <1>1 DEF Draft
<1> QED
  BY <1>2

\* SELECT max over revisions that have a highest number finds a number.
LEMMA MaxNumberIsNat ==
  ASSUME Types, NumberInv
  PROVE  MaxNumber \in Nat
<1>1. CASE revs = {}
  BY <1>1 DEF MaxNumber
<1>2. CASE revs # {}
  <2>1. MaxNumber \in Numbers
    BY <1>2 DEF MaxNumber, NumberInv
  <2> QED
    BY <2>1 DEF Numbers
<1> QED
  BY <1>1, <1>2

\* The highest number is one of the rows.
LEMMA NumberKept ==
  ASSUME NumberInv, UNCHANGED revs
  PROVE  NumberInv'
BY DEF NumberInv, Numbers

\* The fields of a draft.
LEMMA DraftFields ==
  ASSUME NEW d \in Draft
  PROVE  d.version \in Nat /\ d.doc \in SUBSET Edits
BY DEF Draft

LEMMA LoadInv ==
  ASSUME IInv, NEW w \in Writers, Load(w)
  PROVE  IInv'
<1>1. Types'
  BY DEF Load
<1>2. SeenInv'
  <2> SUFFICES ASSUME NEW x \in Writers, seen'[x] # NoDraft
               PROVE  /\ seen'[x].version <= draft.version
                      /\ seen'[x].version = draft.version => seen'[x].doc = draft.doc
    BY DEF Load
  <2>1. CASE x = w
    BY <2>1, DraftFields DEF Load
  <2>2. CASE x # w
    BY <2>2 DEF Load
  <2> QED
    BY <2>1, <2>2
<1> QED
  BY <1>1, <1>2, NumberKept DEF Load

LEMMA SaveInv ==
  ASSUME IInv, NEW w \in Writers, Save(w)
  PROVE  IInv'
<1> DEFINE edit == <<w, saves[w] + 1>>
           saved == [version |-> seen[w].version + 1, doc |-> seen[w].doc \cup {edit}]
<1>1. seen[w] \in Draft /\ edit \in Edits /\ saved \in Draft
  BY DEF Save, Edits, Draft
<1>2. UNCHANGED <<exists, revs, jobs, queued, at, asked, read, number, names>>
      /\ saves' = [saves EXCEPT ![w] = @ + 1] /\ saves' \in [Writers -> 0..MaxSaves]
  BY DEF Save
<1>3. CASE /\ SaveMatches(w) /\ draft' = saved
           /\ seen' = [seen EXCEPT ![w] = saved]
           /\ acked' = acked \cup {edit} /\ UNCHANGED faults
  <2>1. draft.version = seen[w].version /\ seen[w].doc = draft.doc
    BY <1>3 DEF SaveMatches, Save
  <2> HIDE DEF edit
  <2>2. Types'
    BY <1>1, <1>2, <1>3
  <2>3. SeenInv' /\ AckedInv'
    <3>1. SeenInv'
      <4> SUFFICES ASSUME NEW x \in Writers, seen'[x] # NoDraft
                   PROVE  /\ seen'[x].version <= saved.version
                          /\ seen'[x].version = saved.version => seen'[x].doc = saved.doc
        BY <1>3
      <4>1. CASE seen'[x] = seen[x]
        <5>1. seen[x].version <= draft.version
          BY <4>1
        <5>2. seen[x].version \in Nat /\ draft.version \in Nat /\ saved.version = draft.version + 1
          BY <2>1, <4>1, DraftFields
        <5> QED
          BY <4>1, <5>1, <5>2
      <4>2. CASE seen'[x] = saved
        BY <1>1, <4>2, DraftFields
      <4> QED
        BY <4>1, <4>2, <1>3
    <3>2. AckedInv'
      BY <2>1, <1>3
    <3> QED
      BY <3>1, <3>2
  <2> QED
    BY <1>2, <1>3, <2>2, <2>3, NumberKept
<1>4. CASE SaveMatches(w) /\ draft' = saved /\ Fault("response") /\ UNCHANGED <<seen, acked>>
  <2>1. draft.version = seen[w].version /\ seen[w].doc = draft.doc
    BY <1>4 DEF SaveMatches, Save
  <2>2. faults' \in 0..MaxFaults /\ faults' # 0
    BY <1>4 DEF Fault
  <2> HIDE DEF edit
  <2>3. Types'
    BY <1>1, <1>2, <1>4, <2>2
  <2>4. SeenInv' /\ AckedInv'
    <3>1. SeenInv'
      <4> SUFFICES ASSUME NEW x \in Writers, seen'[x] # NoDraft
                   PROVE  /\ seen'[x].version <= saved.version
                          /\ seen'[x].version = saved.version => seen'[x].doc = saved.doc
        BY <1>4
      <4>1. CASE seen'[x] = seen[x]
        <5>1. seen[x].version <= draft.version
          BY <4>1
        <5>2. seen[x].version \in Nat /\ draft.version \in Nat /\ saved.version = draft.version + 1
          BY <2>1, <4>1, DraftFields
        <5> QED
          BY <4>1, <5>1, <5>2
      <4>2. CASE seen'[x] = saved
        BY <1>1, <4>2, DraftFields
      <4> QED
        BY <4>1, <4>2, <1>4
    <3>2. AckedInv'
      BY <2>1, <1>4
    <3> QED
      BY <3>1, <3>2
  <2> QED
    BY <1>2, <1>4, <2>2, <2>3, <2>4, NumberKept
<1>5. CASE seen' = [seen EXCEPT ![w] = NoDraft] /\ UNCHANGED <<draft, acked, faults>>
  BY <1>2, <1>5, NumberKept
<1> QED
  BY <1>3, <1>4, <1>5 DEF Save

LEMMA DeleteInv ==
  ASSUME IInv, Delete
  PROVE  IInv'
<1>1. NumberInv'
  BY DEF Delete, NumberInv
<1>2. faults' \in 0..MaxFaults /\ faults' # 0
  BY DEF Delete, Fault
<1>3. Types'
  BY <1>2 DEF Delete
<1> QED
  BY <1>1, <1>2, <1>3 DEF Delete

LEMMA ReadProjectInv ==
  ASSUME IInv, NEW r \in Requests, ReadProject(r)
  PROVE  IInv'
<1>1. CASE exists
  BY NumberKept, DraftFields, <1>1 DEF ReadProject
<1>2. CASE ~exists
  BY NumberKept, <1>2 DEF ReadProject
<1> QED
  BY <1>1, <1>2

LEMMA ProbeInv ==
  ASSUME IInv, NEW r \in Requests, Probe(r)
  PROVE  IInv'
<1>1. ASSUME NEW s \in SameKey(r), names' = [names EXCEPT ![r] = s], EndSession(r, "reply")
      PROVE  IInv'
  <2>1. s \in jobs /\ r \in JobRequests
    BY <1>1 DEF SameKey, Probe
  <2> QED
    BY NumberKept, <1>1, <2>1 DEF Probe
<1>2. CASE Goto(r, "resolve") /\ UNCHANGED <<names, read>>
  BY NumberKept, <1>2 DEF Probe
<1> QED
  BY <1>1, <1>2 DEF Probe

LEMMA ResolveRevisionInv ==
  ASSUME IInv, NEW r \in Requests, ResolveRevision(r)
  PROVE  IInv'
BY NumberKept DEF ResolveRevision

LEMMA ReadMaxInv ==
  ASSUME IInv, NEW r \in Requests, ReadMax(r)
  PROVE  IInv'
BY NumberKept, MaxNumberIsNat DEF ReadMax

LEMMA InsertRevisionInv ==
  ASSUME IInv, NEW r \in Requests, InsertRevision(r)
  PROVE  IInv'
BY NumberKept DEF InsertRevision

LEMMA InsertJobInv ==
  ASSUME IInv, NEW r \in Requests, InsertJob(r)
  PROVE  IInv'
BY NumberKept DEF InsertJob

LEMMA CommitInv ==
  ASSUME IInv, NEW r \in Requests, Commit(r)
  PROVE  IInv'
<1> DEFINE row == [n |-> number[r], doc |-> read[r], by |-> r]
<1>1. revs' = revs \/ revs' = revs \cup {row}
  BY DEF Commit, Freeze
<1>2. /\ UNCHANGED <<exists, draft, queued, seen, saves, acked, asked, faults>>
      /\ read' = [read EXCEPT ![r] = {}] /\ number' = [number EXCEPT ![r] = 0]
      /\ at[r] = "commit"
  BY DEF Commit
<1>3. /\ at' = [at EXCEPT ![r] = IF r \in JobRequests THEN "enqueue" ELSE "answered"]
      /\ jobs' = IF r \in JobRequests THEN jobs \cup {r} ELSE jobs
      /\ names' = IF r \in JobRequests THEN [names EXCEPT ![r] = r] ELSE names
  BY DEF Commit
<1>4. Types'
  BY <1>1, <1>2, <1>3
<1>5. NumberInv'
  <2>1. CASE revs' = revs
    BY <2>1, NumberKept
  <2>2. CASE revs' = revs \cup {row}
    <3>1. Numbers' = Numbers \cup {number[r]}
      <4>1. row.n = number[r]
        OBVIOUS
      <4> HIDE DEF row
      <4> QED
        BY <2>2, <4>1 DEF Numbers
    <3>2. Numbers \subseteq Nat /\ number[r] \in Nat
      BY DEF Numbers
    <3>3. \E n \in Numbers' : \A m \in Numbers' : m <= n
      <4>1. CASE revs = {}
        <5>1. Numbers' = {number[r]}
          BY <3>1, <4>1 DEF Numbers
        <5> QED
          BY <3>2, <5>1
      <4>2. CASE revs # {}
        <5>1. PICK n \in Numbers : \A m \in Numbers : m <= n
          BY <4>2 DEF NumberInv
        <5>2. CASE number[r] <= n
          BY <3>1, <3>2, <5>1, <5>2
        <5>3. CASE n <= number[r]
          BY <3>1, <3>2, <5>1, <5>3
        <5> QED
          BY <3>2, <5>2, <5>3
      <4> QED
        BY <4>1, <4>2
    <3> QED
      BY <3>3 DEF NumberInv
  <2> QED
    BY <1>1, <2>1, <2>2
<1>6. FlowInv' /\ SeenInv' /\ AckedInv'
  BY <1>2, <1>3
<1>7. ReadInv'
  BY <1>1, <1>2, <1>3
<1>8. JobInv'
  BY <1>2, <1>3
<1> QED
  BY <1>4, <1>5, <1>6, <1>7, <1>8

LEMMA EnqueueInv ==
  ASSUME IInv, NEW r \in Requests, Enqueue(r)
  PROVE  IInv'
<1>1. CASE queued' = queued \cup {r} /\ UNCHANGED faults
  BY NumberKept, <1>1 DEF Enqueue
<1>2. CASE Fault("enqueue") /\ UNCHANGED queued
  BY NumberKept, <1>2 DEF Enqueue, Fault
<1> QED
  BY <1>1, <1>2 DEF Enqueue

LEMMA RecordInv ==
  ASSUME IInv, NEW r \in Requests, Record(r)
  PROVE  IInv'
BY NumberKept DEF Record

LEMMA ReplyInv ==
  ASSUME IInv, NEW r \in Requests, Reply(r)
  PROVE  IInv'
BY NumberKept DEF Reply

LEMMA CrashInv ==
  ASSUME IInv, NEW r \in Requests, Crash(r)
  PROVE  IInv'
BY NumberKept DEF Crash, Fault, Over

-----------------------------------------------------------------------------
(* What follows *)

\* The inductive invariant holds whatever the requests and their transactions do.
THEOREM Invariant == Spec => []IInv
<1>1. Init => IInv
  BY DraftIsLoaded DEF Init, NumberInv, Draft
<1>2. IInv /\ [Next]_vars => IInv'
  <2> SUFFICES ASSUME IInv, [Next]_vars PROVE IInv'
    OBVIOUS
  <2>1. ASSUME NEW w \in Writers, Load(w) \/ Save(w) PROVE IInv'
    BY <2>1, LoadInv, SaveInv
  <2>2. ASSUME NEW r \in Requests, ReadProject(r) \/ Crash(r) PROVE IInv'
    BY <2>2, ReadProjectInv, CrashInv
  <2>3. ASSUME NEW r \in Requests, Serve(r) PROVE IInv'
    BY <2>3, ProbeInv, ResolveRevisionInv, ReadMaxInv, InsertRevisionInv, InsertJobInv,
       CommitInv, EnqueueInv, RecordInv, ReplyInv DEF Serve
  <2>4. CASE Delete
    BY <2>4, DeleteInv
  <2>5. CASE UNCHANGED vars
    BY <2>5, NumberKept DEF vars
  <2> HIDE DEF IInv
  <2> QED
    BY <2>1, <2>2, <2>3, <2>4, <2>5 DEF Next
<1> QED
  BY <1>1, <1>2, PTL DEF Spec

\* However many writers race, with answers lost, the WHERE clause of
\* update_project_document never lets a save drop an edit that was answered 200.
THEOREM AckedEdits == Spec => []AckedEditsKept
<1>1. IInv => AckedEditsKept
  BY DEF AckedEditsKept
<1> QED
  BY <1>1, Invariant, PTL

\* A frozen revision holds every edit that was acknowledged before the request was sent,
\* however the statements of the requests and the saves interleave (create_job,
\* create_revision).
THEOREM RevisionCovers == Spec => []RevisionCoversAcked
<1>1. IInv => RevisionCoversAcked
  BY DEF RevisionCoversAcked
<1> QED
  BY <1>1, Invariant, PTL

\* Without faults, a retry with an Idempotency-Key is told of a job that is queued, or
\* is about to be (create_job).
THEOREM AnsweredJob == Spec => []AnsweredJobQueued
<1>1. IInv => AnsweredJobQueued
  BY DEF AnsweredJobQueued
<1> QED
  BY <1>1, Invariant, PTL

-----------------------------------------------------------------------------
(* The revision numbers *)

\* A request reads its number once; the numbers below it are committed, it is not
\* when its row is inserted, and no other open transaction has inserted it.
HeldInv ==
  /\ revs # {} => exists
  /\ \A r \in Requests : at[r] \in {"idle", "probe", "resolve"} => number[r] = 0
  /\ \A r \in Requests :
       at[r] \in {"freeze", "insert", "commit"} /\ exists =>
         \A n \in 1..(number[r] - 1) : n \in Numbers
  /\ \A r \in Requests :
       at[r] \in {"insert", "commit"} /\ number[r] # 0 => exists /\ number[r] \notin Numbers
  /\ \A r, s \in Requests :
       /\ at[r] \in {"insert", "commit"} /\ at[s] \in {"insert", "commit"}
       /\ number[r] # 0 /\ number[r] = number[s]
       => r = s

DenseInv == HeldInv /\ RevisionsDense


\* A step of r that leaves the rows and the numbers alone, and takes r no further
\* than its number allows.
LEMMA HeldStep ==
  ASSUME IInv, DenseInv, NEW r \in Requests, NEW p, UNCHANGED <<exists, revs, number>>,
         at' = [at EXCEPT ![r] = p], p # "freeze",
         p \in {"idle", "probe", "resolve"} => number[r] = 0,
         p \in {"insert", "commit"} => at[r] = "insert" \/ number[r] = 0
  PROVE  DenseInv'
<1>1. Numbers' = Numbers
  BY DEF Numbers
<1>2. RevisionsDense'
  BY <1>1 DEF DenseInv, RevisionsDense
<1>3. HeldInv'
  BY <1>1 DEF DenseInv, HeldInv, IInv, Types
<1> QED
  BY <1>2, <1>3 DEF DenseInv

\* The number a request reads is one more than the numbers there are.
LEMMA MaxNumberHighest ==
  ASSUME IInv, DenseInv
  PROVE  /\ MaxNumber \in Nat
         /\ \A n \in 1..MaxNumber : n \in Numbers
<1>1. CASE revs = {}
  BY <1>1 DEF MaxNumber
<1>2. CASE revs # {}
  <2>1. MaxNumber \in Numbers
    BY <1>2 DEF MaxNumber, IInv, NumberInv
  <2>2. PICK v \in revs : v.n = MaxNumber
    BY <2>1 DEF Numbers
  <2>3. v.n \in Nat
    BY DEF IInv, Types
  <2> QED
    BY <2>2, <2>3 DEF DenseInv, RevisionsDense
<1> QED
  BY <1>1, <1>2

LEMMA ReadMaxDense ==
  ASSUME IInv, DenseInv, NEW r \in Requests, ReadMax(r)
  PROVE  DenseInv'
<1>1. Numbers' = Numbers /\ UNCHANGED <<exists, revs>>
  BY DEF ReadMax, rowVars, Numbers
<1>2. RevisionsDense'
  BY <1>1 DEF DenseInv, RevisionsDense
<1>3. /\ number' = [number EXCEPT ![r] = MaxNumber + 1]
      /\ at' = [at EXCEPT ![r] = "freeze"]
  BY DEF ReadMax, Goto
<1>4. MaxNumber \in Nat /\ \A n \in 1..MaxNumber : n \in Numbers
  BY MaxNumberHighest
<1>5. HeldInv'
  BY <1>1, <1>3, <1>4 DEF DenseInv, HeldInv, IInv, Types
<1> QED
  BY <1>2, <1>5 DEF DenseInv

LEMMA InsertRevisionDense ==
  ASSUME IInv, DenseInv, NEW r \in Requests, InsertRevision(r)
  PROVE  DenseInv'
<1>1. CASE EndSession(r, "error")
  BY <1>1, HeldStep DEF InsertRevision, EndSession, Goto, rowVars
<1>2. CASE /\ exists /\ number[r] \notin Numbers /\ FrozenIn(number[r]) = {}
           /\ Goto(r, IF r \in JobRequests THEN "insert" ELSE "commit")
  <2>1. Numbers' = Numbers /\ UNCHANGED <<exists, revs, number>>
    BY DEF InsertRevision, rowVars, Numbers
  <2>2. RevisionsDense'
    BY <2>1 DEF DenseInv, RevisionsDense
  <2>3. PICK p \in {"insert", "commit"} : at' = [at EXCEPT ![r] = p]
    BY <1>2 DEF Goto
  <2>4. \A s \in Requests : at[s] \in {"insert", "commit"} => number[s] # number[r]
    BY <1>2 DEF FrozenIn
  <2>5. at[r] = "freeze"
    BY DEF InsertRevision
  <2>6. HeldInv'
    BY <1>2, <2>1, <2>3, <2>4, <2>5 DEF DenseInv, HeldInv, IInv, Types
  <2> QED
    BY <2>2, <2>6 DEF DenseInv
<1> QED
  BY <1>1, <1>2 DEF InsertRevision

LEMMA CommitDense ==
  ASSUME IInv, DenseInv, NEW r \in Requests, Commit(r)
  PROVE  DenseInv'
<1> DEFINE row == [n |-> number[r], doc |-> read[r], by |-> r]
<1>1. /\ UNCHANGED exists /\ at[r] = "commit"
      /\ number' = [number EXCEPT ![r] = 0]
      /\ at' = [at EXCEPT ![r] = IF r \in JobRequests THEN "enqueue" ELSE "answered"]
  BY DEF Commit
<1>2. CASE number[r] = 0
  <2>1. revs' = revs /\ Numbers' = Numbers
    BY <1>2 DEF Commit, Numbers
  <2>2. RevisionsDense'
    BY <2>1 DEF DenseInv, RevisionsDense
  <2>3. HeldInv'
    BY <1>1, <2>1 DEF DenseInv, HeldInv, IInv, Types
  <2> QED
    BY <2>2, <2>3 DEF DenseInv
<1>3. CASE number[r] # 0
  <2>1. revs' = revs \cup {row} /\ row.n = number[r]
    BY <1>3 DEF Commit, Freeze
  <2>2. exists /\ number[r] \notin Numbers /\ number[r] \in Nat
        /\ \A n \in 1..(number[r] - 1) : n \in Numbers
    BY <1>1, <1>3 DEF DenseInv, HeldInv, IInv, Types
  <2> HIDE DEF row
  <2>3. Numbers' = Numbers \cup {number[r]}
    BY <2>1 DEF Numbers
  <2>4. ASSUME NEW v \in revs', NEW n \in 1..v.n PROVE n \in Numbers'
    <3>1. CASE v \in revs
      BY <2>3, <2>4, <3>1 DEF DenseInv, RevisionsDense
    <3>2. CASE v = row
      BY <2>1, <2>2, <2>3, <2>4, <3>2
    <3> QED
      BY <2>1, <3>1, <3>2
  <2>5. ASSUME NEW u \in revs', NEW v \in revs', u.n = v.n PROVE u = v
    <3>1. CASE u \in revs /\ v \in revs
      BY <2>5, <3>1 DEF DenseInv, RevisionsDense
    <3>2. \A x \in revs : x.n # row.n
      BY <2>1, <2>2 DEF Numbers
    <3> QED
      BY <2>1, <2>5, <3>1, <3>2
  <2>6. RevisionsDense'
    BY <2>4, <2>5 DEF RevisionsDense
  <2>7. revs' # {} => exists'
    BY <1>1, <2>2
  <2>8. \A s \in Requests : s # r /\ at[s] \in {"insert", "commit"} => number[s] # number[r]
    BY <1>1, <1>3 DEF DenseInv, HeldInv
  <2>9. HeldInv'
    BY <1>1, <1>3, <2>3, <2>7, <2>8 DEF DenseInv, HeldInv, IInv, Types
  <2> QED
    BY <2>6, <2>9 DEF DenseInv
<1> QED
  BY <1>2, <1>3

\* Revision numbers are dense and used once, however requests race, fail and roll
\* back (create_revision under the unique key on project and number).
THEOREM Dense == Spec => []RevisionsDense
<1>1. Init => DenseInv
  BY DEF Init, DenseInv, HeldInv, RevisionsDense, Numbers
<1>2. IInv /\ DenseInv /\ [Next]_vars => DenseInv'
  <2> SUFFICES ASSUME IInv, DenseInv, [Next]_vars PROVE DenseInv'
    OBVIOUS
  <2>1. ASSUME UNCHANGED <<exists, revs, at, number>> PROVE DenseInv'
    BY <2>1 DEF DenseInv, HeldInv, RevisionsDense, Numbers
  <2>2. ASSUME NEW w \in Writers, Load(w) \/ Save(w) PROVE DenseInv'
    BY <2>1, <2>2 DEF Load, Save, rowVars, requestVars
  <2>3. ASSUME NEW r \in Requests, ReadProject(r) PROVE DenseInv'
    BY <2>3, HeldStep DEF ReadProject, Goto, rowVars, DenseInv, HeldInv
  <2>4. ASSUME NEW r \in Requests, Crash(r) PROVE DenseInv'
    BY <2>4, HeldStep DEF Crash, EndSession, Goto, rowVars
  <2>5. ASSUME NEW r \in Requests, Probe(r) PROVE DenseInv'
    BY <2>5, HeldStep DEF Probe, EndSession, Goto, rowVars, DenseInv, HeldInv
  <2>6. ASSUME NEW r \in Requests, ResolveRevision(r) PROVE DenseInv'
    BY <2>6, HeldStep DEF ResolveRevision, EndSession, Goto, rowVars, DenseInv, HeldInv
  <2>7. ASSUME NEW r \in Requests, InsertJob(r) PROVE DenseInv'
    BY <2>7, HeldStep DEF InsertJob, EndSession, Goto, rowVars
  <2>8. ASSUME NEW r \in Requests, Enqueue(r) \/ Record(r) \/ Reply(r) PROVE DenseInv'
    BY <2>8, HeldStep DEF Enqueue, Record, Reply, Goto, rowVars
  <2>9. CASE Delete
    <3>1. revs' = {} /\ exists' = FALSE /\ UNCHANGED <<at, number>>
      BY <2>9 DEF Delete, requestVars
    <3>2. \A r \in Requests : at[r] \in {"insert", "commit"} => number[r] = 0
      BY <2>9 DEF Delete
    <3> QED
      BY <3>1, <3>2 DEF DenseInv, HeldInv, RevisionsDense, Numbers
  <2>10. CASE UNCHANGED vars
    BY <2>1, <2>10 DEF vars
  <2> QED
    BY <2>2, <2>3, <2>4, <2>5, <2>6, <2>7, <2>8, <2>9, <2>10, ReadMaxDense,
       InsertRevisionDense, CommitDense DEF Next, Serve
<1>3. DenseInv => RevisionsDense
  BY DEF DenseInv
<1> QED
  BY <1>1, <1>2, <1>3, Invariant, PTL DEF Spec

\* The rows, the clients and the open requests keep their types, and the revisions of the
\* project their numbers.
THEOREM TypeCorrect == Spec => []TypeOK
<1>1. IInv => Types
  BY DEF IInv
<1> QED
  BY <1>1, Invariant, Dense, PTL DEF TypeOK
=============================================================================
