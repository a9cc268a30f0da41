---------------------------- MODULE ProjectStore ----------------------------
(* One project in the database and the requests that change it: the optimistic
   save of its document (PUT /projects/<id>/document), the freezing of revisions
   (POST /projects/<id>/revisions) and the intake of jobs with an
   Idempotency-Key (POST /projects/<id>/jobs): api/projects.py, api/jobs.py,
   repositories/projects.py, repositories/revisions.py, repositories/jobs.py.

   A session is a READ COMMITTED transaction, so each of its statements is a
   step of its own and sees what was committed before it.  An insert waits for
   an open transaction that holds the same unique key.  A save is one UPDATE.

   A document is the set of edits it contains; an edit is <<writer, number>>. *)
EXTENDS Naturals, FiniteSets

CONSTANTS
  Writers,     \* clients that load and save the document
  Requests,    \* requests that freeze a revision
  JobRequests, \* those of them that create a job, the others only freeze
  Key,         \* Key[r]: the Idempotency-Key header of r, or NoKey
  NoKey,
  NoDraft,     \* nothing loaded
  NoRequest,
  MaxSaves,    \* bound: saves of one writer
  FaultKinds,  \* what may go wrong: "response", "enqueue", "crash", "delete"
  MaxFaults    \* bound: faults in one behaviour

ASSUME StoreAssumption ==
  /\ JobRequests \subseteq Requests
  /\ NoRequest \notin Requests
  /\ IsFiniteSet(Requests)
  /\ DOMAIN Key = Requests
  /\ \A r \in Requests \ JobRequests : Key[r] = NoKey
  /\ NoDraft \notin [version : Nat, doc : SUBSET (Writers \X Nat)]
  /\ MaxSaves \in Nat /\ MaxFaults \in Nat

VARIABLES
  exists,  \* the projects row is there
  draft,   \* its draft_version and document
  revs,    \* committed project_revisions rows
  jobs,    \* committed solver_jobs rows, named after the request that made them
  queued,  \* jobs arq has been given
  seen,    \* seen[w]: the version and document writer w works on
  saves,   \* saves[w]: saves of w so far
  acked,   \* edits whose save was answered 200
  at,      \* at[r]: the next statement of request r
  asked,   \* asked[r]: acked when r began
  read,    \* read[r]: the document r read with the project
  number,  \* number[r]: max(revision_number) + 1 as r read it, 0 for none
  names,   \* names[r]: the job r answers with
  faults

requestVars == <<at, asked, read, number, names>>
writerVars == <<seen, saves, acked>>
rowVars == <<exists, draft, revs, jobs>>
vars == <<exists, draft, revs, jobs, queued, seen, saves, acked,
          at, asked, read, number, names, faults>>

Edits == Writers \X (1..MaxSaves)
Draft == [version : Nat, doc : SUBSET Edits]

Types ==
  /\ exists \in BOOLEAN
  /\ draft \in Draft
  /\ revs \subseteq [n : Nat, doc : SUBSET Edits, by : Requests]
  /\ jobs \subseteq JobRequests
  /\ queued \subseteq JobRequests
  /\ seen \in [Writers -> Draft \cup {NoDraft}]
  /\ saves \in [Writers -> 0..MaxSaves]
  /\ acked \subseteq Edits
  /\ at \in [Requests -> {"idle", "probe", "resolve", "freeze", "insert", "commit", "enqueue",
                          "record", "reply", "answered", "missing", "error"}]
  /\ asked \in [Requests -> SUBSET Edits]
  /\ read \in [Requests -> SUBSET Edits]
  /\ number \in [Requests -> Nat]
  /\ names \in [Requests -> Requests \cup {NoRequest}]
  /\ faults \in 0..MaxFaults

Init ==
  /\ exists = TRUE
  /\ draft = [version |-> 1, doc |-> {}]
  /\ revs = {} /\ jobs = {} /\ queued = {}
  /\ seen = [w \in Writers |-> NoDraft]
  /\ saves = [w \in Writers |-> 0]
  /\ acked = {}
  /\ at = [r \in Requests |-> "idle"]
  /\ asked = [r \in Requests |-> {}]
  /\ read = [r \in Requests |-> {}]
  /\ number = [r \in Requests |-> 0]
  /\ names = [r \in Requests |-> NoRequest]
  /\ faults = 0

Fault(k) ==
  /\ k \in FaultKinds
  /\ faults < MaxFaults
  /\ faults' = faults + 1

-----------------------------------------------------------------------------
(* Saving the document *)

\* GET /projects/<id>, by a writer that has a save left to make.
Load(w) ==
  /\ exists /\ saves[w] < MaxSaves
  /\ seen' = [seen EXCEPT ![w] = draft]
  /\ UNCHANGED <<rowVars, queued, saves, acked, requestVars, faults>>

\* Mutation of SaveMatches: the UPDATE has no condition on draft_version.
SaveUnconditional(w) == exists

\* The WHERE clause of update_project_document.
SaveMatches(w) == exists /\ draft.version = seen[w].version

\* update_document: the writer adds an edit to what it works on and sends the
\* whole document with the version it loaded.  The answer of a save that was
\* applied may get lost; a 409 makes the writer load again.
Save(w) ==
  /\ seen[w] # NoDraft /\ saves[w] < MaxSaves
  /\ saves' = [saves EXCEPT ![w] = @ + 1]
  /\ LET edit == <<w, saves[w] + 1>>
         saved == [version |-> seen[w].version + 1, doc |-> seen[w].doc \cup {edit}]
     IN \/ /\ SaveMatches(w)
           /\ draft' = saved
           /\ \/ /\ seen' = [seen EXCEPT ![w] = saved]
                 /\ acked' = acked \cup {edit}
                 /\ UNCHANGED faults
              \/ Fault("response") /\ UNCHANGED <<seen, acked>>
        \/ /\ ~SaveMatches(w)
           /\ seen' = [seen EXCEPT ![w] = NoDraft]
           /\ UNCHANGED <<draft, acked, faults>>
  /\ UNCHANGED <<exists, revs, jobs, queued, requestVars>>

\* DELETE /projects/<id> takes revisions and jobs with it.  It waits for open
\* transactions that have inserted a row that refers to the project.
Delete ==
  /\ exists
  /\ \A r \in Requests : at[r] # "commit" /\ (at[r] = "insert" => number[r] = 0)
  /\ Fault("delete")
  /\ exists' = FALSE
  /\ revs' = {} /\ jobs' = {}
  /\ UNCHANGED <<draft, queued, writerVars, requestVars>>

-----------------------------------------------------------------------------
(* Freezing a revision and creating a job *)

Goto(r, p) == at' = [at EXCEPT ![r] = p]

\* The session of r is over, and with it what it has read.
EndSession(r, p) == Goto(r, p) /\ read' = [read EXCEPT ![r] = {}]

Numbers == {v.n : v \in revs}

MaxNumber == IF revs = {} THEN 0 ELSE CHOOSE n \in Numbers : \A m \in Numbers : m <= n

\* The open transactions that have inserted a revision, or a job.
FrozenIn(n) == {s \in Requests : at[s] \in {"insert", "commit"} /\ number[s] = n}
InsertedIn(k) == {s \in JobRequests : at[s] = "commit" /\ Key[s] = k /\ k # NoKey}

\* The committed jobs with the key of r.
SameKey(r) == {s \in jobs : Key[s] = Key[r] /\ Key[r] # NoKey}

\* The first statement of both handlers.
ReadProject(r) ==
  /\ at[r] = "idle"
  /\ asked' = [asked EXCEPT ![r] = acked]
  /\ IF exists
     THEN read' = [read EXCEPT ![r] = draft.doc]
          /\ Goto(r, IF r \in JobRequests THEN "probe" ELSE "resolve")
     ELSE Goto(r, "missing") /\ UNCHANGED read
  /\ UNCHANGED <<rowVars, queued, writerVars, number, names, faults>>

\* create_job, "idempotency probe before insert".
Probe(r) ==
  /\ at[r] = "probe"
  /\ IF SameKey(r) # {}
     THEN \E s \in SameKey(r) : names' = [names EXCEPT ![r] = s] /\ EndSession(r, "reply")
     ELSE Goto(r, "resolve") /\ UNCHANGED <<names, read>>
  /\ UNCHANGED <<rowVars, queued, writerVars, asked, number, faults>>

\* create_job, a revision the client names; it must be one of this project.
ResolveRevision(r) ==
  /\ at[r] = "resolve" /\ r \in JobRequests
  /\ \/ revs # {} /\ Goto(r, "insert") /\ UNCHANGED read
     \/ EndSession(r, "missing")
  /\ UNCHANGED <<rowVars, queued, writerVars, asked, number, names, faults>>

\* Mutation of ReadMax: the SELECT sees what open transactions have inserted.
ReadMaxUncommitted(r) ==
  /\ at[r] = "resolve"
  /\ number' = [number EXCEPT ![r] =
       IF FrozenIn(MaxNumber + 1) = {} THEN MaxNumber + 1 ELSE MaxNumber + 2]
  /\ Goto(r, "freeze")
  /\ UNCHANGED <<rowVars, queued, writerVars, asked, read, names, faults>>

\* create_revision, SELECT coalesce(max(revision_number), 0), for a request that
\* names no revision.
ReadMax(r) ==
  /\ at[r] = "resolve"
  /\ number' = [number EXCEPT ![r] = MaxNumber + 1]
  /\ Goto(r, "freeze")
  /\ UNCHANGED <<rowVars, queued, writerVars, asked, read, names, faults>>

\* Mutation of InsertRevision: the SELECT has locked the number for sharing, and
\* the insert waits for everybody else who has.
InsertRevisionShared(r) ==
  /\ at[r] = "freeze"
  /\ \/ (~exists \/ number[r] \in Numbers) /\ EndSession(r, "error")
     \/ /\ exists /\ number[r] \notin Numbers /\ FrozenIn(number[r]) = {}
        /\ \A s \in Requests \ {r} : ~(at[s] = "freeze" /\ number[s] = number[r])
        /\ Goto(r, IF r \in JobRequests THEN "insert" ELSE "commit") /\ UNCHANGED read
  /\ UNCHANGED <<rowVars, queued, writerVars, asked, number, names, faults>>

\* create_revision, the insert: unique per (project_id, revision_number), with a
\* foreign key to the project.
InsertRevision(r) ==
  /\ at[r] = "freeze"
  /\ \/ (~exists \/ number[r] \in Numbers) /\ EndSession(r, "error")
     \/ /\ exists /\ number[r] \notin Numbers /\ FrozenIn(number[r]) = {}
        /\ Goto(r, IF r \in JobRequests THEN "insert" ELSE "commit") /\ UNCHANGED read
  /\ UNCHANGED <<rowVars, queued, writerVars, asked, number, names, faults>>

\* jobs_repo.create_job: unique per (project_id, idempotency_key) where a key is given.
InsertJob(r) ==
  /\ at[r] = "insert"
  /\ \/ (~exists \/ SameKey(r) # {}) /\ EndSession(r, "error")
     \/ /\ exists /\ SameKey(r) = {} /\ InsertedIn(Key[r]) = {}
        /\ Goto(r, "commit") /\ UNCHANGED read
  /\ UNCHANGED <<rowVars, queued, writerVars, asked, number, names, faults>>

\* Mutation of Freeze: the newest revision is frozen again, not the document.
FreezeNewest(r) ==
  revs' = revs \cup {[n |-> number[r], by |-> r,
                      doc |-> IF revs = {} THEN read[r]
                              ELSE (CHOOSE v \in revs : v.n = MaxNumber).doc]}

\* What a commit adds to project_revisions.
Freeze(r) == revs' = revs \cup {[n |-> number[r], doc |-> read[r], by |-> r]}

\* The transaction commits, and the session ends.
Commit(r) ==
  /\ at[r] = "commit"
  /\ EndSession(r, IF r \in JobRequests THEN "enqueue" ELSE "answered")
  /\ number' = [number EXCEPT ![r] = 0]
  /\ IF number[r] = 0 THEN UNCHANGED revs ELSE Freeze(r)
  /\ IF r \in JobRequests
     THEN jobs' = jobs \cup {r} /\ names' = [names EXCEPT ![r] = r]
     ELSE UNCHANGED <<jobs, names>>
  /\ UNCHANGED <<exists, draft, queued, writerVars, asked, faults>>

\* Mutation of Enqueue: a job with an Idempotency-Key is taken for a reused one.
EnqueueUnkeyed(r) ==
  /\ at[r] = "enqueue"
  /\ IF Key[r] = NoKey THEN queued' = queued \cup {r} ELSE UNCHANGED queued
  /\ Goto(r, "record")
  /\ UNCHANGED <<rowVars, writerVars, asked, read, number, names, faults>>

\* create_job hands the job to arq; an exception is logged and swallowed.
Enqueue(r) ==
  /\ at[r] = "enqueue"
  /\ \/ queued' = queued \cup {r} /\ UNCHANGED faults
     \/ Fault("enqueue") /\ UNCHANGED queued
  /\ Goto(r, "record")
  /\ UNCHANGED <<rowVars, writerVars, asked, read, number, names>>

\* create_job stores queue_job_id; a missing row is a LookupError.
Record(r) ==
  /\ at[r] = "record"
  /\ Goto(r, IF exists THEN "reply" ELSE "error")
  /\ UNCHANGED <<rowVars, queued, writerVars, asked, read, number, names, faults>>

\* create_job reads the row again and answers with it.
Reply(r) ==
  /\ at[r] = "reply"
  /\ Goto(r, IF exists THEN "answered" ELSE "missing")
  /\ UNCHANGED <<rowVars, queued, writerVars, asked, read, number, names, faults>>

Over == {"answered", "missing", "error"}

\* The API process dies, or the session fails: an open transaction is rolled back.
Crash(r) ==
  /\ at[r] \notin Over \cup {"idle"}
  /\ Fault("crash")
  /\ EndSession(r, "error")
  /\ UNCHANGED <<rowVars, queued, writerVars, asked, number, names>>

-----------------------------------------------------------------------------
Serve(r) ==
  \/ Probe(r) \/ ResolveRevision(r) \/ ReadMax(r) \/ InsertRevision(r)
  \/ InsertJob(r) \/ Commit(r) \/ Enqueue(r) \/ Record(r) \/ Reply(r)

Next ==
  \/ \E w \in Writers : Load(w) \/ Save(w)
  \/ \E r \in Requests : ReadProject(r) \/ Serve(r) \/ Crash(r)
  \/ Delete

Spec == Init /\ [][Next]_vars

\* A handler that has begun goes on: the event loop runs it, and the database
\* wakes a waiting insert when the transaction it waits for is over.
Fairness == \A r \in Requests : WF_vars(Serve(r))

FairSpec == Spec /\ Fairness

-----------------------------------------------------------------------------
(* Properties *)

\* "revision_number is dense per project": no two revisions have one number and
\* none is left out below another, whatever is rolled back.
RevisionsDense ==
  /\ \A v \in revs : \A n \in 1..v.n : n \in Numbers
  /\ \A u, v \in revs : u.n = v.n => u = v

\* The rows, the clients and the open requests are of their types, and the numbers
\* are as the table of revisions has them.
TypeOK == Types /\ RevisionsDense

\* No lost update: an edit whose save was answered 200 is never dropped by a
\* writer that had loaded an older document.
AckedEditsKept == exists => acked \subseteq draft.doc

\* What a client saw saved before it asked is in the revision that its request
\* froze: a job never solves a document older than the request.
RevisionCoversAcked == \A v \in revs : asked[v.by] \subseteq v.doc

\* A client that is told of a job, by the request that created it or by a retry
\* that found the row, is told of one that some worker will see.  Only a fault
\* breaks this: after an enqueue that failed, or a crash before it, a retry with
\* the key answers with a row that nobody will ever run.  A retry that runs ahead
\* of the first request's enqueue is told of the job before it is queued.
AnsweredJobQueued ==
  faults = 0 =>
    \A r \in JobRequests :
      at[r] = "answered" => names[r] \in queued \/ at[names[r]] = "enqueue"

\* Another request has committed the number r read, or a job under the key of r.
Lost(r) == number[r] \in Numbers \/ SameKey(r) # {}

\* Requests that hold a revision number while they wait for a key, or wait for a
\* number, never wait in a circle: each ends, and one that nothing went wrong for
\* ends in an error only if another got what it was after.  (create_revision
\* promises more: "the second sees the first's insert and writes max+2".  But the
\* second has read its maximum by then, and is the one that fails.)
RequestsEnd ==
  (\E r \in Requests : at[r] \notin Over \cup {"idle"}) ~>
    \A r \in Requests :
      \/ at[r] \in {"idle", "answered", "missing"}
      \/ at[r] = "error" /\ (Lost(r) \/ faults > 0)

=============================================================================
