# AutoBoard in TLA+

AutoBoard turns a netlist into a breadboard or perfboard layout. A browser page
edits one JSON document per project, an API process stores it and accepts jobs, a
worker process places, routes, optimises and exports, and PostgreSQL, Redis (with
the arq queue) and S3 stand between them. These modules model the parts of the
system whose correctness depends on the order in which those processes act, and the
algorithms inside a job: placement, routing, validation, the solve and optimise loops
and the perfboard's placers and copper. TLC checks them on small instances, and TLAPS
proves what they promise, liveness apart, for every value of the constants: eight modules
of proofs.

    tlc -config SolverJob_alone.cfg MCSolverJob     # one of the runs
    tlapm SolverJobProofs.tla                       # the proofs of one component

## 1. Inventory

Paths are under `src/backend/app` unless they begin with `frontend`.

| Component | State | Operations | What makes it correct |
|---|---|---|---|
| Solver jobs: `api/jobs.py`, `jobs/solver_job.py`, `repositories/jobs.py`, `worker.py` | the `solver_jobs` row, `layouts` rows, arq's queue entry and try count, the Redis lock and cancel flag, and per attempt: the poller, the progress bridge and the drain task | create, cancel, poll; pick, run, retry, abort; acquire, solve, store, write, release | a final status stays; the result is the newest layout; one attempt per target holds the lock; every queued job ends; locks are given back |
| Documents and revisions: `api/projects.py`, `repositories/projects.py`, `repositories/revisions.py` | `projects.document` with `draft_version`, `project_revisions` | load, save (If-Match), freeze, delete | no acknowledged edit is lost; revisions are numbered 1, 2, 3; a job's revision contains what its client saw saved |
| Job intake: `api/jobs.py` create_job | `solver_jobs` with its unique Idempotency-Key | probe, freeze, insert, enqueue, record | one key names one job; an answered job is queued; requests do not block each other for ever |
| Exports: `api/exports.py`, `jobs/export_job.py`, `jobs/retention.py`, `services/storage.py` | the `exports` row and the S3 object under its key | create, render, upload, download, purge | a succeeded row has its bytes and their checksum; expired rows go; nothing is left behind |
| Editor page: `frontend/src/routes/projects/[id]/+page.svelte`, `lib/state/project.svelte.ts`, `lib/debounce.ts` | the document in memory, undo and redo stacks, draft version, the debounced save, a job being polled | edit, undo, autosave, reload, start a job, apply its result | edits reach the server or the user is told; undo and the document agree |
| Connectivity and validation: `domain/dsu.py`, `connectivity.py`, `index.py`, `validate.py`, `score.py` | none (pure) | build the net partition, list shorts, opens and conflicts, count what is done | the partition is the transitive closure of strips and jumpers; a layout without an error is the circuit |
| Placement: `domain/place.py`, `poses.py`, `cluster.py` | the state of one attempt with its mask of taken holes, the best attempt | candidate poses, greedy pass, five moves, restarts | no two parts share a hole and the mask says which are taken; locked parts stay; each part is placed or reported |
| Routing: `domain/route.py`, `steiner.py`, `cost.py` | occupied holes, jumpers of one call | order nets, connect, rip up | a routed net is connected and no other net is shorted |
| Solve and optimise: `domain/solve.py` | best layout so far, deadline, cancel event | place, route, perturb, accept | cancel and deadline end it; what is locked stays; the verdict tells the truth |
| Perfboard: `domain/traces/*` | candidates and no-goods of the CP-SAT placer, the greedy placer's attempt, the two-layer maze with its usage | search, retry, evaluate, fall back, route by maze, validate | candidates do not overlap and differ; the best one wins; copper joins what it is said to join; cancel ends it |
| Schematic: `frontend/src/lib/schematic/*` | none (pure) | derive the netlist, prune the layout | wires that meet are one net |
| Registries, renderers, process shell | static tables, configuration | | not modelled, see section 8 |

In the first five rows the hard behaviours are those of several processes: they write
one row; sessions commit between awaits; arq re-delivers, gives up and aborts; a lock,
an abort mark and an in-progress key have lives of their own; a browser saves while
it edits. In the others they are those of long sequential searches: a mask and a list of
indices that must stay true to what they describe, state that one loop leaves for the
next, choices made at random, and flags and clocks that are looked at here and there.
`PROJECT.json` lists each hazard at its line with the properties that
would notice it.

How the parts meet: the page calls the API over HTTP; the API and the worker share
rows and never talk to each other, except through the queue and the cancel flag;
the worker's solver thread reaches its event loop only through the progress bridge
and the cancel event; exports read layouts and documents; deleting a project
cascades to revisions, jobs, layouts and exports, but not to S3.

## 2. Plan

Done, in this order:

1. `JobLifecycle`, `SolverJob`, `SolverJobProofs`: the abstract life of a row, the
   system that implements it, and proofs of both.
2. `ProjectStore`, `ProjectStoreProofs`: saves, revisions and job intake.
3. `Exports`, `ExportsProofs`: rows, objects and the purge.
4. `UndoHistory`, `Editor`, `EditorProofs`: the page with the optimistic save of the
   server, its undo and redo as an implementation of one list.
5. `Connectivity`, `Router`: the nodes of a layout, and the router over several jobs.
6. `Poses`, `Clusters`, `Placer`: where a part may lie, what belongs together, and the
   placer with its local search.
7. `Validator`, `Solve`, `SolveProofs`: every diagnostic and both scores; the solve and
   optimise loops over placer and validator.
8. `PerfPlacer`, `Traces`, `PerfSolve`, `PerfProofs`: the placers, the trace router and
   the operations of a perfboard.
9. `ConnectivityProofs`, `RouterProofs`, the theorems about layouts, placements and
   copper in the modules of proofs before them, and the types of `Solve` and `PerfSolve`.

Every safety property that a run checks is now a theorem as well.

Left: the union-find's trees as an implementation of the partition;
the schematic's netlist derivation; and `Solve` over the whole of `Router` instead of
its cut-down form, which takes more states than a run can have.

How the modules are composed: `SolverJob` implements `JobLifecycle` and `Editor`
implements `UndoHistory`, both by `INSTANCE ... WITH`. `Router` and `Validator` judge
layouts by `Connectivity`. `Placer` extends `Clusters`, which extends `Poses`; `Solve`
extends `Placer` and `Validator`. `PerfPlacer` instantiates `Placer` on a grid, and
`PerfSolve` runs it beside CP-SAT and hands its result to `Traces`.

## 3. Modules and the code

### SolverJob

One row per element of `Jobs`. The granularity is the code's: a database session
commits or does nothing, so it is one action; so is each Redis call; between two of
them everything else may happen. `api[j]` is where the request that creates `j`
is, `arq[j]` the queue's view of it, `pc[j]` where the coroutine is:

| `pc` | code in `run_solver_job` | actions |
|---|---|---|
| `read` | step 1, the row is read | `ReadRow`, `FailEarly` |
| `lock` | steps 2 to 4: SET NX, poller, bridge | `AcquireLock`, `FailEarly` |
| `mark` | step 5, "running", outside the try block | `MarkRunning`, `FailEarly` |
| `solve` | the operation's body in its thread | `PushProgress`, `PollCancel`, `SolverReturns`, `SolverRaises` |
| `layout` | create_layout | `CreateLayout` |
| `drain` | `_finish_progress` before a status write | `FinishProgress` |
| `write` | the status write that ends the try | `WriteOutcome`, `WriteOutcomeFails` |
| `cleanup`, `release` | the finally block | `Cleanup`, `ReleaseLock` |
| `end` | arq sees the result | `Settle` |

`DrainItem` is one turn of `_drain_progress` and may happen at any point while the
drain task lives. `CreateJob`, `Enqueue` and `RecordQueueId` are the three parts of
`create_job`; `RequestCancel` and `AbortArq` those of `cancel_job`. arq and the TTLs
of Redis are outside the repository (`Pick`, `GiveUp`, `Settle`, `WorkerCrash`,
`InProgressExpires`, `Interrupt`, `LockExpires`, `CancelFlagExpires`) and are modelled
from the settings the code gives them: at most `MaxTries` tries, `Retry` and
cancellation re-queue, anything else ends the job. `LockExpires` never hits a running
attempt because the lock's 900 s exceed the job timeout of 660 s.

Data that no property tells apart is gone: operations are reduced to whether they
take callbacks (`Interactive`) and yield a layout (`LayoutJobs`), payloads, scores,
timings and events are left out. Whether `Job.abort` reaches arq is left open,
because its errors are swallowed and the connection it is given decodes replies.

A timeout or a shutdown ends the coroutine at its await, and `asyncio.to_thread` does not
stop the solver's thread with it: the finally block sets the cancel event and releases the
lock, and the thread goes on until it looks at the event or meets its deadline. `late[j]`
counts such threads, `Interrupt` makes one and `LateSolverEnds` is its end. It reaches
neither database nor Redis; what it pushes lies behind the sentinel in a queue that nobody
reads any more.

Faults are switched on by kind (`FaultKinds`) and counted (`MaxFaults`), so that a
property may say "unless something broke": a swallowed enqueue error, an API crash,
a failing session, a Redis error, a stalled drain, a timeout or shutdown, a worker
crash, a deleted project.

### JobLifecycle

What a client may rely on when it polls: absent, queued, running, final, and the one
irregular edge, the API's second write. `SolverJob` implements it with
`pending[j]` = "the request is between its two sessions".

### ProjectStore

`draft` is the projects row, with a document as the set of edits it contains, so
that a lost update is a missing element. A save is one UPDATE and one action. A
request that freezes a revision is a transaction of several statements, each an
action (`ReadProject`, `Probe`, `ReadMax` or `ResolveRevision`, `InsertRevision`,
`InsertJob`, `Commit`), because under READ COMMITTED each sees what has been
committed before it; the database's unique keys and foreign keys are guards of the
inserts: a duplicate that is committed fails the request, one that is not makes it
wait. When the session is over, so is what it has read (`EndSession`). Then come `Enqueue`,
`Record` and `Reply`. `POST /projects/<id>/revisions` is the same
transaction without the job.

### Exports

One export is a row (`status`, `sum`, `retain`), an object, a queue entry and an
attempt. Bytes are identified with the document version they were rendered from.
`Interrupt` cuts an attempt short: a crash may or may not leave the object behind; a
timeout or shutdown leaves the upload's thread running (`late`), and `LateUpload` is
that thread's end. The purge lists rows and takes object and row of each in two steps.

### Editor

The page's variables are those of `+page.svelte` (`saveState`, `lastSaved`, `load`,
`loadError`, `timer` for the debounced save) and of the project store (`document`,
`draftVersion`, `undoStack`, `redoStack`, `currentLayout`). `server` is the draft of
each project, `saves` the PUTs on the wire, `elsewhere` what other people have saved.
One action is one event handler, timer or continuation after an `await`, and at its
end the autosave effect of Svelte runs (`AutosaveEffect`), because effects are flushed
before the next event: a document that is not `lastSaved` restarts the timer. A
document is the project it was made for, the edits only it can have (`notes`), the
parts of its schematic and the pose of each placed part.

| Action | Code |
|---|---|
| `EditLayout`, `EditSchematic`, `EditNotes` | `handleLayoutMutation` and its callers, `applySchematic`, the settings and net handlers |
| `handleUndo`, `handleRedo` | the same, with `undo`, `redo` of the store |
| `startOperation`, `onApplySolverResult` | the same; the job's revision is frozen on the server in the first |
| `OpenProject`, `ReadProject`, `FinishLoad`, `FailLoad` | the load effect and `load()` before, between and after its awaits |
| `SaveDocument`, `SaveDocumentLeft` | the debounce timer fires, of this page or of one that was left: `saveDocument` up to its `await` |
| `UpdateDocument` | the one UPDATE of the server, as in `ProjectStore` |
| `SaveOk`, `SaveConflict`, `SaveFailed`, `AnswerLeft` | `saveDocument` after its `await`, of this page or of one that was left |
| `LoseSave`, `SaveElsewhere` | the network and other clients |

A project may be left at any time. By way of the project list (`OpenFromList`) the page is
a new one, with its own timer, `lastSaved` and `saveState`, while the store keeps what it
has; by the browser's history (`StayOnPage`) the page stays and only `params.id` changes.
No debounce is ever cancelled: a timer of a page that was left is in `leftTimers`,
and when it fires it saves what the store holds then, to the project that is open then. A save
on the wire keeps the page that sent it (`page`), and an answer to one that was left changes
the version in the store and nothing else that can be seen (`AnswerLeft`). `left` records
what was pending at such a change. While the list itself is shown, a timer that fires has no
project to save to and fails, which the model takes for a timer that was not there. Validation on the server, polling, selection and panels are left
out, since nothing they change is saved.

### UndoHistory

What undo and redo promise: one list of layouts, a place in it, and a limit.
`Editor` implements it with `undoStack`, `currentLayout` and the reversed `redoStack`
as the list.

### Connectivity

`Nodes(pairs)` is the partition of a board's holes that `build_connectivity` computes:
the groups of the board, then pairs joined inside parts, by jumpers and by manual
links, each a `union`. The union-find itself is taken for the partition it stands for.
`ReachableNodes` is the reference: holes with a path of groups and pairs between them.
The merges are made in an order that nothing depends on; `ConnectivityProofs` shows that.

### Router

`route()` as the jobs "route" and "solve" call it. The code is sequential and its
jobs are not: each works on what the last one and the user have left in the document,
so the module runs several, with edits in between. One action is one turn of one of the
code's loops:

| Action | Code |
|---|---|
| `RouteJob`, `SolveJob` | the operations of `run_solver_job`; solve hands over the jumpers of the document and the placer's placement |
| `FirstPass` | one net of the first loop: refused, too few pins, already connected, or routed |
| `FinishFirstPass`, `BeginRetries` | the test before the rounds |
| `StartRound` | a turn of the round loop up to the loop in `_reroute_subset` |
| `Reroute`, `EndRound` | one net of that loop; the connectivity after it |
| `FinishRetries` | the open nets at the end, and the result |
| `Timeout` | `_check_deadline` raises; only solve passes a deadline |
| `TakeResult`, `DrawJumper`, `DeleteJumper`, `LockJumpers` | what the page and other clients do with the document |

`base` is the layout the call was given, `todo` the nets that a loop has still to take, the
first of them by `_bucket` next; `new` is `new_jumpers`, `known` the pairs that
the connectivity in use was built from, `rails` is `rail_assignment`. Jumpers and
reports are sets, since nothing depends on the order in which a document lists them;
`new` keeps its order, by which `_rip_up` takes the newest. A rail is a group
whose id begins with "rail-". `RailHole` is the choice of a segment and of a hole in
it, `Trees` what `greedy_steiner` may return, `RipUp` what `_rip_up` returns.

Left out are path shapes, layers, crossings, colours, costs and the trace: nothing that
is joined depends on them. Lengths and columns are kept where the code sorts or filters
by them; distances are compared exactly, where the code compares floats. Every hole is
known and enabled, and no two pins share one. Which of equally near holes of its tree
`greedy_steiner` joins a new one to is left open: they are kept in a Python set of
strings, whose order differs from process to process. A "place" job and the placer's
choices are inputs (`Placements`).

### Poses, Clusters

`Poses` is what the placer knows of one part: `Candidates(r)`, the anchors, turns and spans
at which its pins meet holes, its body stays off the gap or straddles it as its footprint
demands, and connectors lie at an edge; the cells a pose covers, with its clearance; and
the cost of a pose among the parts that lie already. Costs are integers, `Unit` times
those of the code, so that its halves and thirds stay exact. `Clusters` is `cluster.py`: a
bypass capacitor belongs to the DIP whose supply it shares, other passives to the
anchor they share most nets with, and `Order` is the sequence in which the greedy pass
takes the parts, with the regrouping by cluster that `_stable_reorder_by_cluster` does
around remembered indices. One anchor after the other is a recursive function, as the code's
loop is; within a step the new order is given by a key per part, as Python's sorted() takes it,
and `Arranged` is the sequence of the parts by their keys.

### Placer

`place()` as one attempt after the other. `state` has `placed` (the document's
placements), `poses` (the candidates in use) and `taken` (the mask); `best` is the best
attempt so far.

| `pc` | code in `place.py` | actions |
|---|---|---|
| `seed` | `_seed_locked_placements`, the order | `Seed` |
| `greedy` | one part of `_greedy_pass` | `PlaceNext`, `GreedyEnds` |
| `search` | one iteration of `_local_search` | `Translate`, `RotatePart`, `Span`, `Swap`, `RelocateCluster`, `SearchEnds` |
| `finish` | the attempt's cost against the best one, the next restart | `FinishAttempt` |
| `done` | | |

A move is what the code does to the mask, in its order: lift the old cells, test, put the
new ones, and back again when the cost has not gone down. The clearance of a part covers
neighbours off the board as well, as in the code. A cluster's move puts each member down
while the others are still where they were; `TakenAfter` states what is left of the mask
in closed form. Random choices, of a move, a part, a candidate, are nondeterministic, so
TLC tries all of them; a move may also try and fail.

### Validator

`validate_layout` as the set of diagnostics it returns (`Diagnostics`, of which `Errors` are
the ones the code does not call warnings), each with the code's own test: placements that are off the board, share holes or do not straddle,
wires that end in taken or disabled holes, nets that are open, shorted or out of their
rail. `EditorScore` is `domain/score.py`, `JobScore` the score of a job's answer; they count
differently. `Builds` is the reference that `CleanMeansBuilt` compares with: two pins are joined by a path
if and only if they are of one net, and no hole has pins of two parts.

### Solve

| `phase` | code in `solve.py` | actions |
|---|---|---|
| `start` | the entry of both operations | `BeginSolve`, `BeginOptimize` |
| `place`, `route`, `routed` | `solve()` up to its checks after placing and routing | `PlaceStep`, `PlaceDone`, `Route`, `RouteDone` |
| `base`, `iterate` | the baseline of `optimize()` and a turn of its loop | `RouteBase`, `Iterate`, `IterationsOver` |
| `verify` | validation and score | `Verify` |

`Ask` sets the cancel flag and `Expire` lets the deadline pass, at any time; `Stop` is a
`_check_cancel` or `_check_deadline` that raises. A placer's step is one action, and none of
them looks at either, as in the code. `Iterate` lays a part as the code does: the collision
is tested with turned pins, the pins are laid unturned and one column to the left, the
placement may be accepted although parts share holes. The router is cut down to
which nets it wires: it counts all wires of the layout as connections, keeps the locked
ones only and wires what is open, hole by hole; rails, rip-up and paths are `Router`'s. A part
whose footprint nobody knows costs an iteration and changes nothing, so none is in the
instance.

### PerfPlacer, Traces, PerfSolve

`PerfPlacer` is `domain/traces/place.py`: the same placer on a grid of holes, with its two differences in cost: a
pin counts as its own neighbour, so the local search does not see how far a net goes, and
all four edges are edges. `Traces` is the maze of holes
and layers, `Way` its search, with vias if the board has copper on both sides
(`DoubleSided`), `WaysOf` the growth of a net's tree from pin to
nearest pin, with steps that earlier nets took made dearer, and `Route` the nets in their
order. The search is that of `maze_route`: rounds that pop the best entry of the heap, by cost
and what is left at least, until one has come to the target. An entry carries its way instead of
parent links, and how often a step was used is read off the traces instead of counted along;
of equal entries the code takes the oldest, the model some fixed one. The maze is connected and nothing is barred in it before a net has failed, so none
fails, and the rip-up that would follow is not modelled.

`PerfSolve` is the three operations of a perfboard. The CP-SAT library is outside the
repository: what it answers is any assignment that the model's hard constraints (one
candidate per part, no shared holes) and the no-goods allow, or nothing. What the code keeps
between two calls is in the model: `previous` is the assignment it reads back from the
placements of the last solution, by hole, span and turn (`Same`, `Recognised`), and `barred`
are those that the model has a no-good for (`Bar`); the second search has a new model, with
none. `waiting` records how many candidates were not evaluated when cancellation was asked
for; no guard reads it.

| Action | Code |
|---|---|
| `BeginGreedy`, `BeginEmpty`, `BeginSearch`, `BeginRoute` | the entries: another engine, nothing to place, `solve_cpsat_placement`, a route job |
| `Find`, `FindNothing`, `Retry`, `Collected` | one call of Solve, with a solution or without, its no-good, the second search with twice the limit, the end |
| `TakeUp`, `Evaluate`, `PassOver`, `EvaluationsOver` | `_evaluate_candidate` for one candidate |
| `EvaluateGreedy`, `Compare`, `Choose` | the greedy baseline and `_rank_outcomes` |
| `GreedyPlaces`, `GreedyAnswers`, `GreedyFails` | the fallback, as steps of `PerfPlacer` |
| `RoutePlaced`, `Verify` | copper and its verdict |
| `Ask`, `Cancel`, `RouteCancelled` | the flag, who sees it, and what the router makes of it |

Left out are CP-SAT's objective and the metrics by which equal verdicts are told apart
(vias, lengths, wall time): of candidates with equal verdicts any may win. Footprints
that nobody knows belong to no family.

## 4. Runs

| Run | Question | Bounds | States |
|---|---|---|---|
| `job_alone` | what may happen to one job and its row, and does it end? | 1 job, 3 tries, 2 items in the bridge, a cancel request, 3 faults of any of 8 kinds | 158,812 |
| `job_shared` | does the lock keep two jobs on one target apart? | 2 jobs, 2 slots, 2 tries, 2 faults; symmetric in the jobs | 332,233 |
| `job_collision` (violation) | does the loser of a lock run later, as documented? | 2 jobs, no faults | |
| `store_retry` | do saves, freezes and keyed job requests race safely? | 2 writers, 1 save each, 3 requests, 1 fault | 658,038 |
| `exports_retention` | do rows, objects and checksums agree, and do expired rows go? | 2 exports, 2 tries, 1 edit, 1 fault | 129,335 |
| `editor_autosave` | what do overlapping saves, loads and edits keep, and do undo and redo make sense? | 2 projects of one part with one pose, one own and one foreign note, stacks of 2, 2 saves on the wire, 3 acts of the user, one lost save and one failed load | 857,051 |
| `router_jobs` | which nets does a routed layout join, keep apart and report, after several jobs? | 14 holes, 9 strips, 2 rail segments, 4 nets with 9 pins, 3 placements, 3 documents, 0 or 2 rounds, 2 jobs, 1 edit | 34,151 |
| `router_rails` (violation) | does a rail belong to one net? | the same, 1 job | |
| `breadboard_solve` | what do the placer's moves do to parts and mask, what stays, when does a job stop, and what is a clean answer worth? | 6 x 4 holes with the gap and one split rail, 5 parts, 4 nets, 8 jobs over 7 documents, 2 restarts or 2 iterations | 14,582 |
| `place_locked` (violation) | does a locked part stay? | the same | |
| `perf_solve` | what may be found, which placement wins, what does copper join, when does a job stop? | 4 x 3 holes with copper on both sides, 5 parts, 4 nets, 11 jobs over 9 documents, 1 to 9 candidates and solutions | 6,044 |
| `perf_worse` (violation) | is the answer never worse than the greedy one? | the same, copper on one side | |

The bounds are the smallest at which each hazard happens. Three tries are arq's own
limit; three faults let each try end differently, for instance a crash, then a
failed success write, then a stalled drain. Two jobs are all a lock can tell apart.
Two writers and two requests with one key are the smallest races; the third request
is a second source of revision numbers. Two exports let the purge stop between
rows. In the editor three acts are an edit, another while its save is on the wire, and
a third that undoes, applies or leaves; a stack of two overflows within them because
loading fills it too. One pose of a part is enough, as a part that is placed and one that is
not make two layouts. The router's board has a net for each case of its loops (a refused
clock, a ground and a supply that want rails, a signal of three pins, two of which a
part joins), a placement in which the supply is near the ground's segment only and a
net that lacks pins, and documents with a locked wire, with a link that joins a
net already and with neither. Two jobs are the shortest sequence in which one works
on the other's result.

The breadboard of `breadboard_solve` has one part for each rule of the placer: a DIP that must
straddle, its bypass capacitor for a cluster, two equal resistors that turn, span and
swap, and a connector that wants an edge and keeps a clearance. Its documents lock none, one
that moves with others, one that is alone, the DIP, so many that a part finds no place, and
all but what `optimize` is to move. One iteration of the local search is followed by any move
from any greedy result; two let a move start from what a cluster's move has left of the mask. The perfboard's
documents leave two free parts for most searches, so that the answers of CP-SAT can be
enumerated; limits of 1, 3, 6 and 9 candidates make the first search fail and the second
succeed, or both fail. One document leaves a part three poses of which two start at one
hole, and a job on it asks for three solutions, so that reading a solution back by its hole
alone bars the wrong one. A greedy result strictly better than all candidates is reached, and
wins. A via is never the cheapest way on so small a board, so the run says nothing about
vias; `RoutedJoined` does. A netlist without nets, where the router never looks at the flag,
is left to the theorem `Stopped` too.

Deadlock is not checked because every model stops when its bounded inputs are
used up, or its job has answered; progress is a liveness property instead.

What the passing runs show, by property:

* `OnlyApiReopens`, `ImplementsLifecycle`: late progress writes, retries and second
  attempts never undo a final status. The API's second session does, and the abstract
  life says so.
* `SucceededNamesNewestLayout`: repeated tries leave rows behind but never a wrong
  result.
* `CancelledWasAsked`: the status "cancelled" has a request behind it.
* `LockExclusion`: one attempt per target between taking the lock and giving it back, with
  crashes and locks that expire. It is about attempts: the thread of an interrupted one may
  still run beside the next.
* `EnqueuedJobFinishes`: an undisturbed job becomes final.
* `AckedEditsKept`, `RevisionCoversAcked`: a save that was answered stays in the draft,
  and a revision has every edit whose save was answered before it was asked for.
* `AnsweredJobQueued`: an answered job is on its way to the queue unless something broke.
* `RequestsEnd`: transactions that hold a number while they wait for a key, or wait for a number,
  never wait in a circle; each ends, and in an error only if another request got the number or the
  key, or something broke.
* `TypeOK` of `ProjectStore` also says that revisions are numbered 1, 2, 3 (`RevisionsDense`).
* `SucceededHasObject`, `ChecksumMatchesObject`, `BrokenDownloadExpired`: a client that
  is told "succeeded" gets those bytes, until the row expires.
* `ExportSettles`, `ExpiredArePurged`: exports and purges end.
* `ElsewhereKept`, `OwnDocumentSaved`: the autosave does not undo another client's edits
  and does not save one project's document into another, unless a load has failed or the
  project was left too early: for the first with a save pending or on the wire, whose answer
  then sets the version that goes with another document; for the second with a save pending.
  Answers that come late do no harm to the second.
* `NothingUnsavedWhenQuiet`, `EditsSettle`: without a failed request, edits are saved or
  replaced by what the server has, and the page says so. What a reload replaces is lost.
* `ImplementsHistory`: undo and redo walk one list; its limit and the dropped redo
  entries are right.
* `OpenNetsReported`: a net that is not reported is joined by the wires that the call was
  given and those it laid. In the layout that is returned it is joined too, if the given
  wires were all locked or the rip-up loop was entered; in the case that is left, it may not
  be (section 7).
* `NetsApart`: before any round, the router shorts no nets, if the rails of the layout it is
  given stand alone, that is, no locked wire, link or part joins a segment to a pin or to
  another segment. Rounds may (`router_rails`), but even then no two nets have wires in one
  hole of a rail.
* `RoutedNetsKept`: on a layout without shorts, rounds never lose a net that the first pass
  had routed.
* `EveryPartAccounted`: the greedy pass comes to every part once, in whatever order the
  clusters leave; each is placed or reported, and no move of the search takes one off the
  board.
* `OnlyClusterMovesBreak`: while parts lie apart and the mask is exact, only the move of a
  cluster can end that, and it does. A locked part that no move takes along stays
  (`LoneLockedStay`); one that has a twin or a cluster need not (`place_locked`).
* `CleanMeansBuilt`: an answer without an error, with all parts placed, is the circuit,
  although the placer may leave parts on one another and `optimize` moves without looking.
* `StoppedInTime`, `PerfStoppedInTime`: a job that is told to stop answers only from
  where nothing looks at the flag any more; the properties say where that is. On a perfboard
  that is the verdict on the copper; where there is no copper to lay, also the last candidate,
  the last call of Solve if nothing waits to be evaluated, and the greedy placer.
* `OptimizeKeepsLocked`: its loop leaves locked parts and locked wires alone.
* `CandidatesDiffer`: any two solutions that wait to be evaluated differ in half of the parts,
  through calls that find nothing and a second search: what is read back from the placements
  is what was found.
* `RoutedMeansJoined`: a net with copper is one piece that reaches every pin.
* `WinnerNotWorse`: when the greedy placer places all parts and nobody cancels, the
  winner is at least as good by the code's own order.

## 5. Fairness

Weak fairness only, per job, request or export, for what the process that owns the
step does by itself: the worker picks what is queued, the coroutine goes on, the
drain task takes what is buffered, arq stores results, an in-progress key
expires, a handler that has begun goes on, the cron job comes round, a timer of the
browser fires, and every request is answered, with an error if need be. `SolverReturns`
is fair because every search loop has a deadline or an iteration bound. Nothing is assumed
of clients, faults, cancellation or the expiry of locks. `Router`, `Solve` and `PerfSolve`
state no fairness and no liveness: each call is one loop after the other, and the bounds of
those loops are part of the model.

## 6. Proofs

Eight modules of proofs hold for any sets, boards, netlists and bounds, under the
assumptions named beside the constants (`JobAssumption`, `StoreAssumption`,
`ExportAssumption`, `EditorAssumption`, `BoardAssumption`, `RouterAssumption`,
`PosesAssumption`, `ClustersAssumption`, `PlacerAssumption`, `ValidatorAssumption`,
`SolveAssumption`, `PerfPlacerAssumption`, `PerfSolveAssumption`): constants have their types
and are finite where the program has a list of them, jobs on one target have one operation,
every part is listed, a footprint has the fields of the registry, nets have the classes and
priorities of the schema, documents are about parts of the netlist, no two pins share a hole
where the router starts, "no part" is not a part, and so on. TLC evaluates each of them in a
run. Each module has one lemma per action or
group of actions, which shows that it preserves the inductive invariant; the theorems about
properties are consequences of it. TLC checked the properties before they were proved.

`SolverJobProofs`. The invariants that matter are not inductive, so they are proved from
the conjunction of

* `QueueInv`: an attempt exists only while arq runs the job, and arq knows only jobs
  that the API has got far enough to enqueue;
* `FlowInv`: an outcome is known before it is written and the drain task is over by
  then, which is what `_finish_progress` is for;
* `FinalInv`: a row that is final has no attempt on the way to a write and no live
  drain task;
* `MarkedInv`: an attempt past step 5 sees its row "running", or "queued" by the API's
  second write, which can hide it only once;
* `LockInv`: an attempt past the lock is named by it, whatever threads other attempts have
  left behind;
* `LayoutInv`: layout rows are counted by tries, strictly while a try has not stored
  its own;
* `CancelInv`: flag, event, outcome and row are cancelled only after a request.

`FinalIsKept` needs `FinalInv` for the worker's writes. `Refinement` maps each step to one
of `JobLifecycle` or a stutter; it needs `MarkedInv` to see that a final write starts from
"running" or from a "queued" whose request is over, and `QueueInv` to see that a worker
never touches an absent row. `LayoutBound` has no run of its own.

`ProjectStoreProofs`. What a writer has loaded is not newer than the draft, and the same document if
the versions are equal (`SeenInv`), which is why a conditional UPDATE can only add to the
edits that were acknowledged (`AckedInv`). Revisions have a highest number (`NumberInv`),
and `MAX` finds it. That they are dense (`Dense`) needs more than the unique key: a number
that a request has read is one more than a number that was there, and rows go only when all
go. A request reads the project after it was sent and freezes what it read
(`ReadInv`), only job requests take the steps of `create_job` (`FlowInv`), and without faults
a job is queued or about to be by its own request (`JobInv`).

`ExportsProofs`. An attempt that still works has no success behind it (`WorkInv`). A success,
and nothing else, sets the deadline, and what the purge has listed is past it (`DeadlineInv`,
`PurgeInv`). The object is there from the upload until then (`ObjectInv`). Unless an
upload's thread has outlived its attempt, what is stored is what the attempt is about to
sign, and then what it has signed (`BytesInv`). `DownloadInv` carries that over the gap between a download's
two reads.

`EditorProofs`. The invariant is about versions on the wire: a document that goes with the
current version has all that others have saved (`UpToDate`). This holds of the page
(`PageInv`), of the draft a load has read, also with the version that an answer under way
will give the page (`LoadInv`), and of each save, of which the page's document and its own
must both suit the version it will give (`SaveInv`). `OpenInv` says that the timer runs only for a
document of the open project. Hence an accepted save cannot take back somebody else's note.
This is stated for behaviours in which no load has failed and nothing was pending when a
project was left (`Undisturbed`), since the code does not keep it in others. That the document
sent to a project is its own rests on less (`OwnInv`): saves on the wire may come from pages
that were left, as long as no timer does (`Pending`). `QuietInv` is for
behaviours without any failed request: a document that is not the last saved one has the timer,
a load, or a save whose answer will settle it (`Answering`), and the page's save state is
true of the saves there are; `NothingUnsaved` follows. `UndoRefinement` maps the two
stacks and the current layout to one list with a place in it. Stacks and layout
determine the list element by element (`ListElements`, `ListUnique`), so pushing, capping, undoing and redoing (`PushChanges`,
`UndoMoves`, `RedoMoves`) are steps of `UndoHistory`.

`ConnectivityProofs`. A merge is the least coarser partition in which a pair is together
(`MergeJoins`, `MergeLeast`), and so is a fold of merges for a set of pairs (`FoldJoins`,
`FoldLeast`). The library's induction theorems are out of the provers' reach (see below), so
a statement about all finite sets is proved by a smallest counterexample
(`SmallestSubset`). `NodesFinest`: the nodes are the finest partition that joins all pairs,
in whatever order they are merged. `NodesMonotone`: more pairs never separate. `NodesReachable`:
two holes are in one node if and only if a path leads from one to the other, which is the
reference definition that the run uses.

`RouterProofs`. `WellFormed` has the types and what a call is given. `OpenReported`: in the
first pass, a net taken and not reported is joined by what is laid so far (`FirstPassInv`):
`Trees` span the holes they are given (`TreeSpans`), further wires separate nothing
(`NodesMonotone`), and rounds end with a count of what is open in the layout without the given
wires that are dropped, to which adding them back can only close nets (`FewerOpen`). `KeepsApart`: while no round
has come, each wire lies in the territory of its net, which is the nodes of its pins
and the segments that are its own (`InTerritory`); these regions with what else there is are a
partition that joins every wire (`RegionsPartition`), so by `NodesFinest` the nodes are
finer than it. An attempt to prove it without `RailsAlone` failed and showed a layout for which the
property is false, hence the precondition. `RoutedKept` is about the rounds: a net that was routed keeps its wires or is
routed again, and what other nets lay never stands in for them (`KeptInv`). Every net ends its
wires at its pins and in at most one more hole (`InPlace`), which no other net takes.
Hence each net brings its own nodes together and adds one hole, from which no circle
comes: by induction over sets of nets, what they join has at most one node in which none of
them has a pin (`OneFreeNode`), and so the others cannot join two nodes of one net
(`OthersJoinNothing`). The precondition, that the document shorts no nets, comes from a failed
attempt as well: nets that share nodes may be found joined through others' wires and
lose them in a later round.

`SolveProofs`. `LocksInv` and `LoneInv` say that the parts the search may move are never locked
and that a lone locked part is as the document has it, in the attempt and in the best one;
`OptimizeInv` that the layout of `optimize` agrees with the document on what is
locked; `StopInv` in which phase a flag can still be unseen. Then:

* `Accounted`. The ranks of parts by their keys are a bijection (`RanksAll`), so the base order has
  each part once, and each regrouping keeps that (`PullTogetherAll`), whatever the clusters
  are. Hence the greedy pass adds a part to the placed or to the reported ones (`PassInv`), the
  moves keep who is placed (`SearchAccounts`), and restarts compare complete attempts (`BestInv`).
* `OnlyClusterMoves` is the algebra of the mask: lifting a part that lies apart and putting it
  into free holes keeps it exact. A part that is placed twice would break that, which
  `Accounted` excludes.
* `CleanBuilt`. A set of diagnostics without an error is one in which every test has passed
  (`NoErrors`), which needs it to be finite (`ErrorsFinite`), since the score counts errors. A
  layout that passes all tests is the circuit (`FaultlessBuilds`): nets are nodes by the
  tests of opens and shorts, and nodes are paths by `NodesReachable`. That an answer's score is of the layout in it,
  and what the tests take for granted of layouts, is `BuiltInv`. The theorem has a hypothesis
  about the documents, `CompleteDocuments`: a placement records a hole for each pin of
  its footprint, and links are on the board. No handler of the code checks that, and without it
  the statement is false: a pin without a hole raises no diagnostic. The page writes such documents only,
  and TLC evaluates the hypothesis for those of the run.
* `TypeCorrect`, that `SolveTypeOK` always holds. Its invariant has the types of all that the
  type invariant reaches through: the poses in use, whose pins and cells are holes because
  `Fits` lets no other into the list (`PosesTyped`, `PlaceTyped`), the layout and its wires
  (`LayoutTyped`), and what the loops keep (`JobTyped`). Costs are the hard part: they are sums over
  parts and nets, and that a sum of numbers is a number is a statement about a
  fold. `SumNat` shows it by a smallest set for which it fails. That parts are on the
  board is taken from the documents (`DocumentsOnBoard`): no handler checks it, the page
  writes no others, and TLC evaluates it for those of the run. The invariant rests on `Accounted` in turn: the
  best attempt has a type only once there is one.

`PerfProofs`. `Distinct` is about the bookkeeping of the search (`SearchInv`). A pose of a
footprint is known by the hole of its first pin, its span and its turn (`PoseKnown`), so what is read
back from the placements of a solution is that solution (`RecognisedSame`); it is
barred before Solve is called again, a call without a solution bars nothing new and
lets nothing go, and the new model of the second search, in which nothing is barred, is made only while
nothing has been found. Hence each solution differs from every earlier one in half of the
parts. For cancellation, `StartSeen`, `SearchSeen` and `CandidateSeen` say which flags can have been
missed at which point, and how many candidates were waiting when they were set: one that is set while
candidates wait stops the job before the next is taken up. With `StopInv`, `Stopped`
follows, whether or not there are nets to route.
`NotWorse` says that the greedy outcome is among those ranked, and that a placement has one
outcome (`WinnerInv`). `RoutedJoined` goes through the maze: as long as the target is not reached,
the taken nodes have a free neighbour (`QueueNonempty`, from the taken node that is nearest to the
target and a hole beside it that is nearer), so each round takes one more node, and no
more rounds than nodes are needed (`SearchGoesOn`, `WayLeads`). Ways from a tree
to a terminal keep it one piece that reaches what has been attached (`RootedGrows`, `AttachGrows`, `WaysJoin`),
later nets take nothing away (`RouteJoins`), and the answer has the copper of
its own placement (`CopperInv`). It holds of any cheapest way, since nothing of the argument
is about costs except that they are numbers.

The greedy placer of a perfboard is the code of `place()` over again, and the proofs are not
written twice. `Placing` is `SolveProofs` on the constants of a perfboard. TLAPS does not
see that `P`, the placer that `PerfSolve` runs, and `Placing` are the same, so a lemma per
part of the placer says so for each definition (`SameParts` to `SameProperties`), and
`PlacingFits` that a perfboard satisfies what the proofs of `place()` assume. `PerfAccounted`,
`PerfOnlyClusterMoves` and `PerfLoneLocked` then follow from the lemmas of `SolveProofs`; they
have no run of their own, as `breadboard_solve` checks the same properties of the same module.
`TypeCorrect` needs them too: what a job keeps comes from the greedy placer (`GreedyTypes`),
from CP-SAT's candidates, which are poses of the list (`FoundOnBoard`), from the document, again
under `DocumentsOnBoard`, or from the router. The router's part is that it reports nets
only. As the nets are sorted by keys, this needs the order to be total and their places to
be all numbers up to how many there are (`KeyOrder`, `PlacesAll`, `SortedNets`).

Only model-checked:

* Liveness and all that rests on fairness: `EnqueuedJobFinishes`, `RequestsEnd`,
  `ExportSettles`, `ExpiredArePurged`, `EditsSettle`. The prover has no ENABLED.
* That a recursive definition computes the right thing for every input can be shown here only
  where the argument goes over sets, by a smallest counterexample; this was done for the
  nodes, the orders, the ways and the sums. How good a placement, a tree of wires or a way
  is was not treated: nothing is proved about costs but that they are numbers, and that
  the winner of a comparison is not beaten in it.

## 7. Disagreements between the code and its documents

With a run:

* A job that meets a held lock is not deferred until it can run: it is dropped after
  three tries (`job_collision`).
* A rip-up round forgets who owns the rails and can put a supply on the ground's segment,
  which is a short that the result does not mention (`router_rails`).
* A solve job moves a locked part when a free part has its footprint or its cluster;
  `domain/place.py:15-16` says that locked components "copy through from `initial_layout`
  verbatim", and `domain/traces/solve.py:114-115` that they are "kept as-is" (`place_locked`).
* When CP-SAT finds nothing and the greedy placer all parts but one, the job answers with
  the locked parts alone; `docs/perfboard-cpsat-placer.md:33-35` says that the user is
  never given a worse result than greedy's (`perf_worse`).

The models hold more of these that no run is spent on.

* `_finish_progress` is not safe to call twice after a timeout, against
  `jobs/solver_job.py:212-214`: it raises out of the finally block and the lock stays until
  its TTL (`AwaitDrain`).
* Concurrent `create_revision` calls do not serialise as `repositories/revisions.py:36-38`
  has it ("the second sees the first's insert and writes `max+2`"): the second has read its
  maximum by then and fails on the unique key (`InsertRevision`).
* `jobs/solver_job.py:154-155` says that the lock "serialises concurrent jobs on the same target".
  After a job timeout or a shutdown the lock is released while the solver's thread still runs, so
  that two solvers may run for one target (`Interrupt`, `LateSolverEnds`).
* The page can refuse its own second save and say that the project changed elsewhere
  (`SaveConflict`); the reload drops the edits of the refused save.
* A route job on a layout with unlocked wires takes the nets they join as done and
  then drops the wires, without reporting the nets (`route.py:103`, comment at 450-451), unless
  it enters the rip-up loop, which looks again. This is what the second half of
  `OpenNetsReported` leaves out.
* `optimize` lays parts over one another (`Iterate`; `solve.py:525`, docstring at 423). When it
  accepts nothing, its answer has the wires of the document with the cost of a route that was
  dropped.
* The validator never reports an unplaced part, and a net with an unplaced pin has no
  diagnostic (`solve.py:65-70` says it has). `score.py` counts a net with fewer than two
  placed pins as completed, against its docstring at 90-92, and the two scores disagree.
* A part's clearance also covers neighbours off the board, which `poses.py:192-193`
  exempts, so that parts with a clearance do not come to the edge.
* `Component.locked` is read by no solver; only placements are locked.
* `applySchematic` changes the layout without `applyLayoutMutation`, which the store's
  comment forbids, and undo then brings back parts that are gone.
* `_order_nets` sorts its buckets upwards, so that critical classes and supplies come
  last, where its docstring puts them first.
* When a net keeps a locked wire "j-net-0" and is routed again, a new wire gets the same id,
  and deleting one on the page deletes both (`DeleteJumper`).
* `greedy_steiner` calls itself deterministic, but asks a set for its order.
* The validator counts a supply with one pin as connected to a rail because the router
  gives it a hole there (`validate.py:52-57`); the router gives up on nets with fewer than
  two pins first.
* `docs/perfboard-cpsat-placer.md` lists other keys for the rank of a candidate than the code: at
  113-118 a `min_span` and a `max_components_per_row`, which the code has replaced and
  dropped (`place_cpsat.py:1115-1124`), at 199-204 the cost of the traces behind the unrouted nets.
  `Verdict` has the code's. At 193-194 one part must change between two solutions, in the
  code half of them (`MinChanges`).
* A cancellation that the trace router sees makes the job fail instead of cancelling it
  (`RouteCancelled`; `jobs/solver_job.py:452` and 478).

Other behaviours contradict no document, but the properties had to leave room for
them. A load that was asked before a save and answered after it replaces the
saved edits on the screen by older ones. A save that fails is not retried, and
the answer to an earlier save hides its message. After a load has failed the store
still holds the project before, and the next autosave sends it to the project that
is open. So does a debounce timer that was pending when the project was left, and the
answer to a save that was on the wire then becomes the version of the next project's document, with
which a later save can take back what somebody else has saved there. The undo stacks and a finished job survive a change of project. A job is created
from the server's draft while the page's last edits wait for their autosave. An export
shows the layout of its revision with the document of today. An upload's thread survives
the attempt that started it. Progress writes move `started_at`, and a success keeps an
older error. The back-off of transient errors is one second for ever, because nobody
counts attempts. Nothing checks that copper of two nets stays apart. A part without a
candidate is left out of CP-SAT's search and of its report.

## 8. Not modelled

The schematic's netlist derivation is pure, runs to its end in one handler and is tested
case by case; `Editor` has its effect, a new set of parts and a layout pruned to it. The
polling in `JobProgress` and `ExportMenu`, the page's call of the validator, selections and
panels change nothing that is saved. The union-find is taken for the partition it stands
for. Wires' path shapes, crossings, colours and the cost terms made of them decide
nothing about connections. CP-SAT's objective belongs to a library that TLC cannot stand in
for. Registries and wire models are static tables and shape checks. Renderers, Gerber,
drill and instruction writers format a finished layout. The app shell, logging, metrics,
health probes, migrations, Helm charts and scripts have no state whose interleavings matter.
