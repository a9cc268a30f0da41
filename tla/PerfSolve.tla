------------------------------- MODULE PerfSolve -------------------------------
(* The jobs "trace-solve", "trace-place" and "trace-route" on a perfboard
   (domain/traces/solve.py), with the placer that asks CP-SAT for several placements,
   routes each of them and the greedy one, and takes the best (domain/traces/
   place_cpsat.py).  CP-SAT is its constraints: any assignment that they allow may be the
   one that its objective and its budget lead to, and it may give up at any time. *)
EXTENDS PerfPlacer

CONSTANTS
  Jobs,        \* operations with the documents and options they start from
  DoubleSided, \* is there copper on both sides of the board?
  EdgeMounted, \* ids of the footprints of connectors and headers
  PresetBudget, DefaultBudget    \* a limit of candidates and a number of solutions

NoAnswer == <<>>   \* no record of an answer

VARIABLES
  job,
  phase,
  asked,      \* the phase in which cancellation was asked for, or "no"
  waiting,    \* history: how many assignments were not evaluated yet when it was
  limit,      \* how many candidates a part may have
  tries,      \* calls of Solve so far
  previous,   \* previous_assignment: the assignment found last
  barred,     \* the assignments that the model has a no-good for
  collected,  \* the assignments found and not evaluated yet
  outcomes,   \* what evaluation says of them
  found,      \* the result of the placer: placed, unplaced
  route,      \* the result of the router
  answer

searchVars == <<previous, barred>>
jobVars == <<job, phase, asked, waiting, limit, tries, searchVars, collected, outcomes, found, route, answer>>
allVars == <<placerVars, jobVars>>

T == INSTANCE Traces

\* Of the schema: the classes and priorities of nets; the fields of the options are at
\* least one.
Budgets == [limit : Nat \ {0}, count : Nat \ {0}]
ASSUME PerfSolveAssumption ==
  /\ \A i \in DOMAIN Nets : /\ \E c \in DOMAIN T!Classes : T!Classes[c] = Net[Nets[i]].class
                           /\ Net[Nets[i]].priority \in Int
  /\ \A j \in Jobs : /\ j.op \in {"solve", "place", "route"} /\ j.engine \in {"cpsat", "greedy"}
                     /\ j.given \in InitialLayouts /\ j.options \in OptionSets
                     /\ j.options.limit \in Nat \ {0} /\ j.options.count \in Nat \ {0}
                     /\ PresetBudget[j.options.preset] \in Budgets

\* Documents whose parts lie on the board.  No handler checks that.
DocumentsOnBoard == \A j \in Jobs : \A r \in DOMAIN j.given : P!PlacementType(j.given[r])

AllNets == {Nets[i] : i \in DOMAIN Nets}
Cells(pose) == P!Cells(pose)
Nowhere == [r \in Refs |-> NoPose]
PlacedRefs(placed) == {r \in Refs : placed[r] # NoPose}

-----------------------------------------------------------------------------
(* Candidates *)

\* Locked placements, taken as they are: not only those that the greedy placer takes.
LockedRefs == {r \in DOMAIN job.given : job.given[r].locked}
LockedPlacements == [r \in LockedRefs |-> job.given[r]]
LockedCells == UNION {job.given[r].cells : r \in LockedRefs}
Movable == Refs \ LockedRefs

\* _resolve_budget: a value that equals the default is the preset's.
Budget ==
  [limit |-> IF job.options.limit = DefaultBudget.limit THEN PresetBudget[job.options.preset].limit
             ELSE job.options.limit,
   count |-> IF job.options.count = DefaultBudget.count THEN PresetBudget[job.options.preset].count
             ELSE job.options.count]

\* _enumerated_candidates_for_component
Enumerated(r) ==
  IF Known(r) THEN {p \in Poses[FootprintId[r]] : Cells(p) \cap LockedCells = {}} ELSE {}

Least(S) == CHOOSE x \in S : \A y \in S : x <= y
Greatest(S) == CHOOSE x \in S : \A y \in S : x >= y
Columns(cells) == {h[1] : h \in cells}
RowsOf(cells) == {h[2] : h \in cells}

\* The first difference decides.
Lex(k, l) == \E i \in DOMAIN k : k[i] < l[i] /\ \A j \in 1..(i - 1) : k[j] = l[j]
PoseKey(p) == <<p.mech, p.anchor[2], p.anchor[1], p.turn, p.span>>

\* _edge_dist
EdgeDistance(p) ==
  Least({Least(Columns(Cells(p))) - 1, Cols - Greatest(Columns(Cells(p))),
         Least(RowsOf(Cells(p))) - 1, Rows - Greatest(RowsOf(Cells(p)))})

\* _stratum: a band of rows, a band of columns and a turn.
Stratum(p) ==
  <<((Least(RowsOf(Cells(p))) - 1) * 4) \div Rows, ((Least(Columns(Cells(p))) - 1) * 4) \div Cols, p.turn>>

\* _stratified_round_robin: the first of every stratum, then the second, and so on.
Round(p, all) == Cardinality({q \in all : Stratum(q) = Stratum(p) /\ Lex(PoseKey(q), PoseKey(p))})
RobinKeys(all) == [p \in all |-> <<Round(p, all)>> \o Stratum(p)]

\* _select_candidates
KeysFor(r, all) ==
  IF FootprintId[r] \in EdgeMounted THEN [p \in all |-> <<EdgeDistance(p)>> \o PoseKey(p)] ELSE RobinKeys(all)
FirstOf(n, key) == {p \in DOMAIN key : Cardinality({q \in DOMAIN key : Lex(key[q], key[p])}) < n}

\* build_candidate_poses
CandidatesOf(r, n) ==
  LET all == Enumerated(r)
  IN IF Cardinality(all) <= n THEN all ELSE UNION {FirstOf(n, key) : key \in {KeysFor(r, all)}}
Candidates(n) == [r \in Movable |-> CandidatesOf(r, n)]

-----------------------------------------------------------------------------
(* What CP-SAT may find *)

\* build_cpsat_model: one pose for each part that has any, and no hole twice.
Assignments(candidates) ==
  LET parts == {r \in DOMAIN candidates : candidates[r] # {}}
  IN {a \in [parts -> UNION {candidates[r] : r \in parts}] :
        /\ \A r \in parts : a[r] \in candidates[r]
        /\ \A q, r \in parts : q # r => Cells(a[q]) \cap Cells(a[r]) = {}}

\* _add_no_good_constraint: half of the parts have another pose.  Without a part there is
\* no constraint.
Changed(a, before) == {r \in DOMAIN before : a[r] # before[r]}
MinChanges(before) ==
  LET n == Cardinality(DOMAIN before)
      half == IF n \div 2 > 1 THEN n \div 2 ELSE 1
  IN IF half < n THEN half ELSE n
Allowed ==
  {a \in Assignments(Candidates(limit)) : \A b \in barred : Cardinality(Changed(a, b)) >= MinChanges(b)}

\* _hole_id_for_anchor: the first pin has it; any fixed pin stands for the first.
FirstHole(p) == p.pins[CHOOSE x \in DOMAIN p.pins : TRUE]

\* A mutation: the span and the turn are not compared.
SameHole(p, q) == FirstHole(p) = FirstHole(q)

\* What a solution was is read off its placements: the candidate with the hole, the span
\* and the turn of a placement.
Same(p, q) == FirstHole(p) = FirstHole(q) /\ p.span = q.span /\ p.turn = q.turn
Recognised(a) == [r \in DOMAIN a |-> CHOOSE p \in CandidatesOf(r, limit) : Same(p, a[r])]

\* The no-good after a call of Solve, unless it was the last.
Bar(a) == barred' = IF tries < Budget.count - 1 /\ DOMAIN a # {} THEN barred \cup {a} ELSE barred

\* _candidate_to_placement
PlacedBy(a) ==
  [r \in Refs |-> IF r \in DOMAIN a THEN P!PlacementOf(a[r], FALSE) ELSE P!OnRefs(LockedPlacements)[r]]

-----------------------------------------------------------------------------
(* The verdict on a layout (domain/traces/validate.py).  Nothing is asked of the copper. *)

PinsOf(n) == {Net[n].pins[i] : i \in DOMAIN Net[n].pins}
InputFaults ==
  {<<"UNKNOWN_FOOTPRINT", r>> : r \in {q \in Refs : ~Known(q)}}
    \cup {<<"NET_SINGLE_PIN", n>> : n \in {m \in AllNets : Len(Net[m].pins) < 2}}
    \cup {<<"PIN_IN_MULTIPLE_NETS", x>> : x \in {y \in UNION {PinsOf(n) : n \in AllNets} :
            Cardinality({n \in AllNets : y \in PinsOf(n)}) > 1}}

PlacementFaults(placed) ==
  {<<"HOLE_COLLISION", h>> : h \in {g \in UNION {placed[r].cells : r \in PlacedRefs(placed)} :
     Cardinality({r \in PlacedRefs(placed) : g \in placed[r].cells}) > 1}}
    \cup UNION {{<<"PIN_OUT_OF_BOARD", r, q>> : q \in {x \in DOMAIN placed[r].pins :
            placed[r].pins[x] \notin Lattice}} : r \in PlacedRefs(placed)}

TraceFaults(placed, traces) ==
  {<<"UNROUTED_TERMINAL", n>> : n \in {m \in AllNets :
     /\ \A t \in traces : t.net # m
     /\ \E x \in PinsOf(m) : x[1] \in PlacedRefs(placed)}}

Diagnostics(placed, traces) == InputFaults \cup PlacementFaults(placed) \cup TraceFaults(placed, traces)
Errors(faults) == {f \in faults : f[1] # "NET_SINGLE_PIN"}

\* score_layout: a trace is a completed net.
Score(placed, traces, faults) ==
  [placed |-> Cardinality(PlacedRefs(placed)), completed |-> Cardinality(traces),
   errors |-> Cardinality(Errors(faults)), warnings |-> Cardinality(faults \ Errors(faults))]

-----------------------------------------------------------------------------
(* The rank of a routed placement *)

AllCells(placed) == UNION {placed[r].cells : r \in PlacedRefs(placed)}

\* _anti_line_threshold, _placement_bbox_span
LineThreshold(n) ==
  IF n < 2 THEN 0 ELSE Greatest({1, Least({(n + 1) \div 2, Rows - 1, Cols - 1})})
MinSpan(cells) ==
  Least({Greatest(Columns(cells)) - Least(Columns(cells)), Greatest(RowsOf(cells)) - Least(RowsOf(cells))})
LineCollapse(placed) ==
  IF AllCells(placed) = {} THEN LineThreshold(Cardinality(PlacedRefs(placed)))
  ELSE Greatest({0, LineThreshold(Cardinality(PlacedRefs(placed))) - MinSpan(AllCells(placed))})

\* _dip_pin_escape_violations
DipsOn(placed) == {r \in PlacedRefs(placed) : Known(r) /\ P!FootprintOf(r).family = "DIP"}
Corridor(placed) ==
  (UNION {UNION {T!Beside(placed[r].pins[q]) : q \in DOMAIN placed[r].pins} : r \in DipsOn(placed)})
    \ (UNION {placed[r].cells : r \in DipsOn(placed)})
EscapeViolations(placed) ==
  Cardinality({x \in (PlacedRefs(placed) \ DipsOn(placed)) \X Corridor(placed) : x[2] \in placed[x[1]].cells})

\* _evaluate_candidate, the fields of RoutedCandidateRank that come first.
Verdict(placed, r, faults) ==
  <<Cardinality(Errors(faults)), Cardinality(faults \ Errors(faults)), Cardinality(r.unrouted),
    LineCollapse(placed), EscapeViolations(placed)>>
Outcome(placed) ==
  UNION {{[placed |-> placed, verdict |-> Verdict(placed, r, Diagnostics(placed, r.traces))]} : r \in {T!Route(placed)}}

\* A mutation: the worst first.
BestReversed(all) == {o \in all : \A q \in all : ~Lex(o.verdict, q.verdict)}

\* _rank_outcomes: vias, lengths and the objective decide among the best by these fields.
Best(all) == {o \in all : \A q \in all : ~Lex(q.verdict, o.verdict)}

-----------------------------------------------------------------------------
(* Placing *)

Ends == {"answered", "cancelled", "failed"}
Greedy == {"plain", "fallback", "baseline"}   \* why the greedy placer runs

\* SolverCancelled
Cancel ==
  /\ asked # "no"
  /\ \/ phase = "start" /\ job.op # "route" /\ job.engine = "cpsat"
     \/ phase = "search" /\ tries < Budget.count
     \/ phase = "evaluate" /\ collected # <<>>
  /\ phase' = "cancelled"
  /\ UNCHANGED <<placerVars, searchVars, job, asked, waiting, limit, tries, collected, outcomes, found, route, answer>>

\* A greedy job, or nothing to place.
BeginGreedy ==
  /\ phase = "start" /\ job.op # "route"
  /\ job.engine = "greedy" \/ (asked = "no" /\ Movable = {})
  /\ phase' = "plain"
  /\ UNCHANGED <<placerVars, searchVars, job, asked, waiting, limit, tries, collected, outcomes, found, route, answer>>

\* No part has a candidate: the locked ones are all there is.
BeginEmpty ==
  /\ phase = "start" /\ job.op # "route" /\ job.engine = "cpsat" /\ asked = "no" /\ Movable # {}
  /\ \A r \in Movable : CandidatesOf(r, Budget.limit) = {}
  /\ found' = [placed |-> P!OnRefs(LockedPlacements), unplaced |-> Movable]
  /\ phase' = "placed"
  /\ UNCHANGED <<placerVars, searchVars, job, asked, waiting, limit, tries, collected, outcomes, route, answer>>

BeginSearch ==
  /\ phase = "start" /\ job.op # "route" /\ job.engine = "cpsat" /\ asked = "no"
  /\ \E r \in Movable : CandidatesOf(r, Budget.limit) # {}
  /\ limit' = Budget.limit
  /\ phase' = "search"
  /\ UNCHANGED <<placerVars, searchVars, job, asked, waiting, tries, collected, outcomes, found, route, answer>>

\* A mutation: one call too many.
FindOnceMore ==
  /\ phase = "search" /\ tries <= Budget.count /\ asked = "no"
  /\ \E a \in Allowed : collected' = Append(collected, a) /\ previous' = Recognised(a) /\ Bar(previous')
  /\ tries' = tries + 1
  /\ UNCHANGED <<placerVars, job, phase, asked, waiting, limit, outcomes, found, route, answer>>

\* OPTIMAL or FEASIBLE
Find ==
  /\ phase = "search" /\ tries < Budget.count /\ asked = "no"
  /\ \E a \in Allowed : collected' = Append(collected, a) /\ previous' = Recognised(a) /\ Bar(previous')
  /\ tries' = tries + 1
  /\ UNCHANGED <<placerVars, job, phase, asked, waiting, limit, outcomes, found, route, answer>>

\* UNKNOWN: the assignment found last is barred, once more.
FindNothing ==
  /\ phase = "search" /\ tries < Budget.count /\ asked = "no"
  /\ tries' = tries + 1 /\ Bar(previous)
  /\ UNCHANGED <<placerVars, previous, job, phase, asked, waiting, limit, collected, outcomes, found, route, answer>>

\* INFEASIBLE, or all calls made.
SearchOver == tries = Budget.count \/ (asked = "no" /\ Allowed = {})

\* Once more with twice the candidates and a new model, if nothing was found.
Again(n) == IF 2 * n < 500 THEN 2 * n ELSE 500
Retry ==
  /\ phase = "search" /\ SearchOver
  /\ collected = <<>> /\ limit = Budget.limit /\ limit < 500
  /\ limit' = Again(limit) /\ tries' = 0 /\ barred' = {}
  /\ UNCHANGED <<placerVars, previous, job, phase, asked, waiting, collected, outcomes, found, route, answer>>

\* The model is not used any more.
Collected ==
  /\ phase = "search" /\ SearchOver
  /\ collected # <<>> \/ limit # Budget.limit \/ limit >= 500
  /\ phase' = "evaluate" /\ previous' = <<>> /\ barred' = {}
  /\ UNCHANGED <<placerVars, job, asked, waiting, limit, tries, collected, outcomes, found, route, answer>>

-----------------------------------------------------------------------------
(* Evaluating *)

\* route() looks at the flag before each net: not at all if there is none.
StopsRouting == asked # "no" /\ Nets # <<>>

\* A mutation: the flag is not looked at between two candidates.
TakeUpAsked ==
  /\ phase = "evaluate" /\ collected # <<>>
  /\ phase' = "candidate"
  /\ UNCHANGED <<placerVars, searchVars, job, asked, waiting, limit, tries, collected, outcomes, found, route, answer>>

TakeUp ==
  /\ phase = "evaluate" /\ collected # <<>> /\ asked = "no"
  /\ phase' = "candidate"
  /\ UNCHANGED <<placerVars, searchVars, job, asked, waiting, limit, tries, collected, outcomes, found, route, answer>>

Evaluate ==
  /\ phase = "candidate" /\ ~StopsRouting
  /\ outcomes' = outcomes \cup Outcome(PlacedBy(Head(collected)))
  /\ collected' = Tail(collected) /\ phase' = "evaluate"
  /\ UNCHANGED <<placerVars, searchVars, job, asked, waiting, limit, tries, found, route, answer>>

\* _evaluate_candidate sees the flag before it routes: there is no outcome.
PassOver ==
  /\ phase = "candidate" /\ asked # "no"
  /\ collected' = Tail(collected) /\ phase' = "evaluate"
  /\ UNCHANGED <<placerVars, searchVars, job, asked, waiting, limit, tries, outcomes, found, route, answer>>

\* route() sees the flag: "cancelled by solver", an error of the domain.
RouteCancelled ==
  /\ StopsRouting
  /\ \/ phase \in {"candidate", "greedyCandidate", "route"}
     \/ phase = "placed" /\ job.op = "solve"
  /\ phase' = "failed"
  /\ UNCHANGED <<placerVars, searchVars, job, asked, waiting, limit, tries, collected, outcomes, found, route, answer>>

\* The greedy placement is made in any case: instead of an answer, or to compare with.
EvaluationsOver ==
  /\ phase = "evaluate" /\ collected = <<>>
  /\ phase' = IF outcomes = {} THEN "fallback" ELSE "baseline"
  /\ UNCHANGED <<placerVars, searchVars, job, asked, waiting, limit, tries, collected, outcomes, found, route, answer>>

\* place_greedy() looks at no flag.
GreedyPlaces == phase \in Greedy /\ PlacerNext /\ UNCHANGED jobVars

GreedyAnswers ==
  /\ pc = "done"
  /\ phase = "plain" \/ (phase = "fallback" /\ best.unplaced = {})
  /\ found' = [placed |-> best.state.placed, unplaced |-> best.unplaced]
  /\ phase' = "placed"
  /\ UNCHANGED <<placerVars, searchVars, job, asked, waiting, limit, tries, collected, outcomes, route, answer>>

\* The greedy placer did not place all: what it placed is dropped.
GreedyFails ==
  /\ phase = "fallback" /\ pc = "done" /\ best.unplaced # {}
  /\ found' = [placed |-> P!OnRefs(LockedPlacements), unplaced |-> best.unplaced]
  /\ phase' = "placed"
  /\ UNCHANGED <<placerVars, searchVars, job, asked, waiting, limit, tries, collected, outcomes, route, answer>>

Compare ==
  /\ phase = "baseline" /\ pc = "done"
  /\ phase' = IF best.unplaced = {} /\ asked = "no" THEN "greedyCandidate" ELSE "rank"
  /\ UNCHANGED <<placerVars, searchVars, job, asked, waiting, limit, tries, collected, outcomes, found, route, answer>>

EvaluateGreedy ==
  /\ phase = "greedyCandidate" /\ ~StopsRouting
  /\ outcomes' = outcomes \cup Outcome(best.state.placed)
  /\ phase' = "rank"
  /\ UNCHANGED <<placerVars, searchVars, job, asked, waiting, limit, tries, collected, found, route, answer>>

\* All parts count as placed, those without a candidate too.
Choose ==
  /\ phase = "rank"
  /\ \E o \in Best(outcomes) : found' = [placed |-> o.placed, unplaced |-> {}]
  /\ phase' = "placed"
  /\ UNCHANGED <<placerVars, searchVars, job, asked, waiting, limit, tries, collected, outcomes, route, answer>>

-----------------------------------------------------------------------------
(* solve(), place_only(), route_only() *)

\* The placements of the document, as they are.
BeginRoute ==
  /\ phase = "start" /\ job.op = "route"
  /\ found' = [placed |-> P!OnRefs(job.given), unplaced |-> {}]
  /\ phase' = "route"
  /\ UNCHANGED <<placerVars, searchVars, job, asked, waiting, limit, tries, collected, outcomes, route, answer>>

RoutePlaced ==
  /\ phase = "route" \/ (phase = "placed" /\ job.op = "solve")
  /\ ~StopsRouting
  /\ \E r \in {T!Route(found.placed)} : route' = [traces |-> r.traces, unrouted |-> r.unrouted]
  /\ phase' = "verify"
  /\ UNCHANGED <<placerVars, searchVars, job, asked, waiting, limit, tries, collected, outcomes, found, answer>>

\* The flag is not looked at any more, nor does place_only() look at it at all.
Verify ==
  /\ phase = "verify" \/ (phase = "placed" /\ job.op = "place")
  /\ \E faults \in {Diagnostics(found.placed, route.traces)} :
       answer' = [faults |-> faults, score |-> Score(found.placed, route.traces, faults)]
  /\ phase' = "answered"
  /\ UNCHANGED <<placerVars, searchVars, job, asked, waiting, limit, tries, collected, outcomes, found, route>>

\* The bridge sets the flag at any time.  While the greedy placer runs nothing looks at it.
Ask ==
  /\ phase \notin Ends /\ asked = "no" /\ (phase \in Greedy => pc = "done")
  /\ asked' = phase /\ waiting' = Len(collected)
  /\ UNCHANGED <<placerVars, searchVars, job, phase, limit, tries, collected, outcomes, found, route, answer>>

SolveInit ==
  /\ job \in Jobs
  /\ given = job.given /\ options = job.options /\ PlacerInit
  /\ phase = "start" /\ asked = "no" /\ waiting = 0 /\ limit = 0 /\ tries = 0
  /\ previous = <<>> /\ barred = {}
  /\ collected = <<>> /\ outcomes = {}
  /\ found = [placed |-> Nowhere, unplaced |-> {}]
  /\ route = [traces |-> {}, unrouted |-> {}]
  /\ answer = NoAnswer

SolveNext ==
  \/ BeginGreedy \/ BeginEmpty \/ BeginSearch \/ BeginRoute
  \/ Find \/ FindNothing \/ Retry \/ Collected
  \/ TakeUp \/ Evaluate \/ PassOver \/ EvaluationsOver
  \/ GreedyPlaces \/ GreedyAnswers \/ GreedyFails \/ Compare \/ EvaluateGreedy \/ Choose
  \/ RoutePlaced \/ Verify
  \/ Cancel \/ RouteCancelled \/ Ask

SolveSpec == SolveInit /\ [][SolveNext]_allVars
-----------------------------------------------------------------------------
(* Properties *)

\* The types of the variables of the perfboard jobs.
PerfTypeOK ==
  /\ P!TypeOK /\ job \in Jobs
  /\ phase \in {"start", "search", "evaluate", "candidate", "greedyCandidate", "rank", "placed", "route", "verify"}
               \cup Greedy \cup Ends
  /\ limit \in {0, Budget.limit, Again(Budget.limit)} /\ tries \in 0..Budget.count
  /\ waiting \in Nat /\ \A a \in barred \cup {previous} : DOMAIN a \subseteq Movable
  /\ \A r \in PlacedRefs(found.placed) : P!PlacementType(found.placed[r])
  /\ found.unplaced \subseteq Refs /\ route.unrouted \subseteq AllNets
  /\ \A t \in route.traces : \A i \in DOMAIN t.way : t.way[i] \in T!Maze
  /\ (phase = "answered") = (answer # NoAnswer)

\* Any two placements that wait for evaluation differ in half of their parts, so that there
\* is something to choose from, whatever calls found nothing in between and with whatever
\* limit the search ends (the loop over previous_assignment, _add_no_good_constraint).
CandidatesDiffer ==
  \A i, j \in DOMAIN collected : i # j =>
    LET a == collected[i]
        changed == {r \in DOMAIN a : a[r] # collected[j][r]}
    IN changed # {} /\ 2 * Cardinality(changed) + 1 >= Cardinality(DOMAIN a)

\* Copper joins what it should: in an answer, every net is reported, has no part on the
\* board, or is one piece that reaches all its leads, each step of which goes to a
\* neighbour on the layer or through the board (route(), maze_route, _validate_traces).
\* Holes are plated.
OnePiece(n) ==
  LET ways == {t.way : t \in {u \in route.traces : u.net = n}}
      HolesOf(S) == UNION {T!HolesOn(w) : w \in S}
  IN /\ ways # {} /\ T!Terminals(n, found.placed) \subseteq HolesOf(ways)
     /\ \A w \in ways : \A i \in 1..(Len(w) - 1) : w[i + 1] \in T!Next(w[i])
     /\ \A S \in (SUBSET ways) \ {{}, ways} : HolesOf(S) \cap HolesOf(ways \ S) # {}
RoutedMeansJoined ==
  answer # NoAnswer /\ job.op # "place" =>
    \A n \in AllNets :
      \/ <<"UNROUTED_TERMINAL", n>> \in answer.faults
      \/ \A x \in PinsOf(n) : x[1] \notin PlacedRefs(found.placed)
      \/ OnePiece(n)

\* If the greedy placer places all parts and nobody interferes, the placement that is
\* taken is the greedy one or not worse: in errors, then in warnings, unrouted nets,
\* the collapse to a line and parts in the way of a DIP's leads (the candidates, the
\* baseline and _rank_outcomes).
VerdictOf(placed) == {o.verdict : o \in Outcome(placed)}
WinnerNotWorse ==
  phase = "placed" /\ asked = "no" /\ pc = "done" /\ best.unplaced = {} =>
    \/ found.placed = best.state.placed
    \/ \A v \in VerdictOf(found.placed), w \in VerdictOf(best.state.placed) : ~Lex(w, v)

\* A job that was told to stop answers only if nothing looks at the flag any more: while
\* its copper is verified; for a placement without copper, and where there is no net to
\* route, also after the last call of Solve if that found nothing, from the last candidate
\* on, and while the greedy placer runs (the checks of solve_cpsat_placement,
\* _evaluate_candidate and route()).
PerfStoppedInTime ==
  phase = "answered" =>
    \/ asked \in {"no", "verify"}
    \/ /\ job.op = "place" \/ Nets = <<>>
       /\ asked = "start" => job.engine = "greedy" \/ job.op = "route"
       /\ asked = "search" => tries = Budget.count
       /\ asked \in {"search", "evaluate"} => waiting = 0
       /\ asked = "candidate" => waiting = 1

\* What docs/perfboard-cpsat-placer.md says of the fallback.
FallbackNotWorse ==
  phase = "placed" /\ job.engine = "cpsat" /\ pc = "done" =>
    Cardinality(PlacedRefs(found.placed)) >= Cardinality(P!On(best.state))
=============================================================================
