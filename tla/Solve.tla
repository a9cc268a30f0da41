---------------------------------- MODULE Solve ----------------------------------
(* The jobs "solve" and "optimize" on a breadboard: place, route, verify, and the search
   that moves one part at a time and routes again (domain/solve.py).  The router is the
   one of module Router, cut down to which nets it wires: wires to rails, crossings,
   crowded columns and zones are left out of its result and its cost. *)
EXTENDS Placer, Validator

CONSTANTS
  Jobs,          \* operations with the documents and options they start from
  WireCost,      \* routing_weights.jumperCount
  UnroutedCost   \* routing_weights.unroutedTerminal

NoAnswer == <<>>   \* no record of an answer

ASSUME SolveAssumption ==
  /\ \A j \in Jobs : /\ j.op \in {"solve", "optimize"}
                     /\ j.given \in InitialLayouts /\ j.options \in OptionSets
                     /\ IsFiniteSet(j.jumpers) /\ IsFiniteSet(j.links)
                     /\ \A r \in DOMAIN j.given : IsFiniteSet(DOMAIN j.given[r].pins)
  /\ WireCost \in Nat /\ UnroutedCost \in Nat

\* Documents as the page writes them: a placement records a hole for every pin of its
\* footprint, links are between holes of the board.  No handler checks that.
HasAllPins(r, p) == Known(r) => DOMAIN FootprintOf(r).pins \subseteq DOMAIN p.pins
CompleteDocuments ==
  \A j \in Jobs : /\ \A r \in DOMAIN j.given : HasAllPins(r, j.given[r])
                  /\ j.links \subseteq SUBSET AllHoles

\* Documents whose parts and wires lie on the board.  No handler checks that either.
DocumentsOnBoard ==
  \A j \in Jobs : /\ \A r \in DOMAIN j.given : PlacementType(j.given[r])
                  /\ \A w \in j.jumpers : Ends(w) \subseteq AllHoles

VARIABLES
  job,
  phase,        \* start, place, route, routed, base, iterate, verify, answered, cancelled, timeout
  asked,        \* the phase in which cancellation was asked for, or "no"
  late,         \* has the deadline passed?
  layout,       \* final_layout, best_layout
  routing,      \* route_result.cost, best_routing_cost
  placing,      \* placement_result.cost, best_placement_cost
  iteration,
  answer

solveVars == <<job, phase, asked, late, layout, routing, placing, iteration, answer>>
allVars == <<vars, solveVars>>

-----------------------------------------------------------------------------
(* What route() comes to *)

LeastHole(hs) == CHOOSE h \in hs : \A g \in hs \ {h} : HoleBefore(h, g)

\* Nets that are open before any wire of this call is laid get one, to each of their pins;
\* every wire of the layout counts for that, but only the locked ones are kept.
Wanted == {n \in AllNets : AllowCritical \/ ~Critical(n)}
ShortOfPins(l) == {n \in Wanted : Cardinality(EntryHoles(n, l)) < 2}
WiresTo(n, hs) ==
  UNION {{[net |-> n, from |-> h, to |-> g, locked |-> FALSE] : g \in hs \ {h}} : h \in {LeastHole(hs)}}
NewWires(nets, l, nodes) ==
  UNION {WiresTo(n, EntryHoles(n, l)) : n \in {m \in nets : Cardinality(Roots(m, l, nodes)) > 1}}

RouteOf(l) ==
  [jumpers |-> {j \in l.jumpers : j.locked}
                 \cup UNION {NewWires(Wanted \ ShortOfPins(l), l, nodes) : nodes \in {NodesIn(l)}},
   unrouted |-> ShortOfPins(l) \cup (AllNets \ Wanted)]

\* _compute_routing_cost
RouteCost(route) ==
  SumFunction([j \in route.jumpers |-> WireCost + Manhattan(Point(j.from), Point(j.to))])
    + UnroutedCost * Cardinality(route.unrouted)

-----------------------------------------------------------------------------
(* solve() *)

\* _check_cancel and _check_deadline.
Passes == asked = "no" /\ ~late

BeginSolve ==
  /\ phase = "start" /\ job.op = "solve" /\ Passes
  /\ phase' = "place"
  /\ UNCHANGED <<vars, job, asked, late, layout, routing, placing, iteration, answer>>

\* place() looks at no flag.
PlaceStep == phase = "place" /\ Next /\ UNCHANGED solveVars

PlaceDone ==
  /\ phase = "place" /\ pc = "done" /\ Passes
  /\ layout' = [layout EXCEPT !.placed = best.state.placed]
  /\ placing' = best.cost
  /\ phase' = "route"
  /\ UNCHANGED <<vars, job, asked, late, routing, iteration, answer>>

Route ==
  /\ phase = "route" /\ ~late
  /\ \E route \in {RouteOf(layout)} :
       layout' = [layout EXCEPT !.jumpers = route.jumpers] /\ routing' = RouteCost(route)
  /\ phase' = "routed"
  /\ UNCHANGED <<vars, job, asked, late, placing, iteration, answer>>

\* Mutation of RouteDone: no look at the flags.
RouteDoneBlind ==
  /\ phase = "routed"
  /\ phase' = "verify"
  /\ UNCHANGED <<vars, job, asked, late, layout, routing, placing, iteration, answer>>

RouteDone ==
  /\ phase = "routed" /\ Passes
  /\ phase' = "verify"
  /\ UNCHANGED <<vars, job, asked, late, layout, routing, placing, iteration, answer>>

\* The verdict; nothing is looked at any more.
Verify ==
  /\ phase = "verify"
  /\ \E faults \in {Diagnostics(layout)} :
       answer' = [layout |-> layout, faults |-> faults, score |-> JobScore(layout, faults, placing, routing)]
  /\ phase' = "answered"
  /\ UNCHANGED <<vars, job, asked, late, layout, routing, placing, iteration>>

-----------------------------------------------------------------------------
(* optimize() *)

MaxIterations == Max({1, job.options.iterations \div 4})

BeginOptimize ==
  /\ phase = "start" /\ job.op = "optimize" /\ Passes
  /\ phase' = "base"
  /\ UNCHANGED <<vars, job, asked, late, layout, routing, placing, iteration, answer>>

\* The cost to beat; the wires of this route are not taken.
RouteBase ==
  /\ phase = "base" /\ ~late
  /\ routing' = RouteCost(RouteOf(layout))
  /\ phase' = "iterate"
  /\ UNCHANGED <<vars, job, asked, late, layout, placing, iteration, answer>>

\* _pin_offset_triples: here a span counts holes, where poses count steps.
TripleOffsets(f, span) ==
  IF f.spans = {NoSpan} \/ span = NoSpan THEN f.pins ELSE Leads(span - 1)

\* _rotate, which turns the other way.
TurnBack(d, turn) == Rotate(d, (360 - turn) % 360)

\* A point at d pitches from a hole, as a hole: columns count from one where points start
\* from zero, so all is one column to the left, and rows are found by where they are.
HolesAt(h, d) == {g \in Holes : g[1] = h[1] - 1 + d[1] /\ RowY[g[2]] = RowY[h[2]] + d[2]}

\* _propose_perturbation for a random turn and span: the turned pins must be on free
\* holes; then the anchor and the pins are laid as if they were not turned.  NoPose if that
\* fails.
TurnedOffsets(offsets, t) == {TurnBack(offsets[p], t) : p \in DOMAIN offsets}
Anchors(turned, others) ==
  {h \in Holes \ Disabled : \A d \in turned : \E g \in HolesAt(h, d) : g \notin others}
LaidAt(h, t, s, offsets) ==
  LET pins == [p \in DOMAIN offsets |-> CHOOSE g \in HolesAt(h, offsets[p]) : TRUE]
  IN [anchor |-> CHOOSE g \in HolesAt(h, <<0, 0>>) : TRUE, turn |-> t, span |-> s, pins |-> pins,
      cells |-> {pins[p] : p \in DOMAIN pins} \cup UNION {HolesAt(h, d) : d \in TurnedOffsets(offsets, t)},
      locked |-> FALSE]
Proposal(h, t, s, offsets) ==
  IF HolesAt(h, <<0, 0>>) # {} /\ \A p \in DOMAIN offsets : HolesAt(h, offsets[p]) # {}
  THEN LaidAt(h, t, s, offsets) ELSE NoPose

TakenByOthers(r) == UNION {Claims(layout.placed[q]) : q \in PlacedRefs(layout) \ {r}}
Proposals(r, t, s) ==
  UNION {IF anchors = {} THEN {NoPose}
         ELSE {Proposal(h, t, s, TripleOffsets(FootprintOf(r), s)) : h \in anchors} :
         anchors \in {Anchors(TurnedOffsets(TripleOffsets(FootprintOf(r), s), t), others) :
                        others \in {TakenByOthers(r)}}}

PerturbCost(p) == Unit * Cardinality(p.cells)

\* Mutation of Candidates: locked parts are moved, too.
CandidatesAll == PlacedRefs(layout)

Candidates == {r \in PlacedRefs(layout) : r \notin DOMAIN job.given \/ ~job.given[r].locked}

\* One iteration: a proposal is taken if the energy falls.
Iterate ==
  /\ phase = "iterate" /\ iteration < MaxIterations /\ Passes
  /\ \E r \in {q \in Candidates : Known(q)} :
       \E t \in FootprintOf(r).turns, s \in FootprintOf(r).spans : \E p \in Proposals(r, t, s) :
         \E moved \in {[layout EXCEPT !.placed[r] = p]} :
           \E route \in {RouteOf(moved)} : \E c \in {RouteCost(route)} :
             IF p # NoPose /\ (PerturbCost(p) - placing) + (c - routing) < 0
             THEN /\ layout' = [moved EXCEPT !.jumpers = route.jumpers]
                  /\ routing' = c /\ placing' = PerturbCost(p)
             ELSE UNCHANGED <<layout, routing, placing>>
  /\ iteration' = iteration + 1
  /\ UNCHANGED <<vars, job, phase, asked, late, answer>>

IterationsOver ==
  /\ phase = "iterate"
  /\ iteration = MaxIterations \/ (Candidates = {} /\ Passes)
  /\ phase' = "verify"
  /\ UNCHANGED <<vars, job, asked, late, layout, routing, placing, iteration, answer>>

-----------------------------------------------------------------------------
(* Cancellation and the deadline *)

Over == {"answered", "cancelled", "timeout"}

\* Nothing looks at the flags inside place(), so it is enough that they are set at its end.
Ask ==
  /\ phase \notin Over /\ asked = "no" /\ (phase = "place" => pc = "done")
  /\ asked' = phase
  /\ UNCHANGED <<vars, job, phase, late, layout, routing, placing, iteration, answer>>

Expire ==
  /\ phase \notin Over /\ ~late /\ (phase = "place" => pc = "done")
  /\ late' = TRUE
  /\ UNCHANGED <<vars, job, phase, asked, layout, routing, placing, iteration, answer>>

\* SolverCancelled, SolverTimeout.  route() looks at the deadline only.
Stop ==
  /\ \/ phase \in {"start", "routed"} /\ ~Passes
     \/ phase = "place" /\ pc = "done" /\ ~Passes
     \/ phase \in {"route", "base"} /\ late
     \/ phase = "iterate" /\ iteration < MaxIterations /\ ~Passes
  /\ phase' = IF asked # "no" /\ phase \notin {"route", "base"} THEN "cancelled" ELSE "timeout"
  /\ UNCHANGED <<vars, job, asked, late, layout, routing, placing, iteration, answer>>

SolveInit ==
  /\ job \in Jobs
  /\ Init /\ given = job.given /\ options = job.options
  /\ phase = "start" /\ asked = "no" /\ late = FALSE
  /\ layout = [placed |-> OnRefs(job.given), jumpers |-> job.jumpers, links |-> job.links]
  /\ routing = 0 /\ placing = 0 /\ iteration = 0 /\ answer = NoAnswer

SolveNext ==
  \/ BeginSolve \/ PlaceStep \/ PlaceDone \/ Route \/ RouteDone \/ Verify
  \/ BeginOptimize \/ RouteBase \/ Iterate \/ IterationsOver
  \/ Stop \/ Ask \/ Expire

SolveSpec == SolveInit /\ [][SolveNext]_allVars
-----------------------------------------------------------------------------
(* Properties *)

\* The types of the variables of solve() and optimize().
SolveTypeOK ==
  /\ TypeOK /\ job \in Jobs
  /\ phase \in {"start", "place", "route", "routed", "base", "iterate", "verify"} \cup Over
  /\ \A r \in PlacedRefs(layout) : PlacementType(layout.placed[r])
  /\ \A j \in layout.jumpers : Ends(j) \subseteq AllHoles
  /\ routing \in Nat /\ placing \in Nat /\ iteration \in 0..MaxIterations
  /\ (phase = "answered") = (answer # NoAnswer)

\* An answer without an error, with all parts placed and all nets counted as completed, is
\* the circuit: what validate_layout looks at leaves no open net, no short and no shared
\* hole, whatever place(), route() and optimize() did before.
CleanMeansBuilt ==
  (/\ answer # NoAnswer /\ answer.score.errors = 0
   /\ answer.score.placed = Cardinality(Refs)) => Builds(answer.layout)

\* A job that was told to stop answers only if nothing looks at the flag any more: after
\* the routing of solve(), or in the last round of optimize() (_check_cancel).
StoppedInTime ==
  phase = "answered" => asked \in {"no", "verify"} \/ (asked = "iterate" /\ iteration = MaxIterations)

\* optimize() leaves locked parts and locked wires as they are in the document.
OptimizeKeepsLocked ==
  job.op = "optimize" =>
    /\ \A r \in DOMAIN job.given : job.given[r].locked => layout.placed[r] = job.given[r]
    /\ {j \in job.jumpers : j.locked} \subseteq layout.jumpers
=============================================================================
