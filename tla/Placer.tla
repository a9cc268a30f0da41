--------------------------------- MODULE Placer ---------------------------------
(* place(): parts that the document locks are copied, the others are placed greedily,
   and a random search moves them; the best of several attempts is the answer
   (domain/place.py).  Every random choice is nondeterministic. *)
EXTENDS Clusters

CONSTANTS
  InitialLayouts,   \* placements of documents, each from some references to placements
  OptionSets,       \* options: restarts and iterations, the limits of the two loops
  NoBest

ASSUME PlacerAssumption ==
  /\ \A l \in InitialLayouts : DOMAIN l \subseteq Refs
  /\ \A o \in OptionSets : o.restarts \in Int /\ o.iterations \in Int

VARIABLES
  given,      \* initial_layout
  options,
  clusters,   \* members and anchorOf, of build_clusters
  pc,         \* seed, greedy, search, finish, done
  attempt,
  order,      \* parts that the greedy pass has to visit yet
  fixed,      \* locked_refs
  state,      \* _PlacerState: poses, placed, taken
  movable,    \* placed_refs of the search
  unplaced,
  cost,       \* current_cost of the search, or Infinite
  steps,      \* iterations done
  best

vars == <<given, options, clusters, pc, attempt, order, fixed, state, movable, unplaced, cost, steps, best>>

Infinite == -1

-----------------------------------------------------------------------------
(* The state of an attempt: poses[r] and placed[r] are NoPose for a part that is not on
   the board; taken is occupied_mask. *)

Nowhere == [r \in Refs |-> NoPose]
OnRefs(f) == [r \in Refs |-> IF r \in DOMAIN f THEN f[r] ELSE NoPose]
Empty == [poses |-> Nowhere, placed |-> Nowhere, taken |-> {}]
On(s) == {r \in Refs : s.poses[r] # NoPose}

\* _pose_to_placement
PlacementOf(pose, locked) ==
  [anchor |-> pose.anchor, turn |-> pose.turn, span |-> pose.span, pins |-> pose.pins,
   cells |-> Cells(pose), locked |-> locked]

\* _clear_pose_from_state
Lift(s, r) ==
  IF s.poses[r] = NoPose THEN s
  ELSE [poses |-> [s.poses EXCEPT ![r] = NoPose], placed |-> [s.placed EXCEPT ![r] = NoPose],
        taken |-> s.taken \ Cells(s.poses[r])]

\* _apply_pose_to_state; whatever is put down this way is not locked.
Put(s, r, pose) ==
  [poses |-> [s.poses EXCEPT ![r] = pose],
   placed |-> [s.placed EXCEPT ![r] = PlacementOf(pose, FALSE)],
   taken |-> s.taken \cup Cells(pose)]

\* Mutation of MoveTo: the old cells are released after the new ones are taken.
MoveToLate(s, r, pose) ==
  LET new == Put(s, r, pose)
  IN IF s.poses[r] = NoPose THEN new ELSE [new EXCEPT !.taken = @ \ Cells(s.poses[r])]

MoveTo(s, r, pose) == Put(Lift(s, r), r, pose)

CostIn(s, r, pose) == Cost(r, pose, s.poses, s.taken, clusters.anchorOf[r])

\* _total_cost
TotalCost(s) == SumFunction([r \in On(s) |-> CostIn(s, r, s.poses[r])])

-----------------------------------------------------------------------------
(* Locked parts *)

\* _seed_locked_placements, the parts it takes.
LockedIn(layout) ==
  {r \in DOMAIN layout : layout[r].locked /\ Known(r) /\ layout[r].anchor \in Holes}

\* The pose of a locked part: its body is the footprint's as registered, whatever the
\* placement's turn and span, or its recorded cells if none of that is on the board.
SeedPose(r, placement) ==
  LET registered == {Plus(placement.anchor, d) : d \in FootprintOf(r).body} \cap Holes
      pins == DOMAIN FootprintOf(r).pins \cap DOMAIN placement.pins
  IN [anchor |-> placement.anchor, turn |-> placement.turn, span |-> placement.span,
      pins |-> [p \in pins |-> placement.pins[p]],
      body |-> IF registered # {} THEN registered ELSE placement.cells \cap Holes,
      mech |-> 0]

\* Only the body is marked as taken.
Seeded(layout) ==
  LET poses == [r \in LockedIn(layout) |-> SeedPose(r, layout[r])]
  IN [poses |-> OnRefs(poses), placed |-> OnRefs([r \in LockedIn(layout) |-> layout[r]]),
      taken |-> UNION {poses[r].body : r \in LockedIn(layout)}]

Seed ==
  /\ pc = "seed"
  /\ fixed' = LockedIn(given)
  /\ state' = Seeded(given)
  /\ order' = Order(LockedIn(given), clusters.members)
  /\ unplaced' = {}
  /\ pc' = "greedy"
  /\ UNCHANGED <<given, options, clusters, attempt, movable, cost, steps, best>>

-----------------------------------------------------------------------------
(* _greedy_pass *)

FreePoses(r) == IF Known(r) THEN {p \in Poses[FootprintId[r]] : Cells(p) \cap state.taken = {}} ELSE {}

Prices(r) == [p \in FreePoses(r) |-> CostIn(state, r, p)]

\* The least cost, then the order of the pose list: the one pose to take, if there is any.
Cheapest(price) ==
  {p \in DOMAIN price :
    \A q \in DOMAIN price \ {p} : price[p] < price[q] \/ (price[p] = price[q] /\ PoseBefore(p, q))}

\* Mutation of PlaceNext: locked parts are placed like any other.
PlaceNextAny ==
  /\ pc = "greedy" /\ order # <<>>
  /\ \E r \in {Head(order)} :
       \/ /\ FreePoses(r) = {}
          /\ unplaced' = unplaced \cup {r} /\ UNCHANGED state
       \/ /\ \E price \in {Prices(r)} : \E p \in Cheapest(price) : state' = Put(state, r, p)
          /\ UNCHANGED unplaced
  /\ order' = Tail(order)
  /\ UNCHANGED <<given, options, clusters, pc, attempt, fixed, movable, cost, steps, best>>

PlaceNext ==
  /\ pc = "greedy" /\ order # <<>>
  /\ \E r \in {Head(order)} :
       \/ r \notin Refs \ fixed /\ UNCHANGED <<state, unplaced>>
       \/ /\ r \in Refs \ fixed /\ FreePoses(r) = {}
          /\ unplaced' = unplaced \cup {r} /\ UNCHANGED state
       \/ /\ r \in Refs \ fixed
          /\ \E price \in {Prices(r)} : \E p \in Cheapest(price) : state' = Put(state, r, p)
          /\ UNCHANGED unplaced
  /\ order' = Tail(order)
  /\ UNCHANGED <<given, options, clusters, pc, attempt, fixed, movable, cost, steps, best>>

\* What the search has to beat: anything, if a part has no place.
GreedyEnds ==
  /\ pc = "greedy" /\ order = <<>>
  /\ movable' = On(state) \ fixed
  /\ cost' = IF unplaced = {} THEN TotalCost(state) ELSE Infinite
  /\ steps' = 0
  /\ pc' = IF On(state) \ fixed = {} THEN "finish" ELSE "search"
  /\ UNCHANGED <<given, options, clusters, attempt, order, fixed, state, unplaced, best>>

-----------------------------------------------------------------------------
(* _local_search: a move is tried on a random part, and undone unless the total falls. *)

FreeBut(r, pose) == Cells(pose) \cap (state.taken \ Cells(state.poses[r])) = {}

\* _try_translate
Translated(r) ==
  {MoveTo(state, r, p) : p \in {q \in Poses[FootprintId[r]] :
     q.anchor # state.poses[r].anchor /\ FreeBut(r, q)}}

\* _try_rotate
Rotated(r) ==
  {MoveTo(state, r, p) : p \in {q \in Poses[FootprintId[r]] :
     q.anchor = state.poses[r].anchor /\ q.turn # state.poses[r].turn /\ FreeBut(r, q)}}

\* _try_span: one hole longer or shorter.
Respanned(r) ==
  {MoveTo(state, r, p) : p \in {q \in Poses[FootprintId[r]] :
     /\ state.poses[r].span # NoSpan /\ q.span # NoSpan
     /\ q.anchor = state.poses[r].anchor /\ q.turn = state.poses[r].turn
     /\ q.span \in {state.poses[r].span - 1, state.poses[r].span + 1}
     /\ FreeBut(r, q)}}

\* _try_swap, with any part of the same footprint, locked ones too.
Twins(r) == {t \in On(state) \ {r} : FootprintId[t] = FootprintId[r]}
Swapped(r) ==
  {Put(Put(Lift(Lift(state, r), t), r, state.poses[t]), t, state.poses[r]) : t \in Twins(r)}

\* _translate_pose
Shift(pose, d) ==
  [anchor |-> Plus(pose.anchor, d), turn |-> pose.turn, span |-> pose.span,
   pins |-> [p \in DOMAIN pose.pins |-> Plus(pose.pins[p], d)],
   body |-> {Plus(h, d) : h \in pose.body}, mech |-> pose.mech]
Shiftable(pose, d) ==
  /\ Plus(pose.anchor, d) \in Holes
  /\ \A h \in Cells(pose) : Plus(h, d) \in Holes \ Disabled

\* _try_relocate_cluster: the anchor and all its members, locked ones too, move alike.
\* The anchor's new place must be free; nothing is asked of the members', since the test
\* against the rest leaves out the holes it should look at.  Parts are lifted and put
\* down one after the other, in the order that poses has them, here any order: a hole
\* that one part is put on and a later one is lifted from is not taken any more.
Block(anchor) == {r \in On(state) : clusters.anchorOf[r] = anchor}
Delta(anchor, pose) ==
  <<pose.anchor[1] - state.poses[anchor].anchor[1], pose.anchor[2] - state.poses[anchor].anchor[2]>>
LiftedFrom(seq, n) == UNION {Cells(state.poses[seq[i]]) : i \in n..Len(seq)}
TakenAfter(d, seq) ==
  (state.taken \ LiftedFrom(seq, 1))
    \cup UNION {Cells(Shift(state.poses[seq[i]], d)) \ LiftedFrom(seq, i + 1) : i \in DOMAIN seq}
ShiftAll(block, d, seq) ==
  [poses |-> [m \in Refs |-> IF m \in block THEN Shift(state.poses[m], d) ELSE state.poses[m]],
   placed |-> [m \in Refs |-> IF m \in block THEN PlacementOf(Shift(state.poses[m], d), FALSE)
                              ELSE state.placed[m]],
   taken |-> TakenAfter(d, seq)]
Relocated(r) ==
  LET a == clusters.anchorOf[r]
      targets == {q \in Poses[FootprintId[a]] : q.anchor # state.poses[a].anchor /\ FreeBut(a, q)}
      deltas == {Delta(a, q) : q \in targets}
  IN IF a = r \/ state.poses[a] = NoPose THEN {}
     ELSE {ShiftAll(Block(a), x[1], x[2]) :
             x \in {d \in deltas : \A m \in Block(a) : Shiftable(state.poses[m], d)} \X SetToSeqs(Block(a))}

\* Mutation of Try: one iteration too many.
TryOnceMore(results) ==
  /\ pc = "search" /\ steps <= Max({1, options.iterations})
  /\ \E s \in results \cup (IF results = {} THEN {state} ELSE {}) : \E total \in {TotalCost(s)} :
       IF results # {} /\ (cost = Infinite \/ total < cost)
       THEN state' = s /\ cost' = total
       ELSE UNCHANGED <<state, cost>>
  /\ steps' = steps + 1
  /\ UNCHANGED <<given, options, clusters, pc, attempt, order, fixed, movable, unplaced, best>>

\* One iteration.  A move that finds nothing to do leaves all as it was.
Try(results) ==
  /\ pc = "search" /\ steps < Max({1, options.iterations})
  /\ \E s \in results \cup (IF results = {} THEN {state} ELSE {}) : \E total \in {TotalCost(s)} :
       IF results # {} /\ (cost = Infinite \/ total < cost)
       THEN state' = s /\ cost' = total
       ELSE UNCHANGED <<state, cost>>
  /\ steps' = steps + 1
  /\ UNCHANGED <<given, options, clusters, pc, attempt, order, fixed, movable, unplaced, best>>

\* A move looks the part up on the board and in the registry.
Found == {r \in movable : r \in On(state) /\ Known(r)}

Translate == \E r \in Found : Try(Translated(r))
RotatePart == \E r \in Found : Try(Rotated(r))
Span == \E r \in Found : Try(Respanned(r))
Swap == \E r \in Found : Try(Swapped(r))
RelocateCluster == \E r \in Found : Try(Relocated(r))

SearchEnds ==
  /\ pc = "search" /\ steps = Max({1, options.iterations})
  /\ pc' = "finish"
  /\ UNCHANGED <<given, options, clusters, attempt, order, fixed, state, movable, unplaced, cost, steps, best>>

-----------------------------------------------------------------------------
(* Restarts: the fewest unplaced parts, then the lowest cost. *)

Beats(total) ==
  \/ best = NoBest
  \/ Cardinality(unplaced) < Cardinality(best.unplaced)
  \/ Cardinality(unplaced) = Cardinality(best.unplaced) /\ total < best.cost

FinishAttempt ==
  /\ pc = "finish"
  /\ \E total \in {TotalCost(state)} :
       best' = IF Beats(total) THEN [state |-> state, unplaced |-> unplaced, cost |-> total] ELSE best
  /\ attempt' = attempt + 1
  /\ pc' = IF attempt + 1 < Max({1, options.restarts}) THEN "seed" ELSE "done"
  /\ UNCHANGED <<given, options, clusters, order, fixed, state, movable, unplaced, cost, steps>>

Init ==
  /\ given \in InitialLayouts /\ options \in OptionSets
  /\ \E seq \in SetToSeqs(To92s) : \E m \in {Clusters(seq).members} :
       clusters = [members |-> m, anchorOf |-> AnchorOf(m)]
  /\ pc = "seed" /\ attempt = 0 /\ order = <<>> /\ fixed = {} /\ state = Empty
  /\ movable = {} /\ unplaced = {} /\ cost = Infinite /\ steps = 0 /\ best = NoBest

Next ==
  \/ Seed \/ PlaceNext \/ GreedyEnds
  \/ Translate \/ RotatePart \/ Span \/ Swap \/ RelocateCluster \/ SearchEnds
  \/ FinishAttempt

Spec == Init /\ [][Next]_vars
-----------------------------------------------------------------------------
(* Properties *)

PlacementType(p) ==
  /\ p.anchor \in Holes /\ p.turn \in {0, 90, 180, 270} /\ p.span \in Nat \cup {NoSpan}
  /\ \A q \in DOMAIN p.pins : p.pins[q] \in Holes
  /\ p.cells \subseteq Holes /\ p.locked \in BOOLEAN

\* The types of the variables (_PlacerState and the locals of place()).
TypeOK ==
  /\ given \in InitialLayouts /\ options \in OptionSets
  /\ clusters.anchorOf \in [Refs -> Refs] /\ clusters.members \subseteq Refs \X Refs
  /\ pc \in {"seed", "greedy", "search", "finish", "done"}
  /\ attempt \in 0..Max({1, options.restarts}) /\ steps \in 0..Max({1, options.iterations})
  /\ pc = "search" => movable = Found
  /\ order \in Seq(Refs) /\ fixed \subseteq Refs /\ movable \subseteq Refs /\ unplaced \subseteq Refs
  /\ \A r \in Refs : state.placed[r] # NoPose => PlacementType(state.placed[r])
  /\ state.taken \subseteq Holes
  /\ cost \in Nat \cup {Infinite}
  /\ best # NoBest => best.unplaced \subseteq Refs /\ best.cost \in Nat

\* The greedy pass does not come to a part that it has already put down.
VisitedOnce ==
  pc = "greedy" /\ order # <<>> => Head(order) \in fixed \/ Head(order) \notin On(state)

\* A part of the netlist is placed or reported as unplaced, and not both: the order is
\* worked off without losing a part, or taking one twice, to the regrouping by clusters,
\* and no later move loses one (_stable_reorder_by_cluster, _greedy_pass, the moves).
EveryPartAccounted ==
  VisitedOnce /\ (pc = "done" => On(best.state) = Refs \ best.unplaced)

Apart(s) == \A q, r \in On(s) : q # r => Cells(s.poses[q]) \cap Cells(s.poses[r]) = {}
Exact(s) == Apart(s) /\ s.taken = UNION {Cells(s.poses[r]) : r \in On(s)}

\* Once parts lie apart and the mask shows what they cover, the greedy pass and every
\* move but the one of a cluster keep it so (_clear_pose_from_state and
\* _apply_pose_to_state in pairs).
OnlyClusterMovesBreak ==
  [][pc # "seed" /\ Exact(state) /\ ~RelocateCluster => Exact(state')]_vars

\* A locked part with no other part of its footprint and alone in its cluster stays as
\* the document has it, in every attempt and in the answer (_seed_locked_placements, and
\* the moves, which look at no locks).
LoneLockedStay ==
  \A r \in fixed :
    (\A q \in Refs \ {r} : FootprintId[q] # FootprintId[r] /\ clusters.anchorOf[q] # clusters.anchorOf[r])
      => /\ pc # "seed" => state.placed[r] = given[r]
         /\ best # NoBest => best.state.placed[r] = given[r]

\* What place.py says of locked components, that they "copy through from initial_layout
\* verbatim", and traces/solve.py of both placers, that they are "kept as-is".
LockedStay == pc = "done" => \A r \in LockedIn(given) : best.state.placed[r] = given[r]
=============================================================================
