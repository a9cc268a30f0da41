------------------------------- MODULE PerfPlacer -------------------------------
(* place_greedy() of perfboards (domain/traces/place.py), a copy of place() on a plain
   grid: no strips, no rails, no gap, no hole that is not enabled.  The copy differs in
   two terms of the cost: a pin counts as a neighbour of itself, so that only parts not
   on the board yet are pulled by their nets, and all four edges are edges. *)
EXTENDS Integers, Sequences, FiniteSets, TLC

CONSTANTS
  Rows, Cols,
  Footprint, ByName, Listed, FootprintId, Nets, Net, Weight,
  InitialLayouts, OptionSets,
  NoNet, NoRef, NoBest

VARIABLES given, options, clusters, pc, attempt, order, fixed, state, movable, unplaced, cost, steps, best

placerVars == <<given, options, clusters, pc, attempt, order, fixed, state, movable, unplaced, cost, steps, best>>

-----------------------------------------------------------------------------
(* The board *)

\* _PerfIndex
Lattice == (1..Cols) \X (1..Rows)
RowAt == [r \in 1..Rows |-> r - 1]

\* Bands of 15 per cent of an axis, rounded, at least one hole; the bound of a band is the
\* hole behind it.  A body that touches a band is near.
Band(n) == IF (15 * n + 50) \div 100 > 1 THEN (15 * n + 50) \div 100 ELSE 1
NearAnyEdge(body) ==
  \E h \in body :
    \/ h[1] - 1 <= Band(Cols) \/ Cols - h[1] <= Band(Cols)
    \/ h[2] - 1 <= Band(Rows) \/ Rows - h[2] <= Band(Rows)

P == INSTANCE Placer WITH
       Holes <- Lattice, Disabled <- {}, RowY <- RowAt, Gap <- <<0, 0>>,
       NearEdge <- NearAnyEdge, OwnPinCounts <- TRUE

\* What the placer assumes of its constants.
ASSUME PerfPlacerAssumption ==
  Rows \in Nat /\ Cols \in Nat /\ P!PosesAssumption /\ P!ClustersAssumption /\ P!PlacerAssumption

Refs == {ByName[i] : i \in DOMAIN ByName}
Known(r) == P!Known(r)
NoPose == P!NoPose

\* generate_poses: for each footprint, what fits on the grid.
Poses == P!Poses

-----------------------------------------------------------------------------
(* The steps of place_greedy() *)

Seed == P!Seed
GreedyStep == P!PlaceNext
GreedyEnds == P!GreedyEnds
Translate == P!Translate
RotatePart == P!RotatePart
Span == P!Span
Swap == P!Swap
RelocateCluster == P!RelocateCluster
SearchEnds == P!SearchEnds
FinishAttempt == P!FinishAttempt

PlacerInit == P!Init

PlacerNext ==
  \/ Seed \/ GreedyStep \/ GreedyEnds
  \/ Translate \/ RotatePart \/ Span \/ Swap \/ RelocateCluster \/ SearchEnds
  \/ FinishAttempt
=============================================================================
