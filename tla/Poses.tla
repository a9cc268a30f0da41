--------------------------------- MODULE Poses ---------------------------------
(* Parts, their footprints, the poses a board has for them and what a pose costs
   (domain/poses.py, domain/cost.py over domain/index.py).  A hole is its column and
   its row on the main lattice; rails only take wires and are left out.  Costs are
   integers: millimetres are pitches, and a pitch is Unit. *)
EXTENDS Integers, Sequences, FiniteSets, FiniteSetsExt, Functions, TLC

CONSTANTS
  Holes,         \* the lattice: pairs <<column, row>>
  Disabled,      \* holes that are not enabled
  RowY,          \* RowY[row]: where a row is, in pitches
  Gap,           \* <<lo, hi>>: the rows at the center gap
  NearEdge(_),   \* is a body at an edge, where a user reaches it?
  Footprint,     \* Footprint[f]: the registry
  ByName,        \* the components' references, sorted
  FootprintId,   \* FootprintId[r] need not be in the registry
  Nets,          \* in the order of the document
  Net,           \* Net[n]: class and pins, a sequence of pairs <<reference, pin>>
  Weight,        \* options.placement_weights
  OwnPinCounts,  \* is a pin a neighbour of itself?  (not so in domain/cost.py)
  NoNet

Refs == {ByName[i] : i \in DOMAIN ByName}
Place(r) == CHOOSE i \in DOMAIN ByName : ByName[i] = r
Known(r) == FootprintId[r] \in DOMAIN Footprint
FootprintOf(r) == Footprint[FootprintId[r]]

NoSpan == -1
NoPose == <<>>   \* where a part is not, no record of a pose
Unit == 12

\* What the registry says of a footprint.  Rigid parts have the one span NoSpan.
FootprintType(f) ==
  /\ DOMAIN f.pins # {} /\ \A p \in DOMAIN f.pins : f.pins[p] \in Int \X Int
  /\ f.body \subseteq Int \X Int
  /\ f.turns \subseteq {0, 90, 180, 270}
  /\ f.spans = {NoSpan} \/ (f.spans \subseteq Nat \ {0} /\ DOMAIN f.pins = {"1", "2"})
  /\ IsFiniteSet(DOMAIN f.pins) /\ IsFiniteSet(f.body) /\ IsFiniteSet(f.spans)
  /\ f.preferred \in Int /\ f.clearance \in Nat
  /\ f.straddles \in BOOLEAN /\ f.userFacing \in BOOLEAN
  /\ f.family \in {"DIP", "TO-92", "resistor", "capacitor", "other"}

ASSUME PosesAssumption ==
  /\ Holes \subseteq Nat \X Nat /\ IsFiniteSet(Holes) /\ Disabled \subseteq Holes
  /\ \A h \in Holes : RowY[h[2]] \in Nat
  /\ Gap \in Nat \X Nat
  /\ \A f \in DOMAIN Footprint : FootprintType(Footprint[f])
  /\ ByName \in Seq(Refs) /\ Cardinality(Refs) = Len(ByName)
  /\ Nets \in Seq(DOMAIN Net)
  /\ \A i \in DOMAIN Nets : Net[Nets[i]].pins \in Seq(Refs \X STRING)
  /\ DOMAIN Weight = {"distance", "congestion", "mechanical", "access", "overlap", "cluster"}
  /\ \A w \in DOMAIN Weight : Weight[w] \in Nat
  /\ OwnPinCounts \in BOOLEAN

-----------------------------------------------------------------------------
(* Poses *)

\* _rotate_offset
Rotate(d, turn) ==
  CASE turn = 0 -> d
    [] turn = 90 -> <<d[2], 0 - d[1]>>
    [] turn = 180 -> <<0 - d[1], 0 - d[2]>>
    [] turn = 270 -> <<0 - d[2], d[1]>>

Plus(h, d) == <<h[1] + d[1], h[2] + d[2]>>

\* _flexible_local_offsets: a part with flexible leads is a line of the chosen span.
Leads(length) == [p \in {"1", "2"} |-> IF p = "1" THEN <<0, 0>> ELSE <<length, 0>>]
PinOffsets(f, span) == IF span = NoSpan THEN f.pins ELSE Leads(span)
BodyCells(f, span) == IF span = NoSpan THEN f.body ELSE {<<x, 0>> : x \in 0..span}

\* _mech_cost, in halves.
MechCost(f, turn, span) ==
  (IF span = NoSpan THEN 0
   ELSE 2 * (IF span > f.preferred THEN span - f.preferred ELSE f.preferred - span))
    + (IF turn \in {90, 270} THEN 1 ELSE 0)

\* _resolve_pin_holes, before the checks.
PoseAt(f, anchor, turn, span) ==
  LET offsets == PinOffsets(f, span)
  IN [anchor |-> anchor, turn |-> turn, span |-> span,
      pins |-> [p \in DOMAIN offsets |-> Plus(anchor, Rotate(offsets[p], turn))],
      body |-> {Plus(anchor, Rotate(d, turn)) : d \in BodyCells(f, span)},
      mech |-> MechCost(f, turn, span)]

PinHoles(pose) == {pose.pins[p] : p \in DOMAIN pose.pins}

\* The bits of occupied_mask; _all_holes_for_pose.
Cells(pose) == pose.body \cup PinHoles(pose)

\* _check_straddle_center_gap
Straddles(cells) ==
  /\ \E h \in cells : h[2] <= Gap[1]
  /\ \E h \in cells : h[2] >= Gap[2]

\* _check_min_clearance: so many holes next to a cell in every direction, not counting
\* the part's own.  Other parts are never looked at (the mask is 0), and a scan that
\* runs off the board fails.
Clear(cells, value) ==
  \A c \in cells, d \in {<<0, 1>>, <<0, -1>>, <<1, 0>>, <<-1, 0>>} :
    \E k \in value..(value + Cardinality(cells)) :
      LET ray == {<<c[1] + j * d[1], c[2] + j * d[2]>> : j \in 1..k}
      IN ray \subseteq Holes \ Disabled /\ Cardinality(ray \ cells) = value

\* generate_poses
Fits(f, pose) ==
  /\ Cells(pose) \subseteq Holes \ Disabled
  /\ f.straddles => Straddles(Cells(pose))
  /\ f.clearance > 0 => Clear(Cells(pose), f.clearance)

PosesOf(f) ==
  {pose \in {PoseAt(f, h, t, s) : h \in Holes, t \in f.turns, s \in f.spans} : Fits(f, pose)}

\* Computed once for each footprint, as _POSE_CACHE has it.
Poses == [f \in DOMAIN Footprint |-> PosesOf(Footprint[f])]

\* Hole ids sort by row, then by column, on boards of up to nine columns.
HoleBefore(a, b) == a[2] < b[2] \/ (a[2] = b[2] /\ a[1] < b[1])

\* The order of the pose list, and of equal costs in the greedy pass.
PoseBefore(p, q) ==
  \/ HoleBefore(p.anchor, q.anchor)
  \/ /\ p.anchor = q.anchor
     /\ p.turn < q.turn \/ (p.turn = q.turn /\ p.span < q.span)

-----------------------------------------------------------------------------
(* What a pose costs.  poses[r] is the pose of a placed part, else NoPose; occupied
   is the mask of taken holes. *)

Abs(d) == IF d < 0 THEN 0 - d ELSE d
Point(h) == <<Unit * h[1], Unit * RowY[h[2]]>>
Manhattan(a, b) == Abs(a[1] - b[1]) + Abs(a[2] - b[2])

\* net_of_pin: the first net that names a pin has it.
Pins(n) == {Net[n].pins[i] : i \in DOMAIN Net[n].pins}
NetOfPin ==
  [x \in UNION {Pins(Nets[i]) : i \in DOMAIN Nets} |->
     Nets[Min({i \in DOMAIN Nets : x \in Pins(Nets[i])})]]
NetOf(r, p) == IF <<r, p>> \in DOMAIN NetOfPin THEN NetOfPin[<<r, p>>] ELSE NoNet

PinsOn(n) == {x \in DOMAIN NetOfPin : NetOfPin[x] = n}

\* placed_pin_points of a net.
PlacedPins(n, poses) ==
  {x \in PinsOn(n) : /\ poses[x[1]] # NoPose
                     /\ x[2] \in DOMAIN poses[x[1]].pins}

\* _nearest_placed_same_net: the placed pins that a pin is measured to.
Neighbours(r, p, poses) ==
  LET placed == PlacedPins(NetOf(r, p), poses)
  IN IF OwnPinCounts THEN placed ELSE placed \ {<<r, p>>}

\* _weighted_manhattan_term
DistanceTerm(r, pose, poses) ==
  LET Nearest(p) ==
        LET near == {Manhattan(Point(pose.pins[p]), Point(poses[x[1]].pins[x[2]])) :
                       x \in Neighbours(r, p, poses)}
        IN IF near = {} THEN 0 ELSE Min(near)
      wired == {p \in DOMAIN pose.pins : NetOf(r, p) # NoNet}
  IN SumFunction([p \in wired |-> Nearest(p)])

\* _congestion_term: taken holes up to two columns and one row from the body.
CongestionTerm(pose, occupied) ==
  LET xs == {h[1] : h \in pose.body}
      ys == {RowY[h[2]] : h \in pose.body}
  IN IF pose.body = {} THEN 0
     ELSE Cardinality({h \in occupied \ pose.body :
            /\ h[1] \in (Min(xs) - 2)..(Max(xs) + 2)
            /\ RowY[h[2]] \in (Min(ys) - 1)..(Max(ys) + 1)})

\* _accessibility_term: a part for the user that is away from the edges.
AccessTerm(f, pose) == IF f.userFacing /\ pose.body # {} /\ ~NearEdge(pose.body) THEN 1 ELSE 0

\* _pose_centroid; Unit is a multiple of the sizes of bodies.
Centroid(pose) ==
  LET size == Cardinality(pose.body)
      Mean(i) == SumFunction([h \in pose.body |-> Point(h)[i]]) \div size
  IN IF size = 0 THEN <<0, 0>> ELSE <<Mean(1), Mean(2)>>

\* placement_cost.  anchor is the part that r's cluster is built around.
Cost(r, pose, poses, occupied, anchor) ==
  LET f == FootprintOf(r)
  IN Weight.distance * DistanceTerm(r, pose, poses)
       + Weight.congestion * Unit * CongestionTerm(pose, occupied)
       + Weight.mechanical * (Unit \div 2) * pose.mech
       + Weight.access * Unit * AccessTerm(f, pose)
       + Weight.overlap * Unit * (IF occupied \cap Cells(pose) # {} THEN 1 ELSE 0)
       + Weight.cluster * (IF anchor # r /\ poses[anchor] # NoPose
                           THEN Manhattan(Centroid(pose), Centroid(poses[anchor])) ELSE 0)
=============================================================================
