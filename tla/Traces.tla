--------------------------------- MODULE Traces ---------------------------------
(* Copper on a perfboard: the cheapest way through the maze of holes and two layers, the
   tree of ways that joins a net, and the order of the nets (domain/traces/maze.py,
   domain/traces/route.py).  A node of the maze is a hole with a layer.  Lengths are in
   hundredths of a millimetre. *)
EXTENDS Integers, Sequences, FiniteSets, FiniteSetsExt

CONSTANTS
  Rows, Cols,
  DoubleSided,   \* is there copper on both sides?
  Nets,   \* in the order of their ids
  Net,    \* Net[n]: class, priority and pins, a sequence of pairs <<reference, pin>>
  NoPose  \* what placed[r] is for a part that is not placed

Pitch == 254
ViaCost == 500
CongestionWeight == 50

Lattice == (1..Cols) \X (1..Rows)
Layers == {"top", "bottom"}
Maze == Lattice \X Layers
Other(layer) == IF layer = "top" THEN "bottom" ELSE "top"

Grid(a, b) == (IF a[1] < b[1] THEN b[1] - a[1] ELSE a[1] - b[1])
                + (IF a[2] < b[2] THEN b[2] - a[2] ELSE a[2] - b[2])
HoleBefore(a, b) == a[2] < b[2] \/ (a[2] = b[2] /\ a[1] < b[1])

-----------------------------------------------------------------------------
(* The cheapest way *)

\* build_maze: four neighbours on a layer; on a board of two layers also the other layer,
\* by a via.
Beside(h) == {g \in {<<h[1] + 1, h[2]>>, <<h[1] - 1, h[2]>>, <<h[1], h[2] + 1>>, <<h[1], h[2] - 1>>} :
                g \in Lattice}
Vias(node) == IF DoubleSided THEN {<<node[1], Other(node[2])>>} ELSE {}
Next(node) == {<<g, node[2]>> : g \in Beside(node[1])} \cup Vias(node)

HolesOn(way) == {way[i][1] : i \in DOMAIN way}

\* record_usage: does the step from u to v count as one from a hole to another on a layer?
\* A via is a step from a hole to itself, and every step that leaves the hole on the new
\* layer has such an end: all of them count as used.
Counts(u, v, from, to, layer) == u[1] = from /\ v[2] = layer /\ (u[1] = v[1] \/ v[1] = to)

\* usage of the maze: the steps of earlier nets, each by its trace and its place in it.
StepsOf(traces) == UNION {{t} \X (1..(Len(t.way) - 1)) : t \in traces}
Used(from, to, layer, traces) ==
  Cardinality({x \in StepsOf(traces) : Counts(x[1].way[x[2]], x[1].way[x[2] + 1], from, to, layer)})

\* _edge_cost
Cost(u, v, traces) ==
  IF u[1] = v[1] THEN ViaCost ELSE Pitch + CongestionWeight * Used(u[1], v[1], u[2], traces)

\* An entry of the heap is a way from the start with its cost; taken are those that have
\* been popped, one for each node at most.  Ways go on to nodes without one.
End(e) == e.way[Len(e.way)]
Onward(e, v, traces) == [way |-> Append(e.way, v), cost |-> e.cost + Cost(End(e), v, traces)]
Queue(taken, traces) ==
  UNION {{Onward(e, v, traces) : v \in Next(End(e)) \ {End(f) : f \in taken}} : e \in taken}

\* The order of the heap: the cost and what is left at least, a millimetre per hole.  Of
\* equal entries the oldest is taken, here any fixed one.
Estimate(e, to) == e.cost + 100 * Grid(End(e)[1], to)
First(queue, to) == CHOOSE e \in queue : \A f \in queue : Estimate(e, to) <= Estimate(f, to)

\* maze_route, _reconstruct: the way from the top side of a hole that comes to either side
\* of another first.
At(to, taken) == {e \in taken : End(e)[1] = to}
Pop(taken, to, traces) ==
  IF At(to, taken) # {} THEN taken ELSE taken \cup {First(Queue(taken, traces), to)}
Way(from, to, traces) ==
  LET taken[i \in 0..Cardinality(Maze)] ==
        IF i = 0 THEN {[way |-> <<<<from, "top">>>>, cost |-> 0]} ELSE Pop(taken[i - 1], to, traces)
  IN (CHOOSE e \in At(to, taken[Cardinality(Maze)]) : TRUE).way

-----------------------------------------------------------------------------
(* A net *)

\* _net_terminal_holes: the pins of a net that have a hole of the board.
Connected(n, placed) ==
  {i \in DOMAIN Net[n].pins :
     /\ placed[Net[n].pins[i][1]] # NoPose
     /\ Net[n].pins[i][2] \in DOMAIN placed[Net[n].pins[i][1]].pins
     /\ placed[Net[n].pins[i][1]].pins[Net[n].pins[i][2]] \in Lattice}
Terminals(n, placed) ==
  {placed[Net[n].pins[i][1]].pins[Net[n].pins[i][2]] : i \in Connected(n, placed)}

\* _pick_tree_root
Root(holes) == CHOOSE h \in holes : \A g \in holes \ {h} : HoleBefore(h, g)

\* _pick_tree_attachment: a hole of the tree and a terminal that are nearest.  Of equal
\* pairs the ids decide, as strings; here any fixed one is taken.
Attachment(net) ==
  CHOOSE x \in net.tree \X net.rest : \A y \in net.tree \X net.rest : Grid(x[1], x[2]) <= Grid(y[1], y[2])

\* The ways of a net, from the nearest hole of the tree to the nearest terminal.  The maze
\* is connected and nothing is forbidden before a failure, so the first attempt succeeds
\* and nothing is ever ripped up.  The usage does not change between the ways of one net.
Grow(net, x, way) ==
  [tree |-> net.tree \cup HolesOn(way), rest |-> net.rest \ {x[2]}, ways |-> net.ways \cup {way}]
Attach(net, x, traces) == Grow(net, x, Way(x[1], x[2], traces))

Bare(holes) == [tree |-> {Root(holes)}, rest |-> holes \ {Root(holes)}, ways |-> {}]

\* A mutation: the last terminal is left out.
WaysOfAllButLast(holes, traces) ==
  LET net[i \in 0..(Cardinality(holes) - 2)] ==
        IF i = 0 THEN Bare(holes) ELSE Attach(net[i - 1], Attachment(net[i - 1]), traces)
  IN net[Cardinality(holes) - 2].ways

WaysOf(holes, traces) ==
  LET net[i \in 0..(Cardinality(holes) - 1)] ==
        IF i = 0 THEN Bare(holes) ELSE Attach(net[i - 1], Attachment(net[i - 1]), traces)
  IN net[Cardinality(holes) - 1].ways

-----------------------------------------------------------------------------
(* route() *)

Classes == <<"ground", "power", "high-current", "clock", "switching", "analog-sensitive", "digital",
             "low-priority", "custom">>
Rank(class) == CHOOSE i \in DOMAIN Classes : Classes[i] = class

\* _net_span
NetSpan(n, placed) ==
  LET xs == {h[1] : h \in Terminals(n, placed)}
      ys == {h[2] : h \in Terminals(n, placed)}
  IN IF Cardinality(Connected(n, placed)) < 2 THEN 0 ELSE Max(xs) - Min(xs) + Max(ys) - Min(ys)

\* _sort_nets: class, priority, more terminals, wider, id.
SortKey(n, placed) ==
  <<Rank(Net[n].class), 0 - Net[n].priority, 0 - Cardinality(Connected(n, placed)),
    0 - NetSpan(n, placed)>>
KeyBefore(k, l) == \E i \in 1..4 : k[i] < l[i] /\ \A j \in 1..(i - 1) : k[j] = l[j]
Sorted(placed) ==
  LET key == [i \in DOMAIN Nets |-> SortKey(Nets[i], placed)]
      Before(j) == {i \in DOMAIN Nets : KeyBefore(key[i], key[j]) \/ (key[i] = key[j] /\ i < j)}
  IN [i \in DOMAIN Nets |-> Nets[CHOOSE j \in DOMAIN Nets : Cardinality(Before(j)) = i - 1]]

\* A net with less than two terminals is not routed; the others always are.
RouteNet(route, n, holes) ==
  IF Cardinality(holes) < 2 THEN [route EXCEPT !.unrouted = @ \cup {n}]
  ELSE [route EXCEPT !.traces = @ \cup {[net |-> n, way |-> w] : w \in WaysOf(holes, @)}]
RouteAll(nets, placed) ==
  LET route[i \in 0..Len(nets)] ==
        IF i = 0 THEN [traces |-> {}, unrouted |-> {}]
        ELSE RouteNet(route[i - 1], nets[i], Terminals(nets[i], placed))
  IN route[Len(nets)]
Route(placed) == RouteAll(Sorted(placed), placed)
=============================================================================
