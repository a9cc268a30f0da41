------------------------------- MODULE Validator -------------------------------
(* The verdict on a layout: diagnostics and score (domain/validate.py, domain/score.py).
   A diagnostic is its code and what it is about.  Two parts of one reference, lengths of
   wires and crossings are left out. *)
EXTENDS Poses

CONSTANTS
  RailHoles,   \* pairs <<sequence number, line>>, off the lattice
  Groups,      \* Groups[g]: the holes of an electrical group
  RailLine,    \* RailLine[g]: the line of a group that is a segment of a rail
  PartPins,    \* PartPins[r]: the pins a component has
  JoinedPins,  \* JoinedPins[f]: pairs of pins that are joined inside the part
  AllowCritical

AllHoles == Holes \cup RailHoles
Wiring == INSTANCE Connectivity WITH Holes <- AllHoles

ASSUME ValidatorAssumption ==
  /\ RailHoles \subseteq Nat \X Int /\ IsFiniteSet(RailHoles)
  /\ \A h \in RailHoles : RowY[h[2]] \in Int
  /\ \A g \in DOMAIN Groups : Groups[g] \subseteq AllHoles
  /\ DOMAIN RailLine \subseteq DOMAIN Groups
  /\ \A h \in AllHoles : Cardinality({g \in DOMAIN Groups : h \in Groups[g]}) = 1
  /\ \A r \in Refs : Known(r) => PartPins[r] \subseteq DOMAIN FootprintOf(r).pins
  /\ AllowCritical \in BOOLEAN

GroupOf(h) == CHOOSE g \in DOMAIN Groups : h \in Groups[g]
OnRail(h) == GroupOf(h) \in DOMAIN RailLine

AllNets == {Nets[i] : i \in DOMAIN Nets}
CriticalClasses == {"switching", "clock", "analog-sensitive", "high-current"}
Critical(n) == Net[n].class \in CriticalClasses

\* A layout: placed[r] is a placement or NoPose, jumpers and links are sets.
Ends(j) == {j.from, j.to}
Claims(p) == p.cells \cup {p.pins[q] : q \in DOMAIN p.pins}
PlacedRefs(layout) == {r \in Refs : layout.placed[r] # NoPose}
Claimants(h, layout) == {r \in PlacedRefs(layout) : h \in Claims(layout.placed[r])}

-----------------------------------------------------------------------------
(* Input checks *)

\* _is_rail_backed
RailBacked(n) == Net[n].class \in {"power", "ground"} \/ Net[n].prefersRail

KnownPin(x) == x[1] \in Refs /\ x[2] \in PartPins[x[1]]

InputFaults ==
  {<<"UNKNOWN_FOOTPRINT", FootprintId[r]>> : r \in {q \in Refs : ~Known(q)}}
    \cup {<<"NET_SINGLE_PIN", n>> : n \in {m \in AllNets :
            /\ Len(Net[m].pins) < 2
            /\ ~(Len(Net[m].pins) = 1 /\ DOMAIN RailLine # {} /\ RailBacked(m))}}
    \cup (UNION {{<<"UNKNOWN_PIN_REFERENCE", n, x>> : x \in {y \in Pins(n) : ~KnownPin(y)}} : n \in AllNets})
    \cup {<<"PIN_IN_MULTIPLE_NETS", x>> : x \in {y \in DOMAIN NetOfPin :
            KnownPin(y) /\ Cardinality({n \in AllNets : y \in Pins(n)}) > 1}}

-----------------------------------------------------------------------------
(* Placements and wires *)

\* _placement_straddles_center_gap: a pin in either of the two rows at the gap.
PinsStraddle(p) ==
  /\ \E q \in DOMAIN p.pins : p.pins[q] \in Holes /\ p.pins[q][2] = Gap[1]
  /\ \E q \in DOMAIN p.pins : p.pins[q] \in Holes /\ p.pins[q][2] = Gap[2]

PlacementFaults(layout) ==
  (UNION {{<<"PIN_OUT_OF_BOARD", r, q>> : q \in {x \in DOMAIN layout.placed[r].pins :
             layout.placed[r].pins[x] \notin AllHoles \ Disabled}} : r \in PlacedRefs(layout)})
    \cup {<<"PLACEMENT_RULE_VIOLATION", r>> : r \in {q \in PlacedRefs(layout) :
            Known(q) /\ FootprintOf(q).straddles /\ ~PinsStraddle(layout.placed[q])}}
    \cup {<<"HOLE_COLLISION", h>> : h \in {g \in AllHoles : Cardinality(Claimants(g, layout)) > 1}}

\* body_only_holes: a wire may share a hole with a lead, not with a body.
BodyOnly(h, layout) ==
  /\ Claimants(h, layout) # {}
  /\ \A r \in Claimants(h, layout) : \A q \in DOMAIN layout.placed[r].pins : layout.placed[r].pins[q] # h

JumperFaults(layout) ==
  UNION {{<<"INVALID_JUMPER_ENDPOINT", j, h>> :
            h \in {e \in Ends(j) : e \notin AllHoles \ Disabled \/ BodyOnly(e, layout)}} :
         j \in layout.jumpers}

-----------------------------------------------------------------------------
(* Nets *)

\* What joins holes: the insides of parts, wires, links (build_connectivity).
Links(layout) ==
  {Ends(j) : j \in layout.jumpers} \cup layout.links
    \cup UNION {{{layout.placed[r].pins[q] : q \in pair} : pair \in
                   {x \in JoinedPins[FootprintId[r]] : x \subseteq DOMAIN layout.placed[r].pins}} :
                r \in {s \in PlacedRefs(layout) : Known(s)}}
NodesIn(layout) == Wiring!Nodes(Links(layout))

\* net_to_pins: the pins of a net that have a hole.
Entries(n, layout) ==
  {x \in Pins(n) : /\ x[1] \in PlacedRefs(layout) /\ x[2] \in DOMAIN layout.placed[x[1]].pins
                   /\ layout.placed[x[1]].pins[x[2]] \in AllHoles}
HoleOf(x, layout) == layout.placed[x[1]].pins[x[2]]
EntryHoles(n, layout) == {HoleOf(x, layout) : x \in Entries(n, layout)}

\* The nodes that a net has pins in.
Roots(n, layout, nodes) == {c \in nodes : c \cap EntryHoles(n, layout) # {}}

\* Mutation of NetFaults: shorts are not looked for.
NetFaultsOpen(layout, nodes) ==
  {<<"NET_OPEN", n>> : n \in {m \in AllNets :
     Cardinality(Entries(m, layout)) >= 2 /\ Cardinality(Roots(m, layout, nodes)) > 1}}

NetFaults(layout, nodes) ==
  {<<"SHORT_BETWEEN_NETS", c>> : c \in {d \in nodes :
     Cardinality({n \in AllNets : d \in Roots(n, layout, nodes)}) > 1}}
    \cup {<<"NET_OPEN", n>> : n \in {m \in AllNets :
            Cardinality(Entries(m, layout)) >= 2 /\ Cardinality(Roots(m, layout, nodes)) > 1}}

\* related_net_ids of the errors about nets.
OpenNets(faults) == {n \in AllNets : <<"NET_OPEN", n>> \in faults}
ShortNets(faults, layout) ==
  {n \in AllNets : \E f \in faults : f[1] = "SHORT_BETWEEN_NETS" /\ f[2] \cap EntryHoles(n, layout) # {}}

\* The holes that a net uses: its pins, and the ends of its wires.
UsedHoles(n, layout) ==
  EntryHoles(n, layout) \cup UNION {Ends(j) \cap AllHoles : j \in {k \in layout.jumpers : k.net = n}}

\* _check_rail_segments: two segments of one line.
RailFaults(layout) ==
  {<<"RAIL_SEGMENT_ASSUMED_CONTINUOUS", n>> : n \in {m \in AllNets :
     \E g, h \in DOMAIN RailLine :
       /\ g # h /\ RailLine[g] = RailLine[h]
       /\ UsedHoles(m, layout) \cap Groups[g] # {} /\ UsedHoles(m, layout) \cap Groups[h] # {}}}

\* _check_class_warnings
ClassFaults(layout, nodes) ==
  {<<"CRITICAL_NET_CLASS_ROUTED", n>> : n \in {m \in AllNets :
     Critical(m) /\ Cardinality(Entries(m, layout)) >= 2 /\ Cardinality(Roots(m, layout, nodes)) = 1}}
    \cup {<<"HIGH_CURRENT_ON_RAIL", n>> : n \in {m \in AllNets :
            Net[m].class = "high-current" /\ \E h \in UsedHoles(m, layout) : OnRail(h)}}

\* _check_congestion: more than six ends of wires in a column.
CongestionThreshold == 6
CongestionFaults(layout) ==
  LET In(c) == {x \in layout.jumpers \X AllHoles : x[2] \in Ends(x[1]) /\ x[2][1] = c}
  IN {<<"HIGH_CONGESTION", c>> : c \in {h[1] : h \in {g \in AllHoles :
        Cardinality(In(g[1])) > CongestionThreshold}}}

\* validate_layout
Diagnostics(layout) ==
  UNION {InputFaults \cup PlacementFaults(layout) \cup JumperFaults(layout) \cup NetFaults(layout, nodes)
           \cup RailFaults(layout) \cup ClassFaults(layout, nodes) \cup CongestionFaults(layout) :
         nodes \in {NodesIn(layout)}}

-----------------------------------------------------------------------------
(* Scores *)

\* DIAGNOSTIC_CATALOG
Warnings == {"NET_SINGLE_PIN", "RAIL_SEGMENT_ASSUMED_CONTINUOUS", "CRITICAL_NET_CLASS_ROUTED",
             "HIGH_CURRENT_ON_RAIL", "HIGH_CONGESTION"}
Errors(faults) == {f \in faults : f[1] \notin Warnings}

\* _build_score: what the page shows on every edit.
EditorScore(layout, faults) ==
  [placed |-> Cardinality(PlacedRefs(layout)),
   completed |-> Cardinality({n \in AllNets \ (OpenNets(faults) \cup ShortNets(faults, layout)) :
                    Entries(n, layout) # {} /\ (AllowCritical \/ ~Critical(n))}),
   jumpers |-> Cardinality(layout.jumpers),
   errors |-> Cardinality(Errors(faults)), warnings |-> Cardinality(faults \ Errors(faults))]

\* score_layout: what a job returns.  A net without placed pins counts as completed.
JobScore(layout, faults, placementCost, routingCost) ==
  [placed |-> Cardinality(PlacedRefs(layout)),
   completed |-> Cardinality(AllNets \ (OpenNets(faults) \cup ShortNets(faults, layout))),
   jumpers |-> Cardinality(layout.jumpers), total |-> placementCost + routingCost,
   errors |-> Cardinality(Errors(faults)), warnings |-> Cardinality(faults \ Errors(faults))]

-----------------------------------------------------------------------------
(* The reference *)

\* The layout is the circuit: every pin has a hole of its own, two pins are one node by a
\* path of strips, wires and leads if and only if they are of one net.
Builds(layout) ==
  LET nodes == Wiring!ReachableNodes(Links(layout))
      all == UNION {{<<r, q>> : q \in DOMAIN layout.placed[r].pins} : r \in PlacedRefs(layout)}
      One(x, y) == \E c \in nodes : {HoleOf(x, layout), HoleOf(y, layout)} \subseteq c
  IN /\ \A x, y \in all : HoleOf(x, layout) = HoleOf(y, layout) => x = y \/ x[1] = y[1]
     /\ \A x, y \in DOMAIN NetOfPin : {x, y} \subseteq all =>
          (One(x, y) <=> NetOfPin[x] = NetOfPin[y])
     /\ DOMAIN NetOfPin \subseteq all
=============================================================================
