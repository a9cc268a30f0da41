----------------------------- MODULE Connectivity -----------------------------
(* Which holes of a breadboard are one electrical node (domain/connectivity.py over
   domain/dsu.py).  The disjoint-set union is the partition it stands for: find
   gives the class of a hole, union merges two classes. *)
EXTENDS Naturals, FiniteSets, FiniteSetsExt

CONSTANTS
  Holes,   \* ordered as their ids are
  Groups   \* Groups[g]: the holes of an electrical group of the board

ASSUME BoardAssumption ==
  IsFiniteSet(Holes) /\ \A g \in DOMAIN Groups : Groups[g] \subseteq Holes

\* union: the classes that a link touches become one.
Merge(nodes, link) ==
  LET touched == {c \in nodes : c \cap link # {}}
  IN IF touched = {} THEN nodes ELSE (nodes \ touched) \cup {UNION touched}

\* The same as a step of a fold; the bound variable has TLC evaluate nodes once.
Join(link, nodes) == UNION {Merge(n, link) : n \in {nodes}}

\* The board alone: every hole, then its groups.
Strips == FoldSet(Join, {{h} : h \in Holes}, {Groups[g] : g \in DOMAIN Groups})

\* build_connectivity: pairs of holes joined inside parts, by jumpers and by links.
Nodes(pairs) == FoldSet(Join, Strips, pairs)

\* All of hs have one root.
Together(hs, nodes) == \E c \in nodes : hs \subseteq c

-----------------------------------------------------------------------------
(* The reference: holes are one node when a path of groups and pairs leads from one
   to the other. *)

\* What is at most one link further.
Grow(near, links) == near \cup UNION {l \in links : l \cap near # {}}

Reachable(h, links) ==
  LET near[k \in 0..Cardinality(Holes)] ==
        IF k = 0 THEN {h} ELSE Grow(near[k - 1], links)
  IN near[Cardinality(Holes)]

ReachableNodes(pairs) ==
  {Reachable(h, pairs \cup {Groups[g] : g \in DOMAIN Groups}) : h \in Holes}
=============================================================================
