-------------------------------- MODULE Clusters --------------------------------
(* Groups of parts that should sit together, and the order that the placer takes parts
   in (domain/cluster.py, the ordering of domain/place.py). *)
EXTENDS Poses, SequencesExt

CONSTANTS
  Listed,   \* the components in the order of the document
  NoRef

ASSUME ClustersAssumption ==
  /\ Listed \in Seq(Refs) /\ \A r \in Refs : \E i \in DOMAIN Listed : Listed[i] = r
  /\ NoRef \notin Refs

Family(r) == IF Known(r) THEN FootprintOf(r).family ELSE "other"
Dips == {r \in Refs : Family(r) = "DIP"}
To92s == {r \in Refs : Family(r) = "TO-92"}

\* _is_two_pin, and the rules' lists of footprints.
TwoPin(r) == Family(r) \in {"resistor", "capacitor"} /\ Cardinality(DOMAIN FootprintOf(r).pins) = 2

NetsOf(r) == {Nets[i] : i \in {j \in DOMAIN Nets : \E x \in Pins(Nets[j]) : x[1] = r}}
Shared(r, s) == NetsOf(r) \cap NetsOf(s)

-----------------------------------------------------------------------------
(* build_clusters.  of[r] is the anchor that r has joined; members are pairs of an anchor
   and a part of its cluster. *)

\* _ensure_anchor
Ensure(c, r) ==
  IF c.of[r] # NoRef THEN c
  ELSE [of |-> [c.of EXCEPT ![r] = r], members |-> c.members \cup {<<r, r>>}]

\* _join
Join(c, anchor, r) ==
  IF c.of[r] # NoRef THEN c
  ELSE [of |-> [c.of EXCEPT ![r] = anchor], members |-> c.members \cup {<<anchor, anchor>>, <<anchor, r>>}]

\* Rules (b), (d): the DIPs that a part may join.
BypassDips(r) ==
  {d \in Dips \ {r} : /\ TwoPin(r)
                      /\ Cardinality(Shared(r, d)) >= 2
                      /\ \E n \in Shared(r, d) : Net[n].class \in {"power", "ground"}}
ClockDips(r) == {d \in Dips \ {r} : \E n \in Shared(r, d) : Net[n].class = "clock"}

\* Rule (c).
Transistors(r) == {q \in To92s \ {r} : Family(r) = "resistor" /\ Shared(r, q) # {}}

FirstOf(seq, S) ==
  seq[CHOOSE i \in DOMAIN seq : seq[i] \in S /\ \A j \in 1..(i - 1) : seq[j] \notin S]

\* One part.  set92 is the order that the set of TO-92s is walked in, which is not the
\* document's and may differ from one process to the next.
Assign(c, r, set92) ==
  LET free == c.of[r] # r
      q == FirstOf(set92, Transistors(r))
  IN CASE ~free -> c
       [] free /\ BypassDips(r) # {} -> Join(c, FirstOf(Listed, BypassDips(r)), r)
       [] free /\ BypassDips(r) = {} /\ Transistors(r) # {} -> Join(Ensure(c, q), q, r)
       [] free /\ BypassDips(r) \cup Transistors(r) = {} /\ ClockDips(r) # {} ->
            Join(c, FirstOf(Listed, ClockDips(r)), r)
       [] OTHER -> Ensure(c, r)

Clusters(set92) ==
  LET start == [of |-> [r \in Refs |-> IF r \in Dips THEN r ELSE NoRef],
                members |-> {<<d, d>> : d \in Dips}]
      after[k \in 0..Len(ByName)] ==
        IF k = 0 THEN start ELSE Assign(after[k - 1], ByName[k], set92)
  IN after[Len(ByName)]
Members(anchor, members) == {r \in Refs : <<anchor, r>> \in members}

\* cluster_anchor_of in place(): a part of two clusters has the anchor that sorts last.
AnchorOf(members) ==
  [r \in Refs |-> CHOOSE a \in Refs : /\ <<a, r>> \in members
                                      /\ \A b \in Refs : <<b, r>> \in members => Place(b) <= Place(a)]

-----------------------------------------------------------------------------
(* The order *)

\* _approx_pose_count
PoseCount(r) == IF Known(r) THEN Cardinality(FootprintOf(r).turns) * Cardinality(FootprintOf(r).spans) ELSE 0

\* _build_order: locked parts, those with a clearance, DIPs, then the fewest poses first.
OrderKey(r, fixed) ==
  CASE r \in fixed -> <<1, 0, Place(r)>>
    [] r \notin fixed /\ Known(r) /\ FootprintOf(r).clearance > 0 -> <<2, 0, Place(r)>>
    [] r \notin fixed /\ (Known(r) => FootprintOf(r).clearance = 0) /\ r \in Dips -> <<3, 0, Place(r)>>
    [] OTHER -> <<4, PoseCount(r), Place(r)>>

KeyBefore(k, l) ==
  \/ k[1] < l[1]
  \/ k[1] = l[1] /\ k[2] < l[2]
  \/ k[1] = l[1] /\ k[2] = l[2] /\ k[3] < l[3]

\* The parts in the order of their keys, of which no two are equal.
Arranged(key) ==
  [i \in 1..Cardinality(DOMAIN key) |->
     CHOOSE r \in DOMAIN key : Cardinality({q \in DOMAIN key : KeyBefore(key[q], key[r])}) = i - 1]

BaseOrder(fixed) == Arranged([r \in Refs |-> OrderKey(r, fixed)])

At(order, r) == CHOOSE i \in DOMAIN order : order[i] = r

\* Mutation of PullTogether: the members stay where they were, too.
PullTogetherTwice(order, anchor, members) ==
  LET pulled == SelectSeq(ByName, LAMBDA r : r # anchor /\ r \in Members(anchor, members))
      at == At(order, anchor)
  IN SubSeq(order, 1, at) \o pulled \o SubSeq(order, at + 1, Len(order))

\* _stable_reorder_by_cluster, one anchor.  Its members are taken out and go, by name,
\* behind the index that the anchor had before: that many of the other parts stay in front
\* of them, so members that lay before the anchor push the block away from it.
PullTogether(order, anchor, members) ==
  LET pulled == Members(anchor, members) \ {anchor}
      UpTo(r) == {q \in Refs \ pulled : At(order, q) <= At(order, r)}
      front == {r \in Refs \ pulled : Cardinality(UpTo(r)) <= At(order, anchor)}
  IN Arranged([r \in Refs |-> CASE r \in front -> <<1, 0, At(order, r)>>
                                [] r \in pulled -> <<2, 0, Place(r)>>
                                [] OTHER -> <<3, 0, At(order, r)>>])

Order(fixed, members) ==
  LET base == BaseOrder(fixed)
      after[k \in 0..Len(base)] ==
        IF k = 0 THEN base ELSE PullTogether(after[k - 1], base[k], members)
  IN after[Len(base)]
=============================================================================
