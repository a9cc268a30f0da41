----------------------------- MODULE RouterProofs -----------------------------
(* Proofs about Router: the states of a call are well formed; a net that is not reported
   as unrouted is joined by what the call had and laid; nets are kept apart; and rounds lose no
   net that was routed.  They rest on what Connectivity promises: more wires never part
   what is joined, nothing finer joins the same, and a tree joins the holes that it was
   grown over. *)
EXTENDS Router, ConnectivityProofs

-----------------------------------------------------------------------------
(* Sequences *)

\* In a finite set of numbers every rank is taken.
LEMMA RankTaken ==
  ASSUME NEW is \in SUBSET Nat, IsFiniteSet(is), NEW k \in 1..Cardinality(is)
  PROVE  \E i \in is : Cardinality({j \in is : j < i}) = k - 1
<1> DEFINE Rank(i) == Cardinality({j \in is : j < i})
           T == {r \in 1..Cardinality(is) : \A i \in is : Rank(i) # r - 1}
<1>1. Cardinality(is) \in Nat
  BY FS_CardinalityType
<1>2. SUFFICES ASSUME T # {} PROVE FALSE
  OBVIOUS
<1>3. T \subseteq Nat
  BY <1>1
<1>4. \E r \in T : \A q \in T : r <= q
  <2> HIDE DEF T
  <2> QED
    BY <1>2, <1>3, SmallestNumber
<1>5. PICK r \in T : \A q \in T : r <= q
  BY <1>4
<1>6. r \in 1..Cardinality(is) /\ \A i \in is : Rank(i) # r - 1
  OBVIOUS
<1>7. \E low \in SUBSET is : /\ Cardinality(low) = r - 1
                             /\ \A j \in low, m \in is \ low : j < m
  <2>1. CASE r = 1
    <3>1. Cardinality({}) = r - 1
      BY <2>1, FS_EmptySet
    <3> QED
      BY <3>1
  <2>2. CASE r # 1
    <3>1. r - 1 \in 1..Cardinality(is) /\ r - 1 \notin T
      BY <1>1, <1>5, <1>6, <2>2
    <3>2. PICK i \in is : Rank(i) = r - 1 - 1
      BY <3>1
    <3> DEFINE under == {j \in is : j < i}
    <3>3. IsFiniteSet(under) /\ i \notin under /\ under \subseteq is
      BY FS_Subset
    <3>4. Cardinality(under \cup {i}) = r - 1
      <4>1. Cardinality(under) = r - 1 - 1
        BY <3>2
      <4> HIDE DEF under
      <4>2. Cardinality(under \cup {i}) = Cardinality(under) + 1
        BY <3>3, FS_AddElement
      <4> QED
        BY <4>1, <4>2, <1>1, <1>6
    <3>5. \A j \in under \cup {i}, m \in is \ (under \cup {i}) : j < m
      OBVIOUS
    <3> QED
      BY <3>3, <3>4, <3>5
  <2> QED
    BY <2>1, <2>2
<1>8. PICK low \in SUBSET is : /\ Cardinality(low) = r - 1
                               /\ \A j \in low, m \in is \ low : j < m
  BY <1>7
<1>9. is \ low # {}
  <2>1. is \ low = {} => low = is
    OBVIOUS
  <2> QED
    BY <2>1, <1>1, <1>6, <1>8
<1>10. \E m \in is \ low : \A i \in is \ low : m <= i
  BY <1>9, SmallestNumber
<1>11. PICK m \in is \ low : \A i \in is \ low : m <= i
  BY <1>10
<1>12. {j \in is : j < m} = low
  <2>1. \A j \in low : j \in is /\ j < m
    BY <1>8
  <2>2. \A j \in is \ low : ~ (j < m)
    BY <1>11
  <2> QED
    BY <2>1, <2>2
<1> QED
  BY <1>6, <1>8, <1>12, Zenon

\* Positions of a sequence.
LEMMA PositionsFinite ==
  ASSUME NEW S, NEW s \in Seq(S), NEW is \in SUBSET DOMAIN s
  PROVE  IsFiniteSet(is) /\ is \subseteq Nat
<1>1. DOMAIN s = 1..Len(s) /\ Len(s) \in Nat
  OBVIOUS
<1>2. 1 \in Int /\ Len(s) \in Int
  BY <1>1
<1>3. IsFiniteSet(1..Len(s))
  BY <1>2, FS_Interval, Zenon
<1> QED
  BY <1>1, <1>3, FS_Subset

\* Taking some positions of a sequence gives a sequence of some of its elements.
LEMMA OnlyTyped ==
  ASSUME NEW S, NEW s \in Seq(S), NEW is \in SUBSET DOMAIN s
  PROVE  Only(s, is) \in Seq(S) /\ ToSet(Only(s, is)) \subseteq ToSet(s)
<1>1. DOMAIN s = 1..Len(s) /\ Len(s) \in Nat
  OBVIOUS
<1>2. IsFiniteSet(is) /\ is \subseteq Nat
  BY PositionsFinite
<1>3. Cardinality(is) \in Nat
  BY <1>2, FS_CardinalityType
<1>4. ASSUME NEW k \in 1..Cardinality(is)
      PROVE  (CHOOSE i \in is : Cardinality({j \in is : j < i}) = k - 1) \in DOMAIN s
  <2>1. \E i \in is : Cardinality({j \in is : j < i}) = k - 1
    BY <1>2, RankTaken
  <2>2. (CHOOSE i \in is : Cardinality({j \in is : j < i}) = k - 1) \in is
    BY <2>1
  <2> QED
    BY <2>2
<1> DEFINE At(k) == CHOOSE i \in is : Cardinality({j \in is : j < i}) = k - 1
           n == Cardinality(is)
<1>5. Only(s, is) = [k \in 1..n |-> s[At(k)]]
  BY DEF Only
<1>6. \A k \in 1..n : At(k) \in DOMAIN s
  BY <1>4
<1> QED
  <2> HIDE DEF At, n
  <2>1. [k \in 1..n |-> s[At(k)]] \in [1..n -> S]
    BY <1>6
  <2>2. Only(s, is) \in Seq(S)
    BY <1>3, <1>5, <2>1 DEF n
  <2>3. DOMAIN Only(s, is) = 1..n /\ \A k \in 1..n : Only(s, is)[k] = s[At(k)]
    BY <1>5
  <2>4. ToSet(Only(s, is)) \subseteq ToSet(s)
    BY <1>6, <2>3 DEF ToSet
  <2> QED
    BY <2>2, <2>4

\* What is in the result was taken.
LEMMA OnlyFrom ==
  ASSUME NEW S, NEW s \in Seq(S), NEW is \in SUBSET DOMAIN s, NEW e \in ToSet(Only(s, is))
  PROVE  \E i \in is : e = s[i]
<1>1. DOMAIN s = 1..Len(s) /\ Len(s) \in Nat
  OBVIOUS
<1>2. IsFiniteSet(is) /\ is \subseteq Nat
  BY PositionsFinite
<1> DEFINE At(k) == CHOOSE i \in is : Cardinality({j \in is : j < i}) = k - 1
<1>3. ASSUME NEW k \in 1..Cardinality(is) PROVE At(k) \in is
  <2>1. \E i \in is : Cardinality({j \in is : j < i}) = k - 1
    BY <1>2, RankTaken
  <2> QED
    BY <2>1
<1>4. Only(s, is) = [k \in 1..Cardinality(is) |-> s[At(k)]]
  BY DEF Only
<1> HIDE DEF At
<1>5. PICK k \in 1..Cardinality(is) : e = s[At(k)]
  BY <1>4 DEF ToSet
<1> QED
  BY <1>3, <1>5

\* What is taken at some positions is in the result.
LEMMA OnlyKeeps ==
  ASSUME NEW S, NEW s \in Seq(S), NEW is \in SUBSET DOMAIN s, NEW i \in is
  PROVE  s[i] \in ToSet(Only(s, is))
<1> DEFINE Below(m) == {j \in is : j < m}
           n == Cardinality(is)
           At(k) == CHOOSE m \in is : Cardinality(Below(m)) = k - 1
<1>1. DOMAIN s = 1..Len(s) /\ Len(s) \in Nat
  OBVIOUS
<1>2. IsFiniteSet(is) /\ is \subseteq Nat
  BY PositionsFinite
<1>3. \A m \in is : IsFiniteSet(Below(m)) /\ Cardinality(Below(m)) \in Nat
  <2>1. \A m \in is : Below(m) \in SUBSET is
    OBVIOUS
  <2> HIDE DEF Below
  <2> QED
    BY <1>2, <2>1, FS_Subset, FS_CardinalityType
<1>4. ASSUME NEW l \in is, NEW m \in is, l < m
      PROVE  Cardinality(Below(l)) < Cardinality(Below(m))
  <2>1. Below(l) \cup {l} \subseteq Below(m) /\ l \notin Below(l)
    BY <1>2, <1>4
  <2> HIDE DEF Below
  <2>2. Cardinality(Below(l) \cup {l}) = Cardinality(Below(l)) + 1
    BY <1>3, <2>1, FS_AddElement
  <2>3. Cardinality(Below(l) \cup {l}) <= Cardinality(Below(m))
    BY <1>3, <2>1, FS_Subset
  <2> QED
    BY <1>3, <2>2, <2>3
<1> DEFINE k == Cardinality(Below(i)) + 1
<1>5. k \in 1..n
  <2>1. Below(i) \cup {i} \subseteq is /\ i \notin Below(i)
    BY <1>2
  <2>2. n \in Nat
    BY <1>2, FS_CardinalityType
  <2> HIDE DEF Below
  <2>3. Cardinality(Below(i) \cup {i}) = Cardinality(Below(i)) + 1
    BY <1>3, <2>1, FS_AddElement
  <2>4. Cardinality(Below(i) \cup {i}) <= n
    BY <1>2, <2>1, FS_Subset
  <2> QED
    BY <1>3, <2>2, <2>3, <2>4
<1>6. At(k) = i
  <2> HIDE DEF Below
  <2>1. Cardinality(Below(i)) = k - 1
    BY <1>3
  <2>2. At(k) \in is /\ Cardinality(Below(At(k))) = k - 1
    <3> HIDE DEF k
    <3> QED
      BY <2>1
  <2>3. Cardinality(Below(At(k))) = Cardinality(Below(i))
    BY <2>1, <2>2
  <2> HIDE DEF At, k
  <2>4. ~(At(k) < i) /\ ~(i < At(k))
    BY <1>3, <1>4, <2>2, <2>3
  <2> QED
    BY <1>2, <2>2, <2>4
<1>7. Only(s, is) = [m \in 1..n |-> s[At(m)]]
  BY DEF Only
<1> HIDE DEF At, k, n
<1>8. k \in DOMAIN Only(s, is) /\ Only(s, is)[k] = s[i]
  BY <1>5, <1>6, <1>7
<1> QED
  BY <1>8 DEF ToSet

LEMMA RangeTyped == \A S : \A s \in Seq(S) : ToSet(s) \in SUBSET S
BY DEF ToSet

LEMMA RangeGrows ==
  ASSUME NEW S, NEW s \in Seq(S), NEW t \in Seq(S)
  PROVE  ToSet(s \o t) = ToSet(s) \cup ToSet(t)
<1>1. ToSet(s \o t) \subseteq ToSet(s) \cup ToSet(t)
  BY DEF ToSet
<1>2. ToSet(s) \subseteq ToSet(s \o t)
  BY DEF ToSet
<1>3. ASSUME NEW i \in DOMAIN t PROVE t[i] \in ToSet(s \o t)
  <2>1. Len(s) + i \in DOMAIN (s \o t) /\ (s \o t)[Len(s) + i] = t[i]
    OBVIOUS
  <2> QED
    BY <2>1 DEF ToSet
<1> QED
  BY <1>1, <1>2, <1>3 DEF ToSet

-----------------------------------------------------------------------------
(* Trees *)

\* The least of some holes is one of them.
LEMMA MinIn == \A hs \in SUBSET Holes : hs # {} => Min(hs) \in hs
<1> SUFFICES ASSUME NEW hs \in SUBSET Holes, hs # {} PROVE Min(hs) \in hs
  OBVIOUS
<1>1. hs \subseteq Nat
  BY RouterAssumption
<1>2. \E h \in hs : \A g \in hs : h <= g
  BY <1>1, SmallestNumber
<1> QED
  BY <1>2 DEF Min

\* A tree joins what it was grown over, in every partition that has its edges.
LEMMA TreeSpans ==
  ASSUME NEW hs \in SUBSET Holes, hs # {}, NEW tree \in Trees(hs),
         NEW nodes, Partition(nodes),
         \A i \in DOMAIN tree : \E c \in nodes : {tree[i][1], tree[i][2]} \subseteq c
  PROVE  Together(hs, nodes)
<1> DEFINE n == Cardinality(hs)
<1>1. IsFiniteSet(hs) /\ n \in Nat /\ n > 0
  BY BoardAssumption, FS_Subset, FS_CardinalityType, FS_EmptySet
<1>2. tree \in [1..(n - 1) -> hs \X hs] /\ DOMAIN tree = 1..(n - 1)
  BY DEF Trees
<1>3. PICK root \in hs :
        \A k \in 1..(n - 1) : tree[k] \in Nearest(Reached(root, tree, k), hs)
  BY MinIn DEF Trees
<1>4. PICK c \in nodes : root \in c
  BY DEF Partition
<1> DEFINE In(k) == Reached(root, tree, k)
           Good(k) == /\ In(k) \subseteq hs /\ In(k) \subseteq c
                      /\ IsFiniteSet(In(k)) /\ Cardinality(In(k)) = k
           T == {k \in 1..n : ~Good(k)}
<1>5. Good(1)
  <2>1. In(1) = {root}
    BY DEF Reached
  <2> QED
    BY <1>4, <2>1, FS_Singleton
<1>6. ASSUME NEW k \in 1..(n - 1), Good(k)
      PROVE  Good(k + 1)
  <2>1. tree[k] \in In(k) \X (hs \ In(k))
    BY <1>3 DEF Nearest
  <2>2. In(k + 1) = In(k) \cup {tree[k][2]}
    <3>1. 1..(k + 1 - 1) = 1..(k - 1) \cup {k}
      BY <1>1
    <3> QED
      BY <3>1 DEF Reached
  <2>3. PICK d \in nodes : {tree[k][1], tree[k][2]} \subseteq d
    BY <1>2
  <2>4. tree[k][1] \in c /\ tree[k][1] \in d
    BY <1>6, <2>1, <2>3
  <2>5. d = c
    BY <2>4 DEF Partition
  <2>6. In(k + 1) \subseteq hs /\ In(k + 1) \subseteq c
    BY <1>6, <2>1, <2>2, <2>3, <2>5
  <2>7. IsFiniteSet(In(k + 1)) /\ Cardinality(In(k + 1)) = k + 1
    <3> HIDE DEF In
    <3>1. tree[k][2] \notin In(k)
      BY <2>1
    <3> QED
      BY <1>6, <2>2, <3>1, FS_AddElement
  <2> QED
    BY <2>6, <2>7
<1>7. T = {}
  <2>1. SUFFICES ASSUME T # {} PROVE FALSE
    OBVIOUS
  <2>2. \E k \in T : \A i \in T : k <= i
    <3>1. T \subseteq Nat
      BY <1>1
    <3> HIDE DEF T
    <3> QED
      BY <2>1, <3>1, SmallestNumber
  <2>3. PICK k \in T : \A i \in T : k <= i
    BY <2>2
  <2>4. k \in 1..n /\ ~Good(k)
    OBVIOUS
  <2>5. k # 1
    BY <1>5, <2>4
  <2>6. k - 1 \in 1..(n - 1) /\ k - 1 \in 1..n /\ k - 1 \notin T
    BY <1>1, <2>3, <2>4, <2>5
  <2>7. Good(k - 1)
    BY <2>6
  <2>8. Good(k - 1 + 1)
    <3> HIDE DEF Good
    <3> QED
      BY <1>6, <2>6, <2>7
  <2>9. k - 1 + 1 = k
    BY <1>1, <2>4
  <2> QED
    BY <2>4, <2>8, <2>9
<1>8. Good(n)
  BY <1>1, <1>7
<1>9. In(n) = hs
  <2> HIDE DEF In
  <2> QED
    BY <1>1, <1>8, FS_Subset
<1> QED
  BY <1>8, <1>9 DEF Together

-----------------------------------------------------------------------------
(* Layouts *)

LEMMA JoinedTyped == \A layout \in Layout : Joined(layout) \in SUBSET SUBSET Holes
<1> SUFFICES ASSUME NEW layout \in Layout PROVE Joined(layout) \in SUBSET SUBSET Holes
  OBVIOUS
<1>1. layout.links \in SUBSET SUBSET Holes /\ layout.pins \in [Pins -> Holes \cup {Unplaced}]
  BY DEF Layout, Placement
<1>2. ASSUME NEW pair \in Internal, \A p \in pair : layout.pins[p] # Unplaced
      PROVE  {layout.pins[p] : p \in pair} \in SUBSET Holes
  BY <1>1, <1>2, RouterAssumption
<1> QED
  BY <1>1, <1>2 DEF Joined

LEMMA WiresTyped == \A js \in SUBSET Jumper : Wires(js) \in SUBSET SUBSET Holes
BY DEF Wires, Jumper

LEMMA PreservedTyped == \A layout \in Layout : Preserved(layout) \in SUBSET Jumper
BY DEF Preserved, Layout

LEMMA PinHolesTyped ==
  \A n \in Nets, pins \in Placement : PinHoles(n, pins) \in SUBSET Holes
<1>1. \A n \in Nets : Net[n].pins \subseteq Pins
  BY RouterAssumption
<1> QED
  BY <1>1 DEF PinHoles, Placement

LEMMA WorkingTyped ==
  ASSUME NEW layout \in Layout, NEW s \in Seq(Jumper)
  PROVE  Joined(layout) \cup Wires(Preserved(layout) \cup ToSet(s)) \in SUBSET SUBSET Holes
<1>1. Preserved(layout) \cup ToSet(s) \in SUBSET Jumper
  BY PreservedTyped, RangeTyped
<1> QED
  BY <1>1, JoinedTyped, WiresTyped

LEMMA RoutedTyped ==
  ASSUME base \in Layout, new \in Seq(Jumper), NEW left \in SUBSET Nets
  PROVE  /\ Routed(left) \in [layout : Layout, unrouted : SUBSET Nets]
         /\ Routed(left).unrouted = left
         /\ Routed(left).layout.jumpers = Preserved(base) \cup ToSet(new)
         /\ OpenNets(Routed(left).layout, Routed(left).layout.jumpers) =
              OpenNets(base, Preserved(base) \cup ToSet(new))
<1> DEFINE js == Preserved(base) \cup ToSet(new)
           layout == [base EXCEPT !.jumpers = js]
<1>1. js \in SUBSET Jumper
  BY PreservedTyped, RangeTyped
<1>2. layout \in Layout /\ layout.jumpers = js /\ layout.pins = base.pins
      /\ layout.links = base.links
  <2> HIDE DEF js
  <2> QED
    BY <1>1 DEF Layout
<1>3. Routed(left) = [layout |-> layout, unrouted |-> left]
  BY DEF Routed
<1>4. Joined(layout) = Joined(base)
  <2> HIDE DEF layout
  <2> QED
    BY <1>2 DEF Joined
<1>5. OpenNets(layout, layout.jumpers) = OpenNets(base, js)
  <2> HIDE DEF layout, js
  <2> QED
    BY <1>2, <1>4 DEF OpenNets
<1>6. OpenNets(layout, layout.jumpers) = OpenNets(base, Preserved(base) \cup ToSet(new))
  BY <1>5
<1> HIDE DEF layout
<1>7. [layout |-> layout, unrouted |-> left] \in [layout : Layout, unrouted : SUBSET Nets]
  BY <1>2
<1>8. layout.jumpers = Preserved(base) \cup ToSet(new)
  BY <1>2
<1>9. Routed(left).layout = layout /\ Routed(left).unrouted = left
  BY <1>3
<1> QED
  BY <1>3, <1>6, <1>7, <1>8, <1>9

-----------------------------------------------------------------------------
(* One net *)

\* The hole of a rail, if any, is a free hole of a segment that no other net has.
LEMMA RailHoleFree ==
  ASSUME NEW n, NEW hs, NEW r \in RailHole(n, hs)
  PROVE  r[1] \in Rails /\ rails[r[1]] \in {NoNet, n} /\ r[2] \in FreeHoles(r[1]) /\ r[2] \in Holes
<1>1. ASSUME NEW s \in Rails, FreeHoles(s) # {}
      PROVE  Min(FreeHoles(s)) \in FreeHoles(s) /\ Min(FreeHoles(s)) \in Holes
  <2>1. FreeHoles(s) \in SUBSET Holes
    BY BoardAssumption, RouterAssumption DEF FreeHoles
  <2>2. Min(FreeHoles(s)) \in FreeHoles(s)
    BY <1>1, <2>1, MinIn
  <2> QED
    BY <2>1, <2>2
<1>2. \E s \in Rails :
        rails[s] \in {NoNet, n} /\ FreeHoles(s) # {} /\ r = <<s, Min(FreeHoles(s))>>
  BY DEF RailHole, UsableRails
<1> QED
  BY <1>1, <1>2

\* The holes that the wires of a net may end in when it is routed.
Terminals(n) ==
  PinHoles(n, base.pins) \cup {r[2] : r \in RailHole(n, PinHoles(n, base.pins))}

\* A routed net keeps the wires there are, and its own end at its terminals and join
\* its pins.
LEMMA RouteNetJoins ==
  ASSUME TypeOK, NEW n \in Nets, ~TooFewPins(n), RouteNet(n)
  PROVE  /\ new' \in Seq(Jumper)
         /\ rails' \in [Rails -> Nets \cup {NoNet}]
         /\ \A s \in Rails :
              rails'[s] = IF \E r \in RailHole(n, PinHoles(n, base.pins)) : r[1] = s
                          THEN n ELSE rails[s]
         /\ ToSet(new) \subseteq ToSet(new')
         /\ \A j \in ToSet(new') \ ToSet(new) :
              j.net = n /\ j.from \in Terminals(n) /\ j.to \in Terminals(n)
         /\ \A nodes : Partition(nodes) /\ Linked(Wires({j \in ToSet(new') : j.net = n}), nodes)
                       => Together(PinHoles(n, base.pins), nodes)
<1> DEFINE pins == PinHoles(n, base.pins)
<1>1. /\ base \in Layout /\ base.pins \in Placement /\ new \in Seq(Jumper)
      /\ rails \in [Rails -> Nets \cup {NoNet}]
  BY DEF TypeOK, Layout
<1>2. pins \in SUBSET Holes /\ IsFiniteSet(pins) /\ Cardinality(pins) \in Nat
  BY <1>1, PinHolesTyped, BoardAssumption, FS_Subset, FS_CardinalityType
<1>3. Cardinality(pins) >= 2
  BY <1>2 DEF TooFewPins
<1> DEFINE holes == pins \cup {r[2] : r \in RailHole(n, pins)}
           Laid(tree) == [i \in DOMAIN tree |->
                            [net |-> n, no |-> i - 1, from |-> tree[i][1],
                             to |-> tree[i][2], locked |-> FALSE]]
           NewRails(rail) == [s \in Rails |-> IF \E r \in rail : r[1] = s THEN n ELSE rails[s]]
<1>4. PICK tree \in Trees(holes) : /\ new' = new \o Laid(tree)
                                   /\ rails' = NewRails(RailHole(n, pins))
  <2>1. PICK tree \in Trees(holes) : Lay(n, RailHole(n, pins), tree)
    BY DEF RouteNet
  <2> QED
    BY <2>1, Zenon DEF Lay
<1>5. holes \in SUBSET Holes /\ pins \subseteq holes
  BY <1>2, RailHoleFree
<1>6. holes = Terminals(n)
  BY DEF Terminals
<1> HIDE DEF pins, holes
<1>7. IsFiniteSet(holes) /\ Cardinality(holes) \in Nat /\ Cardinality(holes) >= 2
  <2>1. IsFiniteSet(holes) /\ Cardinality(holes) \in Nat
    BY <1>5, BoardAssumption, FS_Subset, FS_CardinalityType
  <2>2. Cardinality(pins) <= Cardinality(holes)
    BY <1>5, <2>1, FS_Subset
  <2> QED
    BY <1>2, <1>3, <2>1, <2>2
<1> DEFINE m == Cardinality(holes) - 1
<1>8. m \in Nat /\ tree \in [1..m -> holes \X holes] /\ DOMAIN tree = 1..m
  BY <1>7 DEF Trees
<1>9. \A i \in 1..m : /\ tree[i][1] \in Holes /\ tree[i][2] \in Holes
                      /\ Laid(tree)[i] \in Jumper /\ Laid(tree)[i].net = n
                      /\ tree[i] \in holes \X holes
                      /\ Laid(tree)[i].from = tree[i][1] /\ Laid(tree)[i].to = tree[i][2]
  <2> SUFFICES ASSUME NEW i \in 1..m
               PROVE  /\ tree[i][1] \in Holes /\ tree[i][2] \in Holes
                      /\ Laid(tree)[i] \in Jumper /\ Laid(tree)[i].net = n
                      /\ tree[i] \in holes \X holes
                      /\ Laid(tree)[i].from = tree[i][1] /\ Laid(tree)[i].to = tree[i][2]
    OBVIOUS
  <2>1. tree[i] \in holes \X holes /\ i - 1 \in Nat
    BY <1>8
  <2>2. tree[i][1] \in Holes /\ tree[i][2] \in Holes
    BY <1>5, <2>1
  <2>3. Laid(tree)[i] = [net |-> n, no |-> i - 1, from |-> tree[i][1],
                         to |-> tree[i][2], locked |-> FALSE]
    BY <1>8
  <2> QED
    <3> HIDE DEF Laid
    <3> QED
      BY <2>1, <2>2, <2>3 DEF Jumper
<1>10. Laid(tree) \in Seq(Jumper) /\ DOMAIN Laid(tree) = 1..m
  <2>1. DOMAIN Laid(tree) = 1..m /\ \A i \in 1..m : Laid(tree)[i] \in Jumper
    BY <1>8, <1>9
  <2>2. Laid(tree) \in [1..m -> Jumper]
    BY <1>8, <2>1
  <2> QED
    BY <1>8, <2>1, <2>2
<1>11. new' \in Seq(Jumper) /\ ToSet(new') = ToSet(new) \cup ToSet(Laid(tree))
  <2> HIDE DEF Laid
  <2> QED
    BY <1>1, <1>4, <1>10, RangeGrows
<1>12. rails' \in [Rails -> Nets \cup {NoNet}]
  BY <1>1, <1>4
<1>13. \A s \in Rails : rails'[s] = IF \E r \in RailHole(n, pins) : r[1] = s THEN n ELSE rails[s]
  BY <1>4
<1>14. ASSUME NEW j \in ToSet(new') \ ToSet(new)
      PROVE  j.net = n /\ j.from \in holes /\ j.to \in holes
  <2> HIDE DEF Laid
  <2>1. PICK i \in 1..m : j = Laid(tree)[i]
    BY <1>10, <1>11 DEF ToSet
  <2> QED
    BY <1>9, <2>1
<1>15. ASSUME NEW nodes, Partition(nodes),
              Linked(Wires({j \in ToSet(new') : j.net = n}), nodes)
       PROVE  Together(pins, nodes)
  <2>1. ASSUME NEW i \in DOMAIN tree
        PROVE  \E c \in nodes : {tree[i][1], tree[i][2]} \subseteq c
    <3>1. Laid(tree)[i] \in {j \in ToSet(new') : j.net = n}
      <4> HIDE DEF Laid
      <4> QED
        BY <1>8, <1>9, <1>10, <1>11 DEF ToSet
    <3>2. {tree[i][1], tree[i][2]} \in Wires({j \in ToSet(new') : j.net = n})
      <4> HIDE DEF Laid
      <4> QED
        BY <1>8, <1>9, <3>1 DEF Wires
    <3> QED
      BY <1>15, <3>2 DEF Linked, Together
  <2>2. holes # {}
    BY <1>7, FS_EmptySet
  <2>3. Together(holes, nodes)
    BY <1>5, <1>15, <2>1, <2>2, TreeSpans
  <2> QED
    BY <1>5, <2>3 DEF Together
<1>16. \A j \in ToSet(new') \ ToSet(new) :
         j.net = n /\ j.from \in Terminals(n) /\ j.to \in Terminals(n)
  BY <1>6, <1>14
<1>17. \A s \in Rails :
         rails'[s] = IF \E r \in RailHole(n, PinHoles(n, base.pins)) : r[1] = s
                     THEN n ELSE rails[s]
  BY <1>13 DEF pins
<1>18. \A nodes : Partition(nodes) /\ Linked(Wires({j \in ToSet(new') : j.net = n}), nodes)
                 => Together(PinHoles(n, base.pins), nodes)
  BY <1>15 DEF pins
<1> QED
  BY <1>11, <1>12, <1>16, <1>17, <1>18

-----------------------------------------------------------------------------
(* Well-formed states *)

\* Between calls there are no wires and rounds to be remembered, rounds are counted from
\* the end of the first pass, and a result is there from the end of a call until the page
\* has taken it.
CallInv ==
  /\ pc = "idle" => new = <<>>
  /\ pc \in {"idle", "first"} => ripups = 0
  /\ pc = "reroute" => ripups > 0
  /\ result # NoResult => pc = "done"
  /\ pc = "done" => result \in [layout : Layout, unrouted : SUBSET Nets]

WellFormed == TypeOK /\ CallInv

LEMMA RoundsNat ==
  \A opts \in [allow : BOOLEAN, rounds : Ripups \cup {0}] : opts.rounds \in Nat
<1>1. Ripups \cup {0} \subseteq Nat
  BY RouterAssumption
<1> QED
  BY <1>1

LEMMA InitWellFormed == Init => WellFormed
BY RouterAssumption DEF Init, WellFormed, TypeOK, CallInv, NoRails, Defaults

LEMMA IdleTyped ==
  Idle => /\ pc' = "idle" /\ op' \in {"route", "solve"}
          /\ options' \in [allow : BOOLEAN, rounds : Ripups \cup {0}]
          /\ todo' \subseteq Nets /\ new' \in Seq(Jumper) /\ unrouted' \subseteq Nets
          /\ known' \subseteq SUBSET Holes
          /\ rails' \in [Rails -> Nets \cup {NoNet}]
          /\ skipped' \subseteq Nets /\ ripups' \in 0..options'.rounds
BY DEF Idle, NoRails, Defaults

LEMMA BeginWellFormed ==
  ASSUME WellFormed, NEW o \in {"route", "solve"}, NEW layout \in Layout,
         NEW opts \in AnyOptions, Begin(o, layout, opts)
  PROVE  WellFormed'
<1>1. known' \subseteq SUBSET Holes
  <2>1. layout.jumpers \in SUBSET Jumper
    BY DEF Layout
  <2> QED
    BY <2>1, JoinedTyped, WiresTyped DEF Begin, KnownAtStart
<1>2. calls' \in 0..MaxCalls
  BY RouterAssumption DEF Begin, WellFormed, TypeOK
<1>3. ripups' \in 0..options'.rounds /\ options' \in [allow : BOOLEAN, rounds : Ripups \cup {0}]
  <2>1. options' = opts /\ ripups' = 0
    BY DEF Begin, WellFormed, CallInv
  <2>2. opts \in [allow : BOOLEAN, rounds : Ripups \cup {0}] /\ opts.rounds \in Nat
    BY RoundsNat DEF AnyOptions
  <2> QED
    BY <2>1, <2>2
<1> QED
  BY <1>1, <1>2, <1>3 DEF Begin, WellFormed, TypeOK, CallInv, AnyOptions

LEMMA FirstPassWellFormed == WellFormed /\ FirstPass => WellFormed'
<1> SUFFICES ASSUME WellFormed, FirstPass PROVE WellFormed'
  OBVIOUS
<1>1. PICK n \in todo : todo' = todo \ {n}
  BY DEF FirstPass
<1>2. n \in Nets
  BY DEF WellFormed, TypeOK
<1>3. /\ skipped' \subseteq Nets /\ unrouted' \subseteq Nets
      /\ new' \in Seq(Jumper) /\ rails' \in [Rails -> Nets \cup {NoNet}]
  BY <1>2, RouteNetJoins DEF FirstPass, WellFormed, TypeOK
<1> QED
  BY <1>1, <1>3 DEF FirstPass, WellFormed, TypeOK, CallInv

LEMMA FinishWellFormed ==
  ASSUME WellFormed, FinishFirstPass \/ BeginRetries \/ EndRound \/ FinishRetries
  PROVE  WellFormed'
<1>1. /\ base \in Layout /\ new \in Seq(Jumper) /\ unrouted \in SUBSET Nets
      /\ OpenNets(base, Preserved(base) \cup ToSet(new)) \cup skipped \in SUBSET Nets
  BY DEF WellFormed, TypeOK, OpenNets
<1>2. \A left \in SUBSET Nets : Routed(left) \in [layout : Layout, unrouted : SUBSET Nets]
  BY <1>1, RoutedTyped
<1>3. CASE FinishFirstPass \/ FinishRetries
  <2>1. pc' = "done" /\ result' \in [layout : Layout, unrouted : SUBSET Nets]
    BY <1>1, <1>2, <1>3 DEF FinishFirstPass, FinishRetries
  <2> QED
    BY <1>3, <2>1 DEF FinishFirstPass, FinishRetries, callVars, WellFormed, TypeOK, CallInv
<1>4. CASE BeginRetries \/ EndRound
  BY <1>4 DEF BeginRetries, EndRound, callVars, WellFormed, TypeOK, CallInv
<1> QED
  BY <1>3, <1>4

LEMMA StartRoundWellFormed == WellFormed /\ StartRound => WellFormed'
<1> SUFFICES ASSUME WellFormed, StartRound PROVE WellFormed'
  OBVIOUS
<1>1. base \in Layout /\ new \in Seq(Jumper) /\ unrouted \subseteq Nets
  BY DEF WellFormed, TypeOK
<1>2. PICK n \in StillFailed :
        LET affected == {n} \cup {new[i].net : i \in RipUp(n)}
            kept == Only(new, {i \in DOMAIN new : new[i].net \notin affected})
        IN new' = kept /\ known' = KnownAfter(kept) /\ todo' = affected
  BY DEF StartRound
<1> DEFINE affected == {n} \cup {new[i].net : i \in RipUp(n)}
           is == {i \in DOMAIN new : new[i].net \notin affected}
<1>3. new' = Only(new, is) /\ known' = KnownAfter(new') /\ todo' = affected
  BY <1>2
<1>4. new' \in Seq(Jumper)
  <2> HIDE DEF affected
  <2> QED
    BY <1>1, <1>3, OnlyTyped
<1>5. known' \subseteq SUBSET Holes
  <2>1. Preserved(base) \cup ToSet(new') \in SUBSET Jumper
    BY <1>1, <1>4, PreservedTyped, RangeTyped
  <2> QED
    BY <1>1, <1>3, <2>1, JoinedTyped, WiresTyped DEF KnownAfter
<1>6. todo' \subseteq Nets
  <2>1. RipUp(n) \subseteq DOMAIN new
    BY DEF RipUp
  <2>2. \A i \in DOMAIN new : new[i].net \in Nets
    <3>1. \A i \in DOMAIN new : new[i] \in Jumper
      BY <1>1
    <3> QED
      BY <3>1 DEF Jumper
  <2>3. n \in Nets
    BY <1>1 DEF StillFailed
  <2> QED
    BY <1>3, <2>1, <2>2, <2>3
<1>7. ripups' \in 0..options'.rounds /\ ripups' > 0
  <2>1. options.rounds \in Nat /\ ripups \in 0..options.rounds
    BY RoundsNat DEF WellFormed, TypeOK
  <2>2. options.rounds - ripups > 0 /\ ripups' = ripups + 1 /\ options' = options
    BY DEF StartRound, CountRound, RoundsLeft
  <2> QED
    BY <2>1, <2>2
<1>8. rails' \in [Rails -> Nets \cup {NoNet}]
  BY DEF StartRound, NoRails
<1> QED
  BY <1>4, <1>5, <1>6, <1>7, <1>8 DEF StartRound, WellFormed, TypeOK, CallInv

LEMMA RerouteWellFormed == WellFormed /\ Reroute => WellFormed'
<1> SUFFICES ASSUME WellFormed, Reroute PROVE WellFormed'
  OBVIOUS
<1>1. todo' \subseteq Nets /\ new' \in Seq(Jumper) /\ rails' \in [Rails -> Nets \cup {NoNet}]
  BY RouteNetJoins DEF Reroute, WellFormed, TypeOK
<1> QED
  BY <1>1 DEF Reroute, WellFormed, TypeOK, CallInv

LEMMA TimeoutWellFormed == WellFormed /\ Timeout => WellFormed'
<1> SUFFICES ASSUME WellFormed, Timeout PROVE WellFormed'
  OBVIOUS
<1>1. result' = NoResult /\ document' = document /\ base' = document /\ calls' = calls
      /\ edits' = edits /\ result' = result
  BY DEF Timeout, WellFormed, CallInv
<1>2. pc' = "idle" /\ ripups' = 0 /\ new' = <<>>
  BY DEF Timeout, Idle
<1> QED
  BY <1>1, <1>2, IdleTyped DEF Timeout, WellFormed, TypeOK, CallInv

\* What the user does between two jobs leaves a layout.
LEMMA EditWellFormed ==
  ASSUME WellFormed, Edit, document' \in Layout
  PROVE  WellFormed'
<1>1. edits' \in 0..MaxEdits
  BY RouterAssumption DEF Edit, WellFormed, TypeOK
<1> QED
  BY <1>1 DEF Edit, callVars, WellFormed, TypeOK, CallInv

LEMMA DrawJumperTyped ==
  ASSUME WellFormed, NEW pair \in Drawn, DrawJumper(pair)
  PROVE  document' \in Layout
<1>1. PICK g, h \in Holes : pair = {g, h}
  BY RouterAssumption
<1>2. g \in Nat /\ h \in Nat
  BY RouterAssumption
<1>3. Min(pair) \in Holes
  BY <1>1, MinIn
<1>4. Max(pair) \in Holes
  <2>1. \E m \in pair : \A i \in pair : m >= i
    BY <1>1, <1>2
  <2>2. Max(pair) \in pair
    BY <2>1 DEF Max
  <2> QED
    BY <1>1, <2>2
<1>5. Min(Nets) \in Nets
  <2>1. \E n \in Nets : \A m \in Nets : n <= m
    BY RouterAssumption, SmallestNumber
  <2> QED
    BY <2>1 DEF Min
<1>6. Cardinality(Holes) + edits \in Nat
  BY RouterAssumption, HolesCounted DEF WellFormed, TypeOK
<1>7. [net |-> Min(Nets), no |-> Cardinality(Holes) + edits, from |-> Min(pair),
       to |-> Max(pair), locked |-> FALSE] \in Jumper
  BY <1>3, <1>4, <1>5, <1>6 DEF Jumper
<1> DEFINE drawn == [net |-> Min(Nets), no |-> Cardinality(Holes) + edits, from |-> Min(pair),
                     to |-> Max(pair), locked |-> FALSE]
<1>8. document' = [document EXCEPT !.jumpers = @ \cup {drawn}] /\ document \in Layout
  BY DEF DrawJumper, WellFormed, TypeOK
<1>9. drawn \in Jumper
  BY <1>7
<1> HIDE DEF drawn
<1> QED
  BY <1>8, <1>9 DEF Layout

LEMMA UserWellFormed == WellFormed /\ User => WellFormed'
<1> SUFFICES ASSUME WellFormed, User PROVE WellFormed'
  OBVIOUS
<1>1. document \in Layout
  BY DEF WellFormed, TypeOK
<1>2. CASE RouteJob
  BY <1>1, <1>2, BeginWellFormed DEF RouteJob
<1>3. CASE TakeResult
  <2>1. document' \in Layout
    BY <1>1, <1>3 DEF TakeResult, WellFormed, CallInv
  <2> QED
    BY <1>3, <2>1, IdleTyped DEF TakeResult, Idle, WellFormed, TypeOK, CallInv
<1>4. ASSUME NEW pins \in Placements, SolveJob(pins) PROVE WellFormed'
  <2>1. [document EXCEPT !.pins = pins] \in Layout
    BY <1>1, RouterAssumption DEF Layout
  <2> QED
    BY <1>4, <2>1, BeginWellFormed DEF SolveJob
<1>5. ASSUME NEW pair \in Drawn, DrawJumper(pair) PROVE WellFormed'
  BY <1>5, DrawJumperTyped, EditWellFormed DEF DrawJumper
<1>6. ASSUME NEW j, DeleteJumper(j) PROVE WellFormed'
  <2>1. document' \in Layout
    BY <1>1, <1>6 DEF DeleteJumper, Layout
  <2> QED
    BY <1>6, <2>1, EditWellFormed DEF DeleteJumper
<1>7. ASSUME NEW js, LockJumpers(js) PROVE WellFormed'
  <2>1. ASSUME NEW j \in document.jumpers
        PROVE  [j EXCEPT !.locked = j \in js] \in Jumper
    <3>1. j \in Jumper /\ (j \in js) \in BOOLEAN
      BY <1>1 DEF Layout
    <3>2. \A b \in BOOLEAN : [j EXCEPT !.locked = b] \in Jumper
      BY <3>1 DEF Jumper
    <3> QED
      BY <3>1, <3>2
  <2>2. document' \in Layout
    BY <1>1, <1>7, <2>1 DEF LockJumpers, Layout
  <2> QED
    BY <1>7, <2>2, EditWellFormed DEF LockJumpers
<1> QED
  BY <1>2, <1>3, <1>4, <1>5, <1>6, <1>7 DEF User

LEMMA NextWellFormed == WellFormed /\ [Next]_vars => WellFormed'
<1> SUFFICES ASSUME WellFormed, [Next]_vars PROVE WellFormed'
  OBVIOUS
<1>1. CASE Step
  BY <1>1, FirstPassWellFormed, FinishWellFormed, StartRoundWellFormed, RerouteWellFormed
  DEF Step
<1>2. CASE Timeout
  BY <1>2, TimeoutWellFormed
<1>3. CASE User
  BY <1>3, UserWellFormed
<1>4. CASE UNCHANGED vars
  BY <1>4 DEF vars, WellFormed, TypeOK, CallInv
<1> QED
  BY <1>1, <1>2, <1>3, <1>4 DEF Next

\* Router's states are well formed: every wire of a call and of its result joins two
\* holes for one of the nets, and no more rounds are counted than were allowed.
THEOREM RouterTypeOK == Spec => []TypeOK
<1>1. WellFormed => TypeOK
  BY DEF WellFormed
<1> QED
  BY <1>1, InitWellFormed, NextWellFormed, PTL DEF Spec

-----------------------------------------------------------------------------
(* Reported nets *)

\* What joins holes for a call: what it was given and what it laid.
Working == Joined(base) \cup Wires(base.jumpers \cup ToSet(new))

Settled(n) == Together(PinHoles(n, base.pins), Nodes(Working))

\* In the first pass, nets that are neither to do nor reported are settled.
FirstPassInv ==
  pc = "first" => /\ known = KnownAtStart(base)
                  /\ \A n \in Nets \ (todo \cup unrouted) : Settled(n)

RouterInv == WellFormed /\ FirstPassInv /\ OpenNetsReported

\* A net that is joined stays joined with more wires.
LEMMA StaysTogether ==
  ASSUME NEW more \in SUBSET SUBSET Holes, NEW pairs \in SUBSET more, NEW hs,
         Together(hs, Nodes(pairs))
  PROVE  Together(hs, Nodes(more))
BY NodesMonotone, FinerKeepsTogether

LEMMA FirstPassSettles ==
  ASSUME RouterInv, FirstPass, NEW n \in Nets \ (todo' \cup unrouted')
  PROVE  Settled(n)'
<1>1. /\ base' = base /\ base \in Layout /\ new \in Seq(Jumper) /\ known = KnownAtStart(base)
      /\ TypeOK /\ \A m \in Nets \ (todo \cup unrouted) : Settled(m)
  BY DEF FirstPass, RouterInv, WellFormed, TypeOK, FirstPassInv
<1>2. new' \in Seq(Jumper)
  BY FirstPassWellFormed DEF RouterInv, WellFormed, TypeOK
<1>3. Working' \in SUBSET SUBSET Holes
  <2>1. base'.jumpers \cup ToSet(new') \in SUBSET Jumper
    BY <1>1, <1>2, RangeTyped DEF Layout
  <2> QED
    BY <1>1, <2>1, JoinedTyped, WiresTyped DEF Working
<1>4. PICK m \in todo :
        /\ todo' = todo \ {m}
        /\ \/ unrouted' = unrouted \cup {m} /\ UNCHANGED new
           \/ /\ ~TooFewPins(m) /\ unrouted' = unrouted
              /\ \/ AlreadyConnected(PinHoles(m, base.pins)) /\ UNCHANGED new
                 \/ RouteNet(m)
  BY DEF FirstPass
<1>5. m \in Nets
  BY <1>1 DEF TypeOK
<1>6. ToSet(new) \subseteq ToSet(new')
  BY <1>1, <1>4, <1>5, RouteNetJoins
<1>7. Working \subseteq Working'
  BY <1>1, <1>6 DEF Working, Wires
<1>8. CASE n # m
  <2>1. n \in Nets \ (todo \cup unrouted)
    BY <1>4, <1>8
  <2>2. Together(PinHoles(n, base.pins), Nodes(Working))
    BY <1>1, <2>1 DEF Settled
  <2>3. Together(PinHoles(n, base.pins), Nodes(Working'))
    BY <1>3, <1>7, <2>2, StaysTogether
  <2> QED
    BY <1>1, <2>3 DEF Settled
<1>9. CASE n = m /\ AlreadyConnected(PinHoles(m, base.pins))
  <2>1. known \subseteq Working
    BY <1>1 DEF KnownAtStart, Working, Wires
  <2>2. known \in SUBSET Working'
    BY <1>7, <2>1
  <2>3. Together(PinHoles(n, base.pins), Nodes(known))
    BY <1>9 DEF AlreadyConnected
  <2>4. Together(PinHoles(n, base.pins), Nodes(Working'))
    BY <1>3, <2>2, <2>3, StaysTogether
  <2> QED
    BY <1>1, <2>4 DEF Settled
<1>10. CASE n = m /\ ~AlreadyConnected(PinHoles(m, base.pins))
  <2>1. ~TooFewPins(m) /\ RouteNet(m)
    BY <1>4, <1>10
  <2>2. /\ Partition(Nodes(Working'))
        /\ Linked(Working' \cup GroupLinks, Nodes(Working'))
    BY <1>3, NodesFinest
  <2>3. Wires({j \in ToSet(new') : j.net = m}) \subseteq Working'
    BY DEF Working, Wires
  <2>4. Linked(Wires({j \in ToSet(new') : j.net = m}), Nodes(Working'))
    BY <2>2, <2>3 DEF Linked
  <2>5. Together(PinHoles(m, base.pins), Nodes(Working'))
    BY <1>1, <1>5, <2>1, <2>2, <2>4, RouteNetJoins
  <2> QED
    BY <1>1, <1>10, <2>5 DEF Settled
<1> QED
  BY <1>8, <1>9, <1>10

\* With more wires no more nets are open.
LEMMA FewerOpen ==
  ASSUME NEW layout \in Layout, NEW more \in SUBSET Jumper, NEW jumpers \in SUBSET more
  PROVE  OpenNets(layout, more) \subseteq OpenNets(layout, jumpers)
<1> DEFINE all == Joined(layout) \cup Wires(more)
           some == Joined(layout) \cup Wires(jumpers)
<1>1. all \in SUBSET SUBSET Holes /\ some \in SUBSET all
  BY JoinedTyped, WiresTyped DEF Wires
<1> HIDE DEF all, some
<1>2. ASSUME NEW n \in Nets, Together(PinHoles(n, layout.pins), Nodes(some))
      PROVE  Together(PinHoles(n, layout.pins), Nodes(all))
  BY <1>1, <1>2, StaysTogether
<1> QED
  BY <1>2 DEF OpenNets, all, some

LEMMA FinishReports ==
  ASSUME RouterInv, FinishFirstPass \/ FinishRetries
  PROVE  OpenNetsReported'
<1>1. /\ base \in Layout /\ new \in Seq(Jumper) /\ unrouted \in SUBSET Nets /\ skipped \in SUBSET Nets
      /\ UNCHANGED <<base, unrouted, options>>
  BY DEF RouterInv, WellFormed, TypeOK, FinishFirstPass, FinishRetries, callVars
<1> DEFINE laid == Preserved(base) \cup ToSet(new)
           open == OpenNets(base, laid)
<1>2. open \in SUBSET Nets
  BY DEF OpenNets
<1>3. /\ base.jumpers \cup laid = base.jumpers \cup ToSet(new)
      /\ base.jumpers \cup laid \in SUBSET Jumper
  BY <1>1, RangeTyped DEF Preserved, Layout
<1>4. CASE FinishFirstPass
  <2>1. \A n \in Nets \ unrouted : Settled(n)
    BY <1>4 DEF FinishFirstPass, RouterInv, FirstPassInv
  <2>2. OpenNets(base, base.jumpers \cup laid) \subseteq unrouted
    BY <1>3, <2>1 DEF Settled, OpenNets, Working
  <2>3. result' = Routed(unrouted)
    BY <1>4 DEF FinishFirstPass
  <2>4. /\ result'.unrouted = unrouted /\ result'.layout.jumpers = laid
        /\ OpenNets(result'.layout, result'.layout.jumpers) = open
    BY <1>1, <2>3, RoutedTyped
  <2>5. ~Retried'
    <3>1. ripups = 0 /\ options.rounds \in Nat
      BY <1>4, RoundsNat DEF RouterInv, WellFormed, CallInv, TypeOK, FinishFirstPass
    <3>2. unrouted = {} \/ options.rounds - ripups = 0
      BY <1>4 DEF FinishFirstPass, RoundsLeft
    <3>3. unrouted = {} \/ ~(options.rounds > 0)
      BY <3>1, <3>2
    <3> QED
      BY <1>1, <3>3 DEF Retried
  <2>6. ASSUME base = Rigid(base)
        PROVE  open \subseteq unrouted
    <3>1. base.jumpers = Preserved(base)
      BY <1>1, <2>6 DEF Rigid, Layout
    <3>2. base.jumpers \cup laid = laid
      BY <3>1
    <3> QED
      BY <2>2, <3>2
  <2> HIDE DEF laid, open
  <2> QED
    BY <1>1, <2>2, <2>4, <2>5, <2>6 DEF OpenNetsReported, Rigid, Preserved
<1>5. CASE FinishRetries
  <2>1. result' = Routed(open \cup skipped)
    BY <1>5 DEF FinishRetries
  <2>2. open \cup skipped \in SUBSET Nets
    BY <1>1, <1>2
  <2>3. /\ result'.unrouted = open \cup skipped /\ result'.layout.jumpers = laid
        /\ OpenNets(result'.layout, result'.layout.jumpers) = open
    <3> HIDE DEF open
    <3> QED
      BY <1>1, <2>1, <2>2, RoutedTyped DEF open
  <2>4. OpenNets(base, base.jumpers \cup laid) \subseteq open
    BY <1>1, <1>3, FewerOpen
  <2> HIDE DEF laid, open
  <2> QED
    BY <1>1, <2>3, <2>4 DEF OpenNetsReported
<1> QED
  BY <1>4, <1>5

LEMMA NextReports == RouterInv /\ [Next]_vars => RouterInv'
<1> SUFFICES ASSUME RouterInv, [Next]_vars PROVE RouterInv'
  OBVIOUS
<1>1. WellFormed /\ WellFormed'
  BY NextWellFormed DEF RouterInv
<1>2. CASE FirstPass
  <2>1. pc' = "first" /\ known' = KnownAtStart(base')
    BY <1>2 DEF FirstPass, RouterInv, FirstPassInv
  <2>2. FirstPassInv'
    BY <1>2, <2>1, FirstPassSettles DEF FirstPassInv
  <2>3. result' = NoResult
    BY <1>1, <1>2 DEF FirstPass, WellFormed, CallInv
  <2> QED
    BY <1>1, <2>2, <2>3 DEF RouterInv, OpenNetsReported, Returned
<1>3. CASE FinishFirstPass \/ FinishRetries
  <2>1. pc' = "done" /\ base' = base
    BY <1>3 DEF FinishFirstPass, FinishRetries
  <2>2. OpenNetsReported'
    BY <1>3, FinishReports
  <2> QED
    BY <1>1, <2>1, <2>2 DEF RouterInv, FirstPassInv
<1>4. ASSUME NEW o, NEW layout, NEW opts, Begin(o, layout, opts)
      PROVE  RouterInv'
  <2>1. FirstPassInv'
    BY <1>4 DEF Begin, FirstPassInv
  <2>2. result' = NoResult
    BY <1>1, <1>4 DEF Begin, WellFormed, CallInv
  <2> QED
    BY <1>1, <2>1, <2>2 DEF RouterInv, OpenNetsReported, Returned
<1>5. CASE BeginRetries \/ StartRound \/ Reroute \/ EndRound \/ Timeout \/ TakeResult
  <2>1. pc' # "first" /\ result' = NoResult
    BY <1>1, <1>5 DEF BeginRetries, StartRound, Reroute, EndRound, Timeout, TakeResult, Idle,
                      WellFormed, CallInv
  <2> QED
    BY <1>1, <2>1 DEF RouterInv, FirstPassInv, OpenNetsReported, Returned
<1>6. CASE Edit
  <2>1. pc' # "first" /\ result' = NoResult
    BY <1>1, <1>6 DEF Edit, WellFormed, CallInv
  <2> QED
    BY <1>1, <2>1 DEF RouterInv, FirstPassInv, OpenNetsReported, Returned
<1>7. CASE UNCHANGED vars
  <2>1. OpenNetsReported'
    BY <1>7 DEF vars, RouterInv, OpenNetsReported, Returned, Retried
  <2> QED
    BY <1>1, <1>7, <2>1 DEF vars, RouterInv, FirstPassInv, Settled, Working
<1>8. CASE User
  BY <1>4, <1>5, <1>6, <1>8 DEF User, RouteJob, SolveJob, DrawJumper, DeleteJumper, LockJumpers
<1> QED
  BY <1>2, <1>3, <1>5, <1>7, <1>8 DEF Next, Step

\* A net that the router does not report as unrouted is joined by what the call was given
\* and what it laid, whatever the order of nets, the trees, the rails and the rounds were;
\* in the layout that is returned it is one node if no wire that was given is missing
\* there, or if the rip-up loop was entered.
THEOREM OpenReported == Spec => []OpenNetsReported
<1>1. Init => RouterInv
  BY InitWellFormed DEF Init, RouterInv, FirstPassInv, OpenNetsReported, Returned
<1>2. RouterInv => OpenNetsReported
  BY DEF RouterInv
<1> QED
  BY <1>1, <1>2, NextReports, PTL DEF Spec

-----------------------------------------------------------------------------
(* Nets are kept apart *)

PinsOf(layout) == {layout.pins[p] : p \in Pins}

\* What a net may use: its pins, and the segments that it owns.
Territory(n) ==
  PinHoles(n, base.pins) \cup UNION {Groups[s] : s \in {t \in Rails : rails[t] = n}}

InTerritory ==
  \A j \in ToSet(new) : j.from \in Territory(j.net) /\ j.to \in Territory(j.net)

\* Two wires meet in a hole of a rail only if a pin is in it.
Meet(j, k) == {j.from, j.to} \cap {k.from, k.to} \cap RailHoles

HolesApart ==
  \A j, k \in Preserved(base) \cup ToSet(new) :
    j.net # k.net /\ ~(j.locked /\ k.locked) => Meet(j, k) \subseteq PinsOf(base)

ApartInv ==
  /\ WellFormed
  /\ pc = "done" => result.layout = [base EXCEPT !.jumpers = Preserved(base) \cup ToSet(new)]
  /\ ripups = 0 => InTerritory
  /\ HolesApart

LEMMA PinHolesOfPins == \A n \in Nets : PinHoles(n, base.pins) \subseteq PinsOf(base)
<1>1. \A n \in Nets : Net[n].pins \subseteq Pins
  BY RouterAssumption
<1> QED
  BY <1>1 DEF PinHoles, PinsOf

\* A new wire meets one that was there only where a pin is.
LEMMA FreshWireApart ==
  ASSUME WellFormed, NEW n \in Nets, ~TooFewPins(n), RouteNet(n),
         NEW j \in ToSet(new') \ ToSet(new), NEW k \in Preserved(base) \cup ToSet(new)
  PROVE  Meet(j, k) \subseteq PinsOf(base) /\ Meet(k, j) \subseteq PinsOf(base)
<1>1. j.from \in Terminals(n) /\ j.to \in Terminals(n)
  BY RouteNetJoins DEF WellFormed
<1>2. {k.from, k.to} \subseteq Used
  BY DEF Used, Ends, Wires
<1>3. Terminals(n) \cap Used \subseteq PinsOf(base)
  <2>1. ASSUME NEW r \in RailHole(n, PinHoles(n, base.pins)) PROVE r[2] \notin Used
    BY <2>1, RailHoleFree DEF FreeHoles
  <2> QED
    BY <2>1, PinHolesOfPins DEF Terminals
<1> QED
  BY <1>1, <1>2, <1>3 DEF Meet

LEMMA RouteNetApart ==
  ASSUME WellFormed, base' = base, NEW n \in Nets, ~TooFewPins(n), RouteNet(n)
  PROVE  (HolesApart => HolesApart') /\ (InTerritory => InTerritory')
<1>1. /\ \A j \in ToSet(new') \ ToSet(new) :
           j.net = n /\ j.from \in Terminals(n) /\ j.to \in Terminals(n)
      /\ \A s \in Rails : rails'[s] = IF \E r \in RailHole(n, PinHoles(n, base.pins)) : r[1] = s
                                    THEN n ELSE rails[s]
  BY RouteNetJoins DEF WellFormed
<1>2. ASSUME HolesApart PROVE HolesApart'
  <2>1. SUFFICES ASSUME NEW j \in Preserved(base) \cup ToSet(new'),
                        NEW k \in Preserved(base) \cup ToSet(new'),
                        j.net # k.net, ~(j.locked /\ k.locked)
                 PROVE  Meet(j, k) \subseteq PinsOf(base)
    BY DEF HolesApart, PinsOf
  <2> DEFINE old == Preserved(base) \cup ToSet(new)
             fresh == ToSet(new') \ ToSet(new)
  <2>2. CASE j \in old /\ k \in old
    BY <1>2, <2>1, <2>2 DEF HolesApart
  <2>3. CASE j \in fresh /\ k \in old
    BY <2>3, FreshWireApart
  <2>4. CASE j \in old /\ k \in fresh
    BY <2>4, FreshWireApart
  <2>5. CASE j \in fresh /\ k \in fresh
    BY <1>1, <2>1, <2>5
  <2> QED
    BY <2>2, <2>3, <2>4, <2>5
<1>3. ASSUME InTerritory PROVE InTerritory'
  <2>1. ASSUME NEW m \in Nets, NEW s \in Rails, rails[s] = m PROVE rails'[s] = m
    <3>1. CASE \E r \in RailHole(n, PinHoles(n, base.pins)) : r[1] = s
      <4>1. rails[s] \in {NoNet, n}
        BY <3>1, RailHoleFree
      <4> QED
        BY <1>1, <2>1, <3>1, <4>1, RouterAssumption
    <3>2. CASE ~ \E r \in RailHole(n, PinHoles(n, base.pins)) : r[1] = s
      BY <1>1, <2>1, <3>2
    <3> QED
      BY <3>1, <3>2
  <2>2. ASSUME NEW m \in Nets PROVE Territory(m) \subseteq Territory(m)'
    BY <2>1 DEF Territory
  <2>3. Terminals(n) \subseteq Territory(n)'
    <3>1. ASSUME NEW r \in RailHole(n, PinHoles(n, base.pins))
          PROVE  r[1] \in Rails /\ rails'[r[1]] = n /\ r[2] \in Groups[r[1]]
      BY <1>1, <3>1, RailHoleFree DEF FreeHoles
    <3> QED
      BY <3>1 DEF Terminals, Territory
  <2>4. \A j \in ToSet(new) : j.net \in Nets
    <3>1. ToSet(new) \in SUBSET Jumper
      BY RangeTyped DEF WellFormed, TypeOK
    <3> QED
      BY <3>1 DEF Jumper
  <2> QED
    BY <1>1, <1>3, <2>2, <2>3, <2>4 DEF InTerritory
<1> QED
  BY <1>2, <1>3

LEMMA KeptApart ==
  ASSUME base' = base, ToSet(new') \subseteq ToSet(new)
  PROVE  HolesApart => HolesApart'
BY DEF HolesApart, PinsOf

LEMMA EmptyApart ==
  ASSUME NEW layout
  PROVE  /\ ToSet(<<>>) = {}
         /\ \A j, k \in Preserved(layout) : j.locked /\ k.locked
BY DEF ToSet, Preserved

LEMMA IdleApart == new' = <<>> => InTerritory' /\ HolesApart'
<1> SUFFICES ASSUME new' = <<>> PROVE InTerritory' /\ HolesApart'
  OBVIOUS
<1>1. ToSet(new') = {} /\ ToSet(new)' = {}
  BY EmptyApart
<1>2. InTerritory'
  BY <1>1 DEF InTerritory
<1>3. \A j, k \in Preserved(base') : j.locked /\ k.locked
  BY EmptyApart
<1>4. HolesApart'
  BY <1>1, <1>3 DEF HolesApart
<1> QED
  BY <1>2, <1>4

LEMMA NextApart == ApartInv /\ [Next]_vars => ApartInv'
<1> SUFFICES ASSUME ApartInv, [Next]_vars PROVE ApartInv'
  OBVIOUS
<1>1. WellFormed /\ WellFormed'
  BY NextWellFormed DEF ApartInv
<1>2. CASE FirstPass \/ Reroute
  <2>1. base' = base /\ pc' # "done" /\ ripups' = ripups
    BY <1>2 DEF FirstPass, Reroute
  <2>2. \/ UNCHANGED <<new, rails>>
        \/ \E n \in Nets : ~TooFewPins(n) /\ RouteNet(n)
    BY <1>1, <1>2 DEF FirstPass, Reroute, WellFormed, TypeOK
  <2>3. CASE UNCHANGED <<new, rails>>
    BY <1>1, <2>1, <2>3 DEF ApartInv, InTerritory, Territory, HolesApart, PinsOf
  <2>4. CASE \E n \in Nets : ~TooFewPins(n) /\ RouteNet(n)
    BY <1>1, <2>1, <2>4, RouteNetApart DEF ApartInv
  <2> QED
    BY <2>2, <2>3, <2>4
<1>3. CASE FinishFirstPass \/ FinishRetries
  <2>1. \E left : result' = Routed(left)
    BY <1>3 DEF FinishFirstPass, FinishRetries
  <2>2. result'.layout = [base EXCEPT !.jumpers = Preserved(base) \cup ToSet(new)]
    BY <2>1 DEF Routed
  <2>3. UNCHANGED <<base, new, rails, ripups>>
    BY <1>3 DEF FinishFirstPass, FinishRetries, callVars
  <2> QED
    BY <1>1, <2>2, <2>3 DEF ApartInv, InTerritory, Territory, HolesApart, PinsOf
<1>4. CASE BeginRetries \/ EndRound
  <2>1. UNCHANGED <<base, new, rails, ripups>> /\ pc' # "done"
    BY <1>4 DEF BeginRetries, EndRound, callVars
  <2> QED
    BY <1>1, <2>1 DEF ApartInv, InTerritory, Territory, HolesApart, PinsOf
<1>5. CASE StartRound
  <2>1. PICK n \in StillFailed :
          new' = Only(new, {i \in DOMAIN new : new[i].net \notin
                              ({n} \cup {new[k].net : k \in RipUp(n)})})
    BY <1>5 DEF StartRound
  <2>2. new \in Seq(Jumper)
    BY <1>1 DEF WellFormed, TypeOK
  <2> DEFINE gone == {n} \cup {new[i].net : i \in RipUp(n)}
             is == {i \in DOMAIN new : new[i].net \notin gone}
  <2>3. new' = Only(new, is)
    BY <2>1
  <2>4. ToSet(new') \subseteq ToSet(new)
    <3> HIDE DEF gone
    <3> QED
      BY <2>2, <2>3, OnlyTyped
  <2>5. base' = base /\ pc' = "reroute"
    BY <1>5 DEF StartRound
  <2>6. ~(ripups' = 0)
    BY <1>1, <2>5 DEF WellFormed, CallInv
  <2> QED
    BY <1>1, <2>4, <2>5, <2>6, KeptApart DEF ApartInv
<1>6. ASSUME NEW o, NEW layout, NEW opts, Begin(o, layout, opts)
      PROVE  ApartInv'
  <2>1. new' = <<>> /\ pc' = "first"
    BY <1>1, <1>6 DEF Begin, WellFormed, CallInv
  <2> QED
    BY <1>1, <2>1, IdleApart DEF ApartInv
<1>7. CASE Timeout \/ TakeResult
  <2>1. new' = <<>> /\ pc' = "idle"
    BY <1>7 DEF Timeout, TakeResult, Idle
  <2> QED
    BY <1>1, <2>1, IdleApart DEF ApartInv
<1>8. CASE Edit
  <2>1. new' = <<>> /\ pc' = "idle"
    BY <1>1, <1>8 DEF Edit, callVars, WellFormed, CallInv
  <2> QED
    BY <1>1, <2>1, IdleApart DEF ApartInv
<1>9. CASE UNCHANGED vars
  BY <1>1, <1>9 DEF vars, ApartInv, InTerritory, Territory, HolesApart, PinsOf
<1>10. CASE User
  BY <1>6, <1>7, <1>8, <1>10 DEF User, RouteJob, SolveJob, DrawJumper, DeleteJumper, LockJumpers
<1> QED
  BY <1>2, <1>3, <1>4, <1>5, <1>7, <1>9, <1>10 DEF Next, Step

LEMMA SeveralNets ==
  ASSUME NEW S \in SUBSET Nets
  PROVE  Cardinality(S) > 1 <=> \E n, m \in S : n # m
<1>1. IsFiniteSet(S) /\ Cardinality(S) \in Nat
  <2>1. IsFiniteSet(Nets)
    BY RouterAssumption
  <2> QED
    BY <2>1, FS_Subset, FS_CardinalityType
<1>2. ASSUME NEW n \in S, NEW m \in S, n # m PROVE Cardinality(S) > 1
  <2>1. IsFiniteSet({n}) /\ Cardinality({n}) = 1
    BY FS_Singleton
  <2>2. IsFiniteSet({n} \cup {m}) /\ Cardinality({n} \cup {m}) = 2
    BY <1>2, <2>1, FS_AddElement
  <2>3. Cardinality({n} \cup {m}) <= Cardinality(S)
    BY <1>1, FS_Subset
  <2> QED
    BY <1>1, <2>2, <2>3
<1>3. ASSUME \A n, m \in S : n = m PROVE ~(Cardinality(S) > 1)
  <2>1. CASE S = {}
    BY <2>1, FS_EmptySet
  <2>2. CASE S # {}
    <3>1. PICK n \in S : S = {n}
      BY <1>3, <2>2
    <3> QED
      BY <3>1, FS_Singleton
  <2> QED
    BY <2>1, <2>2
<1> QED
  BY <1>2, <1>3

\* No node has pins of two nets.
LEMMA ShortedMeans ==
  ASSUME NEW layout
  PROVE  Shorted(layout) <=>
           \E c \in Nodes(Joined(layout) \cup Wires(layout.jumpers)) : \E n, m \in Nets :
             n # m /\ PinHoles(n, layout.pins) \cap c # {} /\ PinHoles(m, layout.pins) \cap c # {}
<1> DEFINE In(c) == {n \in Nets : PinHoles(n, layout.pins) \cap c # {}}
<1>1. \A c : In(c) \in SUBSET Nets
  OBVIOUS
<1>2. \A c : Cardinality(In(c)) > 1 <=> \E n, m \in In(c) : n # m
  <2> HIDE DEF In
  <2> QED
    BY <1>1, SeveralNets
<1>3. Shorted(layout) <=>
        \E c \in Nodes(Joined(layout) \cup Wires(layout.jumpers)) : Cardinality(In(c)) > 1
  BY DEF Shorted
<1>4. \A c : (\E n, m \in In(c) : n # m) <=>
        \E n, m \in Nets : n # m /\ PinHoles(n, layout.pins) \cap c # {}
                        /\ PinHoles(m, layout.pins) \cap c # {}
  OBVIOUS
<1> QED
  <2> HIDE DEF In
  <2> QED
    BY <1>2, <1>3, <1>4

\* The nodes that the call began with, and the part of the board that they give a net:
\* whatever its territory touches.
Fixed == Joined(base) \cup Wires(Preserved(base))
Owns(n, c) == c \cap Territory(n) # {}
Region(n) == UNION {c \in Nodes(Fixed) : Owns(n, c)}
Unowned == {c \in Nodes(Fixed) : \A n \in Nets : ~Owns(n, c)}
Regions == ({Region(n) : n \in Nets} \ {{}}) \cup Unowned

\* A node of a layout that shorts no nets has pins of one net.
LEMMA NodeOfOneNet ==
  ASSUME base \in Layout, ~Shorted(Rigid(base)), NEW c \in Nodes(Fixed),
         NEW n \in Nets, NEW m \in Nets,
         PinHoles(n, base.pins) \cap c # {}, PinHoles(m, base.pins) \cap c # {}
  PROVE  n = m
<1>1. Rigid(base).jumpers = Preserved(base) /\ Rigid(base).pins = base.pins
      /\ Rigid(base).links = base.links
  BY DEF Rigid, Layout
<1>2. Joined(Rigid(base)) \cup Wires(Rigid(base).jumpers) = Fixed
  BY <1>1 DEF Joined, Fixed
<1> QED
  BY <1>1, <1>2, ShortedMeans

LEMMA OneOwner ==
  ASSUME base \in Layout, ~Shorted(Rigid(base)), RailsAlone(base), NEW c \in Nodes(Fixed),
         NEW n \in Nets, NEW m \in Nets, Owns(n, c), Owns(m, c)
  PROVE  n = m
<1> DEFINE HasPin(k) == PinHoles(k, base.pins) \cap c # {}
           HasRail(k) == \E s \in Rails : rails[s] = k /\ Groups[s] \cap c # {}
<1>1. \A k \in Nets : Owns(k, c) => HasPin(k) \/ HasRail(k)
  BY DEF Owns, Territory
<1>2. \A k \in Nets : HasRail(k) =>
        /\ \A p \in Pins : base.pins[p] \notin c
        /\ \A s, t \in Rails : Groups[s] \cap c # {} /\ Groups[t] \cap c # {} => s = t
  BY DEF RailsAlone, RailHoles, Fixed
<1>3. \A k, l \in Nets : HasRail(k) => ~HasPin(l)
  BY <1>2, PinHolesOfPins DEF PinsOf
<1>4. HasRail(n) /\ HasRail(m) => n = m
  BY <1>2
<1>5. HasPin(n) /\ HasPin(m) => n = m
  BY NodeOfOneNet
<1> QED
  BY <1>1, <1>3, <1>4, <1>5

\* Regions are a partition that has all the nodes that the call began with.
LEMMA RegionsPartition ==
  ASSUME base \in Layout, ~Shorted(Rigid(base)), RailsAlone(base)
  PROVE  Partition(Regions) /\ Finer(Nodes(Fixed), Regions)
<1>1. Fixed \in SUBSET SUBSET Holes
  BY PreservedTyped, JoinedTyped, WiresTyped DEF Fixed
<1>2. Partition(Nodes(Fixed))
  BY <1>1, NodesFinest
<1>3. \A c \in Nodes(Fixed) : \E d \in Regions : c \subseteq d
  <2> SUFFICES ASSUME NEW c \in Nodes(Fixed) PROVE \E d \in Regions : c \subseteq d
    OBVIOUS
  <2>1. CASE c \in Unowned
    BY <2>1 DEF Regions
  <2>2. CASE c \notin Unowned
    <3>1. PICK n \in Nets : Owns(n, c)
      BY <2>2 DEF Unowned
    <3>2. c \subseteq Region(n) /\ c # {}
      BY <1>2, <3>1 DEF Region, Partition
    <3> QED
      BY <3>2 DEF Regions
  <2> QED
    BY <2>1, <2>2
<1>4. \A d \in Regions : \A h \in d : \E c \in Nodes(Fixed) :
        /\ h \in c /\ c \subseteq d
        /\ \/ d \in Unowned /\ c = d
           \/ \E n \in Nets : d = Region(n) /\ Owns(n, c)
  BY DEF Regions, Unowned, Region
<1>5. UNION Regions = Holes
  BY <1>2, <1>3, <1>4 DEF Partition
<1>6. {} \notin Regions
  BY <1>2 DEF Regions, Unowned, Partition
<1>7. ASSUME NEW d \in Regions, NEW e \in Regions, d \cap e # {} PROVE d = e
  <2>1. PICK h : h \in d /\ h \in e
    BY <1>7
  <2>2. PICK c \in Nodes(Fixed) :
          /\ h \in c
          /\ \/ d \in Unowned /\ c = d
             \/ \E n \in Nets : d = Region(n) /\ Owns(n, c)
    BY <1>4, <2>1
  <2>3. PICK b \in Nodes(Fixed) :
          /\ h \in b
          /\ \/ e \in Unowned /\ b = e
             \/ \E n \in Nets : e = Region(n) /\ Owns(n, b)
    BY <1>4, <2>1
  <2>4. b = c
    BY <1>2, <2>2, <2>3 DEF Partition
  <2>5. CASE d \in Unowned /\ c = d
    BY <2>3, <2>4, <2>5 DEF Unowned
  <2>6. CASE \E n \in Nets : d = Region(n) /\ Owns(n, c)
    BY <2>3, <2>4, <2>6, OneOwner DEF Unowned
  <2> QED
    BY <2>2, <2>5, <2>6
<1> QED
  BY <1>3, <1>5, <1>6, <1>7 DEF Partition, Finer

\* Wires inside the territories of their nets short nothing.
LEMMA TerritoryApart ==
  ASSUME base \in Layout, new \in Seq(Jumper), rails \in [Rails -> Nets \cup {NoNet}],
         ~Shorted(Rigid(base)), RailsAlone(base), InTerritory,
         NEW c \in Nodes(Fixed \cup Wires(ToSet(new))), NEW n \in Nets, NEW m \in Nets,
         PinHoles(n, base.pins) \cap c # {}, PinHoles(m, base.pins) \cap c # {}
  PROVE  n = m
<1>1. Fixed \in SUBSET SUBSET Holes /\ Wires(ToSet(new)) \in SUBSET SUBSET Holes
      /\ ToSet(new) \in SUBSET Jumper
  BY PreservedTyped, JoinedTyped, WiresTyped, RangeTyped DEF Fixed
<1>2. /\ Partition(Nodes(Fixed)) /\ Linked(Fixed \cup GroupLinks, Nodes(Fixed))
      /\ Partition(Regions) /\ Finer(Nodes(Fixed), Regions)
  BY <1>1, NodesFinest, RegionsPartition
<1>3. Linked(Fixed \cup GroupLinks, Regions)
  BY <1>2, FinerKeepsTogether
<1>4. ASSUME NEW j \in ToSet(new) PROVE \E d \in Regions : {j.from, j.to} \subseteq d
  <2>1. j.net \in Nets /\ j.from \in Holes /\ j.to \in Holes
    BY <1>1 DEF Jumper
  <2>2. j.from \in Territory(j.net) /\ j.to \in Territory(j.net)
    BY DEF InTerritory
  <2>3. \A h \in Holes \cap Territory(j.net) : h \in Region(j.net)
    BY <1>2 DEF Partition, Region, Owns
  <2> QED
    BY <2>1, <2>2, <2>3 DEF Regions
<1>5. Linked(Wires(ToSet(new)), Regions)
  BY <1>4 DEF Linked, Wires, Together
<1>6. Linked((Fixed \cup Wires(ToSet(new))) \cup GroupLinks, Regions)
  BY <1>3, <1>5 DEF Linked
<1>7. Finer(Nodes(Fixed \cup Wires(ToSet(new))), Regions)
  BY <1>1, <1>2, <1>6, NodesFinest
<1>8. PICK d \in Regions : c \subseteq d
  BY <1>7 DEF Finer
<1>9. ASSUME NEW k \in Nets, PinHoles(k, base.pins) \cap d # {} PROVE d = Region(k)
  <2>1. PICK h \in d : h \in PinHoles(k, base.pins)
    BY <1>9
  <2>2. h \in Territory(k)
    BY <2>1 DEF Territory
  <2>3. h \in Holes
    BY <1>2, <2>1 DEF Partition
  <2>4. h \in Region(k)
    BY <1>2, <2>2, <2>3 DEF Partition, Region, Owns
  <2>5. Region(k) \in Regions
    BY <2>4 DEF Regions
  <2> QED
    BY <1>2, <2>1, <2>4, <2>5 DEF Partition
<1>10. d = Region(n) /\ d = Region(m)
  BY <1>8, <1>9
<1>11. PICK h \in d : h \in PinHoles(n, base.pins)
  BY <1>8
<1>12. PICK b \in Nodes(Fixed) : h \in b /\ Owns(m, b)
  BY <1>10, <1>11 DEF Region
<1>13. Owns(n, b)
  BY <1>11, <1>12 DEF Owns, Territory
<1> QED
  BY <1>12, <1>13, OneOwner

\* The router keeps nets apart.  Whatever the rounds were, no two wires of different nets
\* that it drew or that it had to keep meet in a hole of a rail; and a call without rounds
\* shorts no nets, on every board and for every netlist, as far as nobody has joined its
\* rails to something.
THEOREM KeepsApart == Spec => []NetsApart
<1>1. Init => ApartInv
  <2> SUFFICES ASSUME Init PROVE ApartInv
    OBVIOUS
  <2>1. ToSet(new) = {} /\ \A j, k \in Preserved(base) : j.locked /\ k.locked
    BY EmptyApart DEF Init
  <2>2. InTerritory /\ HolesApart
    BY <2>1 DEF InTerritory, HolesApart
  <2> QED
    BY <2>2, InitWellFormed DEF Init, ApartInv
<1>2. ApartInv => NetsApart
  <2> SUFFICES ASSUME ApartInv, Returned PROVE NetsApart
    BY DEF NetsApart, FirstPassApart, RailHolesApart
  <2>1. /\ base \in Layout /\ new \in Seq(Jumper) /\ rails \in [Rails -> Nets \cup {NoNet}]
        /\ result.layout = [base EXCEPT !.jumpers = Preserved(base) \cup ToSet(new)]
    BY DEF ApartInv, WellFormed, TypeOK, CallInv, Returned
  <2>2. /\ result.layout.jumpers = Preserved(base) \cup ToSet(new)
        /\ result.layout.pins = base.pins /\ result.layout.links = base.links
    BY <2>1 DEF Layout
  <2>3. RailHolesApart
    BY <2>2 DEF ApartInv, HolesApart, RailHolesApart, Meet, PinsOf
  <2>4. FirstPassApart
    <3> SUFFICES ASSUME ripups = 0, ~Shorted(Rigid(base)), RailsAlone(base)
                 PROVE  ~Shorted(result.layout)
      BY DEF FirstPassApart
    <3>1. InTerritory
      BY DEF ApartInv
    <3>2. Joined(result.layout) \cup Wires(result.layout.jumpers) = Fixed \cup Wires(ToSet(new))
      BY <2>2 DEF Joined, Fixed, Wires
    <3>3. \A c \in Nodes(Fixed \cup Wires(ToSet(new))) : \A n, m \in Nets :
            PinHoles(n, base.pins) \cap c # {} /\ PinHoles(m, base.pins) \cap c # {} => n = m
      BY <2>1, <3>1, TerritoryApart
    <3>4. \A c \in Nodes(Joined(result.layout) \cup Wires(result.layout.jumpers)) :
            \A n, m \in Nets : PinHoles(n, result.layout.pins) \cap c # {}
                            /\ PinHoles(m, result.layout.pins) \cap c # {} => n = m
      BY <2>2, <3>2, <3>3
    <3> QED
      BY <3>4, ShortedMeans
  <2> QED
    BY <2>3, <2>4 DEF NetsApart
<1> QED
  BY <1>1, <1>2, NextApart, PTL DEF Spec
-----------------------------------------------------------------------------
(* Routed nets are kept *)

\* A net gets a hole of at most one rail.
LEMMA OneRail ==
  ASSUME NEW n, NEW hs, NEW q \in RailHole(n, hs), NEW r \in RailHole(n, hs)
  PROVE  q = r
<1>1. \A s \in Rails : Cardinality(Groups[s]) \in Nat /\ s \in Nat
  <2>1. \A s \in Rails : Groups[s] \subseteq Holes
    BY BoardAssumption, RouterAssumption
  <2>2. \A s \in Rails : s \in Nat
    BY RouterAssumption
  <2> QED
    BY <2>1, <2>2, BoardAssumption, FS_Subset, FS_CardinalityType
<1>2. \A s, t \in Rails : BetterRail(s, t) => ~BetterRail(t, s)
  BY <1>1 DEF BetterRail
<1>3. PICK s \in UsableRails(n, hs) :
        q = <<s, Min(FreeHoles(s))>> /\ \A t \in UsableRails(n, hs) \ {s} : BetterRail(s, t)
  BY DEF RailHole
<1>4. PICK t \in UsableRails(n, hs) :
        r = <<t, Min(FreeHoles(t))>> /\ \A u \in UsableRails(n, hs) \ {t} : BetterRail(t, u)
  BY DEF RailHole
<1>5. s = t
  BY <1>2, <1>3, <1>4 DEF UsableRails
<1> QED
  BY <1>3, <1>4, <1>5

\* The wires of a net end at its pins and in one other hole, that of its rail.
EndsOf(js, n) == Ends({j \in js : j.net = n})
InPlace(js) ==
  \A n \in Nets : \A g, h \in EndsOf(js, n) \ PinHoles(n, base.pins) : g = h

Free(c, ns) == \A n \in ns : PinHoles(n, base.pins) \cap c = {}

\* On a layout that shorts no nets, wires of some nets that are in place join at most one
\* node in which these nets have no pin to any other such node.  Each of the nets brings
\* its own nodes together and adds one hole; no circle comes of that.
LEMMA OneFreeNode ==
  ASSUME base \in Layout, ~Shorted(Rigid(base)),
         NEW js \in SUBSET Jumper, InPlace(js), NEW ns \in SUBSET Nets
  PROVE  \E nodes :
           /\ Partition(nodes) /\ Finer(Nodes(Fixed), nodes)
           /\ \A n \in ns : Linked({EndsOf(js, n)}, nodes)
           /\ \A c \in nodes : \A a, b \in Nodes(Fixed) :
                a \subseteq c /\ b \subseteq c /\ Free(a, ns) /\ Free(b, ns) => a = b
<1> DEFINE Good(nodes, ms) ==
             /\ Partition(nodes) /\ Finer(Nodes(Fixed), nodes)
             /\ \A n \in ms : Linked({EndsOf(js, n)}, nodes)
             /\ \A c \in nodes : \A a, b \in Nodes(Fixed) :
                  a \subseteq c /\ b \subseteq c /\ Free(a, ms) /\ Free(b, ms) => a = b
           T == {ms \in SUBSET ns : ~ \E nodes : Good(nodes, ms)}
<1>1. SUFFICES ASSUME T # {} PROVE FALSE
  OBVIOUS
<1>2. Fixed \in SUBSET SUBSET Holes /\ Partition(Nodes(Fixed))
  BY PreservedTyped, JoinedTyped, WiresTyped, NodesFinest DEF Fixed
<1>3. \E ms \in T : \A t \in T : t \subseteq ms => t = ms
  <2>1. IsFiniteSet(ns)
    <3>1. IsFiniteSet(Nets)
      BY RouterAssumption
    <3> QED
      BY <3>1, FS_Subset
  <2>2. T \subseteq SUBSET ns
    OBVIOUS
  <2> HIDE DEF T
  <2> QED
    BY <1>1, <2>1, <2>2, SmallestSubset
<1>4. PICK ms \in T : \A t \in T : t \subseteq ms => t = ms
  BY <1>3
<1>5. ms \subseteq ns /\ \A nodes : ~Good(nodes, ms)
  OBVIOUS
<1>6. Good(Nodes(Fixed), {})
  <2>1. \A c, a \in Nodes(Fixed) : a \subseteq c => a = c
    BY <1>2 DEF Partition
  <2>2. Finer(Nodes(Fixed), Nodes(Fixed))
    BY DEF Finer
  <2> QED
    BY <1>2, <2>1, <2>2
<1>7. PICK n \in ms : TRUE
  <2> HIDE DEF Good
  <2> QED
    BY <1>5, <1>6
<1>8. PICK nodes : Good(nodes, ms \ {n})
  <2>1. ms \ {n} \notin T /\ ms \ {n} \subseteq ns
    BY <1>4, <1>5, <1>7
  <2> HIDE DEF Good
  <2> QED
    BY <2>1
<1> DEFINE link == EndsOf(js, n)
           after == Merge(nodes, link)
<1>9. link \in SUBSET Holes
  BY DEF EndsOf, Ends, Wires, Jumper
<1>10. /\ Partition(after) /\ Finer(nodes, after) /\ Linked({link}, after)
  <2>1. Partition(nodes)
    BY <1>8
  <2> HIDE DEF link, Good
  <2> QED
    BY <1>9, <2>1, MergeJoins
<1>11. Finer(Nodes(Fixed), after)
  <2> HIDE DEF after
  <2> QED
    BY <1>8, <1>10, FinerTransitive
<1>12. \A m \in ms : Linked({EndsOf(js, m)}, after)
  <2> HIDE DEF after
  <2>1. \A m \in ms \ {n} : Linked({EndsOf(js, m)}, after)
    BY <1>8, <1>10, FinerKeepsTogether
  <2> QED
    BY <1>10, <2>1
<1>13. ASSUME NEW c \in after, NEW a \in Nodes(Fixed), NEW b \in Nodes(Fixed),
              a \subseteq c, b \subseteq c, Free(a, ms), Free(b, ms)
       PROVE  a = b
  <2>1. Free(a, ms \ {n}) /\ Free(b, ms \ {n})
    BY <1>13 DEF Free
  <2>2. CASE c \in nodes
    BY <1>8, <1>13, <2>1, <2>2
  <2>3. CASE c \notin nodes
    <3>1. c = UNION {d \in nodes : d \cap link # {}}
      BY <2>3 DEF Merge
    <3>2. ASSUME NEW e \in Nodes(Fixed), e \subseteq c, Free(e, ms)
          PROVE  \E d \in nodes : /\ e \subseteq d /\ d \cap link # {}
                                  /\ d \cap link \cap PinHoles(n, base.pins) = {}
      <4>1. PICK d \in nodes : e \subseteq d
        BY <1>8 DEF Finer
      <4>2. d \cap link # {}
        <5>1. PICK h \in e : TRUE
          BY <1>2 DEF Partition
        <5>2. PICK f \in nodes : h \in f /\ f \cap link # {}
          BY <3>1, <3>2, <5>1
        <5>3. Partition(nodes)
          BY <1>8
        <5> QED
          BY <4>1, <5>1, <5>2, <5>3 DEF Partition
      <4>3. ASSUME NEW h \in d \cap link, h \in PinHoles(n, base.pins) PROVE FALSE
        <5>1. PICK f \in Nodes(Fixed) : h \in f
          BY <1>2, <1>9, <4>3 DEF Partition
        <5>2. f \subseteq d
          <6>1. PICK g \in nodes : f \subseteq g
            BY <1>8 DEF Finer
          <6>2. Partition(nodes)
            BY <1>8
          <6> QED
            BY <4>3, <5>1, <6>1, <6>2 DEF Partition
        <5>3. Free(f, ms \ {n})
          <6>1. n \in Nets /\ ms \subseteq Nets
            BY <1>5, <1>7
          <6>2. \A m \in Nets : PinHoles(m, base.pins) \cap f # {} => m = n
            BY <4>3, <5>1, <6>1, NodeOfOneNet
          <6> QED
            BY <6>1, <6>2 DEF Free
        <5>4. Free(e, ms \ {n})
          BY <3>2 DEF Free
        <5>5. e = f
          BY <1>8, <4>1, <5>2, <5>3, <5>4
        <5> QED
          BY <1>7, <3>2, <4>3, <5>1, <5>5 DEF Free
      <4> QED
        BY <4>1, <4>2, <4>3
    <3>3. PICK d \in nodes : /\ a \subseteq d /\ d \cap link # {}
                             /\ d \cap link \cap PinHoles(n, base.pins) = {}
      BY <1>13, <3>2
    <3>4. PICK e \in nodes : /\ b \subseteq e /\ e \cap link # {}
                             /\ e \cap link \cap PinHoles(n, base.pins) = {}
      BY <1>13, <3>2
    <3>5. d = e
      <4>1. \A g, h \in link \ PinHoles(n, base.pins) : g = h
        <5>1. n \in Nets
          BY <1>5, <1>7
        <5> QED
          BY <5>1 DEF InPlace
      <4>2. Partition(nodes)
        BY <1>8
      <4> QED
        BY <3>3, <3>4, <4>1, <4>2 DEF Partition
    <3> QED
      BY <1>8, <2>1, <3>3, <3>4, <3>5
  <2> QED
    BY <2>2, <2>3
<1>14. Good(after, ms)
  BY <1>10, <1>11, <1>12, <1>13
<1> QED
  <2> HIDE DEF Good, after
  <2> QED
    BY <1>5, <1>14

\* Hence the wires of others, in place, join no net that was not joined.
LEMMA OthersJoinNothing ==
  ASSUME base \in Layout, ~Shorted(Rigid(base)), NEW js \in SUBSET Jumper, InPlace(js),
         NEW n \in Nets, \A j \in js : j.net # n, PinHoles(n, base.pins) # {},
         Together(PinHoles(n, base.pins), Nodes(Fixed \cup Wires(js)))
  PROVE  Together(PinHoles(n, base.pins), Nodes(Fixed))
<1> DEFINE ns == Nets \ {n}
<1>1. Fixed \in SUBSET SUBSET Holes /\ Wires(js) \in SUBSET SUBSET Holes
  BY PreservedTyped, JoinedTyped, WiresTyped DEF Fixed
<1>2. Partition(Nodes(Fixed)) /\ Linked(Fixed \cup GroupLinks, Nodes(Fixed))
  BY <1>1, NodesFinest
<1>3. PICK nodes :
        /\ Partition(nodes) /\ Finer(Nodes(Fixed), nodes)
        /\ \A m \in ns : Linked({EndsOf(js, m)}, nodes)
        /\ \A c \in nodes : \A a, b \in Nodes(Fixed) :
             a \subseteq c /\ b \subseteq c /\ Free(a, ns) /\ Free(b, ns) => a = b
  BY OneFreeNode
<1>4. Linked(Fixed \cup GroupLinks, nodes)
  BY <1>2, <1>3, FinerKeepsTogether
<1>5. Linked(Wires(js), nodes)
  <2> SUFFICES ASSUME NEW j \in js PROVE Together({j.from, j.to}, nodes)
    BY DEF Linked, Wires
  <2>1. j.net \in ns
    BY DEF Jumper
  <2>2. {j.from, j.to} \subseteq EndsOf(js, j.net)
    BY DEF EndsOf, Ends, Wires
  <2>3. Together(EndsOf(js, j.net), nodes)
    BY <1>3, <2>1, <2>2 DEF Linked
  <2> QED
    BY <2>2, <2>3 DEF Together
<1>6. Finer(Nodes(Fixed \cup Wires(js)), nodes)
  <2>1. Linked((Fixed \cup Wires(js)) \cup GroupLinks, nodes)
    BY <1>4, <1>5 DEF Linked
  <2>2. Fixed \cup Wires(js) \in SUBSET SUBSET Holes
    BY <1>1
  <2> QED
    BY <1>3, <2>1, <2>2, NodesFinest
<1>7. PICK c \in nodes : PinHoles(n, base.pins) \subseteq c
  BY <1>6, FinerKeepsTogether DEF Together
<1>8. ASSUME NEW h \in PinHoles(n, base.pins)
      PROVE  \E a \in Nodes(Fixed) : h \in a /\ a \subseteq c /\ Free(a, ns)
  <2>1. h \in Holes
    BY PinHolesTyped DEF Layout
  <2>2. PICK a \in Nodes(Fixed) : h \in a
    BY <1>2, <2>1 DEF Partition
  <2>3. PICK d \in nodes : a \subseteq d
    BY <1>3 DEF Finer
  <2>4. d = c
    BY <1>3, <1>7, <1>8, <2>2, <2>3 DEF Partition
  <2>5. \A m \in Nets : PinHoles(m, base.pins) \cap a # {} => m = n
    BY <1>8, <2>2, NodeOfOneNet
  <2> QED
    BY <2>2, <2>3, <2>4, <2>5 DEF Free
<1>9. PICK h \in PinHoles(n, base.pins) : TRUE
  OBVIOUS
<1>10. PICK a \in Nodes(Fixed) : h \in a /\ a \subseteq c /\ Free(a, ns)
  BY <1>8, <1>9
<1>11. ASSUME NEW g \in PinHoles(n, base.pins) PROVE g \in a
  <2>1. PICK b \in Nodes(Fixed) : g \in b /\ b \subseteq c /\ Free(b, ns)
    BY <1>8
  <2>2. a = b
    BY <1>3, <1>10, <2>1
  <2> QED
    BY <2>1, <2>2
<1> QED
  BY <1>10, <1>11 DEF Together
\* A net that is routed for good: by what the call began with, or by its own wires.
OwnWires(n) == {j \in ToSet(new) : j.net = n}

Lasting(n) ==
  \/ Together(PinHoles(n, base.pins), Nodes(Fixed))
  \/ Together(PinHoles(n, base.pins), Nodes(Wires(OwnWires(n))))

\* In a call, the nets that are to do have no wires, the wires of the others are in place,
\* and nets that are neither to do nor reported are routed for good.  What a round knows
\* has wires of no net that it has to do.
InCall ==
  /\ skipped \subseteq unrouted
  /\ \A n \in todo : OwnWires(n) = {}
  /\ InPlace(ToSet(new))
  /\ \A n \in Nets \ unrouted :
       (pc = "first" => n \notin todo) => ~Refused(n) /\ ~TooFewPins(n)
  /\ base = Rigid(base) /\ ~Shorted(base) => \A n \in Nets \ (todo \cup unrouted) : Lasting(n)

KnownInv ==
  /\ pc = "retry" => todo = {}
  /\ pc = "first" => known = KnownAtStart(base)
  /\ pc = "reroute" =>
       \E kept \in SUBSET ToSet(new) : /\ known = Fixed \cup Wires(kept)
                                       /\ \A j \in kept : j.net \notin todo

KeptInv ==
  /\ WellFormed /\ KnownInv
  /\ pc = "idle" => skipped = {}
  /\ pc \in {"first", "retry", "reroute"} => InCall
  /\ RoutedNetsKept

\* A net that is routed is routed for good, and leaves the wires of others in place.
LEMMA RouteNetKeeps ==
  ASSUME TypeOK, base' = base, NEW n \in Nets, ~TooFewPins(n), RouteNet(n), OwnWires(n) = {}
  PROVE  /\ \A m \in Nets : OwnWires(m) \subseteq OwnWires(m)'
         /\ \A m \in Nets \ {n} : OwnWires(m)' = OwnWires(m)
         /\ Lasting(n)'
         /\ InPlace(ToSet(new)) => InPlace(ToSet(new))'
<1>1. /\ new' \in Seq(Jumper) /\ ToSet(new) \subseteq ToSet(new')
      /\ \A j \in ToSet(new') \ ToSet(new) :
           j.net = n /\ j.from \in Terminals(n) /\ j.to \in Terminals(n)
      /\ \A nodes : Partition(nodes) /\ Linked(Wires({j \in ToSet(new') : j.net = n}), nodes)
                    => Together(PinHoles(n, base.pins), nodes)
  BY RouteNetJoins
<1>2. \A m \in Nets : OwnWires(m) \subseteq OwnWires(m)'
  BY <1>1 DEF OwnWires
<1>3. \A m \in Nets \ {n} : OwnWires(m)' = OwnWires(m)
  BY <1>1 DEF OwnWires
<1>4. Lasting(n)'
  <2> DEFINE own == {j \in ToSet(new') : j.net = n}
  <2>1. own \in SUBSET Jumper
    BY <1>1, RangeTyped
  <2>2. Wires(own) \in SUBSET SUBSET Holes
    BY <2>1, WiresTyped
  <2>3. Partition(Nodes(Wires(own))) /\ Linked(Wires(own), Nodes(Wires(own)))
    <3> HIDE DEF own
    <3> QED
      BY <2>2, NodesFinest DEF Linked
  <2>4. Together(PinHoles(n, base.pins), Nodes(Wires(own)))
    BY <1>1, <2>3
  <2> QED
    BY <2>4 DEF Lasting, OwnWires
<1>5. ASSUME InPlace(ToSet(new)) PROVE InPlace(ToSet(new))'
  <2> SUFFICES ASSUME NEW m \in Nets,
                      NEW g \in EndsOf(ToSet(new'), m) \ PinHoles(m, base.pins),
                      NEW h \in EndsOf(ToSet(new'), m) \ PinHoles(m, base.pins)
               PROVE  g = h
    BY DEF InPlace
  <2>1. CASE m # n
    <3>1. {j \in ToSet(new') : j.net = m} = {j \in ToSet(new) : j.net = m}
      BY <1>1, <2>1
    <3> QED
      BY <1>5, <3>1 DEF InPlace, EndsOf
  <2>2. CASE m = n
    <3>1. \A j \in ToSet(new') : j.net = n => j.from \in Terminals(n) /\ j.to \in Terminals(n)
      BY <1>1 DEF OwnWires
    <3>2. EndsOf(ToSet(new'), n) \subseteq Terminals(n)
      BY <3>1 DEF EndsOf, Ends, Wires
    <3>3. \A q, r \in RailHole(n, PinHoles(n, base.pins)) : q = r
      BY OneRail
    <3> QED
      BY <2>2, <3>2, <3>3 DEF Terminals
  <2> QED
    BY <2>1, <2>2
<1> QED
  BY <1>2, <1>3, <1>4, <1>5

\* More wires leave a net routed.
LEMMA LastingStays ==
  ASSUME base' = base, new' \in Seq(Jumper), NEW n, OwnWires(n) \subseteq OwnWires(n)', Lasting(n)
  PROVE  Lasting(n)'
<1>1. CASE Together(PinHoles(n, base.pins), Nodes(Fixed))
  BY <1>1 DEF Lasting, Fixed
<1>2. CASE Together(PinHoles(n, base.pins), Nodes(Wires(OwnWires(n))))
  <2> DEFINE own == {j \in ToSet(new') : j.net = n}
  <2>1. Wires(own) \in SUBSET SUBSET Holes
    <3>1. own \in SUBSET Jumper
      BY RangeTyped
    <3> QED
      BY <3>1, WiresTyped
  <2>2. Wires(OwnWires(n)) \in SUBSET Wires(own)
    BY DEF OwnWires, Wires
  <2> HIDE DEF own
  <2>3. Together(PinHoles(n, base.pins), Nodes(Wires(own)))
    BY <1>2, <2>1, <2>2, StaysTogether
  <2> QED
    BY <2>3 DEF Lasting, OwnWires, own
<1> QED
  BY <1>1, <1>2 DEF Lasting

LEMMA RigidMeans ==
  ASSUME NEW layout \in Layout, layout = Rigid(layout)
  PROVE  KnownAtStart(layout) = Joined(layout) \cup Wires(Preserved(layout))
<1>1. layout.jumpers = Preserved(layout)
  BY DEF Rigid, Layout
<1> QED
  BY <1>1 DEF KnownAtStart

LEMMA FirstPassKeeps == KeptInv /\ FirstPass => KeptInv'
<1> SUFFICES ASSUME KeptInv, FirstPass PROVE KeptInv'
  OBVIOUS
<1>1. /\ WellFormed /\ WellFormed' /\ TypeOK /\ InCall /\ known = KnownAtStart(base)
  BY FirstPassWellFormed DEF KeptInv, KnownInv, FirstPass, WellFormed
<1>2. /\ pc = "first" /\ pc' = pc /\ base' = base /\ options' = options /\ known' = known
      /\ result' = NoResult
  BY <1>1 DEF FirstPass, WellFormed, CallInv
<1>3. KnownInv' /\ RoutedNetsKept'
  BY <1>1, <1>2 DEF KnownInv, RoutedNetsKept, Returned
<1>4. PICK n \in todo :
        /\ todo' = todo \ {n}
        /\ \/ /\ UNCHANGED new
              /\ unrouted' = unrouted \cup {n} /\ skipped' \subseteq skipped \cup {n}
           \/ /\ ~Refused(n) /\ ~TooFewPins(n) /\ UNCHANGED <<skipped, unrouted>>
              /\ \/ AlreadyConnected(PinHoles(n, base.pins)) /\ UNCHANGED new
                 \/ RouteNet(n)
  BY DEF FirstPass
<1>5. n \in Nets /\ OwnWires(n) = {} /\ new' \in Seq(Jumper)
  BY <1>1 DEF TypeOK, WellFormed, InCall
<1>6. skipped' \subseteq unrouted'
  BY <1>1, <1>4 DEF InCall
<1>7. \A m \in Nets \ unrouted' : m \notin todo' => ~Refused(m)' /\ ~TooFewPins(m)'
  BY <1>1, <1>2, <1>4 DEF InCall, Refused, TooFewPins
<1>8. CASE UNCHANGED new
  <2>1. (\A m \in todo' : OwnWires(m)' = {}) /\ InPlace(ToSet(new))'
    BY <1>1, <1>2, <1>4, <1>8 DEF InCall, OwnWires, InPlace
  <2>2. ASSUME base' = Rigid(base'), ~Shorted(base'), NEW m \in Nets \ (todo' \cup unrouted')
        PROVE  Lasting(m)'
    <3>1. CASE m # n
      <4>1. Lasting(m)
        BY <1>1, <1>2, <1>4, <2>2, <3>1 DEF InCall
      <4> QED
        BY <1>2, <1>8, <4>1 DEF Lasting, Fixed, OwnWires
    <3>2. CASE m = n
      <4>1. AlreadyConnected(PinHoles(n, base.pins)) \/ RouteNet(n)
        BY <1>4, <2>2, <3>2
      <4>2. CASE AlreadyConnected(PinHoles(n, base.pins))
        <5>1. known = Fixed
          BY <1>1, <1>2, <2>2, RigidMeans DEF TypeOK, Fixed
        <5>2. Together(PinHoles(n, base.pins), Nodes(Fixed))
          BY <4>2, <5>1 DEF AlreadyConnected
        <5> QED
          BY <1>2, <3>2, <5>2 DEF Lasting, Fixed
      <4>3. CASE RouteNet(n)
        BY <1>1, <1>2, <1>4, <1>5, <2>2, <3>2, <4>3, RouteNetKeeps
      <4> QED
        BY <4>1, <4>2, <4>3
    <3> QED
      BY <3>1, <3>2
  <2> QED
    BY <1>1, <1>2, <1>3, <1>6, <1>7, <2>1, <2>2 DEF KeptInv, InCall
<1>9. CASE RouteNet(n) /\ ~TooFewPins(n) /\ unrouted' = unrouted
  <2>1. /\ \A m \in Nets : OwnWires(m) \subseteq OwnWires(m)'
        /\ \A m \in Nets \ {n} : OwnWires(m)' = OwnWires(m)
        /\ Lasting(n)' /\ InPlace(ToSet(new))'
    BY <1>1, <1>2, <1>5, <1>9, RouteNetKeeps DEF InCall
  <2>2. \A m \in todo' : OwnWires(m)' = {}
    BY <1>1, <1>4, <2>1 DEF InCall, TypeOK
  <2>3. ASSUME base' = Rigid(base'), ~Shorted(base'), NEW m \in Nets \ (todo' \cup unrouted')
        PROVE  Lasting(m)'
    <3>1. CASE m # n
      <4>1. Lasting(m)
        BY <1>1, <1>2, <1>4, <1>9, <2>3, <3>1 DEF InCall
      <4> QED
        BY <1>2, <1>5, <2>1, <4>1, LastingStays
    <3> QED
      BY <2>1, <3>1
  <2> QED
    BY <1>1, <1>2, <1>3, <1>6, <1>7, <2>1, <2>2, <2>3 DEF KeptInv, InCall
<1> QED
  BY <1>4, <1>8, <1>9
LEMMA StartRoundKeeps == KeptInv /\ StartRound => KeptInv'
<1> SUFFICES ASSUME KeptInv, StartRound PROVE KeptInv'
  OBVIOUS
<1>1. /\ WellFormed /\ WellFormed' /\ TypeOK /\ InCall /\ todo = {}
  BY StartRoundWellFormed DEF KeptInv, KnownInv, StartRound, WellFormed
<1>2. /\ pc' = "reroute" /\ base' = base /\ options' = options /\ unrouted' = unrouted
      /\ skipped' = skipped /\ result' = NoResult
  BY <1>1 DEF StartRound, WellFormed, CallInv
<1>3. RoutedNetsKept'
  BY <1>2 DEF RoutedNetsKept, Returned
<1>4. PICK n \in StillFailed :
        LET affected == {n} \cup {new[i].net : i \in RipUp(n)}
            kept == Only(new, {i \in DOMAIN new : new[i].net \notin affected})
        IN new' = kept /\ known' = KnownAfter(kept) /\ todo' = affected
  BY DEF StartRound
<1> DEFINE affected == {n} \cup {new[i].net : i \in RipUp(n)}
           is == {i \in DOMAIN new : new[i].net \notin affected}
<1>5. new' = Only(new, is) /\ known' = KnownAfter(new') /\ todo' = affected
  BY <1>4
<1> HIDE DEF affected
<1>6. new \in Seq(Jumper) /\ DOMAIN new = 1..Len(new)
  BY <1>1 DEF TypeOK
<1>7. ToSet(new') \subseteq {j \in ToSet(new) : j.net \notin affected}
  <2>1. ASSUME NEW j \in ToSet(new') PROVE \E i \in is : j = new[i]
    BY <1>5, <1>6, <2>1, OnlyFrom
  <2> QED
    BY <2>1 DEF ToSet
<1>8. {j \in ToSet(new) : j.net \notin affected} \subseteq ToSet(new')
  <2>1. \A i \in is : new[i] \in ToSet(new')
    BY <1>5, <1>6, OnlyKeeps
  <2> QED
    BY <2>1 DEF ToSet
<1>9. \A m \in Nets \ affected : OwnWires(m)' = OwnWires(m)
  BY <1>7, <1>8 DEF OwnWires
<1>10. \A m \in affected : OwnWires(m)' = {}
  BY <1>7 DEF OwnWires
<1>11. KnownInv'
  <2>1. known' = Fixed' \cup Wires(ToSet(new'))
    BY <1>2, <1>5 DEF KnownAfter, Fixed, Wires
  <2>2. \A j \in ToSet(new') : j.net \notin todo'
    BY <1>5, <1>7
  <2> QED
    BY <1>2, <2>1, <2>2 DEF KnownInv
<1>12. InPlace(ToSet(new))'
  <2>1. \A m \in Nets : EndsOf(ToSet(new'), m) \subseteq EndsOf(ToSet(new), m)
    BY <1>7 DEF EndsOf, Ends, Wires
  <2> QED
    BY <1>1, <1>2, <2>1 DEF InPlace, InCall
<1>13. \A m \in Nets \ unrouted' : ~Refused(m)' /\ ~TooFewPins(m)'
  BY <1>1, <1>2 DEF InCall, Refused, TooFewPins
<1>14. ASSUME base' = Rigid(base'), ~Shorted(base'), NEW m \in Nets \ (todo' \cup unrouted')
       PROVE  Lasting(m)'
  <2>1. Lasting(m) /\ m \notin affected
    BY <1>1, <1>2, <1>5, <1>14 DEF InCall
  <2> QED
    BY <1>2, <1>9, <2>1 DEF Lasting, Fixed
<1>15. InCall'
  BY <1>1, <1>2, <1>5, <1>10, <1>12, <1>13, <1>14 DEF InCall
<1> QED
  BY <1>1, <1>2, <1>3, <1>11, <1>15 DEF KeptInv

LEMMA RerouteKeeps == KeptInv /\ Reroute => KeptInv'
<1> SUFFICES ASSUME KeptInv, Reroute PROVE KeptInv'
  OBVIOUS
<1>1. WellFormed /\ WellFormed' /\ TypeOK /\ InCall /\ KnownInv
  BY RerouteWellFormed DEF KeptInv, Reroute, WellFormed
<1>2. /\ pc = "reroute" /\ pc' = pc /\ base' = base /\ options' = options /\ known' = known
      /\ unrouted' = unrouted /\ skipped' = skipped /\ result' = NoResult
  BY <1>1 DEF Reroute, WellFormed, CallInv
<1>3. RoutedNetsKept'
  BY <1>2 DEF RoutedNetsKept, Returned
<1>4. PICK n \in todo :
        /\ todo' = todo \ {n}
        /\ \/ /\ Refused(n) \/ TooFewPins(n) \/ AlreadyConnected(PinHoles(n, base.pins))
              /\ UNCHANGED new
           \/ ~TooFewPins(n) /\ RouteNet(n)
  BY DEF Reroute
<1>5. n \in Nets /\ OwnWires(n) = {} /\ new' \in Seq(Jumper) /\ base \in Layout
      /\ new \in Seq(Jumper)
  BY <1>1 DEF TypeOK, WellFormed, InCall
<1>6. PICK kept \in SUBSET ToSet(new) : /\ known = Fixed \cup Wires(kept)
                                        /\ \A j \in kept : j.net \notin todo
  BY <1>1, <1>2 DEF KnownInv
<1>7. ToSet(new) \subseteq ToSet(new')
  BY <1>1, <1>4, <1>5, RouteNetJoins
<1>8. KnownInv'
  <2>1. known' = Fixed' \cup Wires(kept) /\ \A j \in kept : j.net \notin todo'
    BY <1>2, <1>4, <1>6 DEF Fixed
  <2>2. kept \in SUBSET ToSet(new')
    BY <1>7
  <2> QED
    BY <1>2, <2>1, <2>2 DEF KnownInv
<1>9. \A m \in Nets \ unrouted' : ~Refused(m)' /\ ~TooFewPins(m)'
  BY <1>1, <1>2 DEF InCall, Refused, TooFewPins
<1>10. /\ \A m \in Nets : OwnWires(m) \subseteq OwnWires(m)'
       /\ \A m \in Nets \ {n} : OwnWires(m)' = OwnWires(m)
       /\ InPlace(ToSet(new))'
  <2>1. CASE UNCHANGED new
    BY <1>1, <1>2, <2>1 DEF InCall, OwnWires, InPlace
  <2>2. CASE ~TooFewPins(n) /\ RouteNet(n)
    BY <1>1, <1>2, <1>5, <2>2, RouteNetKeeps DEF InCall
  <2> QED
    BY <1>4, <2>1, <2>2
<1>11. \A m \in todo' : OwnWires(m)' = {}
  BY <1>1, <1>4, <1>10 DEF InCall, TypeOK
<1>12. ASSUME base' = Rigid(base'), ~Shorted(base'), NEW m \in Nets \ (todo' \cup unrouted')
       PROVE  Lasting(m)'
  <2>1. CASE m # n
    <3>1. Lasting(m)
      BY <1>1, <1>2, <1>4, <1>12, <2>1 DEF InCall
    <3> QED
      BY <1>2, <1>5, <1>10, <3>1, LastingStays
  <2>2. CASE m = n
    <3>1. ~Refused(n) /\ ~TooFewPins(n)
      BY <1>1, <1>2, <1>12, <2>2 DEF InCall
    <3>2. CASE RouteNet(n)
      BY <1>1, <1>2, <1>5, <2>2, <3>1, <3>2, RouteNetKeeps
    <3>3. CASE AlreadyConnected(PinHoles(n, base.pins))
      <4>1. ~Shorted(Rigid(base)) /\ kept \in SUBSET Jumper /\ InPlace(kept)
        <5>1. kept \in SUBSET Jumper
          BY <1>5, RangeTyped
        <5>2. \A l \in Nets : EndsOf(kept, l) \subseteq EndsOf(ToSet(new), l)
          BY DEF EndsOf, Ends, Wires
        <5>3. InPlace(kept)
          BY <1>1, <5>2 DEF InPlace, InCall
        <5> QED
          BY <1>2, <1>12, <5>1, <5>3
      <4>2. PinHoles(n, base.pins) # {}
        BY <3>1, FS_EmptySet DEF TooFewPins
      <4>3. Together(PinHoles(n, base.pins), Nodes(Fixed \cup Wires(kept)))
        BY <1>6, <3>3 DEF AlreadyConnected
      <4>4. \A j \in kept : j.net # n
        BY <1>6
      <4>5. Together(PinHoles(n, base.pins), Nodes(Fixed))
        BY <1>5, <4>1, <4>2, <4>3, <4>4, OthersJoinNothing
      <4> QED
        BY <1>2, <2>2, <4>5 DEF Lasting, Fixed
    <3> QED
      BY <1>4, <3>1, <3>2, <3>3
  <2> QED
    BY <2>1, <2>2
<1>13. InCall'
  BY <1>1, <1>2, <1>9, <1>10, <1>11, <1>12 DEF InCall
<1> QED
  BY <1>1, <1>2, <1>3, <1>8, <1>13 DEF KeptInv

\* What joins holes in the layout that is returned.
Laid == Joined(base) \cup Wires(Preserved(base) \cup ToSet(new))

LEMMA FinishKeeps == KeptInv /\ (FinishFirstPass \/ FinishRetries) => KeptInv'
<1> SUFFICES ASSUME KeptInv, FinishFirstPass \/ FinishRetries PROVE KeptInv'
  OBVIOUS
<1>1. /\ WellFormed /\ WellFormed' /\ TypeOK /\ InCall /\ todo = {}
      /\ base \in Layout /\ new \in Seq(Jumper) /\ unrouted \in SUBSET Nets
      /\ skipped \in SUBSET Nets
  BY FinishWellFormed DEF KeptInv, KnownInv, FinishFirstPass, FinishRetries, WellFormed, TypeOK
<1>2. pc' = "done" /\ base' = base /\ unrouted' = unrouted
  BY DEF FinishFirstPass, FinishRetries, callVars
<1> DEFINE open == OpenNets(base, Preserved(base) \cup ToSet(new))
<1>3. ASSUME base = Rigid(base), ~Shorted(base), NEW n \in open
      PROVE  n \in unrouted
  <2>1. n \in Nets /\ ~Together(PinHoles(n, base.pins), Nodes(Laid))
    BY DEF OpenNets, Laid
  <2>2. Laid \in SUBSET SUBSET Holes
    BY <1>1, WorkingTyped DEF Laid
  <2>3. Fixed \in SUBSET Laid /\ Wires(OwnWires(n)) \in SUBSET Laid
    BY DEF Fixed, Laid, OwnWires, Wires
  <2>4. ~Lasting(n)
    BY <2>1, <2>2, <2>3, StaysTogether DEF Lasting
  <2> QED
    BY <1>1, <1>3, <2>1, <2>4 DEF InCall
<1>4. open \cup skipped \in SUBSET Nets
  BY <1>1 DEF OpenNets
<1>5. \/ result' = Routed(unrouted)
      \/ result' = Routed(open \cup skipped)
  BY DEF FinishFirstPass, FinishRetries
<1>6. result'.unrouted \in {unrouted, open \cup skipped}
  <2> HIDE DEF open
  <2> QED
    BY <1>1, <1>4, <1>5, RoutedTyped
<1>7. RoutedNetsKept'
  <2> SUFFICES ASSUME base = Rigid(base), ~Shorted(base) PROVE result'.unrouted \subseteq unrouted
    BY <1>2 DEF RoutedNetsKept
  <2>1. skipped \subseteq unrouted
    BY <1>1 DEF InCall
  <2> QED
    BY <1>3, <1>6, <2>1
<1> QED
  BY <1>1, <1>2, <1>7 DEF KeptInv, KnownInv

LEMMA NextKeeps == KeptInv /\ [Next]_vars => KeptInv'
<1> SUFFICES ASSUME KeptInv, [Next]_vars PROVE KeptInv'
  OBVIOUS
<1>1. WellFormed /\ WellFormed'
  BY NextWellFormed DEF KeptInv
<1>2. CASE BeginRetries \/ EndRound
  <2>1. /\ pc \in {"first", "reroute"} /\ pc' = "retry" /\ todo = {}
        /\ UNCHANGED <<base, callVars, result>>
    BY <1>2 DEF BeginRetries, EndRound
  <2>2. InCall /\ result = NoResult
    BY <1>1, <2>1 DEF KeptInv, WellFormed, CallInv
  <2>3. InCall'
    BY <2>1, <2>2 DEF callVars, InCall, OwnWires, InPlace, Refused, TooFewPins, Lasting, Fixed
  <2> QED
    BY <1>1, <2>1, <2>2, <2>3 DEF KeptInv, KnownInv, RoutedNetsKept, Returned, callVars
<1>3. ASSUME NEW o, NEW layout, NEW opts, Begin(o, layout, opts)
      PROVE  KeptInv'
  <2>1. /\ pc' = "first" /\ base' = layout /\ todo' = Nets /\ known' = KnownAtStart(layout)
        /\ new' = <<>> /\ result' = NoResult /\ skipped' = skipped /\ unrouted' = unrouted
    BY <1>1, <1>3 DEF Begin, WellFormed, CallInv
  <2>2. ToSet(new') = {}
    BY <2>1, EmptyApart
  <2>3. skipped' = {}
    BY <1>3 DEF Begin, KeptInv
  <2>4. InCall'
    BY <2>1, <2>2, <2>3 DEF InCall, OwnWires, InPlace, EndsOf, Ends, Wires
  <2> QED
    BY <1>1, <2>1, <2>4 DEF KeptInv, KnownInv, RoutedNetsKept, Returned
<1>4. CASE Timeout \/ TakeResult
  <2>1. pc' = "idle" /\ result' = NoResult /\ skipped' = {}
    BY <1>1, <1>4 DEF Timeout, TakeResult, Idle, WellFormed, CallInv
  <2> QED
    BY <1>1, <2>1 DEF KeptInv, KnownInv, RoutedNetsKept, Returned
<1>5. CASE Edit
  <2>1. pc' = "idle" /\ result' = NoResult /\ skipped' = {}
    BY <1>1, <1>5 DEF Edit, callVars, WellFormed, CallInv, KeptInv
  <2> QED
    BY <1>1, <2>1 DEF KeptInv, KnownInv, RoutedNetsKept, Returned
<1>6. CASE UNCHANGED vars
  BY <1>1, <1>6 DEF vars, KeptInv, KnownInv, InCall, RoutedNetsKept, Returned, OwnWires, InPlace,
                    Refused, TooFewPins, Lasting, Fixed
<1>7. CASE User
  BY <1>3, <1>4, <1>5, <1>7 DEF User, RouteJob, SolveJob, DrawJumper, DeleteJumper, LockJumpers
<1>8. CASE Step
  BY <1>2, <1>8, FirstPassKeeps, StartRoundKeeps, RerouteKeeps, FinishKeeps DEF Step
<1> QED
  BY <1>4, <1>6, <1>7, <1>8 DEF Next

\* Rounds for a net that cannot be routed do not cost a net that was: on a layout that
\* shorts no nets and has only locked wires, what is reported after any number of rounds
\* was reported by the first pass.
THEOREM RoutedKept == Spec => []RoutedNetsKept
<1>1. Init => KeptInv
  BY InitWellFormed DEF Init, KeptInv, KnownInv, RoutedNetsKept, Returned
<1>2. KeptInv => RoutedNetsKept
  BY DEF KeptInv
<1> QED
  BY <1>1, <1>2, NextKeeps, PTL DEF Spec
=============================================================================
