-------------------------- MODULE ConnectivityProofs --------------------------
(* Proofs about Connectivity, for any board and any pairs: Nodes(pairs) is the finest
   partition of the holes in which every group and every pair lies in one class.  Its
   fold is a recursive function on sets; induction goes by a smallest counterexample,
   as the induction theorems with an operator parameter cannot be used. *)
EXTENDS Connectivity, FiniteSetTheorems, WellFoundedInduction, TLAPS

LEMMA SmallestSubset ==
  ASSUME NEW S, IsFiniteSet(S), NEW T, T \subseteq SUBSET S, T # {}
  PROVE  \E s \in T : \A t \in T : t \subseteq s => t = s
<1>1. IsWellFoundedOn(StrictSubsetOrdering(S), SUBSET S)
  BY FS_StrictSubsetOrderingWellFounded, FS_FiniteSubsetsOfFinite
<1>2. PICK s \in T : \A t \in T : <<t, s>> \notin StrictSubsetOrdering(S)
  BY <1>1, WFMin
<1> QED
  BY <1>2 DEF StrictSubsetOrdering

-----------------------------------------------------------------------------
(* The fold takes the elements of a set one after the other. *)

Pick(s) == CHOOSE x \in s : TRUE
Folding(f, base, S) ==
  f = [s \in SUBSET S |-> IF s = {} THEN base ELSE Join(Pick(s), f[s \ {Pick(s)}])]

LEMMA PickIn == \A s : s # {} => Pick(s) \in s
BY DEF Pick

LEMMA FoldingAgrees ==
  ASSUME NEW base, NEW S, IsFiniteSet(S), NEW f, Folding(f, base, S),
         NEW U \in SUBSET S, NEW g, Folding(g, base, U)
  PROVE  \A s \in SUBSET U : f[s] = g[s]
<1> DEFINE T == {s \in SUBSET U : f[s] # g[s]}
<1>1. SUFFICES ASSUME T # {} PROVE FALSE
  OBVIOUS
<1>2. IsFiniteSet(U)
  BY FS_Subset
<1>3. \E s \in T : \A t \in T : t \subseteq s => t = s
  <2>1. T \subseteq SUBSET U
    OBVIOUS
  <2> HIDE DEF T
  <2> QED
    BY <1>1, <1>2, <2>1, SmallestSubset
<1> PICK s \in T : \A t \in T : t \subseteq s => t = s
  BY <1>3
<1>4. CASE s = {}
  BY <1>3, <1>4 DEF Folding
<1>5. CASE s # {}
  <2>1. Pick(s) \in s /\ s \ {Pick(s)} \in SUBSET U /\ s \in SUBSET S
    BY <1>5, PickIn
  <2>2. f[s \ {Pick(s)}] = g[s \ {Pick(s)}]
    BY <1>3, <2>1
  <2>3. /\ f[s] = Join(Pick(s), f[s \ {Pick(s)}])
        /\ g[s] = Join(Pick(s), g[s \ {Pick(s)}])
    BY <1>5, <2>1 DEF Folding
  <2> QED
    BY <1>3, <2>2, <2>3
<1> QED
  BY <1>4, <1>5

LEMMA FoldingExists ==
  ASSUME NEW base, NEW S, IsFiniteSet(S)
  PROVE  \E f : Folding(f, base, S)
<1> DEFINE T == {s \in SUBSET S : ~ \E f : Folding(f, base, s)}
<1>1. SUFFICES ASSUME T # {} PROVE FALSE
  OBVIOUS
<1>2. \E s \in T : \A t \in T : t \subseteq s => t = s
  <2>1. T \subseteq SUBSET S
    OBVIOUS
  <2> HIDE DEF T
  <2> QED
    BY <1>1, <2>1, SmallestSubset
<1> PICK s \in T : \A t \in T : t \subseteq s => t = s
  BY <1>2
<1> DEFINE F(t) == CHOOSE f : Folding(f, base, t)
           G == [t \in SUBSET s |-> F(t)[t]]
           H == [t \in SUBSET s |-> IF t = {} THEN base ELSE Join(Pick(t), G[t \ {Pick(t)}])]
<1>3. \A t \in SUBSET s : t # s => Folding(F(t), base, t)
  BY <1>2
<1>4. ASSUME NEW t \in SUBSET s, t # s
      PROVE  G[t] = H[t]
  <2>1. Folding(F(t), base, t) /\ G[t] = F(t)[t] /\ IsFiniteSet(t)
    BY <1>3, <1>4, FS_Subset
  <2>2. CASE t = {}
    BY <2>1, <2>2 DEF Folding
  <2>3. CASE t # {}
    <3> DEFINE u == t \ {Pick(t)}
    <3> HIDE DEF F
    <3>1. Pick(t) \in t /\ u \in SUBSET t /\ u \in SUBSET s /\ u # s
      BY <2>3, <1>4, PickIn
    <3>2. F(t)[t] = Join(Pick(t), F(t)[u])
      BY <2>1, <2>3 DEF Folding
    <3>3. Folding(F(u), base, u)
      BY <3>1, <1>3
    <3>4. F(t)[u] = F(u)[u]
      BY <2>1, <3>1, <3>3, FoldingAgrees
    <3>5. G[u] = F(u)[u]
      BY <3>1
    <3>6. H[t] = Join(Pick(t), G[u])
      BY <2>3
    <3> QED
      BY <2>1, <3>2, <3>4, <3>5, <3>6
  <2> QED
    BY <2>2, <2>3
<1>5. Folding(H, base, s)
  <2>1. ASSUME NEW t \in SUBSET s, t # {}
        PROVE  H[t] = Join(Pick(t), H[t \ {Pick(t)}])
    <3> DEFINE u == t \ {Pick(t)}
    <3>1. u \in SUBSET s /\ u # s
      BY <2>1, PickIn
    <3>2. G[u] = H[u]
      BY <3>1, <1>4
    <3>3. H[t] = Join(Pick(t), G[u])
      BY <2>1
    <3> QED
      BY <3>2, <3>3
  <2>2. H[{}] = base
    OBVIOUS
  <2> HIDE DEF G
  <2> HIDE DEF H
  <2>3. \A t \in SUBSET s : H[t] = IF t = {} THEN base ELSE Join(Pick(t), H[t \ {Pick(t)}])
    BY <2>1, <2>2
  <2>4. H = [t \in SUBSET s |-> H[t]]
    BY DEF H
  <2> QED
    BY <2>3, <2>4 DEF Folding
<1> QED
  BY <1>2, <1>5

LEMMA FoldUnfolds ==
  ASSUME NEW base, NEW S, IsFiniteSet(S)
  PROVE  FoldSet(Join, base, S) =
           IF S = {} THEN base
           ELSE Join(Pick(S), FoldSet(Join, base, S \ {Pick(S)}))
<1> DEFINE F(T) == CHOOSE f : Folding(f, base, T)
<1>1. \A T : FoldSet(Join, base, T) = F(T)[T]
  BY DEF FoldSet, MapThenFoldSet, Folding, Pick
<1>2. Folding(F(S), base, S)
  <2>1. \E f : Folding(f, base, S)
    BY FoldingExists
  <2> QED
    BY <2>1
<1> HIDE DEF F
<1>3. CASE S = {}
  <2>1. F(S)[S] = base
    BY <1>2, <1>3 DEF Folding
  <2> QED
    BY <1>1, <1>3, <2>1
<1>4. CASE S # {}
  <2> DEFINE U == S \ {Pick(S)}
  <2>1. IsFiniteSet(U) /\ U \in SUBSET S
    BY FS_Subset
  <2>2. Folding(F(U), base, U)
    <3>1. \E f : Folding(f, base, U)
      BY <2>1, FoldingExists
    <3> QED
      BY <3>1 DEF F
  <2>3. F(S)[U] = F(U)[U]
    BY <1>2, <2>1, <2>2, FoldingAgrees
  <2>4. F(S)[S] = Join(Pick(S), F(S)[U])
    BY <1>2, <1>4 DEF Folding
  <2> QED
    BY <1>1, <1>4, <2>3, <2>4
<1> QED
  BY <1>3, <1>4
-----------------------------------------------------------------------------
(* Partitions of the holes *)

Partition(nodes) ==
  UNION nodes = Holes /\ {} \notin nodes /\ \A c, d \in nodes : c = d \/ c \cap d = {}

\* Every class of one lies in a class of the other.
Finer(fine, coarse) == \A c \in fine : \E d \in coarse : c \subseteq d

Linked(links, nodes) == \A l \in links : l = {} \/ Together(l, nodes)

LEMMA FinerTransitive ==
  ASSUME NEW a, NEW b, NEW c, Finer(a, b), Finer(b, c)
  PROVE  Finer(a, c)
BY DEF Finer

LEMMA FinerKeepsTogether ==
  ASSUME NEW a, NEW b, Finer(a, b)
  PROVE  /\ \A hs : Together(hs, a) => Together(hs, b)
         /\ \A links : Linked(links, a) => Linked(links, b)
BY DEF Finer, Together, Linked

LEMMA JoinMerges == \A nodes, link : Join(link, nodes) = Merge(nodes, link)
BY DEF Join

LEMMA MergeJoins ==
  ASSUME NEW nodes, Partition(nodes), NEW link \in SUBSET Holes
  PROVE  /\ Partition(Merge(nodes, link))
         /\ Finer(nodes, Merge(nodes, link))
         /\ Linked({link}, Merge(nodes, link))
<1> DEFINE touched == {c \in nodes : c \cap link # {}}
           merged == (nodes \ touched) \cup {UNION touched}
<1>1. CASE touched = {}
  <2>1. Merge(nodes, link) = nodes
    BY <1>1 DEF Merge
  <2>2. link = {}
    BY <1>1 DEF Partition
  <2> QED
    BY <2>1, <2>2 DEF Finer, Linked
<1>2. CASE touched # {}
  <2>1. Merge(nodes, link) = merged
    BY <1>2 DEF Merge
  <2>2. UNION merged = Holes
    <3>1. UNION touched \subseteq UNION merged /\ UNION (nodes \ touched) \subseteq UNION merged
      OBVIOUS
    <3>2. UNION nodes \subseteq (UNION touched) \cup (UNION (nodes \ touched))
      OBVIOUS
    <3>3. UNION merged \subseteq UNION nodes
      OBVIOUS
    <3> QED
      BY <3>1, <3>2, <3>3 DEF Partition
  <2>3. {} \notin merged
    BY <1>2 DEF Partition
  <2>4. \A c \in nodes \ touched : c \cap UNION touched = {}
    BY DEF Partition
  <2>5. \A c, d \in merged : c = d \/ c \cap d = {}
    BY <2>4 DEF Partition
  <2>6. Finer(nodes, merged)
    BY DEF Finer
  <2>7. link \subseteq UNION touched
    BY DEF Partition
  <2>8. Linked({link}, merged)
    BY <2>7 DEF Linked, Together
  <2> QED
    BY <2>1, <2>2, <2>3, <2>5, <2>6, <2>8 DEF Partition
<1> QED
  BY <1>1, <1>2

LEMMA MergeLeast ==
  ASSUME NEW nodes, NEW coarse, Partition(coarse), Finer(nodes, coarse),
         NEW link, Linked({link}, coarse)
  PROVE  Finer(Merge(nodes, link), coarse)
<1> DEFINE touched == {c \in nodes : c \cap link # {}}
<1>1. CASE touched = {}
  BY <1>1 DEF Merge
<1>2. CASE touched # {}
  <2>1. PICK d \in coarse : link \subseteq d
    BY <1>2 DEF Linked, Together
  <2>2. \A c \in touched : c \subseteq d
    BY <2>1 DEF Finer, Partition
  <2>3. Merge(nodes, link) = (nodes \ touched) \cup {UNION touched}
    BY <1>2 DEF Merge
  <2> QED
    BY <2>1, <2>2, <2>3 DEF Finer
<1> QED
  BY <1>1, <1>2

LEMMA LinksFinite == \A links \in SUBSET SUBSET Holes : IsFiniteSet(links)
BY BoardAssumption, FS_SUBSET, FS_Subset

\* What the fold over a set of links gives: a partition with every link inside a class.
LEMMA FoldJoins ==
  ASSUME NEW base, Partition(base), NEW S \in SUBSET SUBSET Holes
  PROVE  /\ Partition(FoldSet(Join, base, S))
         /\ Finer(base, FoldSet(Join, base, S))
         /\ Linked(S, FoldSet(Join, base, S))
<1> DEFINE N(s) == FoldSet(Join, base, s)
           Good(s) == Partition(N(s)) /\ Finer(base, N(s)) /\ Linked(s, N(s))
           T == {s \in SUBSET S : ~Good(s)}
<1>1. SUFFICES ASSUME T # {} PROVE FALSE
  OBVIOUS
<1>2. \E s \in T : \A t \in T : t \subseteq s => t = s
  <2>1. T \subseteq SUBSET S /\ IsFiniteSet(S)
    BY LinksFinite
  <2> HIDE DEF T
  <2> QED
    BY <1>1, <2>1, SmallestSubset
<1> PICK s \in T : \A t \in T : t \subseteq s => t = s
  BY <1>2
<1>3. IsFiniteSet(s)
  BY LinksFinite
<1>4. N(s) = IF s = {} THEN base ELSE Join(Pick(s), N(s \ {Pick(s)}))
  BY <1>3, FoldUnfolds
<1>5. CASE s = {}
  BY <1>4, <1>5 DEF Finer, Linked
<1>6. CASE s # {}
  <2> DEFINE u == s \ {Pick(s)}
  <2>1. Pick(s) \in s /\ u \in SUBSET S /\ u # s /\ Pick(s) \in SUBSET Holes
    BY <1>6, PickIn
  <2>2. Good(u)
    BY <2>1
  <2>3. N(s) = Merge(N(u), Pick(s))
    BY <1>4, <1>6, JoinMerges
  <2> HIDE DEF N
  <2>4. Partition(N(s)) /\ Finer(N(u), N(s)) /\ Linked({Pick(s)}, N(s))
    BY <2>1, <2>2, <2>3, MergeJoins
  <2>5. Finer(base, N(s)) /\ Linked(u, N(s))
    BY <2>2, <2>4, FinerTransitive, FinerKeepsTogether
  <2>6. Linked(s, N(s))
    BY <2>1, <2>4, <2>5 DEF Linked
  <2> QED
    BY <2>4, <2>5, <2>6
<1> QED
  BY <1>5, <1>6

\* And no more is joined than the links ask for.
LEMMA FoldLeast ==
  ASSUME NEW base, NEW S \in SUBSET SUBSET Holes, NEW coarse, Partition(coarse),
         Finer(base, coarse), Linked(S, coarse)
  PROVE  Finer(FoldSet(Join, base, S), coarse)
<1> DEFINE N(s) == FoldSet(Join, base, s)
           T == {s \in SUBSET S : ~Finer(N(s), coarse)}
<1>1. SUFFICES ASSUME T # {} PROVE FALSE
  OBVIOUS
<1>2. \E s \in T : \A t \in T : t \subseteq s => t = s
  <2>1. T \subseteq SUBSET S /\ IsFiniteSet(S)
    BY LinksFinite
  <2> HIDE DEF T
  <2> QED
    BY <1>1, <2>1, SmallestSubset
<1> PICK s \in T : \A t \in T : t \subseteq s => t = s
  BY <1>2
<1>3. IsFiniteSet(s)
  BY LinksFinite
<1>4. N(s) = IF s = {} THEN base ELSE Join(Pick(s), N(s \ {Pick(s)}))
  BY <1>3, FoldUnfolds
<1>5. CASE s = {}
  BY <1>4, <1>5
<1>6. CASE s # {}
  <2> DEFINE u == s \ {Pick(s)}
  <2>1. Pick(s) \in s /\ u \in SUBSET S /\ u # s
    BY <1>6, PickIn
  <2>2. Finer(N(u), coarse)
    BY <2>1
  <2>3. N(s) = Merge(N(u), Pick(s))
    BY <1>4, <1>6, JoinMerges
  <2> HIDE DEF N
  <2>4. Linked({Pick(s)}, coarse)
    BY <2>1 DEF Linked
  <2>5. Finer(N(s), coarse)
    BY <2>2, <2>3, <2>4, MergeLeast
  <2> QED
    BY <2>5 DEF N
<1> QED
  BY <1>5, <1>6

\* Links that lead off the board add no hole: a fold over them has classes of holes.
LEMMA FoldOnBoard ==
  ASSUME NEW base, base \subseteq SUBSET Holes, NEW S, IsFiniteSet(S)
  PROVE  FoldSet(Join, base, S) \subseteq SUBSET Holes
<1> DEFINE N(s) == FoldSet(Join, base, s)
           T == {s \in SUBSET S : ~(N(s) \subseteq SUBSET Holes)}
<1>1. SUFFICES ASSUME T # {} PROVE FALSE
  OBVIOUS
<1>2. \E s \in T : \A t \in T : t \subseteq s => t = s
  <2>1. T \subseteq SUBSET S
    OBVIOUS
  <2> HIDE DEF T
  <2> QED
    BY <1>1, <2>1, SmallestSubset
<1> PICK s \in T : \A t \in T : t \subseteq s => t = s
  BY <1>2
<1>3. IsFiniteSet(s)
  BY FS_Subset
<1>4. N(s) = IF s = {} THEN base ELSE Join(Pick(s), N(s \ {Pick(s)}))
  BY <1>3, FoldUnfolds
<1>5. CASE s = {}
  BY <1>4, <1>5
<1>6. CASE s # {}
  <2> DEFINE u == s \ {Pick(s)}
  <2>1. u \in SUBSET S /\ u # s
    BY <1>6, PickIn
  <2>2. N(u) \subseteq SUBSET Holes
    BY <2>1
  <2>3. N(s) = Merge(N(u), Pick(s))
    BY <1>4, <1>6, JoinMerges
  <2> HIDE DEF N
  <2>4. N(s) \subseteq SUBSET Holes
    <3> DEFINE touched == {c \in N(u) : c \cap Pick(s) # {}}
    <3>1. UNION touched \in SUBSET Holes
      BY <2>2
    <3>2. N(s) = N(u) \/ N(s) = (N(u) \ touched) \cup {UNION touched}
      BY <2>3 DEF Merge
    <3> HIDE DEF touched
    <3> QED
      BY <2>2, <3>1, <3>2
  <2> QED
    BY <2>4 DEF N
<1> QED
  BY <1>5, <1>6

-----------------------------------------------------------------------------
(* The nodes of a board *)

GroupLinks == {Groups[g] : g \in DOMAIN Groups}

LEMMA SingletonsPartition ==
  /\ Partition({{h} : h \in Holes})
  /\ \A coarse : Partition(coarse) => Finer({{h} : h \in Holes}, coarse)
BY DEF Partition, Finer

LEMMA GroupLinksHoles == GroupLinks \in SUBSET SUBSET Holes
BY BoardAssumption DEF GroupLinks

LEMMA StripsJoin == Partition(Strips) /\ Linked(GroupLinks, Strips)
BY SingletonsPartition, GroupLinksHoles, FoldJoins DEF Strips, GroupLinks

LEMMA StripsLeast ==
  ASSUME NEW coarse, Partition(coarse), Linked(GroupLinks, coarse)
  PROVE  Finer(Strips, coarse)
BY SingletonsPartition, GroupLinksHoles, FoldLeast DEF Strips, GroupLinks

LEMMA NodesOnBoard ==
  ASSUME NEW pairs, IsFiniteSet(pairs)
  PROVE  Nodes(pairs) \subseteq SUBSET Holes
<1>1. Strips \subseteq SUBSET Holes
  BY StripsJoin DEF Partition
<1> QED
  BY <1>1, FoldOnBoard DEF Nodes

\* build_connectivity: Nodes(pairs) is a partition of the holes that joins every group
\* and every pair, and the finest one: what is one node there is one in any such
\* partition.
THEOREM NodesFinest ==
  ASSUME NEW pairs \in SUBSET SUBSET Holes
  PROVE  /\ Partition(Nodes(pairs))
         /\ Linked(pairs \cup GroupLinks, Nodes(pairs))
         /\ \A coarse : Partition(coarse) /\ Linked(pairs \cup GroupLinks, coarse)
                          => Finer(Nodes(pairs), coarse)
<1>1. Partition(Nodes(pairs)) /\ Finer(Strips, Nodes(pairs)) /\ Linked(pairs, Nodes(pairs))
  BY StripsJoin, FoldJoins DEF Nodes
<1>2. Linked(pairs \cup GroupLinks, Nodes(pairs))
  BY <1>1, StripsJoin, FinerKeepsTogether DEF Linked
<1>3. ASSUME NEW coarse, Partition(coarse), Linked(pairs \cup GroupLinks, coarse)
      PROVE  Finer(Nodes(pairs), coarse)
  <2>1. Linked(pairs, coarse) /\ Linked(GroupLinks, coarse)
    BY <1>3 DEF Linked
  <2> QED
    BY <1>3, <2>1, StripsLeast, FoldLeast DEF Nodes
<1> QED
  BY <1>1, <1>2, <1>3

\* More pairs never part what fewer have joined.
THEOREM NodesMonotone ==
  ASSUME NEW more \in SUBSET SUBSET Holes, NEW pairs \in SUBSET more
  PROVE  Finer(Nodes(pairs), Nodes(more))
<1>1. Partition(Nodes(more)) /\ Linked(more \cup GroupLinks, Nodes(more))
  BY NodesFinest
<1>2. Linked(pairs \cup GroupLinks, Nodes(more))
  BY <1>1 DEF Linked
<1>3. pairs \in SUBSET SUBSET Holes
  OBVIOUS
<1> QED
  BY <1>1, <1>2, <1>3, NodesFinest
-----------------------------------------------------------------------------
(* The nodes are those of the reference: holes that a path of links leads to. *)

AllLinks(pairs) == pairs \cup GroupLinks
LEMMA HolesCounted == Cardinality(Holes) \in Nat
BY BoardAssumption, FS_CardinalityType

\* The least number with a property, or none has it.
LEMMA SmallestNumber ==
  ASSUME NEW T \in SUBSET Nat, T # {}
  PROVE  \E k \in T : \A i \in T : k <= i
<1> PICK top \in T : TRUE
  OBVIOUS
<1> DEFINE U == 0..top
           S == {s \in SUBSET U : \E k \in T : s = 0..k}
<1>1. S \subseteq SUBSET U /\ S # {}
  <2>1. 0..top \in S
    OBVIOUS
  <2> QED
    BY <2>1
<1>2. IsFiniteSet(U)
  <2>1. 0 \in Int /\ top \in Int
    OBVIOUS
  <2> QED
    BY <2>1, FS_Interval, Zenon
<1>3. \E s \in S : \A t \in S : t \subseteq s => t = s
  <2> HIDE DEF S, U
  <2> QED
    BY <1>1, <1>2, SmallestSubset
<1>4. PICK s \in S : \A t \in S : t \subseteq s => t = s
  BY <1>3
<1>5. PICK k \in T : s = 0..k
  OBVIOUS
<1>6. ASSUME NEW i \in T, ~(k <= i)
      PROVE  FALSE
  <2>1. 0..i \subseteq s /\ k \in s /\ k \notin 0..i
    BY <1>5, <1>6
  <2>2. 0..i \in S
    BY <2>1
  <2> QED
    BY <1>4, <2>1, <2>2
<1> QED
  BY <1>6
Growing(f, h, links, n) ==
  f = [k \in 0..n |-> IF k = 0 THEN {h} ELSE Grow(f[k - 1], links)]

LEMMA GrowingExists ==
  ASSUME NEW h, NEW links, NEW n \in Nat
  PROVE  \E f : Growing(f, h, links, n)
<1> DEFINE T == {k \in Nat : ~ \E f : Growing(f, h, links, k)}
<1>1. SUFFICES ASSUME T # {} PROVE FALSE
  OBVIOUS
<1>2. \E k \in T : \A i \in T : k <= i
  <2>1. T \in SUBSET Nat
    OBVIOUS
  <2> HIDE DEF T
  <2> QED
    BY <1>1, <2>1, SmallestNumber
<1> PICK k \in T : \A i \in T : k <= i
  BY <1>2
<1>3. CASE k = 0
  <2> DEFINE g == [i \in 0..k |-> {h}]
  <2>1. Growing(g, h, links, k)
    BY <1>3 DEF Growing
  <2> QED
    BY <2>1
<1>4. CASE k # 0
  <2>1. k - 1 \in Nat /\ k - 1 \notin T
    BY <1>4
  <2>2. PICK f : Growing(f, h, links, k - 1)
    BY <2>1
  <2> DEFINE g == [i \in 0..k |->
                     IF i = k THEN Grow(f[k - 1], links) ELSE f[i]]
             G(i) == IF i = 0 THEN {h} ELSE Grow(g[i - 1], links)
  <2>3. ASSUME NEW i \in 0..k
        PROVE  g[i] = G(i)
    <3>1. CASE i = k
      BY <1>4, <3>1
    <3>2. CASE i # k
      <4>1. i \in 0..(k - 1) /\ g[i] = f[i]
        BY <3>2
      <4>2. f[i] = IF i = 0 THEN {h} ELSE Grow(f[i - 1], links)
        BY <2>2, <4>1 DEF Growing
      <4>3. i # 0 => i - 1 \in 0..k /\ i - 1 # k
        BY <4>1
      <4>4. i # 0 => g[i - 1] = f[i - 1]
        BY <4>3
      <4> QED
        BY <4>1, <4>2, <4>4
    <3> QED
      BY <3>1, <3>2
  <2>4. g = [i \in 0..k |-> g[i]]
    OBVIOUS
  <2> HIDE DEF g
  <2>5. Growing(g, h, links, k)
    BY <2>3, <2>4 DEF Growing
  <2> QED
    BY <2>5
<1> QED
  BY <1>3, <1>4

Closed(near, links) == \A l \in links : l \cap near # {} => l \subseteq near

LEMMA GrowthReaches ==
  ASSUME NEW links \in SUBSET SUBSET Holes, NEW n \in Nat, NEW h \in Holes,
         NEW f, Growing(f, h, links, n), NEW nodes, Partition(nodes), Linked(links, nodes),
         NEW c \in nodes, h \in c, NEW k \in 0..n
  PROVE  /\ h \in f[k] /\ f[k] \subseteq c
         /\ Closed(f[k], links) \/ Cardinality(f[k]) > k
<1> DEFINE Good(i) == /\ h \in f[i] /\ f[i] \subseteq c
                      /\ Closed(f[i], links) \/ Cardinality(f[i]) > i
           T == {i \in 0..n : ~Good(i)}
<1>1. SUFFICES ASSUME T # {} PROVE FALSE
  OBVIOUS
<1>2. \E i \in T : \A j \in T : i <= j
  <2>1. T \in SUBSET Nat
    OBVIOUS
  <2> HIDE DEF T
  <2> QED
    BY <1>1, <2>1, SmallestNumber
<1> PICK i \in T : \A j \in T : i <= j
  BY <1>2
<1>3. CASE i = 0
  <2>1. f[0] = {h}
    BY <1>3 DEF Growing
  <2>2. Cardinality({h}) = 1
    BY FS_Singleton
  <2>3. Cardinality(f[i]) > i /\ f[i] = {h}
    BY <1>3, <2>1, <2>2
  <2> QED
    BY <2>3
<1>4. CASE i # 0
  <2> DEFINE near == f[i - 1]
             grown == f[i]
  <2>1. i - 1 \in 0..n /\ i - 1 \notin T /\ i \in 0..n
    BY <1>4
  <2>2. Good(i - 1)
    BY <2>1
  <2>3. grown = Grow(near, links)
    BY <1>4, <2>1 DEF Growing
  <2>4. h \in near /\ near \subseteq c /\ (Closed(near, links) \/ Cardinality(near) > i - 1)
    BY <2>2
  <2>5. ~(h \in grown /\ grown \subseteq c /\ (Closed(grown, links) \/ Cardinality(grown) > i))
    OBVIOUS
  <2> HIDE DEF near, grown, Good, T
  <2>6. h \in grown /\ near \subseteq grown
    BY <2>3, <2>4 DEF Grow
  <2>7. grown \subseteq c
    <3>1. ASSUME NEW l \in links, l \cap near # {}
          PROVE  l \subseteq c
      <4>1. PICK d \in nodes : l \subseteq d
        BY <3>1 DEF Linked, Together
      <4> QED
        BY <2>4, <3>1, <4>1 DEF Partition
    <3> QED
      BY <2>3, <2>4, <3>1 DEF Grow
  <2>8. CASE grown = near
    <3>1. Closed(near, links)
      BY <2>3, <2>8 DEF Closed, Grow
    <3> QED
      BY <2>5, <2>6, <2>7, <2>8, <3>1
  <2>9. CASE grown # near
    <3>1. ~Closed(near, links)
      BY <2>3, <2>9 DEF Closed, Grow
    <3>2. Cardinality(near) > i - 1
      BY <2>4, <3>1
    <3>3. IsFiniteSet(grown)
      <4>1. grown \subseteq Holes
        BY <2>7 DEF Partition
      <4> QED
        BY <4>1, BoardAssumption, FS_Subset
    <3>4. near \in SUBSET grown
      BY <2>6
    <3>5. IsFiniteSet(near) /\ Cardinality(near) <= Cardinality(grown)
      BY <3>3, <3>4, FS_Subset
    <3>6. Cardinality(near) # Cardinality(grown)
      BY <2>9, <3>3, <3>4, FS_Subset
    <3>7. Cardinality(near) \in Nat /\ Cardinality(grown) \in Nat
      BY <3>3, <3>5, FS_CardinalityType
    <3>8. Cardinality(grown) > i
      BY <2>1, <3>2, <3>5, <3>6, <3>7
    <3> QED
      BY <2>5, <2>6, <2>7, <3>8
  <2> QED
    BY <2>8, <2>9
<1> QED
  BY <1>3, <1>4

\* A set of holes that no link leaves contains the class of each of its holes.
LEMMA ClosedCoversClass ==
  ASSUME NEW pairs \in SUBSET SUBSET Holes, NEW near \in SUBSET Holes,
         Closed(near, AllLinks(pairs)), NEW c \in Nodes(pairs), c \cap near # {}
  PROVE  c \subseteq near
<1> DEFINE both == {near, Holes \ near} \ {{}}
<1>1. Partition(both)
  <2>1. UNION both = Holes
    <3>1. ASSUME NEW h \in Holes
          PROVE  h \in UNION both
      <4>1. CASE h \in near
        BY <4>1
      <4>2. CASE h \notin near
        <5>1. h \in Holes \ near /\ Holes \ near \in both
          BY <4>2
        <5> QED
          BY <5>1
      <4> QED
        BY <4>1, <4>2
    <3> QED
      BY <3>1
  <2> QED
    BY <2>1 DEF Partition
<1>2. Linked(pairs \cup GroupLinks, both)
  <2>1. ASSUME NEW l \in pairs \cup GroupLinks, l # {}
        PROVE  \E d \in both : l \subseteq d
    <3>1. l \subseteq Holes
      BY GroupLinksHoles
    <3>2. CASE l \cap near # {}
      <4>1. l \subseteq near
        BY <3>2 DEF Closed, AllLinks
      <4> QED
        BY <2>1, <4>1
    <3>3. CASE l \cap near = {}
      <4>1. l \subseteq Holes \ near /\ Holes \ near # {}
        BY <2>1, <3>1, <3>3
      <4> QED
        BY <4>1
    <3> QED
      BY <3>2, <3>3
  <2> QED
    BY <2>1 DEF Linked, Together
<1>3. Finer(Nodes(pairs), both)
  <2> HIDE DEF both
  <2> QED
    BY <1>1, <1>2, NodesFinest
<1>4. PICK d \in both : c \subseteq d
  BY <1>3 DEF Finer
<1> QED
  BY <1>4

\* Nodes(pairs) is what the reference says: the holes that paths lead to from each hole.
LEMMA ReachableIsClass ==
  ASSUME NEW pairs \in SUBSET SUBSET Holes, NEW c \in Nodes(pairs), NEW h \in c
  PROVE  Reachable(h, AllLinks(pairs)) = c
<1> DEFINE n == Cardinality(Holes)
           links == AllLinks(pairs)
           near == CHOOSE f : Growing(f, h, links, n)
<1>1. n \in Nat /\ links \in SUBSET SUBSET Holes
  BY HolesCounted, GroupLinksHoles DEF AllLinks
<1>2. Growing(near, h, links, n)
  <2>1. \E f : Growing(f, h, links, n)
    BY <1>1, GrowingExists
  <2> QED
    BY <2>1
<1>3. Reachable(h, links) = near[n]
  BY DEF Reachable, Growing, Grow
<1>4. Partition(Nodes(pairs)) /\ Linked(links, Nodes(pairs))
  BY NodesFinest DEF AllLinks
<1>5. h \in Holes /\ c \in Nodes(pairs) /\ h \in c
  BY <1>4 DEF Partition
<1> HIDE DEF n, links, near
<1>6. n \in 0..n
  BY <1>1
<1>7. /\ h \in near[n] /\ near[n] \subseteq c
      /\ Closed(near[n], links) \/ Cardinality(near[n]) > n
  <2>1. \A k \in 0..n : /\ h \in near[k] /\ near[k] \subseteq c
                        /\ Closed(near[k], links) \/ Cardinality(near[k]) > k
    <3> DEFINE nodes == Nodes(pairs)
    <3>1. Partition(nodes) /\ Linked(links, nodes) /\ c \in nodes
      BY <1>4
    <3> HIDE DEF nodes
    <3> QED
      BY <1>1, <1>2, <1>5, <3>1, GrowthReaches
  <2> QED
    BY <1>6, <2>1
<1>8. near[n] \in SUBSET Holes
  BY <1>4, <1>7 DEF Partition
<1>9. IsFiniteSet(near[n]) /\ Cardinality(near[n]) <= n
  BY <1>8, BoardAssumption, FS_Subset DEF n
<1>10. Cardinality(near[n]) \in Nat
  BY <1>9, FS_CardinalityType
<1>11. Closed(near[n], AllLinks(pairs))
  BY <1>1, <1>7, <1>9, <1>10 DEF links
<1>12. c \subseteq near[n]
  BY <1>7, <1>8, <1>11, ClosedCoversClass
<1> QED
  BY <1>3, <1>7, <1>12 DEF links

\* Nodes(pairs) is what the reference says: the holes that paths lead to from each hole.
THEOREM NodesReachable ==
  ASSUME NEW pairs \in SUBSET SUBSET Holes
  PROVE  Nodes(pairs) = ReachableNodes(pairs)
<1>1. Partition(Nodes(pairs))
  BY NodesFinest
<1>2. \A h \in Holes : \E c \in Nodes(pairs) : h \in c
  BY <1>1 DEF Partition
<1>3. \A c \in Nodes(pairs) : \E h \in Holes : h \in c
  BY <1>1 DEF Partition
<1>4. ReachableNodes(pairs) = {Reachable(h, AllLinks(pairs)) : h \in Holes}
  BY DEF ReachableNodes, AllLinks, GroupLinks
<1>5. \A c \in Nodes(pairs) : \A h \in c : Reachable(h, AllLinks(pairs)) = c
  BY ReachableIsClass
<1> QED
  BY <1>2, <1>3, <1>4, <1>5
=============================================================================
