------------------------------ MODULE SolveProofs ------------------------------
(* Proofs about place(), solve() and optimize(), for any board, netlist, document and
   options.  What a move costs plays no part in them. *)
EXTENDS Solve, FiniteSetTheorems, WellFoundedInduction, TLAPS

\* What is known of the wiring of any board (ConnectivityProofs).
WiringProofs == INSTANCE ConnectivityProofs WITH Holes <- AllHoles

-----------------------------------------------------------------------------
(* The state of the placer *)

\* A value of _PlacerState: a pose and a placement for each reference, and the mask.
IsState(s) ==
  /\ s = [poses |-> s.poses, placed |-> s.placed, taken |-> s.taken]
  /\ s.poses = [r \in Refs |-> s.poses[r]]
  /\ s.placed = [r \in Refs |-> s.placed[r]]

\* _apply_pose_to_state writes one part and adds to the mask.
LEMMA PutGives ==
  ASSUME NEW s, IsState(s), NEW r \in Refs, NEW pose
  PROVE  /\ IsState(Put(s, r, pose))
         /\ Put(s, r, pose).poses[r] = pose
         /\ \A q \in Refs \ {r} : /\ Put(s, r, pose).poses[q] = s.poses[q]
                                  /\ Put(s, r, pose).placed[q] = s.placed[q]
         /\ Put(s, r, pose).taken = s.taken \cup Cells(pose)
<1> DEFINE P == [s.poses EXCEPT ![r] = pose]
           Q == [s.placed EXCEPT ![r] = PlacementOf(pose, FALSE)]
<1>1. Put(s, r, pose) = [poses |-> P, placed |-> Q, taken |-> s.taken \cup Cells(pose)]
  BY DEF Put
<1>2. /\ P = [q \in Refs |-> P[q]] /\ P[r] = pose
      /\ \A q \in Refs \ {r} : P[q] = s.poses[q]
  BY DEF IsState
<1>3. Q = [q \in Refs |-> Q[q]] /\ \A q \in Refs \ {r} : Q[q] = s.placed[q]
  BY DEF IsState
<1> HIDE DEF P, Q
<1> QED
  BY <1>1, <1>2, <1>3 DEF IsState

\* _clear_pose_from_state removes one part, and what it covers from the mask.
LEMMA LiftGives ==
  ASSUME NEW s, IsState(s), NEW r \in Refs
  PROVE  /\ IsState(Lift(s, r))
         /\ Lift(s, r).poses[r] = NoPose
         /\ \A q \in Refs \ {r} : /\ Lift(s, r).poses[q] = s.poses[q]
                                  /\ Lift(s, r).placed[q] = s.placed[q]
         /\ s.poses[r] # NoPose => Lift(s, r).taken = s.taken \ Cells(s.poses[r])
         /\ s.poses[r] = NoPose => Lift(s, r) = s
<1>1. CASE s.poses[r] = NoPose
  BY <1>1 DEF Lift
<1>2. CASE s.poses[r] # NoPose
  <2> DEFINE P == [s.poses EXCEPT ![r] = NoPose]
             Q == [s.placed EXCEPT ![r] = NoPose]
  <2>1. Lift(s, r) = [poses |-> P, placed |-> Q, taken |-> s.taken \ Cells(s.poses[r])]
    BY <1>2 DEF Lift
  <2>2. /\ P = [q \in Refs |-> P[q]] /\ P[r] = NoPose
        /\ \A q \in Refs \ {r} : P[q] = s.poses[q]
    BY DEF IsState
  <2>3. Q = [q \in Refs |-> Q[q]] /\ \A q \in Refs \ {r} : Q[q] = s.placed[q]
    BY DEF IsState
  <2> HIDE DEF P, Q
  <2> QED
    BY <1>2, <2>1, <2>2, <2>3 DEF IsState
<1> QED
  BY <1>1, <1>2

\* Putting a part on free holes, and lifting a part, keep the mask exact.
LEMMA ExactPut ==
  ASSUME NEW s, IsState(s), Exact(s), NEW r \in Refs, s.poses[r] = NoPose,
         NEW pose, pose # NoPose, Cells(pose) \cap s.taken = {}
  PROVE  Exact(Put(s, r, pose))
<1> DEFINE t == Put(s, r, pose)
<1>1. /\ t.poses[r] = pose /\ t.taken = s.taken \cup Cells(pose)
      /\ \A q \in Refs \ {r} : t.poses[q] = s.poses[q]
  BY PutGives
<1> HIDE DEF t
<1>2. On(t) = On(s) \cup {r} /\ r \notin On(s) /\ On(s) \subseteq Refs
  BY <1>1 DEF On
<1>3. \A q \in On(s) : t.poses[q] = s.poses[q] /\ Cells(s.poses[q]) \subseteq s.taken
  BY <1>1, <1>2 DEF Exact
<1>4. Apart(t)
  BY <1>1, <1>2, <1>3 DEF Apart, Exact
<1>5. t.taken = UNION {Cells(t.poses[q]) : q \in On(t)}
  BY <1>1, <1>2, <1>3 DEF Exact
<1> QED
  BY <1>4, <1>5 DEF Exact, t

LEMMA ExactLift ==
  ASSUME NEW s, IsState(s), Exact(s), NEW r \in Refs
  PROVE  Exact(Lift(s, r))
<1>1. CASE s.poses[r] = NoPose
  BY <1>1, LiftGives
<1>2. CASE s.poses[r] # NoPose
  <2> DEFINE t == Lift(s, r)
  <2>1. /\ t.poses[r] = NoPose /\ t.taken = s.taken \ Cells(s.poses[r])
        /\ \A q \in Refs \ {r} : t.poses[q] = s.poses[q]
    BY <1>2, LiftGives
  <2> HIDE DEF t
  <2>2. On(t) = On(s) \ {r} /\ r \in On(s) /\ On(s) \subseteq Refs
    BY <1>2, <2>1 DEF On
  <2>3. \A q \in On(t) : t.poses[q] = s.poses[q] /\ Cells(s.poses[q]) \cap Cells(s.poses[r]) = {}
    BY <2>1, <2>2 DEF Exact, Apart
  <2>4. Apart(t)
    BY <2>2, <2>3 DEF Apart, Exact
  <2>5. t.taken = UNION {Cells(t.poses[q]) : q \in On(t)}
    BY <2>1, <2>2, <2>3 DEF Exact
  <2> QED
    BY <2>4, <2>5 DEF Exact, t
<1> QED
  BY <1>1, <1>2

LEMMA ExactMove ==
  ASSUME NEW s, IsState(s), Exact(s), NEW r \in Refs, s.poses[r] # NoPose,
         NEW pose, pose # NoPose, Cells(pose) \cap (s.taken \ Cells(s.poses[r])) = {}
  PROVE  Exact(MoveTo(s, r, pose))
<1>1. /\ IsState(Lift(s, r)) /\ Exact(Lift(s, r)) /\ Lift(s, r).poses[r] = NoPose
      /\ Lift(s, r).taken = s.taken \ Cells(s.poses[r])
  BY LiftGives, ExactLift
<1> QED
  BY <1>1, ExactPut DEF MoveTo

\* So does the exchange of two parts.
LEMMA ExactSwap ==
  ASSUME NEW s, IsState(s), Exact(s), NEW r \in On(s), NEW t \in On(s) \ {r}
  PROVE  Exact(Put(Put(Lift(Lift(s, r), t), r, s.poses[t]), t, s.poses[r]))
<1> DEFINE s1 == Lift(s, r)
           s2 == Lift(s1, t)
           s3 == Put(s2, r, s.poses[t])
<1>0. r \in Refs /\ t \in Refs /\ s.poses[r] # NoPose /\ s.poses[t] # NoPose
  BY DEF On
<1>1. /\ IsState(s1) /\ Exact(s1) /\ s1.poses[r] = NoPose /\ s1.poses[t] = s.poses[t]
      /\ s1.taken = s.taken \ Cells(s.poses[r])
  BY <1>0, LiftGives, ExactLift
<1> HIDE DEF s1
<1>2. /\ IsState(s2) /\ Exact(s2) /\ s2.poses[r] = NoPose /\ s2.poses[t] = NoPose
      /\ s2.taken = s1.taken \ Cells(s.poses[t])
  BY <1>0, <1>1, LiftGives, ExactLift
<1> HIDE DEF s2
<1>3. /\ IsState(s3) /\ Exact(s3) /\ s3.poses[t] = NoPose
      /\ s3.taken = s2.taken \cup Cells(s.poses[t])
  BY <1>0, <1>1, <1>2, PutGives, ExactPut
<1> HIDE DEF s3
<1>4. Cells(s.poses[r]) \cap s3.taken = {}
  BY <1>0, <1>1, <1>2, <1>3 DEF Exact, Apart, On
<1>5. Exact(Put(s3, t, s.poses[r]))
  BY <1>0, <1>3, <1>4, ExactPut
<1> QED
  BY <1>5 DEF s3, s2, s1

-----------------------------------------------------------------------------
(* The order of the greedy pass *)

\* A schematic has finitely many parts.
LEMMA RefsFinite == IsFiniteSet(Refs)
<1> DEFINE n == Len(ByName)
<1>1. n \in Nat /\ DOMAIN ByName = 1..n /\ ByName = [i \in 1..n |-> ByName[i]]
  BY PosesAssumption
<1>2. ByName \in Surjection(1..n, Refs)
  BY <1>1 DEF Surjection, Refs
<1>3. IsFiniteSet(1..n)
  <2>1. 1 \in Int /\ n \in Int
    BY <1>1
  <2> HIDE DEF n
  <2> QED
    BY <2>1, FS_Interval, Zenon
<1> QED
  BY <1>2, <1>3, FS_Surjection

\* A board has finitely many holes.
LEMMA HolesFinite == IsFiniteSet(AllHoles)
BY PosesAssumption, ValidatorAssumption, FS_Union DEF AllHoles

LEMMA WiringBoard == WiringProofs!BoardAssumption
BY HolesFinite, ValidatorAssumption DEF WiringProofs!BoardAssumption, WiringProofs!IsFiniteSet, IsFiniteSet

\* A set of numbers has a least element.
LEMMA LeastNumber ==
  ASSUME NEW T \in SUBSET Nat, T # {}
  PROVE  \E n \in T : \A m \in T : n <= m
BY WiringBoard, WiringProofs!SmallestNumber

\* Each part is in it once.
IsOrder(s) ==
  /\ s \in Seq(Refs) /\ Len(s) = Cardinality(Refs)
  /\ \A r \in Refs : \E i \in DOMAIN s : s[i] = r
  /\ \A i, j \in DOMAIN s : s[i] = s[j] => i = j

\* Keys for Arranged: triples of numbers, another one for each part.
Keys(key) ==
  /\ key = [r \in Refs |-> key[r]]
  /\ \A r \in Refs : key[r] = <<key[r][1], key[r][2], key[r][3]>>
                     /\ key[r][1] \in Int /\ key[r][2] \in Int /\ key[r][3] \in Int
  /\ \A q, r \in Refs : key[q] = key[r] => q = r

Below(key, r) == {q \in Refs : KeyBefore(key[q], key[r])}

LEMMA BelowGrows ==
  ASSUME NEW key, Keys(key), NEW q \in Refs, NEW r \in Refs, KeyBefore(key[q], key[r])
  PROVE  Cardinality(Below(key, q)) < Cardinality(Below(key, r))
<1>1. \A p \in Refs : KeyBefore(key[p], key[q]) => KeyBefore(key[p], key[r])
  BY DEF Keys, KeyBefore
<1>2. q \in Below(key, r) /\ q \notin Below(key, q)
  BY DEF Keys, KeyBefore, Below
<1>3. Below(key, q) \in SUBSET Below(key, r)
  BY <1>1 DEF Below
<1>4. IsFiniteSet(Below(key, r)) /\ IsFiniteSet(Below(key, q))
  <2>1. Below(key, r) \in SUBSET Refs /\ Below(key, q) \in SUBSET Refs
    BY DEF Below
  <2> QED
    BY <2>1, RefsFinite, FS_Subset
<1>5. /\ Cardinality(Below(key, q)) <= Cardinality(Below(key, r))
      /\ Cardinality(Below(key, r)) # Cardinality(Below(key, q))
  BY <1>2, <1>3, <1>4, FS_Subset
<1>6. Cardinality(Below(key, r)) \in Nat /\ Cardinality(Below(key, q)) \in Nat
  BY <1>4, FS_CardinalityType
<1> QED
  BY <1>5, <1>6

\* How many parts are below each of them: each number occurs once.
LEMMA RanksAll ==
  ASSUME NEW key, Keys(key)
  PROVE  /\ Cardinality(Refs) \in Nat
         /\ \A r \in Refs : Cardinality(Below(key, r)) \in 0..(Cardinality(Refs) - 1)
         /\ \A q, r \in Refs : Cardinality(Below(key, q)) = Cardinality(Below(key, r)) => q = r
         /\ \A i \in 1..Cardinality(Refs) : \E r \in Refs : Cardinality(Below(key, r)) = i - 1
<1> DEFINE n == Cardinality(Refs)
           rank == [r \in Refs |-> Cardinality(Below(key, r))]
<1>1. n \in Nat
  BY RefsFinite, FS_CardinalityType
<1>2. ASSUME NEW r \in Refs PROVE Cardinality(Below(key, r)) \in 0..(n - 1)
  <2>1. Below(key, r) \in SUBSET Refs /\ r \notin Below(key, r)
    BY DEF Below, KeyBefore, Keys
  <2>2. /\ Cardinality(Below(key, r)) <= n /\ n # Cardinality(Below(key, r))
        /\ Cardinality(Below(key, r)) \in Nat
    BY <2>1, RefsFinite, FS_Subset, FS_CardinalityType
  <2> QED
    BY <1>1, <2>2
<1>3. ASSUME NEW q \in Refs, NEW r \in Refs, Cardinality(Below(key, q)) = Cardinality(Below(key, r))
      PROVE  q = r
  <2>1. q # r => KeyBefore(key[q], key[r]) \/ KeyBefore(key[r], key[q])
    BY DEF Keys, KeyBefore
  <2>2. Cardinality(Below(key, q)) \in Int
    BY <1>2
  <2> QED
    BY <1>3, <2>1, <2>2, BelowGrows
<1>4. rank \in Injection(Refs, 0..(n - 1))
  BY <1>2, <1>3 DEF Injection, IsInjective
<1>5. IsFiniteSet(0..(n - 1)) /\ Cardinality(0..(n - 1)) = n
  <2>1. 0 \in Int /\ n - 1 \in Int
    BY <1>1
  <2> DEFINE m == n - 1
  <2> HIDE DEF m
  <2>2. IsFiniteSet(0..m) /\ Cardinality(0..m) = IF 0 > m THEN 0 ELSE m - 0 + 1
    BY <2>1, FS_Interval, Zenon DEF m
  <2> QED
    BY <1>1, <2>2 DEF m
<1>6. rank \in Surjection(Refs, 0..(n - 1))
  BY <1>4, <1>5, FS_Injection
<1>7. ASSUME NEW i \in 1..n PROVE \E r \in Refs : Cardinality(Below(key, r)) = i - 1
  <2>1. i - 1 \in 0..(n - 1)
    BY <1>1
  <2> QED
    BY <1>6, <2>1 DEF Surjection
<1> QED
  BY <1>1, <1>2, <1>3, <1>7

\* Sorting loses nothing and doubles nothing.
LEMMA ArrangedAll ==
  ASSUME NEW key, Keys(key)
  PROVE  IsOrder(Arranged(key))
<1> DEFINE n == Cardinality(Refs)
           s == Arranged(key)
<1>1. s = [i \in 1..n |-> CHOOSE r \in Refs : Cardinality(Below(key, r)) = i - 1]
  BY DEF Arranged, Below, Keys
<1>2. n \in Nat
  BY RanksAll
<1> HIDE DEF s, n
<1>3. \A i \in 1..n : s[i] \in Refs /\ Cardinality(Below(key, s[i])) = i - 1
  BY <1>1, RanksAll DEF n
<1>4. s \in Seq(Refs) /\ Len(s) = n /\ DOMAIN s = 1..n
  <2>1. s \in [1..n -> Refs]
    BY <1>1, <1>3
  <2> QED
    BY <1>2, <2>1
<1>5. ASSUME NEW r \in Refs PROVE \E i \in 1..n : s[i] = r
  <2>1. Cardinality(Below(key, r)) + 1 \in 1..n
    BY <1>2, RanksAll DEF n
  <2>2. Cardinality(Below(key, s[Cardinality(Below(key, r)) + 1])) = Cardinality(Below(key, r))
    BY <1>2, <1>3, <2>1, RanksAll DEF n
  <2> QED
    BY <1>3, <2>1, <2>2, RanksAll
<1>6. ASSUME NEW i \in 1..n, NEW j \in 1..n, s[i] = s[j] PROVE i = j
  BY <1>2, <1>3, <1>6
<1> QED
  BY <1>4, <1>5, <1>6 DEF IsOrder, s, n

\* Names differ.
LEMMA PlaceOf == \A r \in Refs : Place(r) \in Nat /\ ByName[Place(r)] = r
BY PosesAssumption DEF Place, Refs

LEMMA PoseCountNat == \A r \in Refs : PoseCount(r) \in Nat
<1> TAKE r \in Refs
<1>1. CASE Known(r)
  <2> DEFINE f == FootprintOf(r)
  <2>1. FootprintType(f)
    BY <1>1, PosesAssumption DEF Known, FootprintOf
  <2> HIDE DEF f
  <2>2. IsFiniteSet(f.turns)
    <3>1. 0 \in Int /\ 270 \in Int
      OBVIOUS
    <3>2. IsFiniteSet(0..270)
      BY <3>1, FS_Interval, Zenon
    <3>3. f.turns \in SUBSET (0..270)
      BY <2>1 DEF FootprintType
    <3> QED
      BY <3>2, <3>3, FS_Subset
  <2>3. Cardinality(f.turns) \in Nat /\ Cardinality(f.spans) \in Nat
    BY <2>1, <2>2, FS_CardinalityType DEF FootprintType
  <2>4. \A a, b \in Nat : a * b \in Nat
    OBVIOUS
  <2>5. Cardinality(f.turns) * Cardinality(f.spans) \in Nat
    BY <2>3, <2>4
  <2> QED
    BY <1>1, <2>5 DEF PoseCount, f
<1>2. CASE ~Known(r)
  BY <1>2 DEF PoseCount
<1> QED
  BY <1>1, <1>2

LEMMA BaseIsOrder == \A locked : IsOrder(BaseOrder(locked))
<1> TAKE locked
<1> DEFINE key == [r \in Refs |-> OrderKey(r, locked)]
<1>1. ASSUME NEW r \in Refs
      PROVE  \E a \in {1, 2, 3, 4}, b \in Nat : OrderKey(r, locked) = <<a, b, Place(r)>>
  BY PoseCountNat DEF OrderKey
<1>2. Keys(key)
  BY <1>1, PlaceOf DEF Keys
<1> HIDE DEF key
<1>3. IsOrder(Arranged(key))
  BY <1>2, ArrangedAll
<1> QED
  BY <1>3 DEF BaseOrder, key

LEMMA AtGives ==
  ASSUME NEW s, IsOrder(s), NEW r \in Refs
  PROVE  At(s, r) \in DOMAIN s /\ At(s, r) \in Nat /\ s[At(s, r)] = r
BY DEF IsOrder, At

\* So does the regrouping around one anchor.
LEMMA PullTogetherAll ==
  ASSUME NEW s, IsOrder(s), NEW anchor, NEW members
  PROVE  IsOrder(PullTogether(s, anchor, members))
<1> DEFINE pulled == Members(anchor, members) \ {anchor}
           UpTo(r) == {q \in Refs \ pulled : At(s, q) <= At(s, r)}
           front == {r \in Refs \ pulled : Cardinality(UpTo(r)) <= At(s, anchor)}
           key == [r \in Refs |-> CASE r \in front -> <<1, 0, At(s, r)>>
                                    [] r \in pulled -> <<2, 0, Place(r)>>
                                    [] OTHER -> <<3, 0, At(s, r)>>]
<1>1. PullTogether(s, anchor, members) = Arranged(key)
  BY DEF PullTogether
<1>2. front \cap pulled = {}
  OBVIOUS
<1> HIDE DEF front, pulled
<1>3. \A r \in Refs : At(s, r) \in Nat /\ s[At(s, r)] = r /\ Place(r) \in Nat /\ ByName[Place(r)] = r
  BY AtGives, PlaceOf
<1>4. /\ \A r \in front \cap Refs : key[r] = <<1, 0, At(s, r)>>
      /\ \A r \in pulled \cap Refs : key[r] = <<2, 0, Place(r)>>
      /\ \A r \in Refs \ (front \cup pulled) : key[r] = <<3, 0, At(s, r)>>
  BY <1>2
<1>5. key = [r \in Refs |-> key[r]]
  OBVIOUS
<1> HIDE DEF key
<1>6. Keys(key)
  BY <1>3, <1>4, <1>5 DEF Keys
<1> QED
  BY <1>1, <1>6, ArrangedAll

\* The regroupings one after the other: what Order goes through.
Regrouping(f, base, members, n) ==
  f = [k \in 0..n |-> IF k = 0 THEN base ELSE PullTogether(f[k - 1], base[k], members)]

\* There is such a function up to any step, and it goes from order to order.
LEMMA RegroupingExists ==
  ASSUME NEW base, NEW members, NEW n \in Nat
  PROVE  \E f : Regrouping(f, base, members, n)
<1> DEFINE T == {k \in Nat : ~ \E f : Regrouping(f, base, members, k)}
<1>1. SUFFICES ASSUME T # {} PROVE FALSE
  OBVIOUS
<1>2. \E k \in T : \A i \in T : k <= i
  <2>1. T \in SUBSET Nat
    OBVIOUS
  <2> HIDE DEF T
  <2> QED
    BY <1>1, <2>1, LeastNumber
<1> PICK k \in T : \A i \in T : k <= i
  BY <1>2
<1>3. CASE k = 0
  <2> DEFINE g == [i \in 0..k |-> base]
  <2>1. Regrouping(g, base, members, k)
    BY <1>3 DEF Regrouping
  <2> QED
    BY <2>1
<1>4. CASE k # 0
  <2>1. k - 1 \in Nat /\ k - 1 \notin T
    BY <1>4
  <2>2. PICK f : Regrouping(f, base, members, k - 1)
    BY <2>1
  <2> DEFINE g == [i \in 0..k |->
                     IF i = k THEN PullTogether(f[k - 1], base[k], members) ELSE f[i]]
             G(i) == IF i = 0 THEN base ELSE PullTogether(g[i - 1], base[i], members)
  <2>3. ASSUME NEW i \in 0..k
        PROVE  g[i] = G(i)
    <3>1. CASE i = k
      BY <1>4, <3>1
    <3>2. CASE i # k
      <4>1. i \in 0..(k - 1) /\ g[i] = f[i]
        BY <3>2
      <4>2. f[i] = IF i = 0 THEN base ELSE PullTogether(f[i - 1], base[i], members)
        BY <2>2, <4>1 DEF Regrouping
      <4>3. i # 0 => i - 1 \in 0..k /\ i - 1 # k
        BY <4>1
      <4>4. i # 0 => g[i - 1] = f[i - 1]
        BY <4>3
      <4> QED
        BY <4>1, <4>2, <4>4
    <3> QED
      BY <3>1, <3>2
  <2>4. g = [i \in 0..k |-> g[i]]
    OBVIOUS
  <2> HIDE DEF g
  <2>5. Regrouping(g, base, members, k)
    BY <2>3, <2>4 DEF Regrouping
  <2> QED
    BY <2>5
<1> QED
  BY <1>3, <1>4

LEMMA RegroupingKeeps ==
  ASSUME NEW base, IsOrder(base), NEW members, NEW n \in Nat, NEW f, Regrouping(f, base, members, n),
         NEW m \in 0..n
  PROVE  IsOrder(f[m])
<1> DEFINE T == {k \in 0..n : ~IsOrder(f[k])}
<1>1. SUFFICES ASSUME T # {} PROVE FALSE
  OBVIOUS
<1>2. \E k \in T : \A i \in T : k <= i
  <2>1. T \in SUBSET Nat
    OBVIOUS
  <2> HIDE DEF T
  <2> QED
    BY <1>1, <2>1, LeastNumber
<1> PICK k \in T : \A i \in T : k <= i
  BY <1>2
<1>3. f[k] = IF k = 0 THEN base ELSE PullTogether(f[k - 1], base[k], members)
  BY DEF Regrouping
<1>4. k # 0 => k - 1 \in 0..n /\ k - 1 \notin T
  OBVIOUS
<1>5. k # 0 => IsOrder(f[k - 1])
  BY <1>4
<1> QED
  BY <1>3, <1>5, PullTogetherAll

\* Whatever the clusters are, the greedy pass comes to each part once.
LEMMA OrderAll == \A locked, members : IsOrder(Order(locked, members))
<1> TAKE locked, members
<1> DEFINE base == BaseOrder(locked)
           n == Len(base)
           after == CHOOSE f : f = [k \in 0..n |->
                      IF k = 0 THEN base ELSE PullTogether(f[k - 1], base[k], members)]
<1>1. IsOrder(base) /\ n \in Nat
  BY BaseIsOrder DEF IsOrder
<1>2. Regrouping(after, base, members, n)
  <2>1. \E f : Regrouping(f, base, members, n)
    BY <1>1, RegroupingExists
  <2> QED
    BY <2>1 DEF Regrouping
<1>3. Order(locked, members) = after[n]
  BY DEF Order
<1> HIDE DEF base, n, after
<1>4. n \in 0..n
  BY <1>1
<1> QED
  BY <1>1, <1>2, <1>3, <1>4, RegroupingKeeps

-----------------------------------------------------------------------------
(* place() *)

\* A locked part that no move takes along: no twin, and alone in its cluster.
Lone(r) ==
  \A q \in Refs \ {r} : FootprintId[q] # FootprintId[r] /\ clusters.anchorOf[q] # clusters.anchorOf[r]

\* Which parts are locked is known from the seeding on; the search does not pick them.
LocksInv ==
  /\ given \in InitialLayouts /\ fixed \subseteq LockedIn(given)
  /\ pc # "seed" \/ best # NoBest => fixed = LockedIn(given)
  /\ pc = "search" => movable \subseteq Refs \ fixed

\* Lone locked parts are where the document has them, in the attempt and in the best one.
LoneInv ==
  \A r \in fixed :
    Lone(r) => /\ pc # "seed" => state.placed[r] = given[r]
               /\ best # NoBest => best.state.placed[r] = given[r]

PlaceInv == IsState(state) /\ LocksInv /\ LoneInv

LEMMA LockedRefs ==
  ASSUME LocksInv
  PROVE  LockedIn(given) \subseteq DOMAIN given /\ DOMAIN given \subseteq Refs /\ fixed \subseteq Refs
BY PlacerAssumption DEF LocksInv, LockedIn

\* What the moves of the search have in common: the new state is a state, and a lone
\* locked part has not moved.
KeepsLone(s) == IsState(s) /\ \A q \in fixed : Lone(q) => s.placed[q] = state.placed[q]

LEMMA MoveToKeeps ==
  ASSUME PlaceInv, NEW r \in Refs \ fixed, NEW pose
  PROVE  KeepsLone(MoveTo(state, r, pose)) /\ KeepsLone(Put(state, r, pose))
<1>1. IsState(state) /\ fixed \subseteq Refs
  BY LockedRefs DEF PlaceInv
<1>2. KeepsLone(Put(state, r, pose))
  BY <1>1, PutGives DEF KeepsLone
<1>3. IsState(Lift(state, r)) /\ \A q \in Refs \ {r} : Lift(state, r).placed[q] = state.placed[q]
  BY <1>1, LiftGives
<1>4. KeepsLone(MoveTo(state, r, pose))
  BY <1>1, <1>3, PutGives DEF KeepsLone, MoveTo
<1> QED
  BY <1>2, <1>4

LEMMA SwapKeeps ==
  ASSUME PlaceInv, NEW r \in Refs \ fixed, NEW s \in Swapped(r)
  PROVE  KeepsLone(s)
<1>1. IsState(state) /\ fixed \subseteq Refs
  BY LockedRefs DEF PlaceInv
<1>2. PICK t \in Twins(r) :
        s = Put(Put(Lift(Lift(state, r), t), r, state.poses[t]), t, state.poses[r])
  BY DEF Swapped
<1>3. t \in Refs \ {r} /\ FootprintId[t] = FootprintId[r]
  BY DEF Twins, On
<1> DEFINE s1 == Lift(state, r)
           s2 == Lift(s1, t)
           s3 == Put(s2, r, state.poses[t])
<1>4. IsState(s1) /\ \A q \in Refs \ {r} : s1.placed[q] = state.placed[q]
  BY <1>1, LiftGives
<1> HIDE DEF s1
<1>5. IsState(s2) /\ \A q \in Refs \ {r, t} : s2.placed[q] = state.placed[q]
  BY <1>3, <1>4, LiftGives
<1> HIDE DEF s2
<1>6. IsState(s3) /\ \A q \in Refs \ {r, t} : s3.placed[q] = state.placed[q]
  BY <1>3, <1>5, PutGives
<1> HIDE DEF s3
<1>7. s = Put(s3, t, state.poses[r])
  BY <1>2 DEF s3, s2, s1
<1>8. IsState(s) /\ \A q \in Refs \ {r, t} : s.placed[q] = state.placed[q]
  BY <1>3, <1>6, <1>7, PutGives
<1>9. \A q \in fixed : Lone(q) => q # r /\ q # t
  BY <1>1, <1>3 DEF Lone
<1> QED
  BY <1>1, <1>8, <1>9 DEF KeepsLone

LEMMA RelocationKeeps ==
  ASSUME PlaceInv, NEW r \in Refs \ fixed, NEW s \in Relocated(r)
  PROVE  KeepsLone(s)
<1> DEFINE a == clusters.anchorOf[r]
<1>1. IsState(state) /\ fixed \subseteq Refs
  BY LockedRefs DEF PlaceInv
<1>2. PICK d, seq : s = ShiftAll(Block(a), d, seq)
  BY DEF Relocated
<1>3. IsState(s) /\ \A q \in Refs \ Block(a) : s.placed[q] = state.placed[q]
  BY <1>2 DEF ShiftAll, IsState
<1>4. \A q \in fixed : Lone(q) => q \notin Block(a)
  BY <1>1 DEF Lone, Block
<1> QED
  BY <1>1, <1>3, <1>4 DEF KeepsLone

LEMMA SearchKeeps ==
  ASSUME PlaceInv,
         Translate \/ RotatePart \/ Span \/ Swap \/ RelocateCluster
  PROVE  /\ KeepsLone(state')
         /\ pc = "search" /\ UNCHANGED <<given, options, clusters, pc, fixed, movable, best>>
<1>1. ASSUME NEW r \in movable, NEW results, Try(results), \A s \in results : KeepsLone(s)
      PROVE  /\ KeepsLone(state')
             /\ pc = "search" /\ UNCHANGED <<given, options, clusters, pc, fixed, movable, best>>
  <2>1. KeepsLone(state)
    BY DEF PlaceInv, KeepsLone
  <2>2. state' \in results \/ state' = state
    BY <1>1 DEF Try
  <2> QED
    BY <1>1, <2>1, <2>2 DEF Try
<1>2. pc = "search" => movable \subseteq Refs \ fixed
  BY DEF PlaceInv, LocksInv
<1>3. \A r \in movable : pc = "search" =>
        \A s \in Translated(r) \cup Rotated(r) \cup Respanned(r) : KeepsLone(s)
  BY <1>2, MoveToKeeps DEF Translated, Rotated, Respanned
<1>4. \A r \in movable : pc = "search" => \A s \in Swapped(r) \cup Relocated(r) : KeepsLone(s)
  BY <1>2, SwapKeeps, RelocationKeeps
<1>5. pc = "search"
  BY DEF Translate, RotatePart, Span, Swap, RelocateCluster, Try
<1> QED
  BY <1>1, <1>3, <1>4, <1>5 DEF Found, Translate, RotatePart, Span, Swap, RelocateCluster

LEMMA SeedKeeps ==
  ASSUME PlaceInv, Seed
  PROVE  PlaceInv'
<1>1. LockedIn(given) \subseteq DOMAIN given /\ DOMAIN given \subseteq Refs
  BY LockedRefs DEF PlaceInv
<1>5. IsState(state') /\ \A r \in LockedIn(given) : state'.placed[r] = given[r]
  BY <1>1 DEF Seed, Seeded, OnRefs, IsState
<1>6. /\ UNCHANGED <<given, clusters, best>> /\ fixed' = LockedIn(given) /\ pc' = "greedy" /\ pc = "seed"
  BY DEF Seed
<1>7. LocksInv'
  BY <1>6 DEF PlaceInv, LocksInv, LockedIn
<1>8. \A r : Lone(r)' = Lone(r)
  BY <1>6 DEF Lone
<1>9. LoneInv'
  BY <1>5, <1>6, <1>8 DEF PlaceInv, LoneInv, LocksInv
<1> QED
  BY <1>5, <1>7, <1>9 DEF PlaceInv

\* A step that keeps the lone parts and does not touch the locks keeps the invariant.
LEMMA KeepsInv ==
  ASSUME PlaceInv, KeepsLone(state'), UNCHANGED <<given, clusters, fixed, best>>, pc # "seed",
         pc' = "search" => movable' \subseteq Refs \ fixed
  PROVE  PlaceInv'
<1>1. LocksInv'
  BY DEF PlaceInv, LocksInv, LockedIn
<1>2. \A r : Lone(r)' = Lone(r)
  BY DEF Lone
<1>3. IsState(state') /\ LoneInv'
  BY <1>2 DEF PlaceInv, LoneInv, KeepsLone
<1> QED
  BY <1>1, <1>3 DEF PlaceInv

LEMMA PlaceNextKeeps ==
  ASSUME PlaceInv, PlaceNext
  PROVE  PlaceInv'
<1>1. CASE UNCHANGED state
  <2>1. KeepsLone(state')
    BY <1>1 DEF PlaceInv, KeepsLone
  <2> QED
    BY <2>1, KeepsInv DEF PlaceNext
<1>2. ASSUME NEW r \in Refs \ fixed, NEW p, state' = Put(state, r, p)
      PROVE  PlaceInv'
  <2>1. KeepsLone(state')
    BY <1>2, MoveToKeeps
  <2> QED
    BY <2>1, KeepsInv DEF PlaceNext
<1> QED
  BY <1>1, <1>2 DEF PlaceNext

LEMMA FinishAttemptKeeps ==
  ASSUME PlaceInv, FinishAttempt
  PROVE  PlaceInv'
<1>1. /\ UNCHANGED <<given, clusters, fixed, state>> /\ pc = "finish" /\ pc' \in {"seed", "done"}
      /\ \/ best' = best /\ best # NoBest
         \/ \E u, c : best' = [state |-> state, unplaced |-> u, cost |-> c]
  BY DEF FinishAttempt, Beats
<1>2. LocksInv'
  BY <1>1 DEF PlaceInv, LocksInv, LockedIn
<1>3. \A r : Lone(r)' = Lone(r)
  BY <1>1 DEF Lone
<1>4. LoneInv'
  BY <1>1, <1>3 DEF PlaceInv, LoneInv
<1> QED
  BY <1>1, <1>2, <1>4 DEF PlaceInv

LEMMA PlaceStepKeeps ==
  ASSUME PlaceInv, [Next]_vars
  PROVE  PlaceInv'
<1>1. CASE Translate \/ RotatePart \/ Span \/ Swap \/ RelocateCluster
  BY <1>1, SearchKeeps, KeepsInv DEF PlaceInv, LocksInv
<1>2. CASE GreedyEnds
  <2>1. KeepsLone(state') /\ On(state) \subseteq Refs
    BY <1>2 DEF GreedyEnds, PlaceInv, KeepsLone, On
  <2> QED
    BY <1>2, <2>1, KeepsInv DEF GreedyEnds
<1>3. CASE SearchEnds
  <2>1. KeepsLone(state')
    BY <1>3 DEF SearchEnds, PlaceInv, KeepsLone
  <2> QED
    BY <1>3, <2>1, KeepsInv DEF SearchEnds
<1>4. CASE UNCHANGED vars
  BY <1>4 DEF vars, PlaceInv, LocksInv, LoneInv, Lone, LockedIn
<1> QED
  BY <1>1, <1>2, <1>3, <1>4, SeedKeeps, PlaceNextKeeps, FinishAttemptKeeps DEF Next

LEMMA PlaceInitKeeps ==
  ASSUME Init
  PROVE  PlaceInv
<1>1. IsState(state)
  BY DEF Init, Empty, Nowhere, IsState
<1> QED
  BY <1>1 DEF Init, PlaceInv, LocksInv, LoneInv

-----------------------------------------------------------------------------
(* Every part is accounted for *)

\* During the greedy pass a part is on the board, reported, or still to come; only locked
\* parts are on the board before their turn.  Afterwards, nothing is to come.
PassInv ==
  pc = "greedy" =>
    /\ order \in Seq(Refs)
    /\ \A i, j \in DOMAIN order : order[i] = order[j] => i = j
    /\ \A r \in Refs : \/ r \in On(state) \cup unplaced
                       \/ \E i \in DOMAIN order : order[i] = r
    /\ \A i \in DOMAIN order : order[i] \notin unplaced /\ (order[i] \in On(state) => order[i] \in fixed)
    /\ unplaced \subseteq Refs \ On(state) /\ fixed \subseteq On(state)

BestInv ==
  /\ attempt \in Nat /\ (attempt = 0 => best = NoBest)
  /\ attempt # 0 => On(best.state) = Refs \ best.unplaced
  /\ pc = "done" => attempt # 0

AccountInv ==
  PassInv /\ BestInv /\ (pc \in {"search", "finish"} => On(state) = Refs \ unplaced)

LEMMA PosesAre ==
  ASSUME NEW r \in Refs, Known(r), NEW p \in Poses[FootprintId[r]]
  PROVE  p # NoPose
<1> DEFINE f == FootprintId[r]
<1>1. f \in DOMAIN Footprint
  BY DEF Known
<1>2. p \in PosesOf(Footprint[f])
  BY <1>1 DEF Poses
<1>3. PICK h, t, s : p = PoseAt(Footprint[f], h, t, s)
  BY <1>2 DEF PosesOf
<1> QED
  BY <1>3 DEF PoseAt, NoPose

\* A move leaves the same parts on the board.
LEMMA MovesKeepOn ==
  ASSUME IsState(state), NEW r \in On(state), Known(r),
         NEW s \in Translated(r) \cup Rotated(r) \cup Respanned(r) \cup Swapped(r) \cup Relocated(r)
  PROVE  On(s) = On(state)
<1>1. r \in Refs /\ state.poses[r] # NoPose
  BY DEF On
<1>2. CASE s \in Translated(r) \cup Rotated(r) \cup Respanned(r)
  <2>1. PICK p \in Poses[FootprintId[r]] : s = MoveTo(state, r, p)
    BY <1>2 DEF Translated, Rotated, Respanned
  <2>2. p # NoPose
    BY <1>1, PosesAre
  <2>3. IsState(Lift(state, r)) /\ \A q \in Refs \ {r} : Lift(state, r).poses[q] = state.poses[q]
    BY <1>1, LiftGives
  <2>4. s.poses[r] = p /\ \A q \in Refs \ {r} : s.poses[q] = state.poses[q]
    BY <1>1, <2>1, <2>3, PutGives DEF MoveTo
  <2> QED
    BY <1>1, <2>2, <2>4 DEF On
<1>3. CASE s \in Swapped(r)
  <2>1. PICK t \in Twins(r) :
          s = Put(Put(Lift(Lift(state, r), t), r, state.poses[t]), t, state.poses[r])
    BY <1>3 DEF Swapped
  <2>2. t \in Refs \ {r} /\ state.poses[t] # NoPose
    BY <2>1 DEF Twins, On
  <2> DEFINE s1 == Lift(state, r)
             s2 == Lift(s1, t)
             s3 == Put(s2, r, state.poses[t])
  <2>3. IsState(s1) /\ \A q \in Refs \ {r} : s1.poses[q] = state.poses[q]
    BY <1>1, LiftGives
  <2> HIDE DEF s1
  <2>4. IsState(s2) /\ \A q \in Refs \ {r, t} : s2.poses[q] = state.poses[q]
    BY <2>2, <2>3, LiftGives
  <2> HIDE DEF s2
  <2>5. /\ IsState(s3) /\ s3.poses[r] = state.poses[t]
        /\ \A q \in Refs \ {r, t} : s3.poses[q] = state.poses[q]
    BY <1>1, <2>4, PutGives
  <2> HIDE DEF s3
  <2>6. s = Put(s3, t, state.poses[r])
    BY <2>1 DEF s3, s2, s1
  <2>7. /\ s.poses[t] = state.poses[r] /\ s.poses[r] = state.poses[t]
        /\ \A q \in Refs \ {r, t} : s.poses[q] = state.poses[q]
    BY <1>1, <2>2, <2>5, <2>6, PutGives
  <2> QED
    BY <1>1, <2>2, <2>7 DEF On
<1>4. CASE s \in Relocated(r)
  <2> DEFINE block == Block(clusters.anchorOf[r])
  <2>1. PICK d, seq : s = ShiftAll(block, d, seq)
    BY <1>4 DEF Relocated
  <2>2. \A m \in Refs : s.poses[m] = IF m \in block THEN Shift(state.poses[m], d) ELSE state.poses[m]
    BY <2>1 DEF ShiftAll
  <2>3. \A p : Shift(p, d) # NoPose
    BY DEF Shift, NoPose
  <2>4. block \subseteq On(state)
    BY DEF Block
  <2> HIDE DEF block
  <2> QED
    BY <2>2, <2>3, <2>4 DEF On
<1> QED
  BY <1>2, <1>3, <1>4

LEMMA SearchAccounts ==
  ASSUME PlaceInv, AccountInv,
         Translate \/ RotatePart \/ Span \/ Swap \/ RelocateCluster
  PROVE  AccountInv'
<1>1. ASSUME NEW r \in Found, NEW results, Try(results), \A s \in results : On(s) = On(state)
      PROVE  /\ pc = "search" /\ On(state') = On(state)
             /\ UNCHANGED <<pc, unplaced, attempt, best>>
  <2>1. state' \in results \/ state' = state
    BY <1>1 DEF Try
  <2> QED
    BY <1>1, <2>1 DEF Try
<1>2. \A r \in Found :
        \A s \in Translated(r) \cup Rotated(r) \cup Respanned(r) \cup Swapped(r) \cup Relocated(r) :
          On(s) = On(state)
  BY MovesKeepOn DEF Found, PlaceInv
<1>3. /\ pc = "search" /\ On(state') = On(state)
      /\ UNCHANGED <<pc, unplaced, attempt, best>>
  BY <1>1, <1>2 DEF Translate, RotatePart, Span, Swap, RelocateCluster
<1> QED
  BY <1>3 DEF AccountInv, PassInv, BestInv

LEMMA SeedAccounts ==
  ASSUME PlaceInv, AccountInv, Seed
  PROVE  AccountInv'
<1>1. /\ pc = "seed" /\ pc' = "greedy" /\ fixed' = LockedIn(given) /\ unplaced' = {}
      /\ state' = Seeded(given) /\ order' = Order(LockedIn(given), clusters.members)
      /\ UNCHANGED <<attempt, best>>
  BY DEF Seed
<1>2. LockedIn(given) \subseteq Refs
  BY LockedRefs DEF PlaceInv
<1>3. On(Seeded(given)) = LockedIn(given)
  <2> DEFINE poses == [r \in LockedIn(given) |-> SeedPose(r, given[r])]
  <2>1. \A r \in LockedIn(given) : SeedPose(r, given[r]) # NoPose
    BY DEF SeedPose, NoPose
  <2>2. \A r \in Refs : Seeded(given).poses[r] = IF r \in LockedIn(given) THEN SeedPose(r, given[r]) ELSE NoPose
    BY DEF Seeded, OnRefs
  <2> QED
    BY <1>2, <2>1, <2>2 DEF On
<1>4. IsOrder(order')
  BY <1>1, OrderAll
<1>5. On(state') = fixed'
  BY <1>1, <1>3
<1>6. PassInv'
  BY <1>1, <1>2, <1>4, <1>5 DEF PassInv, IsOrder
<1> QED
  BY <1>1, <1>6 DEF AccountInv, BestInv

LEMMA PlaceNextAccounts ==
  ASSUME PlaceInv, AccountInv, PlaceNext
  PROVE  AccountInv'
<1> DEFINE r == Head(order)
<1>1. /\ pc = "greedy" /\ order # <<>> /\ order' = Tail(order)
      /\ UNCHANGED <<pc, fixed, attempt, best>>
  BY DEF PlaceNext
<1>2. /\ order \in Seq(Refs) /\ \A i, j \in DOMAIN order : order[i] = order[j] => i = j
      /\ fixed \subseteq Refs /\ IsState(state)
  BY <1>1, LockedRefs DEF AccountInv, PassInv, PlaceInv
<1>3. /\ order' \in Seq(Refs) /\ 1 \in DOMAIN order /\ r = order[1] /\ r \in Refs
      /\ \A i \in DOMAIN order' : i + 1 \in DOMAIN order /\ i + 1 # 1 /\ order'[i] = order[i + 1]
      /\ \A i \in DOMAIN order : i # 1 => i - 1 \in DOMAIN order' /\ order'[i - 1] = order[i]
  BY <1>1, <1>2
<1>4. \A i, j \in DOMAIN order' : order'[i] = order'[j] => i = j
  <2>1. \A i \in DOMAIN order' : i \in Int
    BY <1>3
  <2> QED
    BY <1>2, <1>3, <2>1
<1>5. \A i \in DOMAIN order' : order'[i] # r
  BY <1>2, <1>3
<1>6. \A q \in Refs \ {r} : (\E i \in DOMAIN order : order[i] = q) => \E i \in DOMAIN order' : order'[i] = q
  BY <1>3
<1>7. CASE r \notin Refs \ fixed /\ UNCHANGED <<state, unplaced>>
  <2>1. r \in On(state)
    BY <1>1, <1>3, <1>7 DEF AccountInv, PassInv
  <2>2. On(state') = On(state) /\ unplaced' = unplaced
    BY <1>7
  <2>3. \A q \in Refs : q \in On(state') \cup unplaced' \/ \E i \in DOMAIN order' : order'[i] = q
    BY <1>1, <1>6, <2>1, <2>2 DEF AccountInv, PassInv
  <2>4. \A i \in DOMAIN order' : /\ order'[i] \notin unplaced'
                                 /\ order'[i] \in On(state') => order'[i] \in fixed
    BY <1>1, <1>3, <2>2 DEF AccountInv, PassInv
  <2>5. PassInv'
    BY <1>1, <1>3, <1>4, <2>2, <2>3, <2>4 DEF AccountInv, PassInv
  <2> QED
    BY <1>1, <2>5 DEF AccountInv, BestInv
<1>8. CASE r \in Refs \ fixed /\ unplaced' = unplaced \cup {r} /\ UNCHANGED state
  <2>1. r \notin On(state)
    BY <1>1, <1>3, <1>8 DEF AccountInv, PassInv
  <2>2. PassInv'
    BY <1>1, <1>3, <1>4, <1>5, <1>6, <1>8, <2>1 DEF AccountInv, PassInv
  <2> QED
    BY <1>1, <2>2 DEF AccountInv, BestInv
<1>9. ASSUME r \in Refs \ fixed, UNCHANGED unplaced, NEW p \in FreePoses(r), state' = Put(state, r, p)
      PROVE  AccountInv'
  <2>1. p # NoPose
    BY <1>9, PosesAre DEF FreePoses
  <2>2. On(state') = On(state) \cup {r}
    <3>1. /\ state'.poses[r] = p
          /\ \A q \in Refs \ {r} : state'.poses[q] = state.poses[q]
      BY <1>2, <1>9, PutGives
    <3> QED
      BY <1>9, <2>1, <3>1 DEF On
  <2>3. PassInv'
    <3>1. r \notin unplaced
      BY <1>1, <1>3 DEF AccountInv, PassInv
    <3> QED
      BY <1>1, <1>3, <1>4, <1>5, <1>6, <1>9, <2>2, <3>1 DEF AccountInv, PassInv
  <2> QED
    BY <1>1, <2>3 DEF AccountInv, BestInv
<1>10. \/ r \notin Refs \ fixed /\ UNCHANGED <<state, unplaced>>
       \/ r \in Refs \ fixed /\ unplaced' = unplaced \cup {r} /\ UNCHANGED state
       \/ r \in Refs \ fixed /\ UNCHANGED unplaced /\ \E p \in FreePoses(r) : state' = Put(state, r, p)
  BY DEF PlaceNext, Cheapest, Prices
<1> QED
  BY <1>7, <1>8, <1>9, <1>10

LEMMA FinishAccounts ==
  ASSUME PlaceInv, AccountInv, FinishAttempt
  PROVE  AccountInv'
<1>1. /\ pc = "finish" /\ pc' \in {"seed", "done"} /\ attempt' = attempt + 1
      /\ \/ best' = best /\ best # NoBest
         \/ \E c : best' = [state |-> state, unplaced |-> unplaced, cost |-> c]
  BY DEF FinishAttempt, Beats
<1>2. attempt' \in Nat /\ attempt' # 0
  BY <1>1 DEF AccountInv, BestInv
<1>3. On(best'.state) = Refs \ best'.unplaced
  BY <1>1 DEF AccountInv, BestInv
<1> QED
  BY <1>1, <1>2, <1>3 DEF AccountInv, PassInv, BestInv

LEMMA StepAccounts ==
  ASSUME PlaceInv, AccountInv, [Next]_vars
  PROVE  AccountInv'
<1>1. CASE GreedyEnds
  <2>1. /\ pc = "greedy" /\ order = <<>> /\ pc' \in {"finish", "search"}
        /\ UNCHANGED <<state, unplaced, attempt, best>>
    BY <1>1 DEF GreedyEnds
  <2>2. On(state) = Refs \ unplaced
    BY <2>1 DEF AccountInv, PassInv, On
  <2> QED
    BY <2>1, <2>2 DEF AccountInv, PassInv, BestInv, On
<1>2. CASE SearchEnds
  BY <1>2 DEF SearchEnds, AccountInv, PassInv, BestInv, On
<1>3. CASE UNCHANGED vars
  BY <1>3 DEF vars, AccountInv, PassInv, BestInv, On
<1> QED
  BY <1>1, <1>2, <1>3, SearchAccounts, SeedAccounts, PlaceNextAccounts, FinishAccounts DEF Next

LEMMA InitAccounts ==
  ASSUME Init
  PROVE  AccountInv
BY DEF Init, AccountInv, PassInv, BestInv

LEMMA AccountVisits == AccountInv => EveryPartAccounted
<1> SUFFICES ASSUME AccountInv PROVE EveryPartAccounted
  OBVIOUS
<1>1. VisitedOnce
  <2> SUFFICES ASSUME pc = "greedy", order # <<>> PROVE Head(order) \in fixed \/ Head(order) \notin On(state)
    BY DEF VisitedOnce
  <2>1. 1 \in DOMAIN order /\ Head(order) = order[1]
    BY DEF AccountInv, PassInv
  <2> QED
    BY <2>1 DEF AccountInv, PassInv
<1>2. pc = "done" => On(best.state) = Refs \ best.unplaced
  BY DEF AccountInv, BestInv
<1> QED
  BY <1>1, <1>2 DEF EveryPartAccounted

\* The greedy pass and the moves of one or two parts keep the mask exact.
LEMMA ExactStep ==
  ASSUME PlaceInv, VisitedOnce, [Next]_vars, pc # "seed", Exact(state), ~RelocateCluster
  PROVE  Exact(state')
<1>1. IsState(state) /\ (pc = "search" => movable \subseteq Refs)
  BY DEF PlaceInv, LocksInv
<1>2. \A r \in Refs : \A p \in Poses[FootprintId[r]] : Known(r) => p # NoPose
  BY PosesAre
<1>3. CASE PlaceNext
  <2>1. ASSUME NEW r \in Refs \ fixed, r = Head(order), NEW p \in FreePoses(r),
               state' = Put(state, r, p)
        PROVE  Exact(state')
    <3>1. Known(r) /\ p \in Poses[FootprintId[r]] /\ Cells(p) \cap state.taken = {}
      BY <2>1 DEF FreePoses
    <3>2. state.poses[r] = NoPose
      BY <1>3, <2>1 DEF VisitedOnce, On, PlaceNext
    <3> QED
      BY <1>1, <1>2, <2>1, <3>1, <3>2, ExactPut
  <2> QED
    BY <1>3, <2>1 DEF PlaceNext, Cheapest, Prices
<1>4. ASSUME NEW r \in Found, pc = "search",
             state' \in Translated(r) \cup Rotated(r) \cup Respanned(r)
      PROVE  Exact(state')
  <2>1. PICK p \in Poses[FootprintId[r]] : FreeBut(r, p) /\ state' = MoveTo(state, r, p)
    BY <1>4 DEF Translated, Rotated, Respanned
  <2>2. r \in Refs /\ state.poses[r] # NoPose /\ Known(r)
    BY DEF Found, On
  <2> QED
    BY <1>1, <1>2, <2>1, <2>2, ExactMove DEF FreeBut
<1>5. ASSUME NEW r \in Found, state' \in Swapped(r)
      PROVE  Exact(state')
  BY <1>1, <1>5, ExactSwap DEF Swapped, Twins, Found
<1>6. ASSUME NEW r \in Found, NEW results, Try(results)
      PROVE  pc = "search" /\ (state' \in results \/ state' = state)
  BY <1>6 DEF Try
<1>7. CASE Translate \/ RotatePart \/ Span \/ Swap
  BY <1>4, <1>5, <1>6, <1>7 DEF Translate, RotatePart, Span, Swap
<1>8. CASE UNCHANGED state
  BY <1>8
<1>9. Seed => pc = "seed"
  BY DEF Seed
<1> QED
  BY <1>3, <1>7, <1>8, <1>9 DEF Next, vars, GreedyEnds, SearchEnds, FinishAttempt

-----------------------------------------------------------------------------
(* solve() and optimize() *)

\* A layout of the search: a placement for each reference, wires and links.
IsLayout(l) ==
  /\ l = [placed |-> l.placed, jumpers |-> l.jumpers, links |-> l.links]
  /\ l.placed = [r \in Refs |-> l.placed[r]]

\* optimize() does not place anew, and so far has kept what is locked.
OptimizeInv ==
  /\ job \in Jobs
  /\ job.op = "optimize" =>
       /\ phase \notin {"place", "route", "routed"} /\ IsLayout(layout)
       /\ OptimizeKeepsLocked

\* A flag that was set before the search lets no iteration begin.
StopInv ==
  /\ phase \in {"start", "base"} => iteration = 0
  /\ phase = "iterate" /\ asked \notin {"no", "iterate"} => iteration = 0
  /\ phase \in {"verify", "answered"} =>
       asked \in {"no", "verify"} \/ (asked = "iterate" /\ iteration = MaxIterations)

SolveInv == PlaceInv /\ OptimizeInv /\ StopInv

\* The search has at least one round.
LEMMA AtLeastOneRound ==
  ASSUME job \in Jobs
  PROVE  MaxIterations \in Int /\ MaxIterations >= 1
<1> DEFINE n == job.options.iterations \div 4
<1>1. n \in Int
  BY SolveAssumption, PlacerAssumption
<1> HIDE DEF n
<1>2. \E x \in {1, n} : \A y \in {1, n} : x >= y
  BY <1>1
<1>3. MaxIterations \in {1, n} /\ MaxIterations >= 1
  BY <1>2 DEF MaxIterations, Max, n
<1> QED
  BY <1>1, <1>3

LEMMA IterateKeeps ==
  ASSUME SolveInv, Iterate
  PROVE  SolveInv'
<1>1. UNCHANGED <<vars, job, phase, asked, late, answer>> /\ asked = "no" /\ phase = "iterate"
  BY DEF Iterate, Passes
<1>2. PlaceInv'
  BY <1>1, PlaceStepKeeps DEF SolveInv
<1>3. StopInv'
  BY <1>1 DEF StopInv
<1>4. CASE UNCHANGED layout
  <2>1. OptimizeInv'
    BY <1>1, <1>4 DEF SolveInv, OptimizeInv, OptimizeKeepsLocked
  <2> QED
    BY <1>2, <1>3, <2>1 DEF SolveInv
<1>5. ASSUME NEW r \in Candidates, NEW p,
             layout' = [[layout EXCEPT !.placed[r] = p] EXCEPT
                          !.jumpers = RouteOf([layout EXCEPT !.placed[r] = p]).jumpers]
      PROVE  SolveInv'
  <2> DEFINE moved == [layout EXCEPT !.placed[r] = p]
  <2>1. CASE job.op = "optimize"
    <3>1. IsLayout(layout) /\ OptimizeKeepsLocked
      BY <2>1 DEF SolveInv, OptimizeInv
    <3>2. /\ IsLayout(moved) /\ moved.jumpers = layout.jumpers
          /\ \A q \in Refs \ {r} : moved.placed[q] = layout.placed[q]
      BY <3>1 DEF IsLayout
    <3> HIDE DEF moved
    <3>3. layout' = [moved EXCEPT !.jumpers = RouteOf(moved).jumpers]
      BY <1>5 DEF moved
    <3>4. /\ IsLayout(layout') /\ layout'.placed = moved.placed
          /\ layout'.jumpers = RouteOf(moved).jumpers
      BY <3>2, <3>3 DEF IsLayout
    <3>5. {j \in layout.jumpers : j.locked} \subseteq layout'.jumpers
      BY <3>2, <3>4 DEF RouteOf
    <3>6. DOMAIN job.given \subseteq Refs
      BY SolveAssumption, PlacerAssumption DEF SolveInv, OptimizeInv
    <3>7. OptimizeKeepsLocked'
      BY <1>1, <2>1, <3>1, <3>2, <3>4, <3>5, <3>6 DEF OptimizeKeepsLocked, Candidates
    <3>8. OptimizeInv'
      BY <1>1, <3>4, <3>7 DEF OptimizeInv, SolveInv
    <3> QED
      BY <1>2, <1>3, <3>8 DEF SolveInv
  <2>2. CASE job.op # "optimize"
    BY <1>1, <1>2, <1>3, <2>2 DEF SolveInv, OptimizeInv
  <2> QED
    BY <2>1, <2>2
<1>6. UNCHANGED layout \/
      \E r, p : /\ r \in Candidates
                /\ layout' = [[layout EXCEPT !.placed[r] = p] EXCEPT
                                !.jumpers = RouteOf([layout EXCEPT !.placed[r] = p]).jumpers]
  <2>1. PICK r \in {q \in Candidates : Known(q)} :
          \E t \in FootprintOf(r).turns, s \in FootprintOf(r).spans : \E p \in Proposals(r, t, s) :
            \E moved \in {[layout EXCEPT !.placed[r] = p]} :
              \E route \in {RouteOf(moved)} : \E c \in {RouteCost(route)} :
                IF p # NoPose /\ (PerturbCost(p) - placing) + (c - routing) < 0
                THEN /\ layout' = [moved EXCEPT !.jumpers = route.jumpers]
                     /\ routing' = c /\ placing' = PerturbCost(p)
                ELSE UNCHANGED <<layout, routing, placing>>
    BY DEF Iterate
  <2>2. PICK t \in FootprintOf(r).turns, s \in FootprintOf(r).spans :
          \E p \in Proposals(r, t, s) :
            \E moved \in {[layout EXCEPT !.placed[r] = p]} :
              \E route \in {RouteOf(moved)} : \E c \in {RouteCost(route)} :
                IF p # NoPose /\ (PerturbCost(p) - placing) + (c - routing) < 0
                THEN /\ layout' = [moved EXCEPT !.jumpers = route.jumpers]
                     /\ routing' = c /\ placing' = PerturbCost(p)
                ELSE UNCHANGED <<layout, routing, placing>>
    BY <2>1
  <2>3. PICK p \in Proposals(r, t, s) :
          \/ layout' = [[layout EXCEPT !.placed[r] = p] EXCEPT
                       !.jumpers = RouteOf([layout EXCEPT !.placed[r] = p]).jumpers]
          \/ UNCHANGED layout
    BY <2>2
  <2> QED
    BY <2>1, <2>3
<1> QED
  BY <1>4, <1>5, <1>6

\* A job's steps are steps of the placer or leave it alone.
LEMMA PlacerSteps ==
  ASSUME [SolveNext]_allVars
  PROVE  [Next]_vars
BY DEF SolveNext, BeginSolve, PlaceStep, PlaceDone, Route, RouteDone, Verify, BeginOptimize,
   RouteBase, Iterate, IterationsOver, Stop, Ask, Expire, allVars

LEMMA SolveStepKeeps ==
  ASSUME SolveInv, [SolveNext]_allVars
  PROVE  SolveInv'
<1>1. PlaceInv'
  BY PlacerSteps, PlaceStepKeeps DEF SolveInv
<1>2. CASE BeginSolve \/ PlaceStep \/ PlaceDone \/ Route \/ RouteDone \/ Verify
  <2>1. OptimizeInv'
    BY <1>2 DEF SolveInv, OptimizeInv, OptimizeKeepsLocked, solveVars, BeginSolve, PlaceStep,
       PlaceDone, Route, RouteDone, Verify
  <2>2. StopInv'
    BY <1>2 DEF SolveInv, StopInv, MaxIterations, Passes, solveVars, BeginSolve, PlaceStep,
       PlaceDone, Route, RouteDone, Verify
  <2> QED
    BY <1>1, <2>1, <2>2 DEF SolveInv
<1>3. CASE BeginOptimize \/ RouteBase \/ IterationsOver
  <2>1. OptimizeInv'
    BY <1>3 DEF SolveInv, OptimizeInv, OptimizeKeepsLocked, BeginOptimize, RouteBase,
       IterationsOver
  <2>2. CASE IterationsOver
    <3>1. iteration = MaxIterations => iteration # 0
      BY AtLeastOneRound DEF SolveInv, OptimizeInv
    <3>2. StopInv'
      BY <2>2, <3>1 DEF SolveInv, StopInv, Passes, IterationsOver, MaxIterations
    <3> QED
      BY <1>1, <2>1, <3>2 DEF SolveInv
  <2>3. CASE BeginOptimize \/ RouteBase
    BY <1>1, <2>1, <2>3 DEF SolveInv, StopInv, BeginOptimize, RouteBase
  <2> QED
    BY <1>3, <2>2, <2>3
<1>4. CASE Stop \/ Ask \/ Expire
  <2>1. OptimizeInv'
    BY <1>4 DEF SolveInv, OptimizeInv, OptimizeKeepsLocked, Stop, Ask, Expire
  <2>2. StopInv'
    BY <1>4 DEF SolveInv, StopInv, MaxIterations, Over, Stop, Ask, Expire
  <2> QED
    BY <1>1, <2>1, <2>2 DEF SolveInv
<1>5. CASE UNCHANGED allVars
  BY <1>1, <1>5 DEF SolveInv, OptimizeInv, OptimizeKeepsLocked, StopInv, MaxIterations, allVars,
     solveVars
<1> QED
  BY <1>2, <1>3, <1>4, <1>5, IterateKeeps DEF SolveNext

LEMMA SolveInitKeeps ==
  ASSUME SolveInit
  PROVE  SolveInv
<1>1. PlaceInv
  BY PlaceInitKeeps DEF SolveInit
<1>2. DOMAIN job.given \subseteq Refs
  BY SolveAssumption, PlacerAssumption DEF SolveInit
<1>3. OptimizeInv
  BY <1>2 DEF SolveInit, OptimizeInv, IsLayout, OnRefs, OptimizeKeepsLocked
<1>4. StopInv
  BY DEF SolveInit, StopInv
<1> QED
  BY <1>1, <1>3, <1>4 DEF SolveInv

-----------------------------------------------------------------------------
(* What the verdict says of any layout *)

\* A schematic has finitely many nets, too.
LEMMA NetsFinite == IsFiniteSet(AllNets)
<1> DEFINE n == Len(Nets)
<1>1. n \in Nat /\ DOMAIN Nets = 1..n /\ Nets = [i \in 1..n |-> Nets[i]]
  BY PosesAssumption
<1>2. Nets \in Surjection(1..n, AllNets)
  BY <1>1 DEF Surjection, AllNets
<1>3. IsFiniteSet(1..n)
  <2>1. 1 \in Int /\ n \in Int
    BY <1>1
  <2> HIDE DEF n
  <2> QED
    BY <2>1, FS_Interval, Zenon
<1> QED
  BY <1>2, <1>3, FS_Surjection

\* What is counted at most once is one.
LEMMA AtMostOne ==
  ASSUME NEW S, IsFiniteSet(S), ~(Cardinality(S) > 1), NEW x \in S, NEW y \in S
  PROVE  x = y
<1>1. SUFFICES ASSUME x # y PROVE FALSE
  OBVIOUS
<1>2. {x, y} \in SUBSET S
  OBVIOUS
<1>3. Cardinality({x, y}) = 2
  <2>1. IsFiniteSet({x}) /\ Cardinality({x}) = 1
    BY FS_Singleton
  <2>2. Cardinality({x} \cup {y}) = 2
    BY <1>1, <2>1, FS_AddElement
  <2>3. {x} \cup {y} = {x, y}
    OBVIOUS
  <2> QED
    BY <2>2, <2>3
<1>4. Cardinality({x, y}) <= Cardinality(S)
  BY <1>2, FS_Subset
<1>5. Cardinality(S) \in Nat
  BY FS_CardinalityType
<1> QED
  BY <1>3, <1>4, <1>5

\* Layouts of which the verdict tells all: pins that have no hole are not missed by it, and
\* links to holes that the board does not have are ignored.
Sound(l) ==
  /\ l.links \subseteq SUBSET AllHoles
  /\ \A r \in PlacedRefs(l) : HasAllPins(r, l.placed[r])

\* What the absence of errors says of a layout.
LEMMA NoErrors ==
  ASSUME NEW l, Errors(Diagnostics(l)) = {}
  PROVE  /\ \A r \in Refs : Known(r)
         /\ \A n \in AllNets : \A x \in Pins(n) : KnownPin(x)
         /\ \A r \in PlacedRefs(l) : \A q \in DOMAIN l.placed[r].pins : l.placed[r].pins[q] \in AllHoles
         /\ \A h \in AllHoles : ~(Cardinality(Claimants(h, l)) > 1)
         /\ \A j \in l.jumpers : Ends(j) \subseteq AllHoles
         /\ \A c \in NodesIn(l) : ~(Cardinality({n \in AllNets : c \in Roots(n, l, NodesIn(l))}) > 1)
         /\ \A n \in AllNets :
              ~(Cardinality(Entries(n, l)) >= 2 /\ Cardinality(Roots(n, l, NodesIn(l))) > 1)
<1> DEFINE nodes == NodesIn(l)
<1>1. \A f \in InputFaults \cup PlacementFaults(l) \cup JumperFaults(l) \cup NetFaults(l, nodes) :
        f[1] \in Warnings
  BY DEF Errors, Diagnostics
<1>2. \A r \in Refs : Known(r)
  <2>1. ASSUME NEW r \in Refs, ~Known(r) PROVE FALSE
    <3>1. <<"UNKNOWN_FOOTPRINT", FootprintId[r]>> \in InputFaults
      BY <2>1 DEF InputFaults
    <3> QED
      BY <1>1, <3>1 DEF Warnings
  <2> QED
    BY <2>1
<1>3. \A n \in AllNets : \A x \in Pins(n) : KnownPin(x)
  <2>1. ASSUME NEW n \in AllNets, NEW x \in Pins(n), ~KnownPin(x) PROVE FALSE
    <3> DEFINE In(m) == {<<"UNKNOWN_PIN_REFERENCE", m, y>> : y \in {z \in Pins(m) : ~KnownPin(z)}}
    <3>0. UNION {In(m) : m \in AllNets} \subseteq InputFaults
      BY DEF InputFaults
    <3>1. <<"UNKNOWN_PIN_REFERENCE", n, x>> \in InputFaults
      <4>1. <<"UNKNOWN_PIN_REFERENCE", n, x>> \in In(n)
        BY <2>1
      <4> HIDE DEF In
      <4> QED
        BY <3>0, <4>1
    <3> QED
      BY <1>1, <3>1 DEF Warnings
  <2> QED
    BY <2>1
<1>4. \A r \in PlacedRefs(l) : \A q \in DOMAIN l.placed[r].pins : l.placed[r].pins[q] \in AllHoles
  <2>1. ASSUME NEW r \in PlacedRefs(l), NEW q \in DOMAIN l.placed[r].pins,
               l.placed[r].pins[q] \notin AllHoles
        PROVE  FALSE
    <3> DEFINE In(s) == {<<"PIN_OUT_OF_BOARD", s, y>> : y \in {x \in DOMAIN l.placed[s].pins :
                           l.placed[s].pins[x] \notin AllHoles \ Disabled}}
    <3>0. UNION {In(s) : s \in PlacedRefs(l)} \subseteq PlacementFaults(l)
      BY DEF PlacementFaults
    <3>1. <<"PIN_OUT_OF_BOARD", r, q>> \in PlacementFaults(l)
      <4>1. <<"PIN_OUT_OF_BOARD", r, q>> \in In(r)
        BY <2>1
      <4> HIDE DEF In
      <4> QED
        BY <3>0, <4>1
    <3> QED
      BY <1>1, <3>1 DEF Warnings
  <2> QED
    BY <2>1
<1>5. \A h \in AllHoles : ~(Cardinality(Claimants(h, l)) > 1)
  <2>1. ASSUME NEW h \in AllHoles, Cardinality(Claimants(h, l)) > 1 PROVE FALSE
    <3>1. <<"HOLE_COLLISION", h>> \in PlacementFaults(l)
      BY <2>1 DEF PlacementFaults
    <3> QED
      BY <1>1, <3>1 DEF Warnings
  <2> QED
    BY <2>1
<1>6. \A j \in l.jumpers : Ends(j) \subseteq AllHoles
  <2>1. ASSUME NEW j \in l.jumpers, NEW h \in Ends(j), h \notin AllHoles PROVE FALSE
    <3>1. <<"INVALID_JUMPER_ENDPOINT", j, h>> \in JumperFaults(l)
      BY <2>1 DEF JumperFaults
    <3> QED
      BY <1>1, <3>1 DEF Warnings
  <2> QED
    BY <2>1
<1>7. \A c \in nodes : ~(Cardinality({n \in AllNets : c \in Roots(n, l, nodes)}) > 1)
  <2>1. ASSUME NEW c \in nodes, Cardinality({n \in AllNets : c \in Roots(n, l, nodes)}) > 1
        PROVE  FALSE
    <3>1. <<"SHORT_BETWEEN_NETS", c>> \in NetFaults(l, nodes)
      BY <2>1 DEF NetFaults
    <3> QED
      BY <1>1, <3>1 DEF Warnings
  <2> QED
    BY <2>1
<1>8. \A n \in AllNets : ~(Cardinality(Entries(n, l)) >= 2 /\ Cardinality(Roots(n, l, nodes)) > 1)
  <2>1. ASSUME NEW n \in AllNets, Cardinality(Entries(n, l)) >= 2,
               Cardinality(Roots(n, l, nodes)) > 1
        PROVE  FALSE
    <3>1. <<"NET_OPEN", n>> \in NetFaults(l, nodes)
      BY <2>1 DEF NetFaults
    <3> QED
      BY <1>1, <3>1 DEF Warnings
  <2> QED
    BY <2>1
<1> QED
  BY <1>2, <1>3, <1>4, <1>5, <1>6, <1>7, <1>8

\* A pin that has a net is listed in it, under a part of the schematic.
LEMMA NetOfPinListed ==
  ASSUME NEW x \in DOMAIN NetOfPin
  PROVE  /\ NetOfPin[x] \in AllNets /\ x \in Pins(NetOfPin[x])
         /\ x[1] \in Refs /\ x = <<x[1], x[2]>>
<1> DEFINE naming == {i \in DOMAIN Nets : x \in Pins(Nets[i])}
<1>1. naming # {} /\ naming \subseteq Nat
  BY PosesAssumption DEF NetOfPin
<1>2. PICK i \in naming : \A j \in naming : i <= j
  BY <1>1, LeastNumber
<1>3. Min(naming) \in naming
  BY <1>2 DEF Min
<1>4. NetOfPin[x] = Nets[Min(naming)]
  BY DEF NetOfPin
<1> HIDE DEF naming
<1>5. PICK j \in DOMAIN Nets : NetOfPin[x] = Nets[j] /\ x \in Pins(Nets[j])
  BY <1>3, <1>4 DEF naming
<1>6. x \in Refs \X STRING
  BY <1>5, PosesAssumption DEF Pins
<1> QED
  BY <1>5, <1>6 DEF AllNets

\* The pins of a net are finitely many.
LEMMA PinsFinite ==
  ASSUME NEW n \in AllNets
  PROVE  IsFiniteSet(Pins(n))
<1> DEFINE s == Net[n].pins
           k == Len(s)
<1>1. s \in Seq(Refs \X STRING)
  BY PosesAssumption DEF AllNets
<1>2. k \in Nat /\ DOMAIN s = 1..k /\ s = [i \in 1..k |-> s[i]]
  BY <1>1
<1>3. s \in Surjection(1..k, Pins(n))
  BY <1>2 DEF Surjection, Pins
<1>4. IsFiniteSet(1..k)
  <2>1. 1 \in Int /\ k \in Int
    BY <1>2
  <2> HIDE DEF k
  <2> QED
    BY <2>1, FS_Interval, Zenon
<1> QED
  BY <1>3, <1>4, FS_Surjection

\* The instance of the wiring that the verdict looks at is the one that the lemmas on
\* connectivity are about.
LEMMA SameNodes == \A l : NodesIn(l) = WiringProofs!Nodes(Links(l))
BY DEF NodesIn, WiringProofs!Nodes, Wiring!Nodes, WiringProofs!Strips, Wiring!Strips,
   WiringProofs!Join, Wiring!Join, WiringProofs!Merge, Wiring!Merge, WiringProofs!FoldSet,
   Wiring!FoldSet, WiringProofs!MapThenFoldSet, Wiring!MapThenFoldSet

LEMMA NodesOfHoles ==
  ASSUME NEW l, IsFiniteSet(Links(l))
  PROVE  NodesIn(l) \subseteq SUBSET AllHoles
<1>1. WiringProofs!IsFiniteSet(Links(l))
  BY DEF WiringProofs!IsFiniteSet, IsFiniteSet
<1> QED
  BY <1>1, SameNodes, WiringBoard, WiringProofs!NodesOnBoard

LEMMA NodesAreWiring ==
  ASSUME NEW l, Links(l) \in SUBSET SUBSET AllHoles
  PROVE  /\ WiringProofs!Partition(NodesIn(l))
         /\ NodesIn(l) = Wiring!ReachableNodes(Links(l))
<1>1. Wiring!ReachableNodes(Links(l)) = WiringProofs!ReachableNodes(Links(l))
  BY DEF Wiring!ReachableNodes, WiringProofs!ReachableNodes, Wiring!Reachable, Wiring!Grow,
     WiringProofs!Reachable, WiringProofs!Grow, Wiring!Cardinality, WiringProofs!Cardinality
<1> QED
  BY <1>1, SameNodes, WiringBoard, WiringProofs!NodesFinest, WiringProofs!NodesReachable

\* What a function makes of the elements of a finite set.
LEMMA ImageFinite ==
  ASSUME NEW f, NEW S, IsFiniteSet(S), DOMAIN f \subseteq S
  PROVE  IsFiniteSet({f[x] : x \in DOMAIN f})
<1> DEFINE g == [x \in DOMAIN f |-> f[x]]
<1>1. IsFiniteSet(DOMAIN f)
  BY FS_Subset
<1>2. g \in Surjection(DOMAIN f, {f[x] : x \in DOMAIN f})
  BY DEF Surjection
<1> QED
  BY <1>1, <1>2, FS_Surjection

LEMMA UnionFinite ==
  ASSUME NEW f, NEW S, IsFiniteSet(S), DOMAIN f \subseteq S, \A x \in DOMAIN f : IsFiniteSet(f[x])
  PROVE  IsFiniteSet(UNION {f[x] : x \in DOMAIN f})
<1> DEFINE fs == {f[x] : x \in DOMAIN f}
<1>1. IsFiniteSet(fs) /\ \A x \in fs : IsFiniteSet(x)
  BY ImageFinite
<1>2. IsFiniteSet(UNION fs)
  <2> HIDE DEF fs
  <2> QED
    BY <1>1, FS_UNION
<1> QED
  BY <1>2

\* A layout that is stored and sent: its wires, links and pins can be counted.
Countable(l) ==
  /\ IsFiniteSet(l.jumpers) /\ IsFiniteSet(l.links)
  /\ \A r \in PlacedRefs(l) : IsFiniteSet(DOMAIN l.placed[r].pins)

LEMMA LinksFinite ==
  ASSUME NEW l, Countable(l)
  PROVE  IsFiniteSet(Links(l))
<1> DEFINE Joined(r) == {x \in JoinedPins[FootprintId[r]] : x \subseteq DOMAIN l.placed[r].pins}
           holes(r) == [pair \in Joined(r) |-> {l.placed[r].pins[q] : q \in pair}]
           ends == [j \in l.jumpers |-> Ends(j)]
           insides == [r \in {s \in PlacedRefs(l) : Known(s)} |-> {holes(r)[pair] : pair \in DOMAIN holes(r)}]
           A == {ends[j] : j \in DOMAIN ends}
           B == UNION {insides[r] : r \in DOMAIN insides}
<1>1. Links(l) = (A \cup l.links) \cup B
  <2>1. A = {Ends(j) : j \in l.jumpers}
    OBVIOUS
  <2>2. B = UNION {{{l.placed[r].pins[q] : q \in pair} : pair \in
                     {x \in JoinedPins[FootprintId[r]] : x \subseteq DOMAIN l.placed[r].pins}} :
                  r \in {s \in PlacedRefs(l) : Known(s)}}
    <3> DEFINE rs == {s \in PlacedRefs(l) : Known(s)}
               Inside(r) == {{l.placed[r].pins[q] : q \in pair} : pair \in Joined(r)}
    <3>1. DOMAIN insides = rs /\ \A r \in rs : insides[r] = Inside(r)
      OBVIOUS
    <3>2. B = UNION {Inside(r) : r \in rs}
      <4> HIDE DEF insides, rs, Inside
      <4> QED
        BY <3>1
    <3> QED
      BY <3>2
  <2> HIDE DEF A, B
  <2> QED
    BY <2>1, <2>2 DEF Links
<1>2. \A r \in DOMAIN insides : IsFiniteSet(insides[r])
  <2> TAKE r \in DOMAIN insides
  <2>1. Joined(r) \subseteq SUBSET DOMAIN l.placed[r].pins /\ IsFiniteSet(SUBSET DOMAIN l.placed[r].pins)
    BY FS_SUBSET DEF Countable
  <2>2. DOMAIN holes(r) \subseteq SUBSET DOMAIN l.placed[r].pins
    BY <2>1
  <2>3. insides[r] = {holes(r)[pair] : pair \in DOMAIN holes(r)}
    OBVIOUS
  <2> HIDE DEF insides, holes
  <2> QED
    BY <2>1, <2>2, <2>3, ImageFinite
<1>3. DOMAIN ends \subseteq l.jumpers /\ DOMAIN insides \subseteq Refs
  BY DEF PlacedRefs
<1> HIDE DEF ends, insides
<1>4. IsFiniteSet(A) /\ IsFiniteSet(B)
  BY <1>2, <1>3, RefsFinite, ImageFinite, UnionFinite DEF Countable
<1> HIDE DEF A, B
<1> QED
  BY <1>1, <1>4, FS_Union DEF Countable

LEMMA EndsFinite == \A j : IsFiniteSet(Ends(j))
<1> TAKE j
<1>1. IsFiniteSet({j.from} \cup {j.to}) /\ {j.from} \cup {j.to} = Ends(j)
  BY FS_Singleton, FS_Union DEF Ends
<1> QED
  BY <1>1

\* The pins that have a net are finitely many.
LEMMA NetOfPinFinite == IsFiniteSet(DOMAIN NetOfPin)
<1> DEFINE pins == [n \in AllNets |-> Pins(n)]
<1>1. IsFiniteSet(UNION {pins[n] : n \in DOMAIN pins})
  <2>1. DOMAIN pins = AllNets /\ \A n \in AllNets : IsFiniteSet(pins[n])
    BY PinsFinite
  <2> HIDE DEF pins
  <2> QED
    BY <2>1, NetsFinite, UnionFinite
<1>2. DOMAIN NetOfPin \subseteq UNION {pins[n] : n \in DOMAIN pins}
  BY NetOfPinListed
<1> QED
  BY <1>1, <1>2, FS_Subset

\* The errors of such a layout can be counted.
LEMMA ErrorsFinite ==
  ASSUME NEW l, Countable(l)
  PROVE  IsFiniteSet(Errors(Diagnostics(l)))
<1> DEFINE nodes == NodesIn(l)
           unknown == [r \in {q \in Refs : ~Known(q)} |-> <<"UNKNOWN_FOOTPRINT", FootprintId[r]>>]
           missing(n) == [x \in {y \in Pins(n) : ~KnownPin(y)} |-> <<"UNKNOWN_PIN_REFERENCE", n, x>>]
           missed == [n \in AllNets |-> {missing(n)[x] : x \in DOMAIN missing(n)}]
           shared == [x \in {y \in DOMAIN NetOfPin :
                        KnownPin(y) /\ Cardinality({n \in AllNets : y \in Pins(n)}) > 1} |->
                        <<"PIN_IN_MULTIPLE_NETS", x>>]
           out(r) == [q \in {x \in DOMAIN l.placed[r].pins : l.placed[r].pins[x] \notin AllHoles \ Disabled} |->
                        <<"PIN_OUT_OF_BOARD", r, q>>]
           outs == [r \in PlacedRefs(l) |-> {out(r)[q] : q \in DOMAIN out(r)}]
           rule == [r \in {q \in PlacedRefs(l) :
                     Known(q) /\ FootprintOf(q).straddles /\ ~PinsStraddle(l.placed[q])} |->
                     <<"PLACEMENT_RULE_VIOLATION", r>>]
           hit == [h \in {g \in AllHoles : Cardinality(Claimants(g, l)) > 1} |-> <<"HOLE_COLLISION", h>>]
           invalid(j) == [h \in {e \in Ends(j) : e \notin AllHoles \ Disabled \/ BodyOnly(e, l)} |->
                           <<"INVALID_JUMPER_ENDPOINT", j, h>>]
           invalids == [j \in l.jumpers |-> {invalid(j)[h] : h \in DOMAIN invalid(j)}]
           short == [c \in {d \in nodes : Cardinality({n \in AllNets : d \in Roots(n, l, nodes)}) > 1} |->
                      <<"SHORT_BETWEEN_NETS", c>>]
           open == [n \in {m \in AllNets :
                     Cardinality(Entries(m, l)) >= 2 /\ Cardinality(Roots(m, l, nodes)) > 1} |->
                     <<"NET_OPEN", n>>]
           ImageOf(f) == {f[x] : x \in DOMAIN f}
           A == ImageOf(unknown)
           B == UNION ImageOf(missed)
           C == ImageOf(shared)
           D == UNION ImageOf(outs)
           E == ImageOf(rule)
           F == ImageOf(hit)
           G == UNION ImageOf(invalids)
           H == ImageOf(short)
           I == ImageOf(open)
<1>1. Errors(InputFaults) \subseteq A \cup B \cup C
  <2> DEFINE A0 == {<<"UNKNOWN_FOOTPRINT", FootprintId[r]>> : r \in {q \in Refs : ~Known(q)}}
             S == {<<"NET_SINGLE_PIN", n>> : n \in {m \in AllNets :
                    /\ Len(Net[m].pins) < 2
                    /\ ~(Len(Net[m].pins) = 1 /\ DOMAIN RailLine # {} /\ RailBacked(m))}}
             In(n) == {<<"UNKNOWN_PIN_REFERENCE", n, x>> : x \in {y \in Pins(n) : ~KnownPin(y)}}
             M == UNION {In(n) : n \in AllNets}
             C0 == {<<"PIN_IN_MULTIPLE_NETS", x>> : x \in {y \in DOMAIN NetOfPin :
                     KnownPin(y) /\ Cardinality({n \in AllNets : y \in Pins(n)}) > 1}}
  <2>1. InputFaults = A0 \cup S \cup M \cup C0
    BY DEF InputFaults
  <2>2. A = A0 /\ C = C0
    OBVIOUS
  <2>3. M = B
    <3>1. DOMAIN missed = AllNets /\ \A n \in AllNets : missed[n] = In(n)
      OBVIOUS
    <3> HIDE DEF missed, In
    <3> QED
      BY <3>1
  <2>4. \A f \in S : f[1] = "NET_SINGLE_PIN"
    OBVIOUS
  <2> HIDE DEF A, B, C, A0, C0, M, S
  <2> QED
    BY <2>1, <2>2, <2>3, <2>4 DEF Errors, Warnings
<1>2. PlacementFaults(l) \subseteq D \cup E \cup F
  BY DEF PlacementFaults
<1>3. JumperFaults(l) \subseteq G
  BY DEF JumperFaults
<1>4. NetFaults(l, nodes) \subseteq H \cup I
  BY DEF NetFaults
<1>5. Errors(Diagnostics(l)) \subseteq Errors(InputFaults) \cup PlacementFaults(l) \cup JumperFaults(l)
                                     \cup NetFaults(l, nodes)
  BY DEF Errors, Diagnostics, RailFaults, ClassFaults, CongestionFaults, Warnings
<1>5a. /\ DOMAIN unknown \subseteq Refs /\ DOMAIN rule \subseteq Refs /\ DOMAIN open \subseteq AllNets
       /\ DOMAIN hit \subseteq AllHoles /\ DOMAIN short \subseteq nodes
       /\ DOMAIN shared \subseteq DOMAIN NetOfPin
  BY DEF PlacedRefs
<1>6. \A n \in AllNets : DOMAIN missing(n) \subseteq Pins(n)
  OBVIOUS
<1>7. \A j \in l.jumpers : DOMAIN invalid(j) \subseteq Ends(j)
  OBVIOUS
<1>8. \A r \in PlacedRefs(l) : DOMAIN out(r) \subseteq DOMAIN l.placed[r].pins
  OBVIOUS
<1> HIDE DEF unknown, missing, shared, out, rule, hit, invalid, short, open
<1>9. \A n \in AllNets : IsFiniteSet({missing(n)[x] : x \in DOMAIN missing(n)})
  BY <1>6, PinsFinite, ImageFinite
<1>10. \A j \in l.jumpers : IsFiniteSet({invalid(j)[h] : h \in DOMAIN invalid(j)})
  BY <1>7, EndsFinite, ImageFinite
<1>11. \A r \in PlacedRefs(l) : IsFiniteSet({out(r)[q] : q \in DOMAIN out(r)})
  BY <1>8, ImageFinite DEF Countable
<1>12. /\ DOMAIN missed = AllNets /\ \A n \in AllNets : IsFiniteSet(missed[n])
       /\ DOMAIN invalids = l.jumpers /\ \A j \in l.jumpers : IsFiniteSet(invalids[j])
       /\ DOMAIN outs = PlacedRefs(l) /\ \A r \in PlacedRefs(l) : IsFiniteSet(outs[r])
  BY <1>9, <1>10, <1>11
<1> HIDE DEF missed, invalids, outs
<1>13. IsFiniteSet(B) /\ IsFiniteSet(D) /\ IsFiniteSet(G)
  <2>1. PlacedRefs(l) \subseteq Refs
    BY DEF PlacedRefs
  <2>2. IsFiniteSet(UNION {missed[n] : n \in DOMAIN missed})
    BY <1>12, NetsFinite, UnionFinite
  <2>3. IsFiniteSet(UNION {outs[r] : r \in DOMAIN outs})
    BY <1>12, <2>1, RefsFinite, UnionFinite
  <2>4. IsFiniteSet(UNION {invalids[j] : j \in DOMAIN invalids})
    BY <1>12, UnionFinite DEF Countable
  <2> QED
    BY <2>2, <2>3, <2>4
<1>14. IsFiniteSet(nodes)
  <2>1. nodes \subseteq SUBSET AllHoles
    BY LinksFinite, NodesOfHoles
  <2> QED
    BY <2>1, HolesFinite, FS_SUBSET, FS_Subset
<1>15. IsFiniteSet(A) /\ IsFiniteSet(C) /\ IsFiniteSet(E) /\ IsFiniteSet(F) /\ IsFiniteSet(H) /\ IsFiniteSet(I)
  <2> HIDE DEF nodes
  <2> QED
    BY <1>5a, <1>14, RefsFinite, NetsFinite, HolesFinite, NetOfPinFinite, ImageFinite
<1> HIDE DEF A, B, C, D, E, F, G, H, I, nodes
<1>16. IsFiniteSet(A \cup B \cup C \cup (D \cup E \cup F) \cup G \cup (H \cup I))
  BY <1>13, <1>15, FS_Union
<1>17. Errors(Diagnostics(l)) \subseteq A \cup B \cup C \cup (D \cup E \cup F) \cup G \cup (H \cup I)
  BY <1>1, <1>2, <1>3, <1>4, <1>5
<1> QED
  BY <1>16, <1>17, FS_Subset

\* A layout of all parts without an error is the circuit.
LEMMA FaultlessBuilds ==
  ASSUME NEW l, Sound(l), PlacedRefs(l) = Refs, Errors(Diagnostics(l)) = {}
  PROVE  Builds(l)
<1> DEFINE nodes == NodesIn(l)
           all == UNION {{<<r, q>> : q \in DOMAIN l.placed[r].pins} : r \in PlacedRefs(l)}
           One(x, y) == \E c \in nodes : {HoleOf(x, l), HoleOf(y, l)} \subseteq c
<1>1. \A x : x \in all <=> \E r \in PlacedRefs(l) : \E q \in DOMAIN l.placed[r].pins : x = <<r, q>>
  OBVIOUS
<1> HIDE DEF all
<1>2. \A x \in all : /\ x[1] \in PlacedRefs(l) /\ x[2] \in DOMAIN l.placed[x[1]].pins
                     /\ HoleOf(x, l) \in AllHoles
  BY <1>1, NoErrors DEF HoleOf
<1>3. Links(l) \in SUBSET SUBSET AllHoles
  <2>1. \A j \in l.jumpers : Ends(j) \in SUBSET AllHoles
    BY NoErrors
  <2>2. l.links \subseteq SUBSET AllHoles
    BY DEF Sound
  <2>3. ASSUME NEW r \in PlacedRefs(l), NEW pair \in SUBSET DOMAIN l.placed[r].pins
        PROVE  {l.placed[r].pins[q] : q \in pair} \in SUBSET AllHoles
    BY NoErrors
  <2> QED
    BY <2>1, <2>2, <2>3 DEF Links
<1>4. WiringProofs!Partition(nodes) /\ nodes = Wiring!ReachableNodes(Links(l))
  BY <1>3, NodesAreWiring
<1> HIDE DEF nodes
<1>5. IsFiniteSet(nodes)
  <2>1. nodes \subseteq SUBSET AllHoles
    BY <1>4 DEF WiringProofs!Partition
  <2> QED
    BY <2>1, HolesFinite, FS_SUBSET, FS_Subset
<1>6. \A x, y \in all : HoleOf(x, l) = HoleOf(y, l) => x = y \/ x[1] = y[1]
  <2> SUFFICES ASSUME NEW x \in all, NEW y \in all, HoleOf(x, l) = HoleOf(y, l)
               PROVE  x[1] = y[1]
    OBVIOUS
  <2> DEFINE h == HoleOf(x, l)
  <2>1. h \in AllHoles
    BY <1>2
  <2>2. x[1] \in Claimants(h, l) /\ y[1] \in Claimants(h, l)
    BY <1>2 DEF Claimants, Claims, HoleOf
  <2>3. IsFiniteSet(Claimants(h, l))
    BY RefsFinite, FS_Subset DEF Claimants, PlacedRefs
  <2>4. ~(Cardinality(Claimants(h, l)) > 1)
    BY <2>1, NoErrors
  <2> HIDE DEF h
  <2> QED
    BY <2>2, <2>3, <2>4, AtMostOne
<1>7. \A x \in DOMAIN NetOfPin : x \in all => x \in Entries(NetOfPin[x], l)
  BY <1>2, NetOfPinListed DEF Entries, HoleOf
<1>8. ASSUME NEW x \in DOMAIN NetOfPin, NEW y \in DOMAIN NetOfPin, {x, y} \subseteq all,
             NetOfPin[x] = NetOfPin[y]
      PROVE  One(x, y)
  <2> DEFINE n == NetOfPin[x]
  <2>1. n \in AllNets /\ x \in Entries(n, l) /\ y \in Entries(n, l)
    BY <1>7, <1>8, NetOfPinListed
  <2>2. PICK c \in nodes : HoleOf(x, l) \in c
    BY <1>2, <1>4, <1>8 DEF WiringProofs!Partition
  <2>3. PICK d \in nodes : HoleOf(y, l) \in d
    BY <1>2, <1>4, <1>8 DEF WiringProofs!Partition
  <2> HIDE DEF n
  <2>4. CASE x = y
    BY <2>2, <2>4
  <2>5. CASE x # y
    <3>1. IsFiniteSet(Entries(n, l))
      BY <2>1, PinsFinite, FS_Subset DEF Entries
    <3>2. Cardinality(Entries(n, l)) > 1
      BY <2>1, <2>5, <3>1, AtMostOne
    <3>3. Cardinality(Entries(n, l)) >= 2
      BY <3>1, <3>2, FS_CardinalityType
    <3>4. ~(Cardinality(Roots(n, l, nodes)) > 1)
      BY <2>1, <3>3, NoErrors DEF nodes
    <3>5. c \in Roots(n, l, nodes) /\ d \in Roots(n, l, nodes)
      BY <2>1, <2>2, <2>3 DEF Roots, EntryHoles
    <3>6. IsFiniteSet(Roots(n, l, nodes))
      BY <1>5, FS_Subset DEF Roots
    <3>7. c = d
      BY <3>4, <3>5, <3>6, AtMostOne
    <3> QED
      BY <2>2, <2>3, <3>7
  <2> QED
    BY <2>4, <2>5
<1>9. ASSUME NEW x \in DOMAIN NetOfPin, NEW y \in DOMAIN NetOfPin, {x, y} \subseteq all, One(x, y)
      PROVE  NetOfPin[x] = NetOfPin[y]
  <2>1. PICK c \in nodes : HoleOf(x, l) \in c /\ HoleOf(y, l) \in c
    BY <1>9
  <2> DEFINE There == {n \in AllNets : c \in Roots(n, l, nodes)}
  <2>2. NetOfPin[x] \in There /\ NetOfPin[y] \in There
    BY <1>7, <1>9, <2>1, NetOfPinListed DEF Roots, EntryHoles
  <2>3. IsFiniteSet(There)
    BY NetsFinite, FS_Subset
  <2>4. ~(Cardinality(There) > 1)
    BY NoErrors DEF nodes
  <2> HIDE DEF There
  <2> QED
    BY <2>2, <2>3, <2>4, AtMostOne
<1>10. DOMAIN NetOfPin \subseteq all
  <2> SUFFICES ASSUME NEW x \in DOMAIN NetOfPin PROVE x \in all
    OBVIOUS
  <2>1. x[1] \in Refs /\ x = <<x[1], x[2]>> /\ KnownPin(x) /\ Known(x[1])
    BY NetOfPinListed, NoErrors
  <2>2. x[2] \in DOMAIN FootprintOf(x[1]).pins
    BY <2>1, ValidatorAssumption DEF KnownPin
  <2>3. x[2] \in DOMAIN l.placed[x[1]].pins
    BY <2>1, <2>2 DEF Sound, HasAllPins
  <2> QED
    BY <1>1, <2>1, <2>3
<1> QED
  BY <1>4, <1>6, <1>8, <1>9, <1>10 DEF Builds, all

-----------------------------------------------------------------------------
(* Every pin of a placed part has a hole *)

\* A placement of a part, and a pose: a hole for every pin of its footprint.
Pinned(r, p) == HasAllPins(r, p) /\ IsFiniteSet(DOMAIN p.pins)
PinnedPose(r, p) == "pins" \in DOMAIN p /\ Pinned(r, p)

AllPinned(s) ==
  /\ IsState(s)
  /\ \A r \in Refs : /\ s.poses[r] # NoPose => PinnedPose(r, s.poses[r])
                     /\ s.placed[r] # NoPose => Pinned(r, s.placed[r])

LEMMA OffsetsOfPins ==
  ASSUME NEW f \in DOMAIN Footprint, NEW span \in Footprint[f].spans
  PROVE  /\ DOMAIN PinOffsets(Footprint[f], span) = DOMAIN Footprint[f].pins
         /\ DOMAIN TripleOffsets(Footprint[f], span) = DOMAIN Footprint[f].pins
         /\ IsFiniteSet(DOMAIN Footprint[f].pins)
<1>1. FootprintType(Footprint[f])
  BY PosesAssumption
<1>2. CASE span = NoSpan
  BY <1>1, <1>2 DEF PinOffsets, TripleOffsets, FootprintType
<1>3. CASE span # NoSpan
  <2>1. DOMAIN Footprint[f].pins = {"1", "2"} /\ Footprint[f].spans # {NoSpan}
    BY <1>1, <1>3 DEF FootprintType
  <2> QED
    BY <1>1, <1>3, <2>1 DEF Leads, PinOffsets, TripleOffsets, FootprintType
<1> QED
  BY <1>2, <1>3

LEMMA PosesPinned ==
  ASSUME NEW r \in Refs, Known(r), NEW p \in Poses[FootprintId[r]]
  PROVE  PinnedPose(r, p)
<1> DEFINE f == FootprintId[r]
<1>1. f \in DOMAIN Footprint /\ FootprintOf(r) = Footprint[f]
  BY DEF Known, FootprintOf
<1>2. PICK h \in Holes, t \in Footprint[f].turns, s \in Footprint[f].spans :
        p = PoseAt(Footprint[f], h, t, s)
  <2>1. p \in PosesOf(Footprint[f])
    BY <1>1 DEF Poses
  <2> QED
    BY <2>1 DEF PosesOf
<1>3. "pins" \in DOMAIN p /\ DOMAIN p.pins = DOMAIN PinOffsets(Footprint[f], s)
  BY <1>2 DEF PoseAt
<1> QED
  BY <1>1, <1>3, OffsetsOfPins DEF PinnedPose, Pinned, HasAllPins

LEMMA PutPinned ==
  ASSUME NEW s, AllPinned(s), NEW r \in Refs, NEW pose, PinnedPose(r, pose)
  PROVE  AllPinned(Put(s, r, pose))
<1> DEFINE t == Put(s, r, pose)
<1>1. /\ IsState(t) /\ t.poses[r] = pose
      /\ \A q \in Refs \ {r} : t.poses[q] = s.poses[q] /\ t.placed[q] = s.placed[q]
  BY PutGives DEF AllPinned
<1>2. t.placed[r] = PlacementOf(pose, FALSE)
  BY DEF Put, AllPinned, IsState
<1>3. Pinned(r, t.placed[r])
  BY <1>2 DEF PlacementOf, PinnedPose, Pinned, HasAllPins
<1> HIDE DEF t
<1>4. AllPinned(t)
  BY <1>1, <1>3 DEF AllPinned
<1> QED
  BY <1>4 DEF t

LEMMA LiftPinned ==
  ASSUME NEW s, AllPinned(s), NEW r \in Refs
  PROVE  AllPinned(Lift(s, r))
<1>1. CASE s.poses[r] = NoPose
  BY <1>1 DEF Lift
<1>2. CASE s.poses[r] # NoPose
  <2> DEFINE t == Lift(s, r)
  <2>1. /\ IsState(t) /\ t.poses[r] = NoPose
        /\ \A q \in Refs \ {r} : t.poses[q] = s.poses[q] /\ t.placed[q] = s.placed[q]
    BY LiftGives DEF AllPinned
  <2>2. t.placed[r] = NoPose
    BY <1>2 DEF Lift, AllPinned, IsState
  <2> HIDE DEF t
  <2>3. AllPinned(t)
    BY <2>1, <2>2 DEF AllPinned
  <2> QED
    BY <2>3 DEF t
<1> QED
  BY <1>1, <1>2

LEMMA SwapPinned ==
  ASSUME AllPinned(state), NEW r \in On(state), NEW s \in Swapped(r)
  PROVE  AllPinned(s)
<1>1. PICK t \in Twins(r) :
        s = Put(Put(Lift(Lift(state, r), t), r, state.poses[t]), t, state.poses[r])
  BY DEF Swapped
<1>2. /\ r \in Refs /\ t \in Refs /\ FootprintId[t] = FootprintId[r]
      /\ state.poses[r] # NoPose /\ state.poses[t] # NoPose
  BY DEF Twins, On
<1>3. PinnedPose(r, state.poses[t]) /\ PinnedPose(t, state.poses[r])
  BY <1>2 DEF AllPinned, PinnedPose, Pinned, HasAllPins, Known, FootprintOf
<1>4. AllPinned(Lift(Lift(state, r), t))
  BY <1>2, LiftPinned
<1>5. AllPinned(Put(Lift(Lift(state, r), t), r, state.poses[t]))
  BY <1>2, <1>3, <1>4, PutPinned
<1> QED
  BY <1>1, <1>2, <1>3, <1>5, PutPinned

LEMMA RelocationPinned ==
  ASSUME AllPinned(state), NEW r, NEW s \in Relocated(r)
  PROVE  AllPinned(s)
<1> DEFINE block == Block(clusters.anchorOf[r])
<1>1. PICK d, seq : s = ShiftAll(block, d, seq)
  BY DEF Relocated
<1>2. \A p : "pins" \in DOMAIN p =>
        "pins" \in DOMAIN Shift(p, d) /\ DOMAIN Shift(p, d).pins = DOMAIN p.pins
  BY DEF Shift
<1>3. \A m \in block : m \in Refs /\ state.poses[m] # NoPose
  BY DEF Block, On
<1>4. \A m \in block : PinnedPose(m, Shift(state.poses[m], d))
  BY <1>2, <1>3 DEF AllPinned, PinnedPose, Pinned, HasAllPins
<1>5. \A m \in block : Pinned(m, PlacementOf(Shift(state.poses[m], d), FALSE))
  BY <1>4 DEF PlacementOf, PinnedPose, Pinned, HasAllPins
<1>6. IsState(s) /\ \A m \in Refs :
        /\ s.poses[m] = IF m \in block THEN Shift(state.poses[m], d) ELSE state.poses[m]
        /\ s.placed[m] = IF m \in block THEN PlacementOf(Shift(state.poses[m], d), FALSE) ELSE state.placed[m]
  BY <1>1 DEF ShiftAll, IsState
<1> HIDE DEF block
<1> QED
  BY <1>4, <1>5, <1>6 DEF AllPinned

LEMMA ProposalPinned ==
  ASSUME NEW r, Known(r), NEW t, NEW s \in FootprintOf(r).spans,
         NEW p \in Proposals(r, t, s), p # NoPose
  PROVE  Pinned(r, p)
<1> DEFINE offsets == TripleOffsets(FootprintOf(r), s)
<1>1. PICK h : p = Proposal(h, t, s, offsets)
  BY DEF Proposals
<1>2. p = LaidAt(h, t, s, offsets)
  BY <1>1 DEF Proposal
<1>3. "pins" \in DOMAIN p /\ DOMAIN p.pins = DOMAIN offsets
  BY <1>2 DEF LaidAt
<1>4. DOMAIN offsets = DOMAIN FootprintOf(r).pins /\ IsFiniteSet(DOMAIN offsets)
  BY OffsetsOfPins DEF Known, FootprintOf
<1> QED
  BY <1>3, <1>4 DEF PinnedPose, Pinned, HasAllPins

-----------------------------------------------------------------------------
(* A clean answer is the circuit *)

\* The wires of a route are finitely many.
LEMMA RouteFinite ==
  ASSUME NEW l, IsFiniteSet(l.jumpers)
  PROVE  IsFiniteSet(RouteOf(l).jumpers)
<1> DEFINE nodes == NodesIn(l)
           Spokes(n) == {[net |-> n, from |-> LeastHole(EntryHoles(n, l)), to |-> g, locked |-> FALSE] :
                          g \in EntryHoles(n, l)}
           spokes == [n \in AllNets |-> Spokes(n)]
<1>1. \A n \in AllNets : IsFiniteSet(Spokes(n))
  <2> TAKE n \in AllNets
  <2> DEFINE spoke == [g \in EntryHoles(n, l) |->
                [net |-> n, from |-> LeastHole(EntryHoles(n, l)), to |-> g, locked |-> FALSE]]
  <2>1. EntryHoles(n, l) \subseteq AllHoles
    BY DEF EntryHoles, Entries, HoleOf
  <2>2. {spoke[g] : g \in DOMAIN spoke} = Spokes(n) /\ DOMAIN spoke \subseteq AllHoles
    BY <2>1
  <2> HIDE DEF spoke, Spokes
  <2> QED
    BY <2>2, HolesFinite, ImageFinite
<1>2. IsFiniteSet(UNION {spokes[n] : n \in DOMAIN spokes})
  <2>1. DOMAIN spokes = AllNets /\ \A n \in AllNets : IsFiniteSet(spokes[n])
    BY <1>1
  <2> HIDE DEF spokes
  <2> QED
    BY <2>1, NetsFinite, UnionFinite
<1>3. \A n \in AllNets : WiresTo(n, EntryHoles(n, l)) \subseteq spokes[n]
  BY DEF WiresTo
<1>4. NewWires(Wanted \ ShortOfPins(l), l, nodes) \subseteq UNION {spokes[n] : n \in DOMAIN spokes}
  <2>1. DOMAIN spokes = AllNets
    OBVIOUS
  <2> HIDE DEF spokes
  <2> QED
    BY <1>3, <2>1 DEF NewWires, Wanted
<1>5. RouteOf(l).jumpers = {j \in l.jumpers : j.locked} \cup NewWires(Wanted \ ShortOfPins(l), l, nodes)
  BY DEF RouteOf
<1>6. IsFiniteSet({j \in l.jumpers : j.locked})
  BY FS_Subset
<1>7. IsFiniteSet(NewWires(Wanted \ ShortOfPins(l), l, nodes))
  BY <1>2, <1>4, FS_Subset
<1> QED
  BY <1>5, <1>6, <1>7, FS_Union

Judged(a) ==
  /\ Sound(a.layout) /\ Countable(a.layout)
  /\ a.score.errors = Cardinality(Errors(Diagnostics(a.layout)))
  /\ a.score.placed = Cardinality(PlacedRefs(a.layout))

LayoutInv == IsLayout(layout) /\ Sound(layout) /\ Countable(layout)

BuiltInv ==
  /\ given = job.given /\ job \in Jobs
  /\ AllPinned(state) /\ (best # NoBest \/ pc = "done" => AllPinned(best.state))
  /\ LayoutInv
  /\ answer # NoAnswer => Judged(answer)

LEMMA JudgedBuilds ==
  ASSUME NEW a, Judged(a), a.score.errors = 0, a.score.placed = Cardinality(Refs)
  PROVE  Builds(a.layout)
<1> DEFINE l == a.layout
<1>1. Errors(Diagnostics(l)) = {}
  BY ErrorsFinite, FS_EmptySet DEF Judged
<1>2. PlacedRefs(l) = Refs
  BY RefsFinite, FS_Subset DEF Judged, PlacedRefs
<1> QED
  BY <1>1, <1>2, FaultlessBuilds DEF Judged

\* The steps of place() keep a hole for every pin.
LEMMA PlacePinned ==
  ASSUME CompleteDocuments, SolveInv, BuiltInv, [Next]_vars
  PROVE  AllPinned(state') /\ (best' # NoBest \/ pc' = "done" => AllPinned(best'.state))
<1>1. /\ \A r \in DOMAIN given : HasAllPins(r, given[r]) /\ IsFiniteSet(DOMAIN given[r].pins)
      /\ DOMAIN given \subseteq Refs
  BY SolveAssumption, PlacerAssumption DEF SolveInv, BuiltInv, CompleteDocuments, PlaceInv, LocksInv
<1>2. CASE Seed
  <2> DEFINE locked == LockedIn(given)
             poses == [r \in locked |-> SeedPose(r, given[r])]
             placed == [r \in locked |-> given[r]]
  <2>1. \A r \in locked : r \in Refs /\ r \in DOMAIN given
    BY <1>1 DEF LockedIn
  <2>2. \A r \in locked : /\ "pins" \in DOMAIN poses[r]
                           /\ DOMAIN poses[r].pins = DOMAIN FootprintOf(r).pins \cap DOMAIN given[r].pins
    BY DEF SeedPose
  <2>3. \A r \in locked : PinnedPose(r, poses[r])
    <3>1. \A r \in locked : IsFiniteSet(DOMAIN FootprintOf(r).pins \cap DOMAIN given[r].pins)
      BY <1>1, <2>1, FS_Subset
    <3> HIDE DEF poses
    <3> QED
      BY <1>1, <2>1, <2>2, <3>1 DEF PinnedPose, Pinned, HasAllPins
  <2>4. \A r \in locked : Pinned(r, placed[r])
    BY <1>1, <2>1 DEF PinnedPose, Pinned
  <2>5. state' = [poses |-> OnRefs(poses), placed |-> OnRefs(placed), taken |-> state'.taken]
    BY <1>2 DEF Seed, Seeded
  <2>6. UNCHANGED best /\ pc' = "greedy"
    BY <1>2 DEF Seed
  <2> HIDE DEF poses, placed
  <2>7. DOMAIN poses = locked /\ DOMAIN placed = locked
    BY DEF poses, placed
  <2>8. AllPinned(state')
    BY <2>3, <2>4, <2>5, <2>7 DEF AllPinned, OnRefs, IsState
  <2> QED
    BY <2>6, <2>8 DEF BuiltInv
<1>3. CASE PlaceNext
  <2>1. ASSUME NEW r \in Refs \ fixed, NEW price, price = Prices(r), NEW p \in Cheapest(price),
               state' = Put(state, r, p)
        PROVE  AllPinned(state')
    <3>1. Known(r) /\ p \in Poses[FootprintId[r]]
      BY <2>1 DEF Cheapest, Prices, FreePoses
    <3> QED
      BY <2>1, <3>1, PosesPinned, PutPinned DEF BuiltInv
  <2>2. AllPinned(state')
    BY <1>3, <2>1 DEF PlaceNext, BuiltInv
  <2> QED
    BY <1>3, <2>2 DEF PlaceNext, BuiltInv
<1>4. CASE Translate \/ RotatePart \/ Span \/ Swap \/ RelocateCluster
  <2>1. ASSUME NEW r \in Found, NEW results, Try(results), \A s \in results : AllPinned(s)
        PROVE  AllPinned(state')
    BY <2>1 DEF Try, BuiltInv
  <2>2. \A r \in Found : r \in On(state) /\ r \in Refs /\ Known(r)
    BY DEF Found, On
  <2>3. \A r \in Refs : \A p : PinnedPose(r, p) => AllPinned(MoveTo(state, r, p))
    BY LiftPinned, PutPinned DEF MoveTo, BuiltInv
  <2>4. \A r \in Found : \A s \in Translated(r) \cup Rotated(r) \cup Respanned(r) : AllPinned(s)
    BY <2>2, <2>3, PosesPinned DEF Translated, Rotated, Respanned
  <2>5. \A r \in Found : \A s \in Swapped(r) \cup Relocated(r) : AllPinned(s)
    BY <2>2, SwapPinned, RelocationPinned DEF BuiltInv
  <2>6. AllPinned(state')
    BY <1>4, <2>1, <2>4, <2>5 DEF Translate, RotatePart, Span, Swap, RelocateCluster
  <2>7. UNCHANGED <<pc, best>>
    BY <1>4 DEF Translate, RotatePart, Span, Swap, RelocateCluster, Try
  <2> QED
    BY <2>6, <2>7 DEF BuiltInv
<1>5. CASE FinishAttempt
  <2>1. /\ state' = state
        /\ \/ best' = best /\ best # NoBest
           \/ \E u, c : best' = [state |-> state, unplaced |-> u, cost |-> c]
    BY <1>5 DEF FinishAttempt, Beats
  <2> QED
    BY <2>1 DEF BuiltInv
<1>6. CASE GreedyEnds \/ SearchEnds \/ UNCHANGED vars
  BY <1>6 DEF GreedyEnds, SearchEnds, vars, BuiltInv
<1> QED
  BY <1>2, <1>3, <1>4, <1>5, <1>6 DEF Next

\* A layout keeps what the verdict relies on if its wires stay finitely many and its parts
\* keep their pins.
LEMMA LayoutKept ==
  ASSUME LayoutInv, layout' = [layout EXCEPT !.placed = layout'.placed, !.jumpers = layout'.jumpers],
         IsFiniteSet(layout'.jumpers), layout'.placed = [r \in Refs |-> layout'.placed[r]],
         \A r \in Refs : layout'.placed[r] # NoPose => Pinned(r, layout'.placed[r])
  PROVE  LayoutInv'
<1>1. /\ layout' = [placed |-> layout'.placed, jumpers |-> layout'.jumpers, links |-> layout'.links]
      /\ layout'.links = layout.links
  BY DEF LayoutInv, IsLayout
<1> QED
  BY <1>1 DEF LayoutInv, IsLayout, Sound, Countable, PlacedRefs, Pinned

LEMMA PlaceDoneBuilt ==
  ASSUME BuiltInv, PlaceDone
  PROVE  LayoutInv'
<1> DEFINE p == best.state.placed
<1>1. /\ layout' = [layout EXCEPT !.placed = p] /\ AllPinned(best.state)
  BY DEF PlaceDone, BuiltInv
<1>2. p = [r \in Refs |-> p[r]] /\ \A r \in Refs : p[r] # NoPose => Pinned(r, p[r])
  BY <1>1 DEF AllPinned, IsState
<1> HIDE DEF p
<1>3. layout'.placed = p /\ layout'.jumpers = layout.jumpers
  BY <1>1 DEF BuiltInv, LayoutInv, IsLayout
<1>4. layout' = [layout EXCEPT !.placed = layout'.placed, !.jumpers = layout'.jumpers]
  BY <1>1, <1>3 DEF BuiltInv, LayoutInv, IsLayout
<1> QED
  BY <1>2, <1>3, <1>4, LayoutKept DEF BuiltInv, LayoutInv, Countable

LEMMA RouteBuilt ==
  ASSUME BuiltInv, Route
  PROVE  LayoutInv'
<1>1. layout' = [layout EXCEPT !.jumpers = RouteOf(layout).jumpers]
  BY DEF Route
<1>2. layout'.jumpers = RouteOf(layout).jumpers /\ layout'.placed = layout.placed
  BY <1>1 DEF BuiltInv, LayoutInv, IsLayout
<1>3. IsFiniteSet(layout'.jumpers)
  BY <1>2, RouteFinite DEF BuiltInv, LayoutInv, Countable
<1>4. layout' = [layout EXCEPT !.placed = layout'.placed, !.jumpers = layout'.jumpers]
  BY <1>1, <1>2 DEF BuiltInv, LayoutInv, IsLayout
<1>5. \A r \in Refs : layout.placed[r] # NoPose => Pinned(r, layout.placed[r])
  BY DEF BuiltInv, LayoutInv, Sound, Countable, PlacedRefs, Pinned
<1> QED
  BY <1>2, <1>3, <1>4, <1>5, LayoutKept DEF BuiltInv, LayoutInv, IsLayout

LEMMA IterateBuilt ==
  ASSUME BuiltInv, Iterate
  PROVE  LayoutInv'
<1>1. CASE UNCHANGED layout
  BY <1>1 DEF BuiltInv, LayoutInv, IsLayout, Sound, Countable, PlacedRefs
<1>2. ASSUME NEW r \in Refs, NEW p, Pinned(r, p), NEW moved, moved = [layout EXCEPT !.placed[r] = p],
             layout' = [moved EXCEPT !.jumpers = RouteOf(moved).jumpers]
      PROVE  LayoutInv'
  <2> DEFINE q == [layout.placed EXCEPT ![r] = p]
  <2>1. moved = [layout EXCEPT !.placed = q] /\ moved.jumpers = layout.jumpers /\ moved.placed = q
    BY <1>2 DEF BuiltInv, LayoutInv, IsLayout
  <2>2. q = [s \in Refs |-> q[s]] /\ \A s \in Refs : q[s] # NoPose => Pinned(s, q[s])
    BY <1>2 DEF BuiltInv, LayoutInv, IsLayout, Sound, Countable, PlacedRefs, Pinned
  <2> HIDE DEF q
  <2>3. IsFiniteSet(RouteOf(moved).jumpers)
    BY <2>1, RouteFinite DEF BuiltInv, LayoutInv, Countable
  <2>4. layout'.jumpers = RouteOf(moved).jumpers /\ layout'.placed = q
    BY <1>2, <2>1 DEF BuiltInv, LayoutInv, IsLayout
  <2>5. layout' = [layout EXCEPT !.placed = layout'.placed, !.jumpers = layout'.jumpers]
    BY <1>2, <2>1, <2>4 DEF BuiltInv, LayoutInv, IsLayout
  <2> QED
    BY <2>2, <2>3, <2>4, <2>5, LayoutKept DEF BuiltInv
<1>3. UNCHANGED layout \/
      \E r \in Refs : \E p : Pinned(r, p) /\
        \E moved : /\ moved = [layout EXCEPT !.placed[r] = p]
                   /\ layout' = [moved EXCEPT !.jumpers = RouteOf(moved).jumpers]
  <2>1. PICK r \in {q \in Candidates : Known(q)} :
          \E t \in FootprintOf(r).turns, s \in FootprintOf(r).spans : \E p \in Proposals(r, t, s) :
            \/ UNCHANGED layout
            \/ p # NoPose /\ \E moved : /\ moved = [layout EXCEPT !.placed[r] = p]
                                        /\ layout' = [moved EXCEPT !.jumpers = RouteOf(moved).jumpers]
    BY DEF Iterate
  <2>2. r \in Refs /\ Known(r)
    BY DEF Candidates, PlacedRefs
  <2>3. PICK t \in FootprintOf(r).turns, s \in FootprintOf(r).spans : \E p \in Proposals(r, t, s) :
            \/ UNCHANGED layout
            \/ p # NoPose /\ \E moved : /\ moved = [layout EXCEPT !.placed[r] = p]
                                        /\ layout' = [moved EXCEPT !.jumpers = RouteOf(moved).jumpers]
    BY <2>1
  <2> QED
    BY <2>2, <2>3, ProposalPinned
<1> QED
  BY <1>1, <1>2, <1>3

LEMMA VerifyBuilt ==
  ASSUME LayoutInv, Verify
  PROVE  Judged(answer')
<1>1. answer' = [layout |-> layout, faults |-> Diagnostics(layout),
                 score |-> JobScore(layout, Diagnostics(layout), placing, routing)]
  BY DEF Verify
<1>2. /\ answer'.layout = layout
      /\ answer'.score = JobScore(layout, Diagnostics(layout), placing, routing)
  BY <1>1
<1>3. /\ answer'.score.errors = Cardinality(Errors(Diagnostics(layout)))
      /\ answer'.score.placed = Cardinality(PlacedRefs(layout))
  BY <1>2 DEF JobScore
<1> QED
  BY <1>2, <1>3 DEF LayoutInv, Judged

LEMMA BuiltStepKeeps ==
  ASSUME CompleteDocuments, SolveInv, BuiltInv, [SolveNext]_allVars
  PROVE  BuiltInv'
<1>1. [Next]_vars /\ UNCHANGED job
  BY DEF SolveNext, BeginSolve, PlaceStep, PlaceDone, Route, RouteDone, Verify, BeginOptimize,
     RouteBase, Iterate, IterationsOver, Stop, Ask, Expire, allVars, solveVars
<1>2. UNCHANGED given
  BY <1>1 DEF Next, vars, Seed, PlaceNext, GreedyEnds, Translate, RotatePart, Span, Swap,
     RelocateCluster, Try, SearchEnds, FinishAttempt
<1>3. AllPinned(state') /\ (best' # NoBest \/ pc' = "done" => AllPinned(best'.state))
  BY <1>1, PlacePinned
<1>4. LayoutInv' /\ (answer' # NoAnswer => Judged(answer'))
  <2>1. CASE PlaceDone \/ Route \/ Iterate
    <3>1. LayoutInv' /\ UNCHANGED answer
      BY <2>1, PlaceDoneBuilt, RouteBuilt, IterateBuilt DEF PlaceDone, Route, Iterate
    <3> QED
      BY <3>1 DEF BuiltInv
  <2>2. CASE Verify
    <3>1. UNCHANGED layout
      BY <2>2 DEF Verify
    <3> QED
      BY <2>2, <3>1, VerifyBuilt DEF BuiltInv, LayoutInv, IsLayout, Sound, Countable, PlacedRefs
  <2>3. CASE UNCHANGED <<layout, answer>>
    BY <2>3 DEF BuiltInv, LayoutInv, IsLayout, Sound, Countable, PlacedRefs
  <2> QED
    BY <2>1, <2>2, <2>3 DEF SolveNext, BeginSolve, PlaceStep, RouteDone, BeginOptimize, RouteBase,
       IterationsOver, Stop, Ask, Expire, allVars, solveVars
<1> QED
  BY <1>1, <1>2, <1>3, <1>4 DEF BuiltInv

LEMMA BuiltInitKeeps ==
  ASSUME CompleteDocuments, SolveInit
  PROVE  BuiltInv
<1>1. AllPinned(state) /\ best = NoBest /\ pc = "seed"
  BY PlaceInitKeeps DEF SolveInit, Init, AllPinned, PlaceInv, Empty, Nowhere
<1>2. /\ layout = [placed |-> OnRefs(job.given), jumpers |-> job.jumpers, links |-> job.links]
      /\ job \in Jobs /\ given = job.given /\ answer = NoAnswer
  BY DEF SolveInit
<1>3. IsFiniteSet(job.jumpers) /\ IsFiniteSet(job.links) /\ job.links \subseteq SUBSET AllHoles
  BY <1>2, SolveAssumption DEF CompleteDocuments
<1>4. \A r \in Refs : layout.placed[r] # NoPose => Pinned(r, layout.placed[r])
  BY <1>2, SolveAssumption DEF CompleteDocuments, OnRefs, Pinned
<1>5. IsLayout(layout) /\ layout.jumpers = job.jumpers /\ layout.links = job.links
  BY <1>2 DEF IsLayout, OnRefs
<1>6. LayoutInv
  BY <1>3, <1>4, <1>5 DEF LayoutInv, Sound, Countable, PlacedRefs, Pinned
<1> QED
  BY <1>1, <1>2, <1>6 DEF BuiltInv

-----------------------------------------------------------------------------
(* Sums: SumFunction takes the elements of a finite domain one after the other. *)

\* Of finite sets, one has no other inside.
LEMMA SmallestSubset ==
  ASSUME NEW S, IsFiniteSet(S), NEW T, T \subseteq SUBSET S, T # {}
  PROVE  \E s \in T : \A t \in T : t \subseteq s => t = s
<1>1. IsWellFoundedOn(StrictSubsetOrdering(S), SUBSET S)
  BY FS_StrictSubsetOrderingWellFounded, FS_FiniteSubsetsOfFinite
<1>2. PICK s \in T : \A t \in T : <<t, s>> \notin StrictSubsetOrdering(S)
  BY <1>1, WFMin
<1> QED
  BY <1>2 DEF StrictSubsetOrdering

Pick(s) == CHOOSE x \in s : TRUE
Summing(sum, f, S) ==
  sum = [s \in SUBSET S |-> IF s = {} THEN 0 ELSE f[Pick(s)] + sum[s \ {Pick(s)}]]

LEMMA SummingAgrees ==
  ASSUME NEW f, NEW S, IsFiniteSet(S), NEW g, Summing(g, f, S),
         NEW U \in SUBSET S, NEW h, Summing(h, f, U)
  PROVE  \A s \in SUBSET U : g[s] = h[s]
<1> DEFINE T == {s \in SUBSET U : g[s] # h[s]}
<1>1. SUFFICES ASSUME T # {} PROVE FALSE
  OBVIOUS
<1>2. \E s \in T : \A t \in T : t \subseteq s => t = s
  <2>1. T \subseteq SUBSET U /\ IsFiniteSet(U)
    BY FS_Subset
  <2> HIDE DEF T
  <2> QED
    BY <1>1, <2>1, SmallestSubset
<1> PICK s \in T : \A t \in T : t \subseteq s => t = s
  BY <1>2
<1>3. CASE s = {}
  BY <1>3 DEF Summing
<1>4. CASE s # {}
  <2>1. Pick(s) \in s /\ s \ {Pick(s)} \in SUBSET U /\ s \in SUBSET S
    BY <1>4 DEF Pick
  <2>2. g[s \ {Pick(s)}] = h[s \ {Pick(s)}]
    BY <2>1
  <2>3. /\ g[s] = f[Pick(s)] + g[s \ {Pick(s)}]
        /\ h[s] = f[Pick(s)] + h[s \ {Pick(s)}]
    BY <1>4, <2>1 DEF Summing
  <2> QED
    BY <2>2, <2>3
<1> QED
  BY <1>3, <1>4

LEMMA SummingExists ==
  ASSUME NEW f, NEW S, IsFiniteSet(S)
  PROVE  \E sum : Summing(sum, f, S)
<1> DEFINE T == {s \in SUBSET S : ~ \E sum : Summing(sum, f, s)}
<1>1. SUFFICES ASSUME T # {} PROVE FALSE
  OBVIOUS
<1>2. \E s \in T : \A t \in T : t \subseteq s => t = s
  <2>1. T \subseteq SUBSET S
    OBVIOUS
  <2> HIDE DEF T
  <2> QED
    BY <1>1, <2>1, SmallestSubset
<1> PICK s \in T : \A t \in T : t \subseteq s => t = s
  BY <1>2
<1> DEFINE F(t) == CHOOSE sum : Summing(sum, f, t)
           G == [t \in SUBSET s |-> F(t)[t]]
           H == [t \in SUBSET s |-> IF t = {} THEN 0 ELSE f[Pick(t)] + G[t \ {Pick(t)}]]
<1>3. \A t \in SUBSET s : t # s => Summing(F(t), f, t)
  BY <1>2
<1>4. ASSUME NEW t \in SUBSET s, t # s
      PROVE  G[t] = H[t]
  <2>1. Summing(F(t), f, t) /\ G[t] = F(t)[t] /\ IsFiniteSet(t)
    BY <1>3, <1>4, FS_Subset
  <2>2. CASE t = {}
    BY <2>1, <2>2 DEF Summing
  <2>3. CASE t # {}
    <3> DEFINE u == t \ {Pick(t)}
    <3> HIDE DEF F
    <3>1. Pick(t) \in t /\ u \in SUBSET t /\ u \in SUBSET s /\ u # s
      BY <2>3, <1>4 DEF Pick
    <3>2. F(t)[t] = f[Pick(t)] + F(t)[u]
      BY <2>1, <2>3 DEF Summing
    <3>3. Summing(F(u), f, u)
      BY <3>1, <1>3
    <3>4. F(t)[u] = F(u)[u]
      BY <2>1, <3>1, <3>3, SummingAgrees
    <3>5. G[u] = F(u)[u]
      BY <3>1
    <3>6. H[t] = f[Pick(t)] + G[u]
      BY <2>3
    <3> QED
      BY <2>1, <3>2, <3>4, <3>5, <3>6
  <2> QED
    BY <2>2, <2>3
<1>5. Summing(H, f, s)
  <2>1. ASSUME NEW t \in SUBSET s, t # {}
        PROVE  H[t] = f[Pick(t)] + H[t \ {Pick(t)}]
    <3> DEFINE u == t \ {Pick(t)}
    <3>1. u \in SUBSET s /\ u # s
      BY <2>1 DEF Pick
    <3>2. G[u] = H[u]
      BY <3>1, <1>4
    <3>3. H[t] = f[Pick(t)] + G[u]
      BY <2>1
    <3> QED
      BY <3>2, <3>3
  <2>2. H[{}] = 0
    OBVIOUS
  <2> HIDE DEF G
  <2> HIDE DEF H
  <2>3. \A t \in SUBSET s : H[t] = IF t = {} THEN 0 ELSE f[Pick(t)] + H[t \ {Pick(t)}]
    BY <2>1, <2>2
  <2>4. H = [t \in SUBSET s |-> H[t]]
    BY DEF H
  <2> QED
    BY <2>3, <2>4 DEF Summing
<1> QED
  BY <1>2, <1>5

\* A sum of natural numbers is one.
LEMMA SumNat ==
  ASSUME NEW f, IsFiniteSet(DOMAIN f), \A x \in DOMAIN f : f[x] \in Nat
  PROVE  SumFunction(f) \in Nat
<1> DEFINE S == DOMAIN f
           sum == CHOOSE g : Summing(g, f, S)
           T == {s \in SUBSET S : sum[s] \notin Nat}
<1>1. SumFunction(f) = sum[S]
  BY DEF SumFunction, SumFunctionOnSet, FoldFunctionOnSet, MapThenFoldSet, Summing, Pick
<1>2. Summing(sum, f, S)
  BY SummingExists
<1> HIDE DEF sum
<1>3. T = {}
  <2> SUFFICES ASSUME T # {} PROVE FALSE
    OBVIOUS
  <2>1. \E s \in T : \A t \in T : t \subseteq s => t = s
    <3>1. T \subseteq SUBSET S
      OBVIOUS
    <3> HIDE DEF T
    <3> QED
      BY <3>1, SmallestSubset
  <2> PICK s \in T : \A t \in T : t \subseteq s => t = s
    BY <2>1
  <2>2. s = {} => sum[s] = 0
    BY <1>2 DEF Summing
  <2>3. CASE s # {}
    <3>1. Pick(s) \in s /\ s \ {Pick(s)} \in SUBSET S /\ s \ {Pick(s)} # s
      BY <2>3 DEF Pick
    <3>2. sum[s \ {Pick(s)}] \in Nat /\ f[Pick(s)] \in Nat
      BY <3>1
    <3>3. sum[s] = f[Pick(s)] + sum[s \ {Pick(s)}]
      BY <1>2, <2>3 DEF Summing
    <3> QED
      BY <3>2, <3>3
  <2> QED
    BY <2>2, <2>3
<1> QED
  BY <1>1, <1>3

-----------------------------------------------------------------------------
(* Poses and what they cost *)

\* A pose on the board.
PoseType(p) ==
  /\ p.anchor \in Holes /\ p.turn \in {0, 90, 180, 270} /\ p.span \in Nat \cup {NoSpan}
  /\ IsFiniteSet(DOMAIN p.pins) /\ \A q \in DOMAIN p.pins : p.pins[q] \in Holes
  /\ p.body \subseteq Holes /\ p.mech \in Nat

LEMMA PosesTyped ==
  ASSUME NEW r, Known(r), NEW p \in Poses[FootprintId[r]]
  PROVE  PoseType(p)
<1> DEFINE f == FootprintOf(r)
<1>1. FootprintType(f)
  BY PosesAssumption DEF Known, FootprintOf
<1>2. p \in PosesOf(f)
  BY DEF Poses, Known, FootprintOf
<1>3. PICK h \in Holes, t \in f.turns, s \in f.spans : p = PoseAt(f, h, t, s) /\ Fits(f, p)
  BY <1>2 DEF PosesOf
<1>4. t \in {0, 90, 180, 270} /\ s \in Nat \cup {NoSpan} /\ f.preferred \in Int
  BY <1>1 DEF FootprintType
<1>5. MechCost(f, t, s) \in Nat
  <2>1. s # NoSpan => s \in Nat
    BY <1>4
  <2>2. (IF s = NoSpan THEN 0
         ELSE 2 * (IF s > f.preferred THEN s - f.preferred ELSE f.preferred - s)) \in Nat
    BY <1>4, <2>1
  <2>3. (IF t \in {90, 270} THEN 1 ELSE 0) \in Nat
    OBVIOUS
  <2> QED
    BY <2>2, <2>3 DEF MechCost
<1>6. DOMAIN PinOffsets(f, s) = DOMAIN f.pins /\ IsFiniteSet(DOMAIN f.pins)
  BY <1>3, OffsetsOfPins DEF Known, FootprintOf
<1>7. /\ p.anchor = h /\ p.turn = t /\ p.span = s /\ p.mech = MechCost(f, t, s)
      /\ DOMAIN p.pins = DOMAIN PinOffsets(f, s)
  BY <1>3 DEF PoseAt
<1>8. p.body \subseteq Holes /\ \A q \in DOMAIN p.pins : p.pins[q] \in Holes
  BY <1>3 DEF Fits, Cells, PinHoles
<1> QED
  BY <1>4, <1>5, <1>6, <1>7, <1>8 DEF PoseType

LEMMA CellsOnBoard == \A p : PoseType(p) => Cells(p) \subseteq Holes
BY DEF PoseType, Cells, PinHoles

LEMMA PointType ==
  ASSUME NEW h \in AllHoles
  PROVE  /\ Point(h)[1] \in Int /\ Point(h)[2] \in Int
         /\ h \in Holes => Point(h)[1] \in Nat /\ Point(h)[2] \in Nat
<1>1. h[1] \in Nat /\ RowY[h[2]] \in Int /\ (h \in Holes => RowY[h[2]] \in Nat)
  BY PosesAssumption, ValidatorAssumption DEF AllHoles
<1> QED
  BY <1>1 DEF Point, Unit

LEMMA ManhattanNat ==
  ASSUME NEW a, NEW b, a[1] \in Int, a[2] \in Int, b[1] \in Int, b[2] \in Int
  PROVE  Manhattan(a, b) \in Nat
<1>1. \A d \in Int : Abs(d) \in Nat
  BY DEF Abs
<1>2. a[1] - b[1] \in Int /\ a[2] - b[2] \in Int
  OBVIOUS
<1> QED
  BY <1>1, <1>2 DEF Manhattan

LEMMA PinsOnParts ==
  ASSUME NEW x \in DOMAIN NetOfPin
  PROVE  x[1] \in Refs
<1>1. PICK i \in DOMAIN Nets : x \in Pins(Nets[i])
  BY DEF NetOfPin
<1>2. Net[Nets[i]].pins \in Seq(Refs \X STRING)
  BY PosesAssumption
<1>3. x \in Refs \X STRING
  BY <1>1, <1>2 DEF Pins
<1> QED
  BY <1>3

\* Of numbers, Min is one of them.
LEMMA MinIn ==
  ASSUME NEW S \in SUBSET Nat, S # {}
  PROVE  Min(S) \in S
<1>1. \E x \in S : \A y \in S : x <= y
  BY LeastNumber
<1> QED
  BY <1>1 DEF Min

LEMMA DistanceNat ==
  ASSUME NEW r, NEW pose, PoseType(pose),
         NEW poses, \A q \in Refs : poses[q] # NoPose => PoseType(poses[q])
  PROVE  DistanceTerm(r, pose, poses) \in Nat
<1> DEFINE Near(p) == {Manhattan(Point(pose.pins[p]), Point(poses[x[1]].pins[x[2]])) :
                         x \in Neighbours(r, p, poses)}
           wired == {p \in DOMAIN pose.pins : NetOf(r, p) # NoNet}
           f == [p \in wired |-> IF Near(p) = {} THEN 0 ELSE Min(Near(p))]
<1>1. ASSUME NEW p \in DOMAIN pose.pins
      PROVE  Near(p) \in SUBSET Nat
  <2>1. ASSUME NEW x \in Neighbours(r, p, poses)
        PROVE  Manhattan(Point(pose.pins[p]), Point(poses[x[1]].pins[x[2]])) \in Nat
    <3>1. x \in DOMAIN NetOfPin /\ poses[x[1]] # NoPose /\ x[2] \in DOMAIN poses[x[1]].pins
      BY <2>1 DEF Neighbours, PlacedPins, PinsOn
    <3>2. x[1] \in Refs
      BY <3>1, PinsOnParts
    <3>3. poses[x[1]].pins[x[2]] \in AllHoles /\ pose.pins[p] \in AllHoles
      BY <3>1, <3>2 DEF PoseType, AllHoles
    <3> QED
      BY <3>3, PointType, ManhattanNat
  <2> QED
    BY <2>1
<1>2. \A p \in wired : f[p] \in Nat
  <2> TAKE p \in wired
  <2>1. Near(p) \in SUBSET Nat
    BY <1>1
  <2>2. f[p] = IF Near(p) = {} THEN 0 ELSE Min(Near(p))
    OBVIOUS
  <2> HIDE DEF Near, f
  <2> QED
    BY <2>1, <2>2, MinIn
<1>3. DOMAIN f = wired /\ IsFiniteSet(wired)
  BY FS_Subset DEF PoseType
<1>4. DistanceTerm(r, pose, poses) = SumFunction(f)
  BY DEF DistanceTerm
<1> HIDE DEF f, wired
<1> QED
  BY <1>2, <1>3, <1>4, SumNat

LEMMA CongestionNat ==
  ASSUME NEW pose, NEW occupied \in SUBSET Holes
  PROVE  CongestionTerm(pose, occupied) \in Nat
<1>1. \A S \in SUBSET Holes : Cardinality(S) \in Nat
  BY PosesAssumption, FS_Subset, FS_CardinalityType
<1> QED
  BY <1>1 DEF CongestionTerm

LEMMA CentroidType ==
  ASSUME NEW pose, PoseType(pose)
  PROVE  Centroid(pose)[1] \in Int /\ Centroid(pose)[2] \in Int
<1> DEFINE size == Cardinality(pose.body)
           f(i) == [h \in pose.body |-> Point(h)[i]]
<1>1. pose.body \subseteq Holes /\ IsFiniteSet(pose.body) /\ size \in Nat
  BY PosesAssumption, FS_Subset, FS_CardinalityType DEF PoseType
<1>2. ASSUME NEW i \in {1, 2}
      PROVE  SumFunction(f(i)) \in Nat
  <2>1. DOMAIN f(i) = pose.body /\ \A h \in pose.body : f(i)[h] \in Nat
    BY <1>1, PointType DEF AllHoles
  <2> HIDE DEF f
  <2> QED
    BY <1>1, <2>1, SumNat
<1>3. size # 0 => SumFunction(f(1)) \div size \in Int /\ SumFunction(f(2)) \div size \in Int
  <2>1. SumFunction(f(1)) \in Nat /\ SumFunction(f(2)) \in Nat
    BY <1>2
  <2> HIDE DEF f, size
  <2> QED
    BY <1>1, <2>1
<1> QED
  BY <1>3 DEF Centroid

LEMMA ProductNat == \A a, b \in Nat : a * b \in Nat
OBVIOUS

\* What a pose costs is a number.
LEMMA CostNat ==
  ASSUME NEW r, NEW pose, PoseType(pose), NEW anchor \in Refs, NEW occupied \in SUBSET Holes,
         NEW poses, \A q \in Refs : poses[q] # NoPose => PoseType(poses[q])
  PROVE  Cost(r, pose, poses, occupied, anchor) \in Nat
<1>1. \A w \in {"distance", "congestion", "mechanical", "access", "overlap", "cluster"} : Weight[w] \in Nat
  BY PosesAssumption
<1>2. DistanceTerm(r, pose, poses) \in Nat /\ CongestionTerm(pose, occupied) \in Nat /\ pose.mech \in Nat
  BY DistanceNat, CongestionNat DEF PoseType
<1> DEFINE a == AccessTerm(FootprintOf(r), pose)
           o == IF occupied \cap Cells(pose) # {} THEN 1 ELSE 0
           c == IF anchor # r /\ poses[anchor] # NoPose
                THEN Manhattan(Centroid(pose), Centroid(poses[anchor])) ELSE 0
<1>3. a \in Nat /\ o \in Nat
  BY DEF AccessTerm
<1>4. c \in Nat
  BY CentroidType, ManhattanNat
<1>5. Unit \in Nat /\ Unit \div 2 \in Nat
  BY DEF Unit
<1>6. Cost(r, pose, poses, occupied, anchor) =
        Weight.distance * DistanceTerm(r, pose, poses)
          + Weight.congestion * Unit * CongestionTerm(pose, occupied)
          + Weight.mechanical * (Unit \div 2) * pose.mech
          + Weight.access * Unit * a + Weight.overlap * Unit * o + Weight.cluster * c
  BY DEF Cost
<1> HIDE DEF a, o, c
<1>7. /\ Weight.distance * DistanceTerm(r, pose, poses) \in Nat
      /\ Weight.congestion * Unit * CongestionTerm(pose, occupied) \in Nat
      /\ Weight.mechanical * (Unit \div 2) * pose.mech \in Nat
      /\ Weight.access * Unit * a \in Nat /\ Weight.overlap * Unit * o \in Nat
      /\ Weight.cluster * c \in Nat
  BY <1>1, <1>2, <1>3, <1>4, <1>5, ProductNat
<1> QED
  BY <1>6, <1>7

-----------------------------------------------------------------------------
(* The types of the placer's state *)

StateType(s) ==
  /\ IsState(s) /\ s.taken \subseteq Holes
  /\ \A r \in Refs : /\ s.poses[r] # NoPose => PoseType(s.poses[r]) /\ Known(r)
                     /\ s.placed[r] # NoPose => PlacementType(s.placed[r])

LEMMA PlacementTyped ==
  ASSUME NEW pose, PoseType(pose)
  PROVE  PlacementType(PlacementOf(pose, FALSE))
<1> DEFINE p == PlacementOf(pose, FALSE)
<1>1. /\ p.anchor = pose.anchor /\ p.turn = pose.turn /\ p.span = pose.span /\ p.pins = pose.pins
      /\ p.cells = Cells(pose) /\ p.locked = FALSE
  BY DEF PlacementOf
<1> HIDE DEF p
<1>2. p.locked \in BOOLEAN
  BY <1>1
<1>3. PlacementType(p)
  BY <1>1, <1>2, CellsOnBoard DEF PoseType, PlacementType
<1> QED
  BY <1>3 DEF p

LEMMA PutTyped ==
  ASSUME NEW s, StateType(s), NEW r \in Refs, Known(r), NEW pose, PoseType(pose)
  PROVE  StateType(Put(s, r, pose))
<1> DEFINE t == Put(s, r, pose)
<1>1. /\ IsState(t) /\ t.poses[r] = pose /\ t.taken = s.taken \cup Cells(pose)
      /\ \A q \in Refs \ {r} : t.poses[q] = s.poses[q] /\ t.placed[q] = s.placed[q]
  BY PutGives DEF StateType
<1>2. t.placed[r] = PlacementOf(pose, FALSE)
  BY DEF Put, StateType, IsState
<1> HIDE DEF t
<1>3. PlacementType(t.placed[r]) /\ t.taken \subseteq Holes
  BY <1>1, <1>2, PlacementTyped, CellsOnBoard DEF StateType
<1>4. StateType(t)
  BY <1>1, <1>3 DEF StateType
<1> QED
  BY <1>4 DEF t

LEMMA LiftTyped ==
  ASSUME NEW s, StateType(s), NEW r \in Refs
  PROVE  StateType(Lift(s, r))
<1>1. CASE s.poses[r] = NoPose
  BY <1>1 DEF Lift
<1>2. CASE s.poses[r] # NoPose
  <2> DEFINE t == Lift(s, r)
  <2>1. /\ IsState(t) /\ t.poses[r] = NoPose /\ t.taken \subseteq s.taken
        /\ \A q \in Refs \ {r} : t.poses[q] = s.poses[q] /\ t.placed[q] = s.placed[q]
    BY <1>2, LiftGives DEF StateType
  <2>2. t.placed[r] = NoPose
    BY <1>2 DEF Lift, StateType, IsState
  <2> HIDE DEF t
  <2>3. StateType(t)
    BY <2>1, <2>2 DEF StateType
  <2> QED
    BY <2>3 DEF t
<1> QED
  BY <1>1, <1>2

LEMMA SwapTyped ==
  ASSUME StateType(state), NEW r \in On(state), NEW s \in Swapped(r)
  PROVE  StateType(s)
<1>1. PICK t \in Twins(r) :
        s = Put(Put(Lift(Lift(state, r), t), r, state.poses[t]), t, state.poses[r])
  BY DEF Swapped
<1>2. r \in Refs /\ t \in Refs /\ state.poses[r] # NoPose /\ state.poses[t] # NoPose
  BY DEF Twins, On
<1>3. Known(r) /\ Known(t) /\ PoseType(state.poses[t]) /\ PoseType(state.poses[r])
  BY <1>2 DEF StateType
<1> DEFINE s2 == Lift(Lift(state, r), t)
<1>4. StateType(s2)
  BY <1>2, LiftTyped
<1> HIDE DEF s2
<1>5. StateType(Put(s2, r, state.poses[t]))
  BY <1>2, <1>3, <1>4, PutTyped
<1> QED
  BY <1>1, <1>2, <1>3, <1>5, PutTyped DEF s2

\* A pose that may be shifted is on the board afterwards.
LEMMA ShiftTyped ==
  ASSUME NEW pose, PoseType(pose), NEW d, Shiftable(pose, d)
  PROVE  PoseType(Shift(pose, d))
<1> DEFINE p == Shift(pose, d)
<1>1. /\ p.anchor = Plus(pose.anchor, d) /\ p.turn = pose.turn /\ p.span = pose.span /\ p.mech = pose.mech
      /\ DOMAIN p.pins = DOMAIN pose.pins /\ \A q \in DOMAIN pose.pins : p.pins[q] = Plus(pose.pins[q], d)
      /\ p.body = {Plus(h, d) : h \in pose.body}
  BY DEF Shift
<1> HIDE DEF p
<1>2. \A h \in Cells(pose) : Plus(h, d) \in Holes
  BY DEF Shiftable
<1>3. p.body \subseteq Holes /\ \A q \in DOMAIN p.pins : p.pins[q] \in Holes
  BY <1>1, <1>2 DEF Cells, PinHoles
<1>4. PoseType(p)
  BY <1>1, <1>3 DEF PoseType, Shiftable
<1> QED
  BY <1>4 DEF p

\* SetToSeqs has the elements of the set, each at one place.
LEMMA SeqsOf ==
  ASSUME NEW S, IsFiniteSet(S), NEW seq \in SetToSeqs(S)
  PROVE  /\ DOMAIN seq = 1..Len(seq) /\ Len(seq) = Cardinality(S) /\ Len(seq) \in Nat
         /\ \A i \in DOMAIN seq : seq[i] \in S
         /\ \A x \in S : \E i \in DOMAIN seq : seq[i] = x
<1> DEFINE n == Cardinality(S)
<1>1. n \in Nat
  BY FS_CardinalityType
<1>2. seq \in [1..n -> S] /\ \A i, j \in 1..n : i # j => seq[i] # seq[j]
  BY DEF SetToSeqs
<1>3. IsFiniteSet(1..n) /\ Cardinality(1..n) = n
  <2>1. 1 \in Int /\ n \in Int
    BY <1>1
  <2>2. IsFiniteSet(1..n) /\ Cardinality(1..n) = IF 1 > n THEN 0 ELSE n - 1 + 1
    <3> HIDE DEF n
    <3> QED
      BY <2>1, FS_Interval, Zenon
  <2> QED
    BY <1>1, <2>2
<1> HIDE DEF n
<1>4. seq \in Injection(1..n, S)
  BY <1>2 DEF Injection, IsInjective
<1>5. seq \in Surjection(1..n, S)
  BY <1>3, <1>4, FS_Injection DEF n
<1>6. \A x \in S : \E i \in 1..n : seq[i] = x
  BY <1>5 DEF Surjection
<1>7. DOMAIN seq = 1..n /\ Len(seq) = n
  BY <1>1, <1>2
<1> QED
  BY <1>1, <1>2, <1>6, <1>7 DEF n

LEMMA RelocationTyped ==
  ASSUME StateType(state), NEW r, NEW s \in Relocated(r)
  PROVE  StateType(s)
<1> DEFINE block == Block(clusters.anchorOf[r])
<1>1. PICK d, seq : /\ s = ShiftAll(block, d, seq) /\ seq \in SetToSeqs(block)
                    /\ \A m \in block : Shiftable(state.poses[m], d)
  BY DEF Relocated
<1>2. \A m \in block : m \in Refs /\ state.poses[m] # NoPose
  BY DEF Block, On
<1>3. IsFiniteSet(block)
  BY <1>2, RefsFinite, FS_Subset
<1>4. \A m \in block : /\ PoseType(Shift(state.poses[m], d)) /\ Known(m)
                       /\ Shift(state.poses[m], d) # NoPose
  BY <1>1, <1>2, ShiftTyped DEF StateType, Shift, NoPose
<1>5. \A m \in block : PlacementType(PlacementOf(Shift(state.poses[m], d), FALSE))
  BY <1>4, PlacementTyped
<1>6. IsState(s) /\ s.taken = TakenAfter(d, seq) /\ \A m \in Refs :
        /\ s.poses[m] = IF m \in block THEN Shift(state.poses[m], d) ELSE state.poses[m]
        /\ s.placed[m] = IF m \in block THEN PlacementOf(Shift(state.poses[m], d), FALSE) ELSE state.placed[m]
  BY <1>1 DEF ShiftAll, IsState
<1>7. \A i \in DOMAIN seq : seq[i] \in block
  BY <1>1, <1>3, SeqsOf
<1> HIDE DEF block
<1>8. s.taken \subseteq Holes
  <2>1. \A i \in DOMAIN seq : Cells(Shift(state.poses[seq[i]], d)) \subseteq Holes
    BY <1>4, <1>7, CellsOnBoard
  <2> QED
    BY <1>6, <2>1 DEF TakenAfter, StateType
<1> QED
  BY <1>4, <1>5, <1>6, <1>8 DEF StateType

-----------------------------------------------------------------------------
(* The clusters *)

LEMMA FirstIn ==
  ASSUME NEW seq, DOMAIN seq \subseteq Nat, NEW S, \E i \in DOMAIN seq : seq[i] \in S,
         \A i \in DOMAIN seq : 1..(i - 1) \subseteq DOMAIN seq
  PROVE  FirstOf(seq, S) \in S
<1> DEFINE T == {i \in DOMAIN seq : seq[i] \in S}
<1>1. PICK i \in T : \A j \in T : i <= j
  BY LeastNumber
<1>2. \A j \in 1..(i - 1) : seq[j] \notin S
  BY <1>1
<1> QED
  BY <1>1, <1>2 DEF FirstOf

LEMMA PlaceBound == \A r \in Refs : Place(r) \in 1..Len(ByName)
BY PosesAssumption DEF Place, Refs

\* What is known of the groups after the first k parts.
Grouped(c, k) ==
  /\ c = [of |-> c.of, members |-> c.members] /\ c.of \in [Refs -> Refs \cup {NoRef}]
  /\ c.members \subseteq Refs \X Refs
  /\ \A r \in Refs : c.of[r] # NoRef => \E a \in Refs : <<a, r>> \in c.members
  /\ \A i \in 1..k : c.of[ByName[i]] # NoRef

LEMMA JoinGroups ==
  ASSUME NEW k \in Nat, NEW c, Grouped(c, k), NEW anchor \in Refs, NEW r \in Refs
  PROVE  Grouped(Join(c, anchor, r), k) /\ Join(c, anchor, r).of[r] # NoRef
<1>1. CASE c.of[r] # NoRef
  BY <1>1 DEF Join
<1>2. CASE c.of[r] = NoRef
  <2> DEFINE of == [c.of EXCEPT ![r] = anchor]
             members == c.members \cup {<<anchor, anchor>>, <<anchor, r>>}
             d == [of |-> of, members |-> members]
  <2>1. Join(c, anchor, r) = d
    BY <1>2 DEF Join
  <2>2. of \in [Refs -> Refs \cup {NoRef}] /\ of[r] = anchor /\ \A q \in Refs \ {r} : of[q] = c.of[q]
    BY DEF Grouped
  <2>3. anchor # NoRef
    BY ClustersAssumption
  <2>4. members \subseteq Refs \X Refs /\ <<anchor, r>> \in members /\ c.members \subseteq members
    BY DEF Grouped
  <2>5. d.of = of /\ d.members = members
    OBVIOUS
  <2>6. \A q \in Refs : of[q] # NoRef => \E a \in Refs : <<a, q>> \in members
    BY <2>2, <2>4 DEF Grouped
  <2>7. \A i \in 1..k : of[ByName[i]] # NoRef
    <3> TAKE i \in 1..k
    <3>1. c.of[ByName[i]] # NoRef
      BY DEF Grouped
    <3>2. ByName[i] # r
      BY <1>2, <3>1
    <3> QED
      BY <3>1, <3>2 DEF Grouped
  <2> HIDE DEF of, members
  <2> QED
    BY <2>1, <2>2, <2>3, <2>4, <2>5, <2>6, <2>7 DEF Grouped
<1> QED
  BY <1>1, <1>2

LEMMA EnsureIsJoin == \A c, r : Ensure(c, r) = Join(c, r, r)
BY DEF Ensure, Join

LEMMA AssignGroups ==
  ASSUME NEW set92 \in SetToSeqs(To92s), NEW k \in Nat, k + 1 \in DOMAIN ByName, NEW c, Grouped(c, k)
  PROVE  Grouped(Assign(c, ByName[k + 1], set92), k + 1)
<1> DEFINE r == ByName[k + 1]
           d == Assign(c, r, set92)
           q == FirstOf(set92, Transistors(r))
<1>1. r \in Refs
  BY DEF Refs
<1>2. BypassDips(r) # {} => FirstOf(Listed, BypassDips(r)) \in Refs
  <2>1. BypassDips(r) \subseteq Refs
    BY DEF BypassDips, Dips
  <2>2. /\ DOMAIN Listed = 1..Len(Listed) /\ Len(Listed) \in Nat
        /\ \A x \in Refs : \E i \in DOMAIN Listed : Listed[i] = x
    BY ClustersAssumption
  <2> QED
    BY <2>1, <2>2, FirstIn
<1>3. ClockDips(r) # {} => FirstOf(Listed, ClockDips(r)) \in Refs
  <2>1. ClockDips(r) \subseteq Refs
    BY DEF ClockDips, Dips
  <2>2. /\ DOMAIN Listed = 1..Len(Listed) /\ Len(Listed) \in Nat
        /\ \A x \in Refs : \E i \in DOMAIN Listed : Listed[i] = x
    BY ClustersAssumption
  <2> QED
    BY <2>1, <2>2, FirstIn
<1>4. Transistors(r) # {} => q \in Refs
  <2>1. Transistors(r) \subseteq To92s /\ To92s \subseteq Refs
    BY DEF Transistors, To92s
  <2>2. IsFiniteSet(To92s)
    BY <2>1, RefsFinite, FS_Subset
  <2>3. /\ DOMAIN set92 = 1..Len(set92) /\ Len(set92) \in Nat
        /\ \A x \in To92s : \E i \in DOMAIN set92 : set92[i] = x
    BY <2>2, SeqsOf
  <2> QED
    BY <2>1, <2>3, FirstIn
<1>5. d = c \/ \E a \in Refs : d = Join(c, a, r) \/ d = Join(Join(c, a, a), a, r)
  BY <1>1, <1>2, <1>3, <1>4, EnsureIsJoin DEF Assign
<1>6. Grouped(d, k) /\ d.of[r] # NoRef
  <2>1. CASE c.of[r] = r
    <3>1. d = c
      BY <2>1 DEF Assign
    <3> QED
      BY <1>1, <2>1, <3>1, ClustersAssumption
  <2>2. CASE c.of[r] # r
    <3>1. \E a \in Refs : d = Join(c, a, r) \/ d = Join(Join(c, a, a), a, r)
      BY <1>1, <1>2, <1>3, <1>4, <2>2, EnsureIsJoin DEF Assign
    <3> HIDE DEF r, d
    <3> QED
      BY <1>1, <3>1, JoinGroups
  <2> QED
    BY <2>1, <2>2
<1>7. \A i \in 1..(k + 1) : i \in 1..k \/ i = k + 1
  OBVIOUS
<1> QED
  BY <1>6, <1>7 DEF Grouped

Grouping(f, start, set92, n) ==
  f = [k \in 0..n |-> IF k = 0 THEN start ELSE Assign(f[k - 1], ByName[k], set92)]

LEMMA GroupingExists ==
  ASSUME NEW start, NEW set92, NEW n \in Nat
  PROVE  \E f : Grouping(f, start, set92, n)
<1> DEFINE T == {k \in Nat : ~ \E f : Grouping(f, start, set92, k)}
<1>1. SUFFICES ASSUME T # {} PROVE FALSE
  OBVIOUS
<1>2. \E k \in T : \A i \in T : k <= i
  <2>1. T \in SUBSET Nat
    OBVIOUS
  <2> HIDE DEF T
  <2> QED
    BY <1>1, <2>1, LeastNumber
<1> PICK k \in T : \A i \in T : k <= i
  BY <1>2
<1>3. CASE k = 0
  <2> DEFINE g == [i \in 0..k |-> start]
  <2>1. Grouping(g, start, set92, k)
    BY <1>3 DEF Grouping
  <2> QED
    BY <2>1
<1>4. CASE k # 0
  <2>1. k - 1 \in Nat /\ k - 1 \notin T
    BY <1>4
  <2>2. PICK f : Grouping(f, start, set92, k - 1)
    BY <2>1
  <2> DEFINE g == [i \in 0..k |-> IF i = k THEN Assign(f[k - 1], ByName[k], set92) ELSE f[i]]
             G(i) == IF i = 0 THEN start ELSE Assign(g[i - 1], ByName[i], set92)
  <2>3. ASSUME NEW i \in 0..k
        PROVE  g[i] = G(i)
    <3>1. CASE i = k
      BY <1>4, <3>1
    <3>2. CASE i # k
      <4>1. i \in 0..(k - 1) /\ g[i] = f[i]
        BY <3>2
      <4>2. f[i] = IF i = 0 THEN start ELSE Assign(f[i - 1], ByName[i], set92)
        BY <2>2, <4>1 DEF Grouping
      <4>3. i # 0 => i - 1 \in 0..k /\ i - 1 # k
        BY <4>1
      <4>4. i # 0 => g[i - 1] = f[i - 1]
        BY <4>3
      <4> QED
        BY <4>1, <4>2, <4>4
    <3> QED
      BY <3>1, <3>2
  <2>4. g = [i \in 0..k |-> g[i]]
    OBVIOUS
  <2> HIDE DEF g
  <2>5. Grouping(g, start, set92, k)
    BY <2>3, <2>4 DEF Grouping
  <2> QED
    BY <2>5
<1> QED
  BY <1>3, <1>4

\* Every part is in a cluster, whatever the order of the TO-92s.
LEMMA ClustersTyped ==
  ASSUME NEW set92 \in SetToSeqs(To92s)
  PROVE  /\ Clusters(set92).members \subseteq Refs \X Refs
         /\ AnchorOf(Clusters(set92).members) \in [Refs -> Refs]
<1> DEFINE start == [of |-> [r \in Refs |-> IF r \in Dips THEN r ELSE NoRef],
                     members |-> {<<d, d>> : d \in Dips}]
           n == Len(ByName)
           after == CHOOSE f : f = [k \in 0..n |->
                      IF k = 0 THEN start ELSE Assign(f[k - 1], ByName[k], set92)]
           T == {k \in 0..n : ~Grouped(after[k], k)}
<1>1. n \in Nat /\ DOMAIN ByName = 1..n
  BY PosesAssumption
<1>2. Grouping(after, start, set92, n)
  <2>1. \E f : Grouping(f, start, set92, n)
    BY <1>1, GroupingExists
  <2> QED
    BY <2>1 DEF Grouping
<1>3. Clusters(set92) = after[n]
  BY DEF Clusters
<1>4. Grouped(start, 0)
  <2>1. Dips \subseteq Refs
    BY DEF Dips
  <2> QED
    BY <2>1 DEF Grouped
<1> HIDE DEF start, n, after
<1>5. T = {}
  <2> SUFFICES ASSUME T # {} PROVE FALSE
    OBVIOUS
  <2>1. \E k \in T : \A i \in T : k <= i
    <3>1. T \in SUBSET Nat
      OBVIOUS
    <3> HIDE DEF T
    <3> QED
      BY <3>1, LeastNumber
  <2> PICK k \in T : \A i \in T : k <= i
    BY <2>1
  <2>2. after[k] = IF k = 0 THEN start ELSE Assign(after[k - 1], ByName[k], set92)
    BY <1>2 DEF Grouping
  <2>3. k # 0 => k - 1 \in Nat /\ k - 1 \in 0..n /\ k - 1 \notin T /\ (k - 1) + 1 = k /\ k \in DOMAIN ByName
    BY <1>1
  <2>4. k # 0 => Grouped(Assign(after[k - 1], ByName[k], set92), k)
    BY <2>3, AssignGroups
  <2> QED
    BY <1>4, <2>2, <2>4
<1> DEFINE c == after[n]
<1>6. Grouped(c, n)
  BY <1>1, <1>5
<1>7. \A r \in Refs : \E a \in Refs : <<a, r>> \in c.members
  BY <1>1, <1>6 DEF Grouped, Refs
<1> DEFINE Hindmost(x, r) == /\ <<x, r>> \in c.members
                             /\ \A b \in Refs : <<b, r>> \in c.members => Place(b) <= Place(x)
<1>8. \A r \in Refs : \E x \in Refs : Hindmost(x, r)
  <2> TAKE r \in Refs
  <2> DEFINE S == {a \in Refs : <<a, r>> \in c.members}
             U == {n - Place(a) : a \in S}
  <2>1. U \in SUBSET Nat /\ U # {}
    <3>1. \A a \in Refs : n - Place(a) \in Nat
      BY <1>1, PlaceBound DEF n
    <3>2. S # {}
      BY <1>7
    <3> QED
      BY <3>1, <3>2
  <2>2. \E m \in U : \A i \in U : m <= i
    <3> HIDE DEF U
    <3> QED
      BY <2>1, LeastNumber
  <2>3. PICK a \in S : \A b \in S : n - Place(a) <= n - Place(b)
    BY <2>2
  <2>4. \A b \in S : Place(b) <= Place(a)
    BY <1>1, <2>3, PlaceBound DEF n
  <2> QED
    BY <2>4
<1>9. AnchorOf(c.members) = [r \in Refs |-> CHOOSE x \in Refs : Hindmost(x, r)]
  BY DEF AnchorOf
<1>10. AnchorOf(c.members) \in [Refs -> Refs]
  <2> HIDE DEF Hindmost
  <2> QED
    BY <1>8, <1>9
<1>11. c.members \subseteq Refs \X Refs
  BY <1>6 DEF Grouped
<1> QED
  BY <1>3, <1>10, <1>11

-----------------------------------------------------------------------------
(* The types of place() *)

LEMMA TotalNat ==
  ASSUME NEW s, StateType(s), clusters.anchorOf \in [Refs -> Refs]
  PROVE  TotalCost(s) \in Nat
<1> DEFINE f == [r \in On(s) |-> CostIn(s, r, s.poses[r])]
<1>1. DOMAIN f = On(s) /\ IsFiniteSet(On(s))
  BY RefsFinite, FS_Subset DEF On
<1>2. ASSUME NEW r \in On(s)
      PROVE  f[r] \in Nat
  <2>1. r \in Refs /\ PoseType(s.poses[r]) /\ s.taken \in SUBSET Holes
        /\ clusters.anchorOf[r] \in Refs /\ \A q \in Refs : s.poses[q] # NoPose => PoseType(s.poses[q])
    BY DEF On, StateType
  <2> QED
    BY <2>1, CostNat DEF CostIn
<1>3. TotalCost(s) = SumFunction(f)
  BY DEF TotalCost
<1> HIDE DEF f
<1> QED
  BY <1>1, <1>2, <1>3, SumNat

\* The limits of the two loops.
LEMMA AtLeastOne ==
  ASSUME NEW n \in Int
  PROVE  Max({1, n}) \in Nat /\ Max({1, n}) >= 1
<1>1. \E x \in {1, n} : \A y \in {1, n} : x >= y
  OBVIOUS
<1>2. Max({1, n}) \in {1, n} /\ Max({1, n}) >= 1
  BY <1>1 DEF Max
<1> QED
  BY <1>2

Restarts == Max({1, options.restarts})
Iterations == Max({1, options.iterations})

BestType == StateType(best.state) /\ best.unplaced \subseteq Refs /\ best.cost \in Nat

\* What is chosen at the start, and what the steps work on.
GivenType ==
  /\ given \in InitialLayouts /\ options \in OptionSets
  /\ \A r \in DOMAIN given : PlacementType(given[r])
  /\ clusters.anchorOf \in [Refs -> Refs] /\ clusters.members \subseteq Refs \X Refs

LoopType ==
  /\ pc \in {"seed", "greedy", "search", "finish", "done"}
  /\ attempt \in 0..Restarts /\ (pc # "done" => attempt < Restarts)
  /\ steps \in 0..Iterations
  /\ order \in Seq(Refs) /\ fixed \subseteq Refs /\ unplaced \subseteq Refs
  /\ movable \subseteq Refs /\ (pc = "search" => movable \subseteq On(state))
  /\ cost \in Nat \cup {Infinite}

PlaceTyped == GivenType /\ LoopType /\ StateType(state) /\ (attempt # 0 => BestType)

LEMMA LimitsType ==
  ASSUME options \in OptionSets
  PROVE  Restarts \in Nat /\ Restarts >= 1 /\ Iterations \in Nat /\ Iterations >= 1
BY PlacerAssumption, AtLeastOne DEF Restarts, Iterations

LEMMA PlaceTypes ==
  ASSUME PlaceTyped, BestInv
  PROVE  TypeOK
<1>1. pc = "search" => movable = Found
  BY DEF PlaceTyped, LoopType, StateType, Found, On
<1>2. \A r \in Refs : state.placed[r] # NoPose => PlacementType(state.placed[r])
  BY DEF PlaceTyped, StateType
<1>3. best # NoBest => best.unplaced \subseteq Refs /\ best.cost \in Nat
  BY DEF PlaceTyped, BestInv, BestType
<1> QED
  BY <1>1, <1>2, <1>3 DEF PlaceTyped, GivenType, LoopType, StateType, TypeOK, Restarts, Iterations

LEMMA SeedTyped ==
  ASSUME PlaceTyped, Seed
  PROVE  PlaceTyped'
<1> DEFINE locked == LockedIn(given)
           poses == [r \in locked |-> SeedPose(r, given[r])]
<1>1. \A r \in locked : /\ r \in Refs /\ Known(r) /\ PlacementType(given[r])
  BY PlacerAssumption DEF PlaceTyped, GivenType, LockedIn
<1>2. ASSUME NEW r \in locked
      PROVE  PoseType(poses[r])
  <2> DEFINE f == FootprintOf(r)
             g == given[r]
             p == SeedPose(r, g)
             some == DOMAIN f.pins \cap DOMAIN g.pins
  <2>1. FootprintType(f) /\ PlacementType(g)
    BY <1>1, PosesAssumption DEF Known, FootprintOf
  <2>2. /\ p.anchor = g.anchor /\ p.turn = g.turn /\ p.span = g.span /\ p.mech = 0
        /\ p.pins = [q \in some |-> g.pins[q]]
        /\ p.body \subseteq Holes
    BY DEF SeedPose
  <2>3. IsFiniteSet(some)
    BY <2>1, FS_Subset DEF FootprintType
  <2> HIDE DEF f, g, p
  <2>4. DOMAIN p.pins = some /\ \A q \in some : p.pins[q] \in Holes
    BY <2>1, <2>2 DEF PlacementType
  <2>5. PoseType(p)
    BY <2>1, <2>2, <2>3, <2>4 DEF PlacementType, PoseType
  <2> QED
    BY <2>5 DEF p, g
<1>3. /\ state' = [poses |-> OnRefs(poses), placed |-> OnRefs([r \in locked |-> given[r]]),
                   taken |-> UNION {poses[r].body : r \in locked}]
      /\ order' = Order(locked, clusters.members) /\ fixed' = locked /\ unplaced' = {}
      /\ pc = "seed" /\ pc' = "greedy"
      /\ UNCHANGED <<given, options, clusters, attempt, movable, cost, steps, best>>
  BY DEF Seed, Seeded
<1>4. \A r \in Refs : /\ state'.poses[r] = IF r \in locked THEN poses[r] ELSE NoPose
                      /\ state'.placed[r] = IF r \in locked THEN given[r] ELSE NoPose
  BY <1>3 DEF OnRefs
<1>5. IsState(state')
  BY <1>3 DEF OnRefs, IsState
<1>6. state'.taken \subseteq Holes
  <2>1. \A r \in locked : poses[r].body \subseteq Holes
    BY <1>2 DEF PoseType
  <2> HIDE DEF poses
  <2> QED
    BY <1>3, <2>1
<1>7. order' \in Seq(Refs)
  BY <1>3, OrderAll DEF IsOrder
<1> HIDE DEF locked, poses
<1>8. StateType(state')
  BY <1>1, <1>2, <1>4, <1>5, <1>6 DEF StateType
<1>9. LoopType'
  BY <1>1, <1>3, <1>7 DEF PlaceTyped, LoopType, Restarts, Iterations
<1> QED
  BY <1>3, <1>8, <1>9 DEF PlaceTyped, GivenType, BestType

LEMMA PlaceNextTyped ==
  ASSUME PlaceTyped, PlaceNext
  PROVE  PlaceTyped'
<1> DEFINE r == Head(order)
<1>1. /\ pc = "greedy" /\ order # <<>> /\ order' = Tail(order)
      /\ UNCHANGED <<given, options, clusters, pc, attempt, fixed, movable, cost, steps, best>>
  BY DEF PlaceNext
<1>2. order \in Seq(Refs)
  BY DEF PlaceTyped, LoopType
<1>3. r \in Refs /\ order' \in Seq(Refs)
  BY <1>1, <1>2
<1>4. /\ UNCHANGED state \/ \E p \in FreePoses(r) : state' = Put(state, r, p)
      /\ unplaced' \subseteq unplaced \cup {r}
  BY DEF PlaceNext, Cheapest, Prices
<1>5. StateType(state')
  <2>1. \A p \in FreePoses(r) : Known(r) /\ PoseType(p)
    BY PosesTyped DEF FreePoses
  <2> QED
    BY <1>3, <1>4, <2>1, PutTyped DEF PlaceTyped
<1> HIDE DEF r
<1>6. LoopType'
  BY <1>1, <1>3, <1>4 DEF PlaceTyped, LoopType, Restarts, Iterations
<1> QED
  BY <1>1, <1>5, <1>6 DEF PlaceTyped, GivenType, BestType

LEMMA GreedyEndsTyped ==
  ASSUME PlaceTyped, GreedyEnds
  PROVE  PlaceTyped'
<1>1. /\ movable' \subseteq On(state) /\ cost' \in {TotalCost(state), Infinite} /\ steps' = 0
      /\ pc = "greedy" /\ pc' \in {"finish", "search"}
      /\ UNCHANGED <<given, options, clusters, attempt, order, fixed, state, unplaced, best>>
  BY DEF GreedyEnds
<1>2. cost' \in Nat \cup {Infinite}
  BY <1>1, TotalNat DEF PlaceTyped, GivenType
<1>3. 0 \in 0..Iterations
  BY LimitsType DEF PlaceTyped, GivenType
<1>4. On(state) \subseteq Refs
  BY DEF On
<1>5. LoopType'
  BY <1>1, <1>2, <1>3, <1>4 DEF PlaceTyped, LoopType, On, Restarts, Iterations
<1> QED
  BY <1>1, <1>5 DEF PlaceTyped, GivenType, BestType

LEMMA SearchTyped ==
  ASSUME PlaceTyped, Translate \/ RotatePart \/ Span \/ Swap \/ RelocateCluster
  PROVE  PlaceTyped'
<1>1. \A r \in Found : r \in Refs /\ r \in On(state) /\ Known(r)
  BY DEF Found, On
<1>2. \A r \in Found : \A s \in Translated(r) \cup Rotated(r) \cup Respanned(r) : StateType(s)
  <2>1. \A r \in Found : \A p \in Poses[FootprintId[r]] : StateType(MoveTo(state, r, p))
    BY <1>1, PosesTyped, LiftTyped, PutTyped DEF MoveTo, PlaceTyped
  <2> QED
    BY <2>1 DEF Translated, Rotated, Respanned
<1>3. \A r \in Found : \A s \in Swapped(r) \cup Relocated(r) : StateType(s)
  BY <1>1, SwapTyped, RelocationTyped DEF PlaceTyped
<1>4. \A r \in Found :
        \A s \in Translated(r) \cup Rotated(r) \cup Respanned(r) \cup Swapped(r) \cup Relocated(r) :
          On(s) = On(state)
  BY <1>1, MovesKeepOn DEF PlaceTyped, StateType
<1>5. ASSUME NEW r \in Found, NEW results, Try(results),
             \A s \in results : StateType(s) /\ On(s) = On(state)
      PROVE  PlaceTyped'
  <2>1. /\ pc = "search" /\ steps < Iterations /\ steps' = steps + 1
        /\ UNCHANGED <<given, options, clusters, pc, attempt, order, fixed, movable, unplaced, best>>
        /\ \/ UNCHANGED <<state, cost>>
           \/ state' \in results /\ cost' = TotalCost(state')
    BY <1>5 DEF Try, Iterations
  <2>2. StateType(state') /\ On(state') = On(state)
    BY <1>5, <2>1 DEF PlaceTyped
  <2>3. cost' \in Nat \cup {Infinite}
    <3>1. TotalCost(state') \in Nat
      BY <2>2, TotalNat DEF PlaceTyped, GivenType
    <3> QED
      BY <2>1, <3>1 DEF PlaceTyped, LoopType
  <2>4. steps + 1 \in 0..Iterations
    BY <2>1, LimitsType DEF PlaceTyped, GivenType, LoopType
  <2>5. Iterations' = Iterations /\ Restarts' = Restarts
    BY <2>1 DEF Iterations, Restarts
  <2>6. LoopType'
    BY <2>1, <2>2, <2>3, <2>4, <2>5 DEF PlaceTyped, LoopType
  <2> QED
    BY <2>1, <2>2, <2>6 DEF PlaceTyped, GivenType, BestType
<1> QED
  BY <1>2, <1>3, <1>4, <1>5 DEF Translate, RotatePart, Span, Swap, RelocateCluster

LEMMA FinishTyped ==
  ASSUME PlaceTyped, BestInv, FinishAttempt
  PROVE  PlaceTyped'
<1>1. /\ pc = "finish" /\ attempt' = attempt + 1
      /\ pc' = IF attempt + 1 < Restarts THEN "seed" ELSE "done"
      /\ \/ best' = best /\ best # NoBest
         \/ best' = [state |-> state, unplaced |-> unplaced, cost |-> TotalCost(state)]
      /\ UNCHANGED <<given, options, clusters, order, fixed, state, movable, unplaced, cost, steps>>
  BY DEF FinishAttempt, Beats, Restarts
<1>2. BestType'
  <2>1. TotalCost(state) \in Nat
    BY TotalNat DEF PlaceTyped, GivenType
  <2>2. CASE best' = best /\ best # NoBest
    BY <2>2 DEF PlaceTyped, BestInv, BestType
  <2>3. CASE best' = [state |-> state, unplaced |-> unplaced, cost |-> TotalCost(state)]
    BY <2>1, <2>3 DEF PlaceTyped, LoopType, BestType
  <2> QED
    BY <1>1, <2>2, <2>3
<1>3. Iterations' = Iterations /\ Restarts' = Restarts
  BY <1>1 DEF Iterations, Restarts
<1>4. attempt + 1 \in 0..Restarts /\ (pc' # "done" => attempt' < Restarts)
      /\ pc' \in {"seed", "done"}
  BY <1>1, LimitsType DEF PlaceTyped, GivenType, LoopType
<1>5. LoopType'
  BY <1>1, <1>3, <1>4 DEF PlaceTyped, LoopType
<1> QED
  BY <1>1, <1>2, <1>5 DEF PlaceTyped, GivenType

LEMMA PlaceStepTyped ==
  ASSUME PlaceTyped, BestInv, [Next]_vars
  PROVE  PlaceTyped'
<1>1. CASE SearchEnds
  <2>1. /\ pc = "search" /\ pc' = "finish"
        /\ UNCHANGED <<given, options, clusters, attempt, order, fixed, state, movable, unplaced, cost, steps, best>>
    BY <1>1 DEF SearchEnds
  <2> QED
    BY <2>1 DEF PlaceTyped, GivenType, LoopType, BestType, Restarts, Iterations
<1>2. CASE UNCHANGED vars
  BY <1>2 DEF vars, PlaceTyped, GivenType, LoopType, BestType, Restarts, Iterations, On
<1> QED
  BY <1>1, <1>2, SeedTyped, PlaceNextTyped, GreedyEndsTyped, SearchTyped, FinishTyped DEF Next

LEMMA PlaceInitTyped ==
  ASSUME Init, \A r \in DOMAIN given : PlacementType(given[r])
  PROVE  PlaceTyped
<1>1. clusters.anchorOf \in [Refs -> Refs] /\ clusters.members \subseteq Refs \X Refs
  <2>1. PICK seq \in SetToSeqs(To92s) :
          clusters = [members |-> Clusters(seq).members, anchorOf |-> AnchorOf(Clusters(seq).members)]
    BY DEF Init
  <2> QED
    BY <2>1, ClustersTyped
<1>2. StateType(state)
  BY DEF Init, Empty, Nowhere, StateType, IsState
<1>3. 0 \in 0..Restarts /\ 0 < Restarts /\ 0 \in 0..Iterations
  BY LimitsType DEF Init
<1>4. LoopType
  BY <1>3 DEF Init, LoopType
<1> QED
  BY <1>1, <1>2, <1>4 DEF Init, PlaceTyped, GivenType

-----------------------------------------------------------------------------
(* The types of solve() and optimize() *)

LEMMA HolesOrdered ==
  ASSUME NEW a \in AllHoles, NEW b \in AllHoles, a # b
  PROVE  HoleBefore(a, b) \/ HoleBefore(b, a)
<1>1. a \in Nat \X Int /\ b \in Nat \X Int
  BY PosesAssumption, ValidatorAssumption DEF AllHoles
<1> DEFINE a1 == a[1]
           a2 == a[2]
           b1 == b[1]
           b2 == b[2]
<1>2. a1 \in Int /\ a2 \in Int /\ b1 \in Int /\ b2 \in Int /\ ~(a1 = b1 /\ a2 = b2)
  BY <1>1
<1> HIDE DEF a1, a2, b1, b2
<1>3. (a2 < b2 \/ (a2 = b2 /\ a1 < b1)) \/ (b2 < a2 \/ (b2 = a2 /\ b1 < a1))
  BY <1>2
<1> QED
  BY <1>3 DEF HoleBefore, a1, a2, b1, b2

\* Finitely many holes have a first one.
LEMMA LeastHoleIn ==
  ASSUME NEW hs, hs \subseteq AllHoles, hs # {}
  PROVE  LeastHole(hs) \in hs
<1> DEFINE Least(s, h) == \A g \in s \ {h} : HoleBefore(h, g)
           T == {s \in SUBSET hs : s # {} /\ ~ \E h \in s : Least(s, h)}
<1>1. \A h \in hs : h[1] \in Int /\ h[2] \in Int
  BY PosesAssumption, ValidatorAssumption DEF AllHoles
<1>2. T = {}
  <2> SUFFICES ASSUME T # {} PROVE FALSE
    OBVIOUS
  <2>1. \E s \in T : \A t \in T : t \subseteq s => t = s
    <3>1. T \subseteq SUBSET hs /\ IsFiniteSet(hs)
      BY HolesFinite, FS_Subset
    <3> HIDE DEF T
    <3> QED
      BY <3>1, SmallestSubset
  <2> PICK s \in T : \A t \in T : t \subseteq s => t = s
    BY <2>1
  <2> PICK x \in s : TRUE
    OBVIOUS
  <2> DEFINE u == s \ {x}
  <2>2. CASE u = {}
    <3>1. Least(s, x)
      BY <2>2
    <3> QED
      BY <3>1
  <2>3. CASE u # {}
    <3>1. u \in SUBSET hs /\ u # s /\ u \subseteq s
      OBVIOUS
    <3>2. u \notin T
      BY <3>1
    <3>3. PICK m \in u : Least(u, m)
      BY <2>3, <3>1, <3>2
    <3>4. x \in hs /\ m \in hs /\ \A g \in u : g \in hs
      OBVIOUS
    <3>5. HoleBefore(m, x) => Least(s, m)
      BY <3>3
    <3>6. HoleBefore(x, m) => Least(s, x)
      BY <1>1, <3>3, <3>4 DEF HoleBefore
    <3>7. HoleBefore(m, x) \/ HoleBefore(x, m)
      BY <3>4, HolesOrdered
    <3> QED
      BY <3>5, <3>6, <3>7
  <2> QED
    BY <2>2, <2>3
<1>3. \E h \in hs : Least(hs, h)
  BY <1>2
<1> QED
  BY <1>3 DEF LeastHole

\* What route() makes of a layout: wires between holes of the board, at a cost.
LEMMA RouteTyped ==
  ASSUME NEW l, IsFiniteSet(l.jumpers), \A j \in l.jumpers : Ends(j) \subseteq AllHoles
  PROVE  /\ IsFiniteSet(RouteOf(l).jumpers)
         /\ \A j \in RouteOf(l).jumpers : Ends(j) \subseteq AllHoles
         /\ RouteCost(RouteOf(l)) \in Nat
<1> DEFINE wires == RouteOf(l).jumpers
           open == RouteOf(l).unrouted
           price == [j \in wires |-> WireCost + Manhattan(Point(j.from), Point(j.to))]
<1>1. IsFiniteSet(wires)
  BY RouteFinite
<1>2. ASSUME NEW j \in wires
      PROVE  Ends(j) \subseteq AllHoles
  <2>1. CASE j \in l.jumpers
    BY <2>1
  <2>2. CASE j \notin l.jumpers
    <3>1. \E n : j \in WiresTo(n, EntryHoles(n, l))
      BY <2>2 DEF RouteOf, NewWires
    <3>2. PICK n : j \in WiresTo(n, EntryHoles(n, l))
      BY <3>1
    <3>3. EntryHoles(n, l) \subseteq AllHoles
      BY DEF EntryHoles, Entries, HoleOf
    <3>4. PICK g \in EntryHoles(n, l) : j.from = LeastHole(EntryHoles(n, l)) /\ j.to = g
      BY <3>2 DEF WiresTo
    <3>5. LeastHole(EntryHoles(n, l)) \in EntryHoles(n, l)
      BY <3>3, <3>4, LeastHoleIn
    <3> QED
      BY <3>3, <3>4, <3>5 DEF Ends
  <2> QED
    BY <2>1, <2>2
<1>3. SumFunction(price) \in Nat
  <2>1. ASSUME NEW j \in wires
        PROVE  WireCost + Manhattan(Point(j.from), Point(j.to)) \in Nat
    <3>1. j.from \in AllHoles /\ j.to \in AllHoles
      BY <1>2 DEF Ends
    <3>2. Manhattan(Point(j.from), Point(j.to)) \in Nat
      BY <3>1, PointType, ManhattanNat
    <3> QED
      BY <3>2, SolveAssumption
  <2>2. DOMAIN price = wires /\ \A j \in wires : price[j] \in Nat
    BY <2>1
  <2> HIDE DEF price
  <2> QED
    BY <1>1, <2>2, SumNat
<1>4. Cardinality(open) \in Nat
  <2>1. open \subseteq AllNets
    BY DEF RouteOf, ShortOfPins, Wanted
  <2> QED
    BY <2>1, NetsFinite, FS_Subset, FS_CardinalityType
<1>5. RouteCost(RouteOf(l)) = SumFunction(price) + UnroutedCost * Cardinality(open)
  BY DEF RouteCost
<1> HIDE DEF wires, open, price
<1>6. UnroutedCost * Cardinality(open) \in Nat
  BY <1>4, SolveAssumption, ProductNat
<1>7. RouteCost(RouteOf(l)) \in Nat
  BY <1>3, <1>5, <1>6
<1> QED
  BY <1>1, <1>2, <1>7 DEF wires

\* A proposal that is one puts the part on the board.
LEMMA ProposalTyped ==
  ASSUME NEW r, Known(r), NEW t \in FootprintOf(r).turns, NEW s \in FootprintOf(r).spans,
         NEW p \in Proposals(r, t, s), p # NoPose
  PROVE  PlacementType(p) /\ PerturbCost(p) \in Nat
<1> DEFINE offsets == TripleOffsets(FootprintOf(r), s)
<1>1. FootprintType(FootprintOf(r))
  BY PosesAssumption DEF Known, FootprintOf
<1>2. t \in {0, 90, 180, 270} /\ s \in Nat \cup {NoSpan}
  BY <1>1 DEF FootprintType
<1>3. PICK h : p = LaidAt(h, t, s, offsets) /\ HolesAt(h, <<0, 0>>) # {}
               /\ \A q \in DOMAIN offsets : HolesAt(h, offsets[q]) # {}
  <2>1. \E h : p = Proposal(h, t, s, offsets)
    BY DEF Proposals
  <2> HIDE DEF offsets
  <2> QED
    BY <2>1 DEF Proposal
<1> HIDE DEF offsets
<1> DEFINE pins == [q \in DOMAIN offsets |-> CHOOSE g \in HolesAt(h, offsets[q]) : TRUE]
<1>4. \A d : HolesAt(h, d) \subseteq Holes
  BY DEF HolesAt
<1>5. /\ p.anchor = (CHOOSE g \in HolesAt(h, <<0, 0>>) : TRUE) /\ p.turn = t /\ p.span = s
      /\ p.pins = pins /\ p.locked = FALSE
      /\ p.cells = {pins[q] : q \in DOMAIN pins} \cup UNION {HolesAt(h, d) : d \in TurnedOffsets(offsets, t)}
  BY <1>3 DEF LaidAt
<1>6. \A q \in DOMAIN pins : pins[q] \in Holes
  BY <1>3, <1>4
<1>7. p.anchor \in Holes
  BY <1>3, <1>4, <1>5
<1> HIDE DEF pins
<1>8. p.cells \subseteq Holes
  BY <1>4, <1>5, <1>6
<1>9. p.locked \in BOOLEAN
  BY <1>5
<1>10. PlacementType(p)
  BY <1>2, <1>5, <1>6, <1>7, <1>8, <1>9 DEF PlacementType
<1>11. Cardinality(p.cells) \in Nat
  BY <1>8, PosesAssumption, FS_Subset, FS_CardinalityType
<1> QED
  BY <1>10, <1>11, ProductNat DEF PerturbCost, Unit

LayoutTyped(l) ==
  /\ IsLayout(l) /\ IsFiniteSet(l.jumpers)
  /\ \A r \in Refs : l.placed[r] # NoPose => PlacementType(l.placed[r])
  /\ \A j \in l.jumpers : Ends(j) \subseteq AllHoles

JobTyped ==
  /\ job \in Jobs /\ phase \in {"start", "place", "route", "routed", "base", "iterate", "verify"} \cup Over
  /\ routing \in Nat /\ placing \in Nat /\ iteration \in 0..MaxIterations
  /\ (phase = "answered") = (answer # NoAnswer)

SolveTyped == PlaceTyped /\ LayoutTyped(layout) /\ JobTyped

LEMMA SolveTypes == SolveTyped /\ BestInv => SolveTypeOK
BY PlaceTypes DEF SolveTyped, LayoutTyped, JobTyped, SolveTypeOK, PlacedRefs

\* New wires on a layout.
LEMMA RoutedTyped ==
  ASSUME NEW l, LayoutTyped(l)
  PROVE  LayoutTyped([l EXCEPT !.jumpers = RouteOf(l).jumpers]) /\ RouteCost(RouteOf(l)) \in Nat
<1> DEFINE wires == RouteOf(l).jumpers
           m == [l EXCEPT !.jumpers = wires]
<1>1. /\ IsFiniteSet(wires) /\ \A j \in wires : Ends(j) \subseteq AllHoles
      /\ RouteCost(RouteOf(l)) \in Nat
  BY RouteTyped DEF LayoutTyped
<1> HIDE DEF wires
<1>2. m = [placed |-> l.placed, jumpers |-> wires, links |-> l.links]
  BY DEF LayoutTyped, IsLayout
<1>3. m.placed = l.placed /\ m.jumpers = wires /\ m.links = l.links
  BY <1>2
<1> HIDE DEF m
<1>4. LayoutTyped(m)
  BY <1>1, <1>2, <1>3 DEF LayoutTyped, IsLayout
<1> QED
  BY <1>1, <1>4 DEF m, wires

\* New placements on a layout.
LEMMA ReplacedTyped ==
  ASSUME NEW l, LayoutTyped(l), NEW f, f = [r \in Refs |-> f[r]],
         \A r \in Refs : f[r] # NoPose => PlacementType(f[r])
  PROVE  LayoutTyped([l EXCEPT !.placed = f])
<1> DEFINE m == [l EXCEPT !.placed = f]
<1>1. m = [placed |-> f, jumpers |-> l.jumpers, links |-> l.links]
  BY DEF LayoutTyped, IsLayout
<1>2. m.placed = f /\ m.jumpers = l.jumpers /\ m.links = l.links
  BY <1>1
<1> HIDE DEF m
<1>3. LayoutTyped(m)
  BY <1>1, <1>2 DEF LayoutTyped, IsLayout
<1> QED
  BY <1>3 DEF m

LEMMA IterateTyped ==
  ASSUME SolveTyped, Iterate
  PROVE  SolveTyped'
<1>1. /\ UNCHANGED <<job, phase, answer>> /\ iteration < MaxIterations /\ iteration' = iteration + 1
      /\ UNCHANGED vars
  BY DEF Iterate
<1>2. iteration' \in 0..MaxIterations' /\ MaxIterations' = MaxIterations
  BY <1>1, AtLeastOneRound DEF SolveTyped, JobTyped, MaxIterations
<1>3. PICK r \in {q \in Candidates : Known(q)} :
        \E t \in FootprintOf(r).turns, s \in FootprintOf(r).spans : \E p \in Proposals(r, t, s) :
          \/ UNCHANGED <<layout, routing, placing>>
          \/ p # NoPose /\ \E moved :
               /\ moved = [layout EXCEPT !.placed[r] = p]
               /\ layout' = [moved EXCEPT !.jumpers = RouteOf(moved).jumpers]
               /\ routing' = RouteCost(RouteOf(moved)) /\ placing' = PerturbCost(p)
  BY DEF Iterate
<1>4. PICK t \in FootprintOf(r).turns, s \in FootprintOf(r).spans : \E p \in Proposals(r, t, s) :
          \/ UNCHANGED <<layout, routing, placing>>
          \/ p # NoPose /\ \E moved :
               /\ moved = [layout EXCEPT !.placed[r] = p]
               /\ layout' = [moved EXCEPT !.jumpers = RouteOf(moved).jumpers]
               /\ routing' = RouteCost(RouteOf(moved)) /\ placing' = PerturbCost(p)
  BY <1>3
<1>5. r \in Refs /\ Known(r)
  BY DEF Candidates, PlacedRefs
<1>6. LayoutTyped(layout') /\ routing' \in Nat /\ placing' \in Nat
  <2>1. CASE UNCHANGED <<layout, routing, placing>>
    BY <2>1 DEF SolveTyped, JobTyped
  <2>2. ASSUME NEW p \in Proposals(r, t, s), p # NoPose, NEW moved,
               moved = [layout EXCEPT !.placed[r] = p],
               layout' = [moved EXCEPT !.jumpers = RouteOf(moved).jumpers],
               routing' = RouteCost(RouteOf(moved)), placing' = PerturbCost(p)
        PROVE  LayoutTyped(layout') /\ routing' \in Nat /\ placing' \in Nat
    <3> DEFINE f == [layout.placed EXCEPT ![r] = p]
    <3>1. PlacementType(p) /\ PerturbCost(p) \in Nat
      BY <1>5, <2>2, ProposalTyped
    <3>2. f = [q \in Refs |-> f[q]] /\ \A q \in Refs : f[q] # NoPose => PlacementType(f[q])
      BY <1>5, <3>1 DEF SolveTyped, LayoutTyped, IsLayout
    <3>3. moved = [layout EXCEPT !.placed = f]
      BY <2>2 DEF SolveTyped, LayoutTyped, IsLayout
    <3> HIDE DEF f
    <3>4. LayoutTyped(moved)
      BY <3>2, <3>3, ReplacedTyped DEF SolveTyped
    <3> QED
      BY <2>2, <3>1, <3>4, RoutedTyped
  <2> QED
    BY <1>4, <2>1, <2>2
<1>7. PlaceTyped'
  BY <1>1 DEF vars, SolveTyped, PlaceTyped, GivenType, LoopType, BestType, Restarts, Iterations, On
<1>8. JobTyped'
  BY <1>1, <1>2, <1>6 DEF SolveTyped, JobTyped
<1> QED
  BY <1>6, <1>7, <1>8 DEF SolveTyped

LEMMA SolveStepTyped ==
  ASSUME SolveTyped, BestInv, [SolveNext]_allVars
  PROVE  SolveTyped'
<1>1. PlaceTyped'
  BY PlacerSteps, PlaceStepTyped DEF SolveTyped
<1>2. CASE PlaceDone
  <2>1. /\ layout' = [layout EXCEPT !.placed = best.state.placed] /\ placing' = best.cost
        /\ phase = "place" /\ phase' = "route" /\ pc = "done" /\ UNCHANGED <<job, routing, iteration, answer>>
    BY <1>2 DEF PlaceDone
  <2>2. BestType
    BY <2>1 DEF SolveTyped, PlaceTyped, BestInv
  <2>3. LayoutTyped(layout')
    <3> DEFINE f == best.state.placed
    <3>1. f = [r \in Refs |-> f[r]] /\ \A r \in Refs : f[r] # NoPose => PlacementType(f[r])
      BY <2>2 DEF BestType, StateType, IsState
    <3> HIDE DEF f
    <3> QED
      BY <2>1, <3>1, ReplacedTyped DEF SolveTyped, f
  <2>4. JobTyped'
    BY <2>1, <2>2 DEF SolveTyped, JobTyped, BestType, MaxIterations
  <2> QED
    BY <1>1, <2>3, <2>4 DEF SolveTyped
<1>3. CASE Route
  <2>1. /\ layout' = [layout EXCEPT !.jumpers = RouteOf(layout).jumpers]
        /\ routing' = RouteCost(RouteOf(layout))
        /\ phase = "route" /\ phase' = "routed" /\ UNCHANGED <<job, placing, iteration, answer>>
    BY <1>3 DEF Route
  <2>2. LayoutTyped(layout') /\ routing' \in Nat
    BY <2>1, RoutedTyped DEF SolveTyped
  <2>3. JobTyped'
    BY <2>1, <2>2 DEF SolveTyped, JobTyped, MaxIterations
  <2> QED
    BY <1>1, <2>2, <2>3 DEF SolveTyped
<1>4. CASE RouteBase
  <2>1. /\ routing' = RouteCost(RouteOf(layout))
        /\ phase = "base" /\ phase' = "iterate" /\ UNCHANGED <<job, layout, placing, iteration, answer>>
    BY <1>4 DEF RouteBase
  <2>2. routing' \in Nat
    BY <2>1, RoutedTyped DEF SolveTyped
  <2>3. JobTyped'
    BY <2>1, <2>2 DEF SolveTyped, JobTyped, MaxIterations
  <2> QED
    BY <1>1, <2>1, <2>3 DEF SolveTyped
<1>5. CASE Verify
  <2>1. answer' # NoAnswer
    BY <1>5 DEF Verify, NoAnswer
  <2>2. phase' = "answered" /\ UNCHANGED <<job, layout, routing, placing, iteration>>
    BY <1>5 DEF Verify
  <2>3. JobTyped'
    BY <2>1, <2>2 DEF SolveTyped, JobTyped, MaxIterations, Over
  <2> QED
    BY <1>1, <2>2, <2>3 DEF SolveTyped
<1>6. CASE BeginSolve \/ BeginOptimize \/ PlaceStep \/ RouteDone \/ IterationsOver
  <2>1. /\ UNCHANGED <<job, layout, routing, placing, iteration, answer>>
        /\ phase \notin Over /\ phase' \in {"place", "base", "verify"}
    BY <1>6 DEF BeginSolve, BeginOptimize, PlaceStep, RouteDone, IterationsOver, solveVars, Over
  <2>2. JobTyped'
    BY <2>1 DEF SolveTyped, JobTyped, MaxIterations, Over
  <2> QED
    BY <1>1, <2>1, <2>2 DEF SolveTyped
<1>7. CASE Stop
  <2>1. /\ UNCHANGED <<job, layout, routing, placing, iteration, answer>>
        /\ phase \notin Over /\ phase' \in {"cancelled", "timeout"}
    BY <1>7 DEF Stop, Over
  <2>2. JobTyped'
    BY <2>1 DEF SolveTyped, JobTyped, MaxIterations, Over
  <2> QED
    BY <1>1, <2>1, <2>2 DEF SolveTyped
<1>8. CASE Ask \/ Expire \/ UNCHANGED allVars
  <2>1. UNCHANGED <<job, phase, layout, routing, placing, iteration, answer>>
    BY <1>8 DEF Ask, Expire, allVars, solveVars
  <2>2. JobTyped'
    BY <2>1 DEF SolveTyped, JobTyped, MaxIterations
  <2> QED
    BY <1>1, <2>1, <2>2 DEF SolveTyped
<1> QED
  BY <1>2, <1>3, <1>4, <1>5, <1>6, <1>7, <1>8, IterateTyped DEF SolveNext

LEMMA SolveInitTyped ==
  ASSUME DocumentsOnBoard, SolveInit
  PROVE  SolveTyped
<1>1. /\ job \in Jobs /\ given = job.given /\ phase = "start" /\ answer = NoAnswer
      /\ layout = [placed |-> OnRefs(job.given), jumpers |-> job.jumpers, links |-> job.links]
      /\ routing = 0 /\ placing = 0 /\ iteration = 0
  BY DEF SolveInit
<1>2. \A r \in DOMAIN given : PlacementType(given[r])
  BY <1>1 DEF DocumentsOnBoard
<1>3. PlaceTyped
  BY <1>2, PlaceInitTyped DEF SolveInit
<1>4. LayoutTyped(layout)
  <2>1. layout.jumpers = job.jumpers /\ layout.placed = OnRefs(job.given) /\ IsLayout(layout)
    BY <1>1 DEF IsLayout, OnRefs
  <2>2. \A r \in Refs : layout.placed[r] # NoPose => PlacementType(layout.placed[r])
    BY <1>1, <1>2, <2>1 DEF OnRefs
  <2>3. IsFiniteSet(layout.jumpers) /\ \A j \in layout.jumpers : Ends(j) \subseteq AllHoles
    BY <1>1, <2>1, SolveAssumption DEF DocumentsOnBoard
  <2> QED
    BY <2>1, <2>2, <2>3 DEF LayoutTyped
<1>5. JobTyped
  BY <1>1, AtLeastOneRound DEF JobTyped, Over
<1> QED
  BY <1>3, <1>4, <1>5 DEF SolveTyped

-----------------------------------------------------------------------------
(* What follows *)

\* The inductive invariant holds of every job.
THEOREM Invariant == SolveSpec => []SolveInv
<1> QED
  BY SolveInitKeeps, SolveStepKeeps, PTL DEF SolveSpec

\* A locked part without a twin that is alone in its cluster is where the document has it
\* in every attempt of place() and in its answer, whatever the search tries.
THEOREM LoneLocked == SolveSpec => []LoneLockedStay
<1>1. SolveInv => LoneLockedStay
  BY DEF SolveInv, PlaceInv, LoneInv, LoneLockedStay, Lone
<1> QED
  BY <1>1, Invariant, PTL

\* Every part of the netlist is placed or reported, and not both, whatever the clusters
\* do to the order and whatever the search tries (_stable_reorder_by_cluster,
\* _greedy_pass, the moves).
THEOREM Accounted == SolveSpec => []EveryPartAccounted
<1>1. SolveInit => AccountInv
  BY InitAccounts DEF SolveInit
<1>2. SolveInv /\ AccountInv /\ [SolveNext]_allVars => AccountInv'
  BY PlacerSteps, StepAccounts DEF SolveInv
<1> QED
  BY <1>1, <1>2, AccountVisits, Invariant, PTL DEF SolveSpec

\* Once parts lie apart under an exact mask, only _try_relocate_cluster can change that
\* (_clear_pose_from_state, _apply_pose_to_state).
THEOREM OnlyClusterMoves == SolveSpec => OnlyClusterMovesBreak
<1>1. SolveInv /\ EveryPartAccounted /\ [SolveNext]_allVars =>
        [pc # "seed" /\ Exact(state) /\ ~RelocateCluster => Exact(state')]_vars
  <2> SUFFICES ASSUME SolveInv, EveryPartAccounted, [SolveNext]_allVars,
                      pc # "seed", Exact(state), ~RelocateCluster
               PROVE  Exact(state')
    OBVIOUS
  <2> QED
    BY PlacerSteps, ExactStep DEF SolveInv, EveryPartAccounted
<1> QED
  BY <1>1, Accounted, Invariant, PTL DEF SolveSpec, OnlyClusterMovesBreak

\* A job that was told to stop answers only if the flag was set after the last look at it
\* (_check_cancel in solve() and optimize()).
THEOREM Stopped == SolveSpec => []StoppedInTime
<1>1. SolveInv => StoppedInTime
  BY DEF SolveInv, StopInv, StoppedInTime
<1> QED
  BY <1>1, Invariant, PTL

\* Whatever optimize() proposes and accepts, locked parts and locked wires stay as the
\* document has them (optimize(), route()).
THEOREM LockedKept == SolveSpec => []OptimizeKeepsLocked
<1>1. SolveInv => OptimizeKeepsLocked
  BY DEF SolveInv, OptimizeInv, OptimizeKeepsLocked
<1> QED
  BY <1>1, Invariant, PTL

\* An answer without an error and with all parts placed is the circuit: every pin has a
\* hole of its own, and a path of strips, wires and leads joins two pins if and only if
\* they are of one net, for documents that record a hole for every pin
\* (validate_layout against place(), route() and optimize()).
THEOREM CleanBuilt ==
  ASSUME CompleteDocuments
  PROVE  SolveSpec => []CleanMeansBuilt
<1>1. SolveInit => BuiltInv
  BY BuiltInitKeeps
<1>2. SolveInv /\ BuiltInv /\ [SolveNext]_allVars => BuiltInv'
  BY BuiltStepKeeps
<1>3. BuiltInv => CleanMeansBuilt
  BY JudgedBuilds DEF BuiltInv, CleanMeansBuilt
<1> QED
  BY <1>1, <1>2, <1>3, Invariant, PTL DEF SolveSpec

\* The types of all that solve() and optimize() keep: parts lie on the board, costs are
\* numbers, the counters stay within their limits, wires end in holes, and there is an
\* answer if and only if the job has answered, for documents that are on the board
\* (_PlacerState, _greedy_pass, _local_search, route(), _propose_perturbation).
THEOREM TypeCorrect ==
  ASSUME DocumentsOnBoard
  PROVE  SolveSpec => []SolveTypeOK
<1>1. SolveInit => SolveTyped /\ AccountInv
  BY SolveInitTyped, InitAccounts DEF SolveInit
<1>2. SolveInv /\ AccountInv /\ SolveTyped /\ [SolveNext]_allVars => (AccountInv /\ SolveTyped)'
  BY PlacerSteps, StepAccounts, SolveStepTyped DEF SolveInv, AccountInv
<1>3. SolveTyped /\ AccountInv => SolveTypeOK
  BY SolveTypes DEF AccountInv
<1> QED
  BY <1>1, <1>2, <1>3, Invariant, PTL DEF SolveSpec

=============================================================================
