------------------------------ MODULE PerfProofs ------------------------------
(* Proofs about PerfSolve, for any board, netlist, registry, options and budget: when a job
   sees that it was told to stop, what the winner is measured against, how far the
   placements lie apart that it is chosen from, that copper joins what it should, what the
   greedy placer keeps (as SolveProofs shows it of the placer it is a copy of), and that
   all of it has its type. *)
EXTENDS PerfSolve, FiniteSetTheorems, TLAPS

-----------------------------------------------------------------------------
(* The winner *)

\* What evaluation has said of a placement is what it says of it again; the greedy
\* placement is among the outcomes before they are ranked, if it counts.
WinnerInv ==
  /\ phase \in {"start", "search", "evaluate", "candidate"} => pc = "seed"
  /\ \A o \in outcomes : VerdictOf(o.placed) = {o.verdict}
  /\ phase = "rank" /\ asked = "no" /\ best.unplaced = {} =>
       Outcome(best.state.placed) \subseteq outcomes
  /\ WinnerNotWorse

\* A placement has one outcome.
LEMMA OutcomeVerdict ==
  ASSUME NEW placed, NEW o \in Outcome(placed)
  PROVE  o.placed = placed /\ VerdictOf(o.placed) = {o.verdict}
<1> DEFINE r == T!Route(placed)
           only == [placed |-> placed, verdict |-> Verdict(placed, r, Diagnostics(placed, r.traces))]
<1>1. Outcome(placed) = {only}
  BY DEF Outcome
<1>2. o = only
  BY <1>1
<1>3. o.placed = placed
  BY <1>2
<1> HIDE DEF only
<1> QED
  BY <1>1, <1>2, <1>3 DEF VerdictOf

LEMMA PlacingKeepsWinner ==
  ASSUME WinnerInv, BeginGreedy \/ BeginEmpty \/ BeginSearch \/ BeginRoute \/ Find \/ FindNothing
                      \/ Retry \/ Collected
  PROVE  WinnerInv'
<1>1. UNCHANGED <<pc, best, outcomes>>
  BY DEF BeginGreedy, BeginEmpty, BeginSearch, BeginRoute, Find, FindNothing, Retry, Collected, placerVars
<1>2. pc = "seed"
  BY DEF WinnerInv, BeginGreedy, BeginEmpty, BeginSearch, BeginRoute, Find, FindNothing, Retry, Collected
<1>3. phase' # "rank"
  BY DEF BeginGreedy, BeginEmpty, BeginSearch, BeginRoute, Find, FindNothing, Retry, Collected
<1> QED
  BY <1>1, <1>2, <1>3 DEF WinnerInv, WinnerNotWorse

LEMMA EvaluatingKeepsWinner ==
  ASSUME WinnerInv, TakeUp \/ Evaluate \/ PassOver \/ EvaluationsOver
  PROVE  WinnerInv'
<1>1. /\ UNCHANGED <<pc, best>> /\ phase' \notin {"start", "search", "rank", "placed"}
      /\ phase' \in {"evaluate", "candidate"} => pc = "seed"
  BY DEF WinnerInv, TakeUp, Evaluate, PassOver, EvaluationsOver, placerVars
<1>2. \A o \in outcomes' : VerdictOf(o.placed) = {o.verdict}
  <2>1. CASE Evaluate
    <3>1. \A o \in Outcome(PlacedBy(Head(collected))) : VerdictOf(o.placed) = {o.verdict}
      BY OutcomeVerdict
    <3> QED
      BY <2>1, <3>1 DEF WinnerInv, Evaluate
  <2>2. CASE TakeUp \/ PassOver \/ EvaluationsOver
    BY <2>2 DEF WinnerInv, TakeUp, PassOver, EvaluationsOver
  <2> QED
    BY <2>1, <2>2
<1> QED
  BY <1>1, <1>2 DEF WinnerInv, WinnerNotWorse

LEMMA GreedyKeepsWinner ==
  ASSUME WinnerInv, GreedyPlaces \/ GreedyAnswers \/ GreedyFails \/ Compare \/ EvaluateGreedy
  PROVE  WinnerInv'
<1>1. CASE GreedyPlaces
  <2>1. phase \in Greedy /\ UNCHANGED <<phase, outcomes>>
    BY <1>1 DEF GreedyPlaces, jobVars
  <2> QED
    BY <2>1 DEF WinnerInv, WinnerNotWorse, Greedy
<1>2. CASE GreedyAnswers
  <2>1. /\ UNCHANGED <<pc, best, outcomes>> /\ phase' = "placed" /\ found'.placed = best'.state.placed
    BY <1>2 DEF GreedyAnswers, placerVars
  <2> QED
    BY <2>1 DEF WinnerInv, WinnerNotWorse
<1>3. CASE GreedyFails
  <2>1. /\ UNCHANGED <<pc, best, outcomes>> /\ phase' = "placed" /\ best.unplaced # {}
    BY <1>3 DEF GreedyFails, placerVars
  <2> QED
    BY <2>1 DEF WinnerInv, WinnerNotWorse
<1>4. CASE Compare
  <2>1. /\ UNCHANGED <<pc, best, outcomes, asked>>
        /\ phase' = IF best.unplaced = {} /\ asked = "no" THEN "greedyCandidate" ELSE "rank"
    BY <1>4 DEF Compare, placerVars
  <2> QED
    BY <2>1 DEF WinnerInv, WinnerNotWorse
<1>5. CASE EvaluateGreedy
  <2>1. /\ UNCHANGED <<pc, best>> /\ phase' = "rank"
        /\ outcomes' = outcomes \cup Outcome(best.state.placed)
    BY <1>5 DEF EvaluateGreedy, placerVars
  <2>2. \A o \in Outcome(best.state.placed) : VerdictOf(o.placed) = {o.verdict}
    BY OutcomeVerdict
  <2> QED
    BY <2>1, <2>2 DEF WinnerInv, WinnerNotWorse
<1> QED
  BY <1>1, <1>2, <1>3, <1>4, <1>5

\* The winner is an outcome that no outcome beats, the greedy one neither.
LEMMA ChooseKeepsWinner ==
  ASSUME WinnerInv, Choose
  PROVE  WinnerInv'
<1>1. /\ UNCHANGED <<pc, best, outcomes, asked>> /\ phase = "rank" /\ phase' = "placed"
  BY DEF Choose, placerVars
<1>2. PICK o \in Best(outcomes) : found' = [placed |-> o.placed, unplaced |-> {}]
  BY DEF Choose
<1>3. o \in outcomes /\ (\A q \in outcomes : ~Lex(q.verdict, o.verdict)) /\ found'.placed = o.placed
  BY <1>2 DEF Best
<1>4. VerdictOf(found'.placed) = {o.verdict}
  BY <1>3 DEF WinnerInv
<1>5. ASSUME asked = "no", best.unplaced = {}, NEW w \in VerdictOf(best.state.placed)
      PROVE  ~Lex(w, o.verdict)
  <2>1. PICK q \in Outcome(best.state.placed) : w = q.verdict
    BY <1>5 DEF VerdictOf
  <2>2. q \in outcomes
    BY <1>1, <1>5, <2>1 DEF WinnerInv
  <2> QED
    BY <1>3, <2>1, <2>2
<1> QED
  BY <1>1, <1>4, <1>5 DEF WinnerInv, WinnerNotWorse

LEMMA EndKeepsWinner ==
  ASSUME WinnerInv, RoutePlaced \/ Verify \/ Cancel \/ RouteCancelled \/ Ask \/ UNCHANGED allVars
  PROVE  WinnerInv'
<1>1. CASE RoutePlaced \/ Verify \/ Cancel \/ RouteCancelled
  <2>1. UNCHANGED outcomes /\ phase' \in {"verify", "answered", "cancelled", "failed"}
    BY <1>1 DEF RoutePlaced, Verify, Cancel, RouteCancelled
  <2> QED
    BY <2>1 DEF WinnerInv, WinnerNotWorse
<1>2. CASE Ask
  <2>1. UNCHANGED <<pc, best, outcomes, phase, found>> /\ asked' = phase /\ asked = "no" /\ phase \notin Ends
    BY <1>2 DEF Ask, placerVars
  <2> QED
    BY <2>1 DEF WinnerInv, WinnerNotWorse
<1>3. CASE UNCHANGED allVars
  <2>1. UNCHANGED <<pc, best, outcomes, phase, found, asked>>
    BY <1>3 DEF allVars, jobVars, placerVars
  <2> QED
    BY <2>1 DEF WinnerInv, WinnerNotWorse
<1> QED
  BY <1>1, <1>2, <1>3

\* If the greedy placer places all parts and nobody interferes, the placement that is taken
\* is the greedy one or not worse in any of the fields that decide first (the baseline of
\* solve_cpsat_placement and _rank_outcomes).
THEOREM NotWorse == SolveSpec => []WinnerNotWorse
<1>1. SolveInit => WinnerInv
  BY DEF SolveInit, PlacerInit, P!Init, WinnerInv, WinnerNotWorse
<1>2. ASSUME WinnerInv, [SolveNext]_allVars
      PROVE  WinnerInv'
  BY <1>2, PlacingKeepsWinner, EvaluatingKeepsWinner, GreedyKeepsWinner, ChooseKeepsWinner,
     EndKeepsWinner DEF SolveNext
<1>3. WinnerInv => WinnerNotWorse
  BY DEF WinnerInv
<1> QED
  BY <1>1, <1>2, <1>3, PTL DEF SolveSpec

-----------------------------------------------------------------------------
(* The placements to choose from *)

\* What the placer assumes, by its parts.
LEMMA BoardFacts ==
  /\ Rows \in Nat /\ Cols \in Nat /\ Nets \in Seq(DOMAIN Net) /\ ByName \in Seq(Refs)
  /\ \A f \in DOMAIN Footprint : P!FootprintType(Footprint[f])
  /\ \A i \in DOMAIN Nets : Net[Nets[i]].pins \in Seq(Refs \X STRING)
<1>1. Rows \in Nat /\ Cols \in Nat /\ P!PosesAssumption
  BY PerfPlacerAssumption
<1>2. P!Refs = Refs
  BY DEF P!Refs, Refs
<1> QED
  BY <1>1, <1>2 DEF P!PosesAssumption

\* A footprint has finitely many poses on the board.
LEMMA PosesFinite ==
  ASSUME NEW r \in Refs, Known(r)
  PROVE  IsFiniteSet(Poses[FootprintId[r]])
<1> DEFINE f == Footprint[FootprintId[r]]
<1>1. FootprintId[r] \in DOMAIN Footprint /\ P!FootprintType(f)
  BY BoardFacts DEF Known, P!Known
<1>2. IsFiniteSet(f.turns) /\ IsFiniteSet(f.spans)
  <2>1. IsFiniteSet({0, 90, 180, 270})
    <3>1. {0, 90, 180, 270} \subseteq 0..270
      OBVIOUS
    <3>2. IsFiniteSet(0..270)
      <4>1. 0 \in Int /\ 270 \in Int
        OBVIOUS
      <4> QED
        BY <4>1, FS_Interval, Zenon
    <3> QED
      BY <3>1, <3>2, FS_Subset
  <2>2. f.turns \in SUBSET {0, 90, 180, 270} /\ IsFiniteSet(f.spans)
    BY <1>1 DEF P!FootprintType, P!IsFiniteSet, IsFiniteSet
  <2> QED
    BY <2>1, <2>2, FS_Subset
<1>3. IsFiniteSet(Lattice)
  <2>1. IsFiniteSet(1..Cols) /\ IsFiniteSet(1..Rows)
    <3>1. 1 \in Int /\ Cols \in Int /\ Rows \in Int
      BY BoardFacts
    <3> QED
      BY <3>1, FS_Interval, Zenon
  <2> QED
    BY <2>1, FS_Product DEF Lattice
<1> DEFINE D == Lattice \X (f.turns \X f.spans)
           pose == [x \in D |-> P!PoseAt(f, x[1], x[2][1], x[2][2])]
           I == {pose[x] : x \in D}
<1>4. IsFiniteSet(D)
  BY <1>2, <1>3, FS_Product
<1>5. IsFiniteSet(I)
  <2>1. pose \in Surjection(D, I)
    BY DEF Surjection
  <2> QED
    BY <1>4, <2>1, FS_Surjection
<1>6. Poses[FootprintId[r]] \subseteq I
  <2>1. Poses[FootprintId[r]] = P!PosesOf(f)
    BY <1>1 DEF Poses, P!Poses
  <2>2. ASSUME NEW h \in Lattice, NEW t \in f.turns, NEW s \in f.spans
        PROVE  P!PoseAt(f, h, t, s) \in I
    <3> DEFINE x == <<h, <<t, s>>>>
    <3>1. x \in D /\ x[1] = h /\ x[2][1] = t /\ x[2][2] = s
      OBVIOUS
    <3>2. pose[x] = P!PoseAt(f, h, t, s)
      BY <3>1
    <3> QED
      BY <3>1, <3>2
  <2>3. ASSUME NEW q \in P!PosesOf(f)
        PROVE  \E h \in Lattice, t \in f.turns, s \in f.spans : q = P!PoseAt(f, h, t, s)
    BY <2>3 DEF P!PosesOf
  <2> HIDE DEF I, f
  <2> QED
    BY <2>1, <2>2, <2>3
<1> QED
  BY <1>5, <1>6, FS_Subset

LEMMA RefsFinite == IsFiniteSet(Refs)
<1> DEFINE n == Len(ByName)
<1>1. ByName \in [1..n -> Refs] /\ n \in Nat /\ DOMAIN ByName = 1..n
  BY BoardFacts
<1>2. ByName \in Surjection(1..n, Refs)
  BY <1>1 DEF Surjection, Refs
<1>3. IsFiniteSet(1..n)
  <2>1. 1 \in Int /\ n \in Int
    BY <1>1
  <2> HIDE DEF n
  <2> QED
    BY <2>1, FS_Interval, Zenon
<1> QED
  BY <1>2, <1>3, FS_Surjection

\* A candidate is a pose that keeps off the locked parts.
LEMMA CandidatesEnumerated ==
  ASSUME NEW r, NEW n
  PROVE  CandidatesOf(r, n) \subseteq Enumerated(r)
<1> DEFINE all == Enumerated(r)
<1>1. DOMAIN KeysFor(r, all) = all
  BY DEF KeysFor, RobinKeys
<1>2. FirstOf(n, KeysFor(r, all)) \subseteq all
  BY <1>1 DEF FirstOf
<1> HIDE DEF all
<1>3. CandidatesOf(r, n) = all \/ CandidatesOf(r, n) = FirstOf(n, KeysFor(r, all))
  BY DEF CandidatesOf, all
<1> QED
  BY <1>2, <1>3 DEF all

\* With a higher limit there are no fewer candidates.
LEMMA MoreCandidates ==
  ASSUME NEW r \in Refs, NEW n \in Nat, NEW m \in Nat, n <= m
  PROVE  CandidatesOf(r, n) \subseteq CandidatesOf(r, m)
<1> DEFINE all == Enumerated(r)  key == KeysFor(r, all)
           beaten(p) == {q \in DOMAIN key : Lex(key[q], key[p])}
<1>1. IsFiniteSet(all)
  <2>1. CASE Known(r)
    <3>1. all \in SUBSET Poses[FootprintId[r]]
      BY <2>1 DEF Enumerated
    <3> QED
      BY <2>1, <3>1, PosesFinite, FS_Subset
  <2>2. CASE ~Known(r)
    BY <2>2, FS_EmptySet DEF Enumerated
  <2> QED
    BY <2>1, <2>2
<1>2. DOMAIN key = all
  BY DEF KeysFor, RobinKeys
<1> HIDE DEF all, key
<1>3. ASSUME NEW p \in all
      PROVE  Cardinality(beaten(p)) \in Nat
  <2>1. beaten(p) \in SUBSET all
    BY <1>2
  <2> QED
    BY <1>1, <2>1, FS_Subset, FS_CardinalityType
<1>4. Cardinality(all) \in Nat
  BY <1>1, FS_CardinalityType
<1>5. FirstOf(n, key) \subseteq FirstOf(m, key)
  <2>1. ASSUME NEW p \in DOMAIN key, Cardinality(beaten(p)) < n
        PROVE  Cardinality(beaten(p)) < m
    BY <1>2, <1>3, <2>1
  <2> QED
    BY <2>1 DEF FirstOf
<1>6. FirstOf(n, key) \subseteq all
  BY <1>2 DEF FirstOf
<1>7. \A k : CandidatesOf(r, k) = IF Cardinality(all) <= k THEN all ELSE FirstOf(k, key)
  BY DEF CandidatesOf, all, key
<1>8. CASE Cardinality(all) <= m
  BY <1>6, <1>7, <1>8
<1>9. CASE ~(Cardinality(all) <= m)
  <2>1. ~(Cardinality(all) <= n)
    BY <1>4, <1>9
  <2> QED
    BY <1>5, <1>7, <1>9, <2>1
<1> QED
  BY <1>8, <1>9

LEMMA BudgetNumbers ==
  ASSUME job \in Jobs
  PROVE  Budget.count \in Nat
BY PerfSolveAssumption DEF Budget, Budgets

\* The parts that have a candidate.
PartsWith(n) == {r \in Movable : CandidatesOf(r, n) # {}}

\* What CP-SAT may find.
LEMMA AssignmentFacts ==
  ASSUME NEW n, NEW a \in Assignments(Candidates(n))
  PROVE  /\ DOMAIN a = PartsWith(n) /\ IsFiniteSet(DOMAIN a)
         /\ \A r \in DOMAIN a : a[r] \in CandidatesOf(r, n)
         /\ a \in [PartsWith(n) -> UNION {CandidatesOf(r, n) : r \in PartsWith(n)}]
<1> DEFINE candidates == Candidates(n)
<1>1. DOMAIN candidates = Movable /\ \A r \in Movable : candidates[r] = CandidatesOf(r, n)
  BY DEF Candidates
<1> HIDE DEF candidates
<1>2. {r \in DOMAIN candidates : candidates[r] # {}} = PartsWith(n)
  BY <1>1 DEF PartsWith
<1>3. /\ a \in [PartsWith(n) -> UNION {candidates[r] : r \in PartsWith(n)}]
      /\ \A r \in PartsWith(n) : a[r] \in candidates[r]
  BY <1>2 DEF Assignments, candidates
<1>4. PartsWith(n) \in SUBSET Refs /\ PartsWith(n) \subseteq Movable
  BY DEF PartsWith, Movable
<1>5. UNION {candidates[r] : r \in PartsWith(n)} = UNION {CandidatesOf(r, n) : r \in PartsWith(n)}
  BY <1>1, <1>4
<1> QED
  BY <1>1, <1>3, <1>4, <1>5, RefsFinite, FS_Subset

\* A pose is known by the hole of a pin, the span and the turn.
LEMMA PoseKnown ==
  ASSUME NEW f, P!FootprintType(f), NEW p \in P!PosesOf(f), NEW q \in P!PosesOf(f), Same(p, q)
  PROVE  p = q
<1>1. PICK h \in Lattice, t \in f.turns, s \in f.spans : p = P!PoseAt(f, h, t, s)
  BY DEF P!PosesOf
<1>2. PICK g \in Lattice, u \in f.turns, w \in f.spans : q = P!PoseAt(f, g, u, w)
  BY DEF P!PosesOf
<1>3. p.turn = t /\ p.span = s /\ q.turn = u /\ q.span = w
  BY <1>1, <1>2 DEF P!PoseAt
<1>4. t = u /\ s = w
  BY <1>3 DEF Same
<1> DEFINE offsets == P!PinOffsets(f, s)
           x == CHOOSE y \in DOMAIN offsets : TRUE
           d == P!Rotate(offsets[x], t)
<1>5. DOMAIN offsets # {} /\ \A y \in DOMAIN offsets : offsets[y] \in Int \X Int
  <2>1. CASE s = P!NoSpan
    BY <2>1 DEF P!FootprintType, P!PinOffsets
  <2>2. CASE s # P!NoSpan
    <3>1. s \in Nat /\ offsets = [y \in {"1", "2"} |-> IF y = "1" THEN <<0, 0>> ELSE <<s, 0>>]
      BY <2>2 DEF P!FootprintType, P!PinOffsets, P!Leads
    <3> QED
      BY <3>1
  <2> QED
    BY <2>1, <2>2
<1>6. DOMAIN p.pins = DOMAIN offsets /\ DOMAIN q.pins = DOMAIN offsets
  BY <1>1, <1>2, <1>4 DEF P!PoseAt
<1>7. x \in DOMAIN offsets
  BY <1>5
<1>8. FirstHole(p) = p.pins[x] /\ FirstHole(q) = q.pins[x]
  BY <1>6 DEF FirstHole
<1>9. p.pins[x] = P!Plus(h, d) /\ q.pins[x] = P!Plus(g, d)
  BY <1>1, <1>2, <1>4, <1>7 DEF P!PoseAt
<1>10. d[1] \in Int /\ d[2] \in Int
  <2> DEFINE o == offsets[x]
  <2>1. o \in Int \X Int
    BY <1>5, <1>7
  <2>2. t \in {0, 90, 180, 270}
    BY DEF P!FootprintType
  <2> HIDE DEF o, x, offsets
  <2>3. o[1] \in Int /\ o[2] \in Int
    BY <2>1
  <2>4. P!Rotate(o, t) \in {o, <<o[2], 0 - o[1]>>, <<0 - o[1], 0 - o[2]>>, <<0 - o[2], o[1]>>}
    BY <2>2 DEF P!Rotate
  <2>5. d = P!Rotate(o, t)
    BY DEF o
  <2> HIDE DEF d
  <2> QED
    BY <2>3, <2>4, <2>5
<1> HIDE DEF d, x, offsets
<1>11. P!Plus(h, d) = P!Plus(g, d)
  BY <1>8, <1>9 DEF Same
<1>12. h = <<h[1], h[2]>> /\ g = <<g[1], g[2]>> /\ h[1] \in Int /\ h[2] \in Int /\ g[1] \in Int /\ g[2] \in Int
  BY BoardFacts DEF Lattice
<1>13. P!Plus(h, d) = <<h[1] + d[1], h[2] + d[2]>> /\ P!Plus(g, d) = <<g[1] + d[1], g[2] + d[2]>>
  BY DEF P!Plus
<1>14. h[1] = g[1] /\ h[2] = g[2]
  <2> DEFINE i == d[1]
             j == d[2]
             a == h[1]
             b == h[2]
             k == g[1]
             l == g[2]
  <2>1. i \in Int /\ j \in Int /\ a \in Int /\ b \in Int /\ k \in Int /\ l \in Int
    BY <1>10, <1>12
  <2>2. <<a + i, b + j>> = <<k + i, l + j>>
    BY <1>11, <1>13, Zenon
  <2> HIDE DEF i, j, a, b, k, l
  <2>3. a + i = k + i /\ b + j = l + j
    BY <2>2
  <2>4. a = k /\ b = l
    BY <2>1, <2>3
  <2> QED
    BY <2>4 DEF a, b, k, l
<1>15. h = g
  BY <1>12, <1>14
<1> QED
  BY <1>1, <1>2, <1>4, <1>15

\* So an assignment is read off its placements as it is.
LEMMA RecognisedSame ==
  ASSUME NEW a \in Assignments(Candidates(limit))
  PROVE  Recognised(a) = a
<1>1. DOMAIN a = PartsWith(limit) /\ \A r \in DOMAIN a : a[r] \in CandidatesOf(r, limit)
  BY AssignmentFacts
<1>2. ASSUME NEW r \in DOMAIN a
      PROVE  (CHOOSE p \in CandidatesOf(r, limit) : Same(p, a[r])) = a[r]
  <2> DEFINE C == CandidatesOf(r, limit)
  <2>1. a[r] \in C /\ C \subseteq Enumerated(r)
    BY <1>1, <1>2, CandidatesEnumerated
  <2>2. Same(a[r], a[r])
    BY DEF Same
  <2>3. ASSUME NEW p \in C, Same(p, a[r])
        PROVE  p = a[r]
    <3> DEFINE f == Footprint[FootprintId[r]]
    <3>1. Known(r) /\ p \in Poses[FootprintId[r]] /\ a[r] \in Poses[FootprintId[r]]
      BY <2>1, <2>3 DEF Enumerated
    <3>2. FootprintId[r] \in DOMAIN Footprint
      BY <3>1 DEF Known, P!Known
    <3>3. Poses[FootprintId[r]] = P!PosesOf(f) /\ P!FootprintType(f)
      BY <3>2, BoardFacts DEF Poses, P!Poses
    <3> QED
      BY <2>3, <3>1, <3>3, PoseKnown
  <2> HIDE DEF C
  <2> SUFFICES (CHOOSE p \in C : Same(p, a[r])) = a[r]
    BY DEF C
  <2> QED
    BY <2>1, <2>2, <2>3
<1>3. a = [r \in DOMAIN a |-> a[r]]
  <2>1. a \in [PartsWith(limit) -> UNION {CandidatesOf(r, limit) : r \in PartsWith(limit)}]
    BY AssignmentFacts
  <2> QED
    BY <2>1
<1> QED
  BY <1>2, <1>3 DEF Recognised

\* Half of the parts, and of the only one all.
LEMMA ChangesEnough ==
  ASSUME NEW before, IsFiniteSet(DOMAIN before), DOMAIN before # {}
  PROVE  MinChanges(before) \in Nat /\ MinChanges(before) >= 1
         /\ 2 * MinChanges(before) + 1 >= Cardinality(DOMAIN before)
<1>1. Cardinality(DOMAIN before) \in Nat \ {0}
  BY FS_CardinalityType, FS_EmptySet
<1> QED
  BY <1>1 DEF MinChanges

\* Every assignment uses the candidates of the limit that holds, there is a part to choose
\* for, each differs from those before it, and what was found is barred as long as Solve is
\* called again.
Differs(a, before) == Cardinality(Changed(a, before)) >= MinChanges(before)
SearchInv ==
  /\ job \in Jobs /\ tries \in Nat
  /\ waiting \in Nat /\ \A a \in barred \cup {previous} : DOMAIN a \subseteq Movable
  /\ phase = "search" /\ tries < Budget.count => \A i \in DOMAIN collected : collected[i] \in barred
  /\ phase = "start" => collected = <<>>
  /\ phase = "candidate" => collected # <<>>
  /\ phase = "search" \/ collected # <<>> => PartsWith(limit) # {}
  /\ collected \in Seq(Assignments(Candidates(limit)))
  /\ \A i, j \in DOMAIN collected : j < i => Differs(collected[i], collected[j])

\* The steps that leave the search, and the assignments, as they are.
LEMMA SearchUnchanged ==
  ASSUME SearchInv, UNCHANGED <<job, limit, tries, searchVars, collected>>, waiting' \in Nat,
         phase' \in {"start", "search", "candidate"} =>
           phase' = phase \/ (phase' = "candidate" /\ collected # <<>>)
  PROVE  SearchInv'
<1>1. /\ Assignments(Candidates(limit))' = Assignments(Candidates(limit))
      /\ PartsWith(limit)' = PartsWith(limit) /\ Movable' = Movable /\ Budget' = Budget
  BY DEF Candidates, Movable, LockedRefs, CandidatesOf, Enumerated, LockedCells, KeysFor, PartsWith, Budget
<1> QED
  BY <1>1 DEF SearchInv, searchVars

LEMMA SearchInit ==
  ASSUME SolveInit
  PROVE  SearchInv
<1>1. /\ job \in Jobs /\ phase = "start" /\ collected = <<>> /\ tries = 0 /\ waiting = 0
      /\ previous = <<>> /\ barred = {}
  BY DEF SolveInit
<1>2. <<>> \in Seq(Assignments(Candidates(limit))) /\ DOMAIN <<>> = {}
  OBVIOUS
<1> QED
  BY <1>1, <1>2 DEF SearchInv

LEMMA FindKeeps ==
  ASSUME SearchInv, Find
  PROVE  SearchInv'
<1>1. PICK a \in Allowed :
        collected' = Append(collected, a) /\ previous' = Recognised(a) /\ Bar(previous')
  BY DEF Find
<1>2. /\ UNCHANGED <<job, limit, phase, waiting>> /\ phase = "search"
      /\ tries < Budget.count /\ tries' = tries + 1
  BY DEF Find
<1>3. /\ Assignments(Candidates(limit))' = Assignments(Candidates(limit))
      /\ PartsWith(limit)' = PartsWith(limit)
  BY <1>2 DEF Candidates, Movable, LockedRefs, CandidatesOf, Enumerated, LockedCells, KeysFor, PartsWith
<1> DEFINE A == Assignments(Candidates(limit))
<1>4. a \in A /\ \A i \in DOMAIN collected : Differs(a, collected[i])
  BY <1>1, <1>2 DEF Allowed, Differs, SearchInv
<1>9. previous' = a /\ DOMAIN a \subseteq Movable /\ DOMAIN a # {}
  BY <1>1, <1>2, <1>4, RecognisedSame, AssignmentFacts DEF PartsWith, SearchInv
<1>10. barred' = IF tries < Budget.count - 1 THEN barred \cup {a} ELSE barred
  BY <1>1, <1>9 DEF Bar
<1>11. tries \in Nat /\ Budget.count \in Nat /\ Budget' = Budget /\ Movable' = Movable
  BY <1>2, BudgetNumbers DEF SearchInv, Budget, Movable, LockedRefs
<1>5. collected \in Seq(A) /\ \A i, j \in DOMAIN collected : j < i => Differs(collected[i], collected[j])
  BY DEF SearchInv
<1> HIDE DEF A
<1>6. /\ collected' \in Seq(A) /\ Len(collected') = Len(collected) + 1 /\ Len(collected) \in Nat
      /\ \A i \in 1..Len(collected) : collected'[i] = collected[i]
      /\ collected'[Len(collected) + 1] = a
  BY <1>1, <1>4, <1>5
<1>7. ASSUME NEW i \in DOMAIN collected', NEW j \in DOMAIN collected', j < i
      PROVE  Differs(collected'[i], collected'[j])
  <2>1. i \in 1..(Len(collected) + 1) /\ j \in 1..Len(collected)
    BY <1>6, <1>7
  <2>2. collected'[j] = collected[j] /\ j \in DOMAIN collected
    BY <1>5, <1>6, <2>1
  <2>3. CASE i = Len(collected) + 1
    BY <1>4, <1>6, <2>2, <2>3
  <2>4. CASE i # Len(collected) + 1
    <3>1. i \in DOMAIN collected /\ collected'[i] = collected[i]
      BY <1>5, <1>6, <2>1, <2>4
    <3> QED
      BY <1>5, <1>7, <2>2, <3>1
  <2> QED
    BY <2>3, <2>4
<1>8. \A i, j \in DOMAIN collected' : j < i => Differs(collected'[i], collected'[j])
  BY <1>7
<1>12. ASSUME tries' < Budget.count, NEW i \in DOMAIN collected'
       PROVE  collected'[i] \in barred'
  <2>1. barred' = barred \cup {a}
    BY <1>2, <1>10, <1>11, <1>12
  <2>2. CASE i = Len(collected) + 1
    BY <1>6, <2>1, <2>2
  <2>3. CASE i # Len(collected) + 1
    <3>1. i \in 1..(Len(collected) + 1)
      BY <1>6, <1>12
    <3>2. i \in DOMAIN collected /\ collected'[i] = collected[i]
      BY <1>5, <1>6, <2>3, <3>1
    <3> QED
      BY <1>2, <2>1, <3>2 DEF SearchInv
  <2> QED
    BY <2>2, <2>3
<1>13. /\ waiting' \in Nat /\ tries' \in Nat /\ job' \in Jobs
       /\ \A b \in barred' \cup {previous'} : DOMAIN b \subseteq Movable
  BY <1>2, <1>9, <1>10, <1>11 DEF SearchInv
<1>14. collected' # <<>> /\ PartsWith(limit) # {}
  BY <1>1, <1>2 DEF SearchInv
<1> QED
  BY <1>2, <1>3, <1>6, <1>8, <1>11, <1>12, <1>13, <1>14 DEF SearchInv, A

\* After a call that finds nothing, all that was barred stays barred.
LEMMA NothingKeeps ==
  ASSUME SearchInv, FindNothing
  PROVE  SearchInv'
<1>1. /\ UNCHANGED <<job, limit, phase, waiting, previous, collected>> /\ tries' = tries + 1
      /\ barred' \subseteq barred \cup {previous} /\ barred \subseteq barred'
  BY DEF FindNothing, Bar
<1>2. /\ Assignments(Candidates(limit))' = Assignments(Candidates(limit))
      /\ PartsWith(limit)' = PartsWith(limit) /\ Movable' = Movable /\ Budget' = Budget
  BY <1>1 DEF Candidates, Movable, LockedRefs, CandidatesOf, Enumerated, LockedCells, KeysFor, PartsWith, Budget
<1>3. tries \in Nat /\ Budget.count \in Nat
  BY BudgetNumbers DEF SearchInv
<1>4. tries' < Budget.count => tries < Budget.count
  BY <1>1, <1>3
<1> QED
  BY <1>1, <1>2, <1>3, <1>4 DEF SearchInv

\* The model is dropped when it is not needed any more.
LEMMA CollectedKeeps ==
  ASSUME SearchInv, Collected
  PROVE  SearchInv'
<1>1. /\ UNCHANGED <<job, limit, waiting, tries, collected>> /\ previous' = <<>> /\ barred' = {}
      /\ phase' = "evaluate"
  BY DEF Collected
<1>2. /\ Assignments(Candidates(limit))' = Assignments(Candidates(limit))
      /\ PartsWith(limit)' = PartsWith(limit) /\ Movable' = Movable
  BY <1>1 DEF Candidates, Movable, LockedRefs, CandidatesOf, Enumerated, LockedCells, KeysFor, PartsWith
<1>3. phase = "search" /\ DOMAIN <<>> = {}
  BY DEF Collected
<1> QED
  BY <1>1, <1>2, <1>3 DEF SearchInv

LEMMA TailKeeps ==
  ASSUME SearchInv, collected # <<>>, collected' = Tail(collected), UNCHANGED <<job, limit, tries, waiting, searchVars>>,
         phase' \notin {"start", "search", "candidate"}
  PROVE  SearchInv'
<1>1. /\ Assignments(Candidates(limit))' = Assignments(Candidates(limit))
      /\ PartsWith(limit)' = PartsWith(limit)
  BY DEF Candidates, Movable, LockedRefs, CandidatesOf, Enumerated, LockedCells, KeysFor, PartsWith
<1> DEFINE A == Assignments(Candidates(limit))
<1>2. collected \in Seq(A) /\ \A i, j \in DOMAIN collected : j < i => Differs(collected[i], collected[j])
  BY DEF SearchInv
<1> HIDE DEF A
<1>3. /\ collected' \in Seq(A) /\ Len(collected') = Len(collected) - 1 /\ Len(collected) \in Nat \ {0}
      /\ \A i \in 1..(Len(collected) - 1) : collected'[i] = collected[i + 1]
  BY <1>2
<1>4. ASSUME NEW i \in DOMAIN collected', NEW j \in DOMAIN collected', j < i
      PROVE  Differs(collected'[i], collected'[j])
  <2>1. i \in 1..(Len(collected) - 1) /\ j \in 1..(Len(collected) - 1)
    BY <1>3
  <2>2. i + 1 \in DOMAIN collected /\ j + 1 \in DOMAIN collected /\ j + 1 < i + 1
    BY <1>2, <1>3, <1>4, <2>1
  <2>3. Differs(collected[i + 1], collected[j + 1])
    BY <1>2, <2>2
  <2> QED
    BY <1>3, <2>1, <2>3
<1>5. Movable' = Movable
  BY DEF Movable, LockedRefs
<1> QED
  BY <1>1, <1>3, <1>4, <1>5 DEF SearchInv, A, searchVars

\* The search begins with no assignment, and again with more candidates.
LEMMA BeginKeeps ==
  ASSUME SearchInv, BeginSearch \/ Retry
  PROVE  SearchInv'
<1>1. /\ collected' = <<>> /\ UNCHANGED <<job, waiting, previous>> /\ tries' \in Nat
      /\ barred' \subseteq barred
  BY DEF SearchInv, BeginSearch, Retry, searchVars
<1>2. Budget.limit \in Nat
  BY PerfSolveAssumption DEF SearchInv, Budget, Budgets
<1>3. PartsWith(limit')  # {}
  <2>1. CASE BeginSearch
    BY <2>1 DEF BeginSearch, PartsWith
  <2>2. CASE Retry
    <3>1. limit \in Nat /\ limit' \in Nat /\ limit <= limit'
      BY <1>2, <2>2 DEF Retry, Again
    <3>2. PICK r \in Movable : CandidatesOf(r, limit) # {}
      BY <2>2 DEF SearchInv, PartsWith, Retry
    <3>3. CandidatesOf(r, limit) \subseteq CandidatesOf(r, limit')
      BY <3>1, <3>2, MoreCandidates DEF Movable
    <3> QED
      BY <3>2, <3>3 DEF PartsWith
  <2> QED
    BY <2>1, <2>2
<1>4. PartsWith(limit)' = PartsWith(limit')
  BY <1>1 DEF Movable, LockedRefs, CandidatesOf, Enumerated, LockedCells, KeysFor, PartsWith
<1>5. phase' \notin {"start", "candidate"}
  BY DEF BeginSearch, Retry
<1>6. <<>> \in Seq(Assignments(Candidates(limit))')
  OBVIOUS
<1>7. DOMAIN <<>> = {}
  OBVIOUS
<1>8. Movable' = Movable
  BY <1>1 DEF Movable, LockedRefs
<1> QED
  BY <1>1, <1>3, <1>4, <1>5, <1>6, <1>7, <1>8 DEF SearchInv

LEMMA SearchKept ==
  ASSUME SearchInv, [SolveNext]_allVars
  PROVE  SearchInv'
<1>0. waiting \in Nat /\ Len(collected) \in Nat
  <2> DEFINE A == Assignments(Candidates(limit))
  <2>1. collected \in Seq(A) /\ waiting \in Nat
    BY DEF SearchInv
  <2> HIDE DEF A
  <2> QED
    BY <2>1
<1>1. CASE BeginGreedy \/ BeginEmpty \/ BeginRoute \/ TakeUp \/ EvaluationsOver
  <2>1. /\ UNCHANGED <<job, limit, tries, searchVars, collected>> /\ waiting' = waiting
        /\ phase' \in {"start", "search", "candidate"} => phase' = "candidate" /\ collected # <<>>
    BY <1>1 DEF BeginGreedy, BeginEmpty, BeginRoute, TakeUp, EvaluationsOver
  <2> QED
    BY <1>0, <2>1, SearchUnchanged
<1>2. CASE GreedyPlaces \/ GreedyAnswers \/ GreedyFails \/ Compare \/ EvaluateGreedy \/ Choose
  <2>1. /\ UNCHANGED <<job, limit, tries, searchVars, collected>> /\ waiting' = waiting
        /\ phase' = phase \/ phase' \notin {"start", "search", "candidate"}
    BY <1>2 DEF GreedyPlaces, jobVars, GreedyAnswers, GreedyFails, Compare, EvaluateGreedy, Choose
  <2> QED
    BY <1>0, <2>1, SearchUnchanged
<1>3. CASE RoutePlaced \/ Verify \/ Cancel \/ RouteCancelled \/ Ask \/ UNCHANGED allVars
  <2>1. /\ UNCHANGED <<job, limit, tries, searchVars, collected>> /\ waiting' \in {waiting, Len(collected)}
        /\ phase' = phase \/ phase' \notin {"start", "search", "candidate"}
    BY <1>3 DEF RoutePlaced, Verify, Cancel, RouteCancelled, Ask, allVars, jobVars
  <2> QED
    BY <1>0, <2>1, SearchUnchanged
<1>4. CASE Evaluate \/ PassOver
  <2>1. /\ collected' = Tail(collected) /\ UNCHANGED <<job, limit, tries, waiting, searchVars>>
        /\ phase' = "evaluate"
    BY <1>4 DEF Evaluate, PassOver
  <2>2. collected # <<>>
    BY <1>4 DEF SearchInv, Evaluate, PassOver
  <2> QED
    BY <2>1, <2>2, TailKeeps
<1> QED
  BY <1>1, <1>2, <1>3, <1>4, FindKeeps, NothingKeeps, CollectedKeeps, BeginKeeps DEF SolveNext

LEMMA SearchDiffers == SearchInv => CandidatesDiffer
<1> SUFFICES ASSUME SearchInv
             PROVE  CandidatesDiffer
  OBVIOUS
<1> DEFINE A == Assignments(Candidates(limit))
<1>1. collected \in Seq(A) /\ \A i, j \in DOMAIN collected : j < i => Differs(collected[i], collected[j])
  BY DEF SearchInv
<1>2. \A i \in DOMAIN collected : collected[i] \in A
  <2> HIDE DEF A
  <2> QED
    BY <1>1
<1>3. DOMAIN collected \subseteq Nat
  <2> HIDE DEF A
  <2> QED
    BY <1>1
<1>4. ASSUME NEW i \in DOMAIN collected, NEW j \in DOMAIN collected, i # j
      PROVE  LET a == collected[i]
                 changed == {r \in DOMAIN a : a[r] # collected[j][r]}
             IN changed # {} /\ 2 * Cardinality(changed) + 1 >= Cardinality(DOMAIN a)
  <2> DEFINE a == collected[i]  b == collected[j]
             changed == {r \in DOMAIN a : a[r] # b[r]}
  <2>1. /\ DOMAIN a = PartsWith(limit) /\ DOMAIN b = PartsWith(limit)
        /\ IsFiniteSet(PartsWith(limit)) /\ PartsWith(limit) # {}
    BY <1>2, <1>4, AssignmentFacts DEF SearchInv
  <2>2. changed = Changed(a, b) /\ changed = Changed(b, a)
    BY <2>1 DEF Changed
  <2>3. MinChanges(a) = MinChanges(b)
    BY <2>1 DEF MinChanges
  <2>4. /\ MinChanges(b) \in Nat /\ MinChanges(b) >= 1
        /\ 2 * MinChanges(b) + 1 >= Cardinality(DOMAIN a)
    BY <2>1, ChangesEnough
  <2>5. j < i \/ i < j
    BY <1>3, <1>4
  <2>6. Cardinality(changed) >= MinChanges(b)
    BY <1>1, <1>4, <2>2, <2>3, <2>5 DEF Differs
  <2>7. changed \in SUBSET PartsWith(limit)
    BY <2>1
  <2>8. Cardinality(changed) \in Nat /\ IsFiniteSet(changed) /\ Cardinality(DOMAIN a) \in Nat
    BY <2>1, <2>7, FS_Subset, FS_CardinalityType
  <2>9. changed # {}
    <3> SUFFICES ASSUME changed = {} PROVE FALSE
      OBVIOUS
    <3>1. Cardinality(changed) = 0
      BY FS_EmptySet
    <3> HIDE DEF changed
    <3> QED
      BY <2>4, <2>6, <3>1
  <2>10. 2 * Cardinality(changed) + 1 >= Cardinality(DOMAIN a)
    <3> HIDE DEF changed, a, b
    <3> QED
      BY <2>4, <2>6, <2>8
  <2> QED
    BY <2>9, <2>10
<1> QED
  BY <1>4 DEF CandidatesDiffer

\* Any two placements that wait for evaluation differ in half of their parts: what is
\* read off the placements is what was found, it is barred before Solve is called again,
\* calls that find nothing let nothing of it go, and the model that a higher limit needs is
\* made only when nothing was found (the loops over previous_assignment,
\* _add_no_good_constraint, the retry).
THEOREM Distinct == SolveSpec => []CandidatesDiffer
<1> QED
  BY SearchInit, SearchKept, SearchDiffers, PTL DEF SolveSpec

-----------------------------------------------------------------------------
(* Cancellation *)

\* Cancellation that was asked for before the placer began stops all but the greedy one, and
\* a job without a placer where there is nothing to route.
StartSeen ==
  asked = "start" => phase \in {"start", "cancelled", "failed"} \/ job.engine = "greedy" \/ job.op = "route"

\* One that came between two calls of Solve, or between two candidates, is seen before the
\* next call or candidate: it goes through only if there is none.
SearchSeen ==
  /\ asked = "search" => phase \in {"search", "cancelled", "failed"} \/ tries = Budget.count
  /\ asked \in {"search", "evaluate"} =>
       \/ phase \in {"cancelled", "failed"} \/ waiting = 0
       \/ phase \in {"search", "evaluate"} /\ waiting = Len(collected)

\* One that came while a candidate was evaluated drops it at most.
CandidateSeen ==
  asked = "candidate" =>
    \/ phase \in {"cancelled", "failed"} \/ waiting = 1
    \/ phase = "candidate" /\ waiting = Len(collected)
    \/ phase = "evaluate" /\ waiting = Len(collected) + 1

\* Copper comes from a router that looked at the flag, or had nothing to do.
StopInv ==
  /\ StartSeen /\ SearchSeen /\ CandidateSeen
  /\ phase = "verify" => asked \in {"no", "verify"} \/ Nets = <<>>
  /\ PerfStoppedInTime

LEMMA StopInit == SolveInit => StopInv
BY DEF SolveInit, StopInv, StartSeen, SearchSeen, CandidateSeen, PerfStoppedInTime

LEMMA PlacingKeeps ==
  ASSUME StopInv, BeginGreedy \/ BeginEmpty \/ BeginSearch \/ BeginRoute \/ Find \/ FindNothing
                    \/ Retry \/ Collected
  PROVE  StopInv'
<1>1. CASE BeginGreedy \/ BeginEmpty \/ BeginSearch \/ BeginRoute
  BY <1>1 DEF BeginGreedy, BeginEmpty, BeginSearch, BeginRoute, StopInv, StartSeen, SearchSeen,
     CandidateSeen, StopsRouting, PerfStoppedInTime, Budget
<1>2. CASE Find \/ FindNothing \/ Retry
  BY <1>2 DEF Find, FindNothing, Retry, StopInv, StartSeen, SearchSeen, CandidateSeen, PerfStoppedInTime, Budget
<1>3. CASE Collected
  BY <1>3 DEF Collected, SearchOver, StopInv, StartSeen, SearchSeen, CandidateSeen, PerfStoppedInTime, Budget
<1> QED
  BY <1>1, <1>2, <1>3

LEMMA EvaluatingKeeps ==
  ASSUME SearchInv, StopInv, TakeUp \/ Evaluate \/ PassOver \/ EvaluationsOver \/ EvaluateGreedy \/ Choose
  PROVE  StopInv'
<1>1. CASE TakeUp
  BY <1>1 DEF TakeUp, StopInv, StartSeen, SearchSeen, CandidateSeen, PerfStoppedInTime, Budget
<1>2. CASE Evaluate \/ PassOver
  <2>1. collected # <<>> /\ collected \in Seq(Assignments(Candidates(limit)))
    BY <1>2 DEF SearchInv, Evaluate, PassOver
  <2> DEFINE A == Assignments(Candidates(limit))
  <2> HIDE DEF A
  <2>2. Len(Tail(collected)) + 1 = Len(collected)
    BY <2>1 DEF A
  <2> QED
    BY <1>2, <2>2 DEF Evaluate, PassOver, StopInv, StartSeen, SearchSeen, CandidateSeen,
       PerfStoppedInTime, Budget
<1>3. CASE EvaluationsOver
  <2>1. collected = <<>> => Len(collected) = 0
    OBVIOUS
  <2> QED
    BY <1>3, <2>1 DEF EvaluationsOver, StopInv, StartSeen, SearchSeen, CandidateSeen,
       PerfStoppedInTime, Budget
<1>4. CASE EvaluateGreedy \/ Choose
  BY <1>4 DEF EvaluateGreedy, Choose, StopInv, StartSeen, SearchSeen, CandidateSeen,
     PerfStoppedInTime, Budget
<1> QED
  BY <1>1, <1>2, <1>3, <1>4

LEMMA GreedyKeeps ==
  ASSUME StopInv, GreedyPlaces \/ GreedyAnswers \/ GreedyFails \/ Compare
  PROVE  StopInv'
<1>1. CASE GreedyPlaces
  BY <1>1 DEF GreedyPlaces, jobVars, StopInv, StartSeen, SearchSeen, CandidateSeen, PerfStoppedInTime, Budget
<1>2. CASE GreedyAnswers \/ GreedyFails \/ Compare
  BY <1>2 DEF GreedyAnswers, GreedyFails, Compare, StopInv, StartSeen, SearchSeen,
     CandidateSeen, StopsRouting, PerfStoppedInTime, Budget
<1> QED
  BY <1>1, <1>2

LEMMA EndKeeps ==
  ASSUME StopInv, RoutePlaced \/ Verify \/ Cancel \/ RouteCancelled \/ Ask \/ UNCHANGED allVars
  PROVE  StopInv'
<1>1. CASE RoutePlaced \/ Cancel \/ RouteCancelled
  BY <1>1 DEF RoutePlaced, Cancel, RouteCancelled, StopInv, StartSeen, SearchSeen,
     CandidateSeen, StopsRouting, PerfStoppedInTime, Budget
<1>2. CASE Verify
  BY <1>2 DEF Verify, StopInv, StartSeen, SearchSeen, CandidateSeen, PerfStoppedInTime, Budget
<1>3. CASE Ask \/ UNCHANGED allVars
  BY <1>3 DEF Ask, Ends, allVars, jobVars, StopInv, StartSeen, SearchSeen, CandidateSeen, PerfStoppedInTime, Budget
<1> QED
  BY <1>1, <1>2, <1>3

\* The inductive invariant of cancellation holds in every job.
THEOREM Invariant == SolveSpec => []StopInv
<1>1. ASSUME SearchInv, StopInv, [SolveNext]_allVars
      PROVE  StopInv'
  BY <1>1, PlacingKeeps, EvaluatingKeeps, GreedyKeeps, EndKeeps DEF SolveNext
<1> QED
  BY <1>1, StopInit, SearchInit, SearchKept, PTL DEF SolveSpec

\* A job that was told to stop answers only where the code looks at the flag no more
\* (solve_cpsat_placement, _evaluate_candidate, route()).
THEOREM Stopped == SolveSpec => []PerfStoppedInTime
<1>1. StopInv => PerfStoppedInTime
  BY DEF StopInv
<1> QED
  BY <1>1, Invariant, PTL

-----------------------------------------------------------------------------
(* Least elements *)

LEMMA SmallestSubset ==
  ASSUME NEW U, IsFiniteSet(U), NEW Q, Q \subseteq SUBSET U, Q # {}
  PROVE  \E s \in Q : \A t \in Q : t \subseteq s => t = s
<1>1. IsWellFoundedOn(StrictSubsetOrdering(U), SUBSET U)
  BY FS_StrictSubsetOrderingWellFounded, FS_FiniteSubsetsOfFinite
<1>2. PICK s \in Q : \A t \in Q : <<t, s>> \notin StrictSubsetOrdering(U)
  BY <1>1, WFMin
<1> QED
  BY <1>2 DEF StrictSubsetOrdering

\* Of numbers one is the least.
LEMMA SmallestNumber ==
  ASSUME NEW S \in SUBSET Nat, S # {}
  PROVE  \E k \in S : \A i \in S : k <= i
<1> PICK top \in S : TRUE
  OBVIOUS
<1> DEFINE U == 0..top
           Q == {s \in SUBSET U : \E k \in S : s = 0..k}
<1>1. Q \subseteq SUBSET U /\ Q # {}
  <2>1. 0..top \in Q
    OBVIOUS
  <2> QED
    BY <2>1
<1>2. IsFiniteSet(U)
  <2>1. 0 \in Int /\ top \in Int
    OBVIOUS
  <2> QED
    BY <2>1, FS_Interval, Zenon
<1>3. \E s \in Q : \A t \in Q : t \subseteq s => t = s
  <2> HIDE DEF Q, U
  <2> QED
    BY <1>1, <1>2, SmallestSubset
<1>4. PICK s \in Q : \A t \in Q : t \subseteq s => t = s
  BY <1>3
<1>5. PICK k \in S : s = 0..k
  OBVIOUS
<1>6. ASSUME NEW i \in S, ~(k <= i)
      PROVE  FALSE
  <2>1. 0..i \subseteq s /\ k \in s /\ k \notin 0..i
    BY <1>5, <1>6
  <2>2. 0..i \in Q
    BY <2>1
  <2> QED
    BY <1>4, <2>1, <2>2
<1> QED
  BY <1>6

\* Of some things with numbers one has the least.
LEMMA LeastOf ==
  ASSUME NEW S, S # {}, NEW size, \A x \in S : size[x] \in Nat
  PROVE  \E x \in S : \A y \in S : size[x] <= size[y]
<1> DEFINE sizes == {size[x] : x \in S}
<1>1. sizes \in SUBSET Nat /\ sizes # {}
  OBVIOUS
<1>2. PICK k \in sizes : \A i \in sizes : k <= i
  <2> HIDE DEF sizes
  <2> QED
    BY <1>1, SmallestNumber
<1> QED
  BY <1>2

-----------------------------------------------------------------------------
(* The maze *)

LEMMA MazeFacts ==
  /\ IsFiniteSet(T!Maze) /\ Cardinality(T!Maze) \in Nat
  /\ T!Lattice \in SUBSET (Int \X Int) /\ IsFiniteSet(T!Lattice)
<1>1. IsFiniteSet(1..Cols) /\ IsFiniteSet(1..Rows)
  <2>1. 1 \in Int /\ Cols \in Int /\ Rows \in Int
    BY BoardFacts
  <2> QED
    BY <2>1, FS_Interval, Zenon
<1>2. IsFiniteSet(T!Lattice)
  BY <1>1, FS_Product DEF T!Lattice
<1>3. IsFiniteSet({"top", "bottom"})
  <2>1. IsFiniteSet({"top"})
    BY FS_Singleton
  <2>2. IsFiniteSet({"top"} \cup {"bottom"})
    BY <2>1, FS_AddElement
  <2>3. {"top", "bottom"} = {"top"} \cup {"bottom"}
    OBVIOUS
  <2> QED
    BY <2>2, <2>3
<1>4. IsFiniteSet(T!Maze)
  BY <1>2, <1>3, FS_Product DEF T!Maze, T!Layers
<1> QED
  BY <1>2, <1>4, FS_CardinalityType DEF T!Lattice

LEMMA NextInMaze ==
  ASSUME NEW u \in T!Maze
  PROVE  T!Next(u) \subseteq T!Maze
BY DEF T!Next, T!Vias, T!Beside, T!Maze, T!Layers, T!Other

LEMMA GridNumber ==
  ASSUME NEW a \in T!Lattice, NEW b \in T!Lattice
  PROVE  T!Grid(a, b) \in Nat
<1>1. a[1] \in Int /\ a[2] \in Int /\ b[1] \in Int /\ b[2] \in Int
  BY DEF T!Lattice
<1> QED
  BY <1>1 DEF T!Grid

\* From any hole but the one it is about there is a step that comes nearer to it.
LEMMA NearerBeside ==
  ASSUME NEW a \in T!Lattice, NEW b \in T!Lattice, a # b
  PROVE  \E g \in T!Beside(a) : T!Grid(g, b) < T!Grid(a, b)
<1>1. /\ a = <<a[1], a[2]>> /\ b = <<b[1], b[2]>>
      /\ a[1] \in 1..Cols /\ b[1] \in 1..Cols /\ a[2] \in 1..Rows /\ b[2] \in 1..Rows
  BY DEF T!Lattice
<1>2. Cols \in Nat /\ Rows \in Nat
  BY BoardFacts
<1>3. a[1] # b[1] \/ a[2] # b[2]
  BY <1>1
<1>4. CASE a[1] < b[1]
  <2> DEFINE g == <<a[1] + 1, a[2]>>
  <2>1. a[1] + 1 \in 1..Cols
    BY <1>1, <1>2, <1>4
  <2>2. g \in T!Beside(a)
    BY <1>1, <2>1 DEF T!Beside, T!Lattice
  <2>3. T!Grid(g, b) < T!Grid(a, b)
    BY <1>1, <1>4 DEF T!Grid
  <2> QED
    BY <2>2, <2>3
<1>5. CASE b[1] < a[1]
  <2> DEFINE g == <<a[1] - 1, a[2]>>
  <2>1. a[1] - 1 \in 1..Cols
    BY <1>1, <1>2, <1>5
  <2>2. g \in T!Beside(a)
    BY <1>1, <2>1 DEF T!Beside, T!Lattice
  <2>3. T!Grid(g, b) < T!Grid(a, b)
    BY <1>1, <1>5 DEF T!Grid
  <2> QED
    BY <2>2, <2>3
<1>6. CASE a[2] < b[2]
  <2> DEFINE g == <<a[1], a[2] + 1>>
  <2>1. a[2] + 1 \in 1..Rows
    BY <1>1, <1>2, <1>6
  <2>2. g \in T!Beside(a)
    BY <1>1, <2>1 DEF T!Beside, T!Lattice
  <2>3. T!Grid(g, b) < T!Grid(a, b)
    BY <1>1, <1>6 DEF T!Grid
  <2> QED
    BY <2>2, <2>3
<1>7. CASE b[2] < a[2]
  <2> DEFINE g == <<a[1], a[2] - 1>>
  <2>1. a[2] - 1 \in 1..Rows
    BY <1>1, <1>2, <1>7
  <2>2. g \in T!Beside(a)
    BY <1>1, <2>1 DEF T!Beside, T!Lattice
  <2>3. T!Grid(g, b) < T!Grid(a, b)
    BY <1>1, <1>7 DEF T!Grid
  <2> QED
    BY <2>2, <2>3
<1> QED
  BY <1>1, <1>3, <1>4, <1>5, <1>6, <1>7

-----------------------------------------------------------------------------
(* The search *)

\* A way from the top side of a hole, by steps to neighbours.
Leads(way, from) ==
  /\ way \in Seq(T!Maze) /\ Len(way) >= 1 /\ way[1] = <<from, "top">>
  /\ \A i \in 1..(Len(way) - 1) : way[i + 1] \in T!Next(way[i])

\* Traces can be counted, and so can their steps.
Copper(traces) == IsFiniteSet(traces) /\ \A t \in traces : Len(t.way) \in Nat

LEMMA StepsFinite ==
  ASSUME NEW traces, Copper(traces)
  PROVE  IsFiniteSet(T!StepsOf(traces))
<1> DEFINE places(t) == {t} \X (1..(Len(t.way) - 1))
           all == [t \in traces |-> places(t)]
           I == {all[t] : t \in traces}
<1>1. IsFiniteSet(I)
  <2>1. all \in Surjection(traces, I)
    BY DEF Surjection
  <2> QED
    BY <2>1, FS_Surjection DEF Copper
<1>2. ASSUME NEW t \in traces
      PROVE  IsFiniteSet(places(t))
  <2>1. 1 \in Int /\ Len(t.way) - 1 \in Int
    BY DEF Copper
  <2>2. IsFiniteSet(1..(Len(t.way) - 1))
    BY <2>1, FS_Interval, Zenon
  <2>3. IsFiniteSet({t})
    BY FS_Singleton
  <2> QED
    BY <2>2, <2>3, FS_Product
<1>3. \A s \in I : IsFiniteSet(s)
  BY <1>2
<1>4. T!StepsOf(traces) = UNION I
  BY DEF T!StepsOf
<1> HIDE DEF I
<1> QED
  BY <1>1, <1>3, <1>4, FS_UNION

LEMMA UsedNumber ==
  ASSUME NEW from, NEW to, NEW layer, NEW traces, Copper(traces)
  PROVE  T!Used(from, to, layer, traces) \in Nat
<1> DEFINE S == {y \in T!StepsOf(traces) : T!Counts(y[1].way[y[2]], y[1].way[y[2] + 1], from, to, layer)}
<1>1. S \in SUBSET T!StepsOf(traces)
  OBVIOUS
<1>2. Cardinality(S) \in Nat
  BY <1>1, StepsFinite, FS_Subset, FS_CardinalityType
<1> QED
  BY <1>2 DEF T!Used, T!Cardinality, Cardinality

LEMMA CostNumber ==
  ASSUME NEW u, NEW v, NEW traces, Copper(traces)
  PROVE  T!Cost(u, v, traces) \in Nat
<1> DEFINE x == T!Used(u[1], v[1], u[2], traces)
<1>1. x \in Nat
  BY UsedNumber
<1> HIDE DEF x
<1>2. T!Cost(u, v, traces) = IF u[1] = v[1] THEN 500 ELSE 254 + 50 * x
  BY DEF T!Cost, T!ViaCost, T!Pitch, T!CongestionWeight, x
<1> QED
  BY <1>1, <1>2

Reached(taken) == {T!End(e) : e \in taken}
IsEntry(e, from) == e.cost \in Nat /\ Leads(e.way, from)

LEMMA EntryEnd ==
  ASSUME NEW e, NEW from, IsEntry(e, from)
  PROVE  T!End(e) \in T!Maze /\ T!End(e)[1] \in T!Lattice
<1>1. e.way \in Seq(T!Maze) /\ Len(e.way) \in 1..Len(e.way)
  BY DEF IsEntry, Leads
<1>2. e.way[Len(e.way)] \in T!Maze
  BY <1>1
<1> QED
  BY <1>2 DEF T!End, T!Maze

\* An entry of the heap goes one step on from what has been taken, to a new node.
LEMMA QueueEntry ==
  ASSUME NEW from, NEW traces, Copper(traces), NEW taken, \A e \in taken : IsEntry(e, from),
         NEW f \in T!Queue(taken, traces)
  PROVE  IsEntry(f, from) /\ T!End(f) \notin Reached(taken)
<1>0. PICK e \in taken : f \in {T!Onward(e, v, traces) : v \in T!Next(T!End(e)) \ Reached(taken)}
  BY DEF T!Queue, Reached
<1>1. PICK v \in T!Next(T!End(e)) \ Reached(taken) : f = T!Onward(e, v, traces)
  BY <1>0
<1>2. IsEntry(e, from) /\ T!End(e) \in T!Maze
  BY EntryEnd
<1>3. v \in T!Maze
  BY <1>2, NextInMaze
<1>4. f.way = Append(e.way, v) /\ f.cost = e.cost + T!Cost(T!End(e), v, traces)
  BY <1>1 DEF T!Onward
<1>5. f.cost \in Nat
  BY <1>2, <1>4, CostNumber DEF IsEntry
<1>6. e.way \in Seq(T!Maze) /\ Len(e.way) >= 1 /\ e.way[1] = <<from, "top">>
      /\ \A i \in 1..(Len(e.way) - 1) : e.way[i + 1] \in T!Next(e.way[i])
  BY <1>2 DEF IsEntry, Leads
<1>7. /\ f.way \in Seq(T!Maze) /\ Len(f.way) = Len(e.way) + 1
      /\ f.way[Len(e.way) + 1] = v /\ \A i \in 1..Len(e.way) : f.way[i] = e.way[i]
  BY <1>3, <1>4, <1>6
<1>8. v \in T!Next(e.way[Len(e.way)])
  BY <1>1 DEF T!End
<1>9. Leads(f.way, from)
  <2>1. ASSUME NEW i \in 1..(Len(f.way) - 1)
        PROVE  f.way[i + 1] \in T!Next(f.way[i])
    <3>1. CASE i = Len(e.way)
      BY <1>6, <1>7, <1>8, <3>1
    <3>2. CASE i # Len(e.way)
      <4>1. i \in 1..(Len(e.way) - 1) /\ i + 1 \in 1..Len(e.way)
        BY <1>6, <1>7, <3>2
      <4> QED
        BY <1>6, <1>7, <4>1
    <3> QED
      BY <3>1, <3>2
  <2>2. Len(f.way) >= 1 /\ f.way[1] = <<from, "top">>
    BY <1>6, <1>7
  <2> QED
    BY <1>7, <2>1, <2>2 DEF Leads
<1>10. T!End(f) = v
  BY <1>6, <1>7 DEF T!End
<1> QED
  BY <1>1, <1>5, <1>9, <1>10 DEF IsEntry

\* As long as the end is not reached, the heap is not empty.
LEMMA QueueNonempty ==
  ASSUME NEW from, NEW to \in T!Lattice, NEW traces, NEW taken, taken # {},
         \A e \in taken : IsEntry(e, from), T!At(to, taken) = {}
  PROVE  T!Queue(taken, traces) # {}
<1> DEFINE far == [e \in taken |-> T!Grid(T!End(e)[1], to)]
<1>1. \A e \in taken : far[e] \in Nat
  BY EntryEnd, GridNumber
<1>2. PICK e \in taken : \A f \in taken : far[e] <= far[f]
  <2> HIDE DEF far
  <2> QED
    BY <1>1, LeastOf
<1> DEFINE u == T!End(e)
<1>3. u \in T!Maze /\ u[1] \in T!Lattice /\ u[1] # to
  BY EntryEnd DEF T!At
<1>4. PICK g \in T!Beside(u[1]) : T!Grid(g, to) < T!Grid(u[1], to)
  <2> HIDE DEF u
  <2> QED
    BY <1>3, NearerBeside
<1> DEFINE v == <<g, u[2]>>
<1>5. v \in T!Next(u)
  BY DEF T!Next
<1>6. ASSUME NEW f \in taken, T!End(f) = v
      PROVE  FALSE
  <2>1. far[e] <= far[f] /\ far[e] = T!Grid(u[1], to) /\ far[f] = T!Grid(g, to)
    BY <1>2, <1>6
  <2>2. g \in T!Lattice
    BY DEF T!Beside
  <2>3. T!Grid(g, to) \in Nat /\ T!Grid(u[1], to) \in Nat
    BY <1>3, <2>2, GridNumber
  <2> HIDE DEF far, u
  <2> QED
    BY <1>4, <2>1, <2>3
<1>7. T!Onward(e, v, traces) \in T!Queue(taken, traces)
  BY <1>5, <1>6 DEF T!Queue
<1> QED
  BY <1>7

\* A round of the search takes a new node, or the end is reached.
Taken(s, from) == s # {} /\ \A e \in s : IsEntry(e, from)
LEMMA PopTakes ==
  ASSUME NEW from, NEW to \in T!Lattice, NEW traces, Copper(traces), NEW s, Taken(s, from)
  PROVE  /\ Taken(T!Pop(s, to, traces), from)
         /\ T!At(to, s) # {} => T!At(to, T!Pop(s, to, traces)) # {}
         /\ T!At(to, s) = {} => \E v : v \notin Reached(s) /\ Reached(T!Pop(s, to, traces)) = Reached(s) \cup {v}
<1>1. CASE T!At(to, s) # {}
  BY <1>1 DEF T!Pop
<1>2. CASE T!At(to, s) = {}
  <2> DEFINE Q == T!Queue(s, traces)
             size == [e \in Q |-> T!Estimate(e, to)]
  <2>1. \A e \in Q : IsEntry(e, from) /\ T!End(e) \notin Reached(s)
    BY QueueEntry DEF Taken
  <2>2. \A e \in Q : size[e] \in Nat
    <3>1. ASSUME NEW e \in Q
          PROVE  size[e] \in Nat
      <4>1. e.cost \in Nat /\ T!Grid(T!End(e)[1], to) \in Nat
        BY <2>1, EntryEnd, GridNumber DEF IsEntry
      <4>2. size[e] = e.cost + 100 * T!Grid(T!End(e)[1], to)
        BY DEF T!Estimate
      <4> QED
        BY <4>1, <4>2
    <3> QED
      BY <3>1
  <2>3. Q # {}
    BY <1>2, QueueNonempty DEF Taken
  <2>4. \E e \in Q : \A f \in Q : size[e] <= size[f]
    <3> HIDE DEF Q, size
    <3> QED
      BY <2>2, <2>3, LeastOf
  <2>5. T!First(Q, to) \in Q
    <3>1. \E e \in Q : \A f \in Q : T!Estimate(e, to) <= T!Estimate(f, to)
      BY <2>4
    <3> HIDE DEF Q
    <3> QED
      BY <3>1 DEF T!First
  <2>6. T!Pop(s, to, traces) = s \cup {T!First(Q, to)}
    BY <1>2 DEF T!Pop
  <2> DEFINE x == T!First(Q, to)
  <2>7. IsEntry(x, from) /\ T!End(x) \notin Reached(s)
    BY <2>1, <2>5
  <2> HIDE DEF x
  <2>8. Reached(s \cup {x}) = Reached(s) \cup {T!End(x)}
    BY DEF Reached
  <2> QED
    BY <1>2, <2>6, <2>7, <2>8 DEF Taken, x
<1> QED
  BY <1>1, <1>2

-----------------------------------------------------------------------------
(* Recursive functions over rounds *)

\* The loops of maze_route, of one net and of all nets: x is what there is before round i.
Turn(loop, a, b, x, i) ==
  CASE loop = "search" -> T!Pop(x, a, b)
    [] loop = "net" -> T!Attach(x, T!Attachment(x), b)
    [] loop = "nets" -> T!RouteNet(x, a[i], T!Terminals(a[i], b))
Rounds(f, loop, a, b, base, n) == f = [i \in 0..n |-> IF i = 0 THEN base ELSE Turn(loop, a, b, f[i - 1], i)]

LEMMA RoundsExist ==
  ASSUME NEW loop, NEW a, NEW b, NEW base, NEW n \in Nat
  PROVE  \E f : Rounds(f, loop, a, b, base, n)
<1> DEFINE S == {k \in Nat : ~ \E f : Rounds(f, loop, a, b, base, k)}
<1>1. SUFFICES ASSUME S # {} PROVE FALSE
  OBVIOUS
<1>2. \E k \in S : \A i \in S : k <= i
  <2>1. S \in SUBSET Nat
    OBVIOUS
  <2> HIDE DEF S
  <2> QED
    BY <1>1, <2>1, SmallestNumber
<1> PICK k \in S : \A i \in S : k <= i
  BY <1>2
<1>3. CASE k = 0
  <2> DEFINE g == [i \in 0..k |-> base]
  <2>1. Rounds(g, loop, a, b, base, k)
    BY <1>3 DEF Rounds
  <2> QED
    BY <2>1
<1>4. CASE k # 0
  <2>1. k - 1 \in Nat /\ k - 1 \notin S
    BY <1>4
  <2>2. PICK f : Rounds(f, loop, a, b, base, k - 1)
    BY <2>1
  <2> DEFINE g == [i \in 0..k |-> IF i = k THEN Turn(loop, a, b, f[k - 1], k) ELSE f[i]]
             G(i) == IF i = 0 THEN base ELSE Turn(loop, a, b, g[i - 1], i)
  <2>3. ASSUME NEW i \in 0..k
        PROVE  g[i] = G(i)
    <3>1. CASE i = k
      BY <1>4, <3>1
    <3>2. CASE i # k
      <4>1. i \in 0..(k - 1) /\ g[i] = f[i]
        BY <3>2
      <4>2. f[i] = IF i = 0 THEN base ELSE Turn(loop, a, b, f[i - 1], i)
        BY <2>2, <4>1 DEF Rounds
      <4>3. i # 0 => i - 1 \in 0..k /\ i - 1 # k
        BY <4>1
      <4>4. i # 0 => g[i - 1] = f[i - 1]
        BY <4>3
      <4> QED
        BY <4>1, <4>2, <4>4
    <3> QED
      BY <3>1, <3>2
  <2>4. g = [i \in 0..k |-> g[i]]
    OBVIOUS
  <2> HIDE DEF g
  <2>5. Rounds(g, loop, a, b, base, k)
    BY <2>3, <2>4 DEF Rounds
  <2> QED
    BY <2>5
<1> QED
  BY <1>3, <1>4

-----------------------------------------------------------------------------
(* A way *)

\* What the search has after k rounds.
LEMMA SearchGoesOn ==
  ASSUME NEW from \in T!Lattice, NEW to \in T!Lattice, NEW traces, Copper(traces), NEW n \in Nat,
         NEW f, Rounds(f, "search", to, traces, {[way |-> <<<<from, "top">>>>, cost |-> 0]}, n),
         NEW m \in 0..n
  PROVE  /\ Taken(f[m], from)
         /\ T!At(to, f[m]) # {} \/ (IsFiniteSet(Reached(f[m])) /\ Cardinality(Reached(f[m])) = m + 1)
<1> DEFINE Good(s, k) == /\ Taken(s, from)
                         /\ T!At(to, s) # {} \/ (IsFiniteSet(Reached(s)) /\ Cardinality(Reached(s)) = k + 1)
           S == {k \in 0..n : ~Good(f[k], k)}
           start == [way |-> <<<<from, "top">>>>, cost |-> 0]
<1>1. SUFFICES ASSUME S # {} PROVE FALSE
  OBVIOUS
<1>2. \E k \in S : \A i \in S : k <= i
  <2>1. S \in SUBSET Nat
    OBVIOUS
  <2> HIDE DEF S
  <2> QED
    BY <1>1, <2>1, SmallestNumber
<1> PICK k \in S : \A i \in S : k <= i
  BY <1>2
<1>3. f[k] = IF k = 0 THEN {start} ELSE Turn("search", to, traces, f[k - 1], k)
  BY DEF Rounds
<1>4. CASE k = 0
  <2>1. IsEntry(start, from)
    <3>1. <<from, "top">> \in T!Maze
      BY DEF T!Maze, T!Layers
    <3>2. start.way = <<<<from, "top">>>> /\ start.cost = 0
      OBVIOUS
    <3>3. start.way \in Seq(T!Maze) /\ Len(start.way) = 1 /\ start.way[1] = <<from, "top">>
      BY <3>1, <3>2
    <3> HIDE DEF start
    <3>4. Leads(start.way, from)
      BY <3>3 DEF Leads
    <3> QED
      BY <3>2, <3>4 DEF IsEntry
  <2> HIDE DEF start
  <2>2. Reached({start}) = {T!End(start)}
    BY DEF Reached
  <2>3. Taken({start}, from)
    BY <2>1 DEF Taken
  <2>4. IsFiniteSet({T!End(start)}) /\ Cardinality({T!End(start)}) = 1
    BY FS_Singleton
  <2>5. IsFiniteSet(Reached({start})) /\ Cardinality(Reached({start})) = 1
    BY <2>2, <2>4, Zenon
  <2>6. Good(f[k], k)
    <3>1. f[k] = {start} /\ k + 1 = 1
      BY <1>3, <1>4
    <3>2. Taken(f[k], from) /\ IsFiniteSet(Reached(f[k])) /\ Cardinality(Reached(f[k])) = k + 1
      BY <2>3, <2>5, <3>1, Zenon
    <3> QED
      BY <3>2
  <2> QED
    BY <2>6
<1>5. CASE k # 0
  <2>1. k - 1 \in 0..n /\ k - 1 \notin S
    BY <1>5
  <2>2. Good(f[k - 1], k - 1)
    BY <2>1
  <2> DEFINE s == f[k - 1]
  <2>3. f[k] = T!Pop(s, to, traces)
    BY <1>3, <1>5 DEF Turn
  <2>4. /\ Taken(f[k], from)
        /\ T!At(to, s) # {} => T!At(to, f[k]) # {}
        /\ T!At(to, s) = {} => \E v : v \notin Reached(s) /\ Reached(f[k]) = Reached(s) \cup {v}
    BY <2>2, <2>3, PopTakes
  <2>5. CASE T!At(to, s) # {}
    BY <2>4, <2>5
  <2>6. CASE T!At(to, s) = {}
    <3>1. IsFiniteSet(Reached(s)) /\ Cardinality(Reached(s)) = k
      BY <2>2, <2>6
    <3>2. PICK v : v \notin Reached(s) /\ Reached(f[k]) = Reached(s) \cup {v}
      BY <2>4, <2>6
    <3>3. IsFiniteSet(Reached(f[k])) /\ Cardinality(Reached(f[k])) = k + 1
      BY <3>1, <3>2, FS_AddElement
    <3> QED
      BY <2>4, <3>3
  <2> QED
    BY <2>5, <2>6
<1> QED
  BY <1>4, <1>5

\* The search ends, and with a way between the two holes.
LEMMA WayLeads ==
  ASSUME NEW from \in T!Lattice, NEW to \in T!Lattice, NEW traces, Copper(traces)
  PROVE  /\ Leads(T!Way(from, to, traces), from)
         /\ T!Way(from, to, traces)[Len(T!Way(from, to, traces))][1] = to
<1> DEFINE n == Cardinality(T!Maze)
           base == {[way |-> <<<<from, "top">>>>, cost |-> 0]}
           f == CHOOSE g : g = [i \in 0..n |-> IF i = 0 THEN base ELSE T!Pop(g[i - 1], to, traces)]
<1>1. n \in Nat /\ IsFiniteSet(T!Maze)
  BY MazeFacts
<1>2. Rounds(f, "search", to, traces, base, n)
  <2>1. \E g : Rounds(g, "search", to, traces, base, n)
    BY <1>1, RoundsExist
  <2>2. \A x, i : Turn("search", to, traces, x, i) = T!Pop(x, to, traces)
    BY DEF Turn
  <2>3. \A g : Rounds(g, "search", to, traces, base, n) <=>
                 g = [i \in 0..n |-> IF i = 0 THEN base ELSE T!Pop(g[i - 1], to, traces)]
    BY <2>2 DEF Rounds
  <2> QED
    BY <2>1, <2>3
<1> DEFINE e == CHOOSE x \in T!At(to, f[n]) : TRUE
<1>3. T!Way(from, to, traces) = e.way
  BY DEF T!Way, T!Cardinality, Cardinality
<1> HIDE DEF f, n
<1>4. /\ Taken(f[n], from)
      /\ T!At(to, f[n]) # {} \/ (IsFiniteSet(Reached(f[n])) /\ Cardinality(Reached(f[n])) = n + 1)
  <2>1. n \in 0..n
    BY <1>1
  <2> QED
    BY <1>1, <1>2, <2>1, SearchGoesOn
<1>5. Reached(f[n]) \in SUBSET T!Maze
  BY <1>4, EntryEnd DEF Taken, Reached
<1>6. Cardinality(Reached(f[n])) <= n
  BY <1>1, <1>5, FS_Subset DEF n
<1>7. T!At(to, f[n]) # {}
  BY <1>1, <1>4, <1>6
<1>8. e \in T!At(to, f[n])
  BY <1>7
<1> HIDE DEF e
<1>9. IsEntry(e, from) /\ T!End(e)[1] = to
  BY <1>4, <1>8 DEF Taken, T!At
<1> QED
  BY <1>3, <1>9 DEF IsEntry, T!End

-----------------------------------------------------------------------------
(* The ways of a net *)

HolesOf(ways) == UNION {T!HolesOn(w) : w \in ways}

\* Some of the ways touch the others or the root, whichever they are: the ways are a tree's.
Rooted(ways, root) ==
  \A some \in SUBSET ways : some # {} => HolesOf(some) \cap ({root} \cup HolesOf(ways \ some)) # {}

LEMMA RootedGrows ==
  ASSUME NEW ways, NEW root, Rooted(ways, root), NEW w,
         T!HolesOn(w) \cap ({root} \cup HolesOf(ways)) # {}
  PROVE  Rooted(ways \cup {w}, root)
<1> SUFFICES ASSUME NEW some \in SUBSET (ways \cup {w}), some # {}
             PROVE  HolesOf(some) \cap ({root} \cup HolesOf((ways \cup {w}) \ some)) # {}
  BY DEF Rooted
<1>1. CASE some \cap ways # {}
  <2>1. HolesOf(some \cap ways) \cap ({root} \cup HolesOf(ways \ (some \cap ways))) # {}
    BY <1>1 DEF Rooted
  <2>2. /\ HolesOf(some \cap ways) \subseteq HolesOf(some)
        /\ HolesOf(ways \ (some \cap ways)) \subseteq HolesOf((ways \cup {w}) \ some)
    BY DEF HolesOf
  <2> QED
    BY <2>1, <2>2
<1>2. CASE some \cap ways = {}
  <2>1. some = {w} /\ (ways \cup {w}) \ some = ways
    BY <1>2
  <2>2. HolesOf({w}) = T!HolesOn(w)
    BY DEF HolesOf
  <2> QED
    BY <2>1, <2>2
<1> QED
  BY <1>1, <1>2

LEMMA RootedUnion ==
  ASSUME NEW left, NEW right, NEW root, Rooted(left, root), Rooted(right, root)
  PROVE  Rooted(left \cup right, root)
<1> SUFFICES ASSUME NEW some \in SUBSET (left \cup right), some # {}
             PROVE  HolesOf(some) \cap ({root} \cup HolesOf((left \cup right) \ some)) # {}
  BY DEF Rooted
<1>1. PICK ways \in {left, right} : some \cap ways # {}
  OBVIOUS
<1>2. HolesOf(some \cap ways) \cap ({root} \cup HolesOf(ways \ (some \cap ways))) # {}
  BY <1>1 DEF Rooted
<1>3. /\ HolesOf(some \cap ways) \subseteq HolesOf(some)
      /\ HolesOf(ways \ (some \cap ways)) \subseteq HolesOf((left \cup right) \ some)
  BY DEF HolesOf
<1> QED
  BY <1>2, <1>3

\* A rooted set of ways that is not empty comes to its root, and is one piece.
LEMMA RootedPiece ==
  ASSUME NEW ways, NEW root, Rooted(ways, root), ways # {}
  PROVE  /\ root \in HolesOf(ways)
         /\ \A some \in (SUBSET ways) \ {{}, ways} : HolesOf(some) \cap HolesOf(ways \ some) # {}
<1>1. root \in HolesOf(ways)
  <2>1. HolesOf(ways) \cap ({root} \cup HolesOf(ways \ ways)) # {}
    BY DEF Rooted
  <2>2. HolesOf(ways \ ways) = {}
    BY DEF HolesOf
  <2> QED
    BY <2>1, <2>2
<1>2. ASSUME NEW some \in (SUBSET ways) \ {{}, ways}
      PROVE  HolesOf(some) \cap HolesOf(ways \ some) # {}
  <2> DEFINE others == ways \ some
  <2>1. others \in SUBSET ways /\ others # {} /\ ways \ others = some
    BY <1>2
  <2> HIDE DEF others
  <2>2. HolesOf(some) \cap ({root} \cup HolesOf(others)) # {}
    <3>1. HolesOf(some) \cap ({root} \cup HolesOf(ways \ some)) # {}
      BY <1>2 DEF Rooted
    <3> QED
      BY <3>1 DEF others
  <2>3. HolesOf(others) \cap ({root} \cup HolesOf(some)) # {}
    BY <2>1 DEF Rooted
  <2>4. HolesOf(some) \cap HolesOf(others) # {}
    BY <2>2, <2>3
  <2> QED
    BY <2>4 DEF others
<1> QED
  BY <1>1, <1>2

\* The root of a net is one of its holes.
LEMMA RootIn ==
  ASSUME NEW holes \in SUBSET T!Lattice, holes # {}
  PROVE  T!Root(holes) \in holes
<1> DEFINE row == [h \in holes |-> h[2]]
<1>1. \A h \in holes : h = <<h[1], h[2]>> /\ h[1] \in Nat /\ h[2] \in Nat
  BY BoardFacts DEF T!Lattice
<1>2. PICK g \in holes : \A h \in holes : g[2] <= h[2]
  <2>1. \A h \in holes : row[h] \in Nat
    BY <1>1
  <2>2. \E g \in holes : \A h \in holes : row[g] <= row[h]
    <3> HIDE DEF row
    <3> QED
      BY <2>1, LeastOf
  <2> QED
    BY <2>2
<1> DEFINE first == {h \in holes : h[2] = g[2]}
           column == [h \in first |-> h[1]]
<1>3. PICK f \in first : \A h \in first : f[1] <= h[1]
  <2>1. (\A h \in first : column[h] \in Nat) /\ first # {}
    BY <1>1
  <2>2. \E f \in first : \A h \in first : column[f] <= column[h]
    <3> HIDE DEF column, first
    <3> QED
      BY <2>1, LeastOf
  <2> QED
    BY <2>2
<1>4. f \in holes /\ \A h \in holes \ {f} : T!HoleBefore(f, h)
  <2>1. ASSUME NEW h \in holes \ {f}
        PROVE  T!HoleBefore(f, h)
    <3>1. CASE h[2] = g[2]
      <4>1. f[2] = h[2] /\ f[1] <= h[1] /\ f[1] # h[1]
        BY <1>1, <1>3, <3>1
      <4> QED
        BY <1>1, <4>1 DEF T!HoleBefore
    <3>2. CASE h[2] # g[2]
      <4>1. f[2] = g[2] /\ g[2] <= h[2]
        BY <1>2
      <4> QED
        BY <1>1, <3>2, <4>1 DEF T!HoleBefore
    <3> QED
      BY <3>1, <3>2
  <2> QED
    BY <2>1
<1> HIDE DEF first
<1> QED
  BY <1>4 DEF T!Root

\* What a net has after k of its ways: r is tree, rest and ways.
Growing(r, holes, k) ==
  /\ T!Root(holes) \in r.tree /\ r.tree \subseteq T!Lattice
  /\ r.tree \subseteq {T!Root(holes)} \cup HolesOf(r.ways)
  /\ r.rest \subseteq holes /\ holes \ r.rest \subseteq r.tree
  /\ Cardinality(r.rest) = Cardinality(holes) - 1 - k
  /\ Rooted(r.ways, T!Root(holes)) /\ IsFiniteSet(r.ways) /\ (k > 0 => r.ways # {})
  /\ \A w \in r.ways : \E from : Leads(w, from)

LEMMA AttachGrows ==
  ASSUME NEW holes \in SUBSET T!Lattice, holes # {}, IsFiniteSet(holes), NEW traces, Copper(traces),
         NEW r, NEW k \in Nat, k < Cardinality(holes) - 1, Growing(r, holes, k)
  PROVE  Growing(T!Attach(r, T!Attachment(r), traces), holes, k + 1)
<1> DEFINE x == T!Attachment(r)  pairs == r.tree \X r.rest
           size == [y \in pairs |-> T!Grid(y[1], y[2])]
<1>1. IsFiniteSet(r.rest) /\ Cardinality(holes) \in Nat
  BY FS_Subset, FS_CardinalityType DEF Growing
<1>2. r.rest # {}
  <2>1. Cardinality(r.rest) # 0
    BY <1>1 DEF Growing
  <2> QED
    BY <2>1, FS_EmptySet
<1>3. r.tree \subseteq T!Lattice /\ r.rest \subseteq T!Lattice /\ r.tree # {}
  BY DEF Growing
<1>4. x \in pairs
  <2>1. pairs # {} /\ \A y \in pairs : size[y] \in Nat
    <3>1. \A y \in pairs : y[1] \in T!Lattice /\ y[2] \in T!Lattice
      BY <1>3
    <3>2. \A y \in pairs : size[y] = T!Grid(y[1], y[2])
      OBVIOUS
    <3>3. pairs # {}
      <4>1. PICK a \in r.tree, b \in r.rest : TRUE
        BY <1>2, <1>3
      <4>2. <<a, b>> \in pairs
        BY <4>1
      <4> QED
        BY <4>2
    <3> HIDE DEF pairs, size
    <3> QED
      BY <3>1, <3>2, <3>3, GridNumber
  <2>2. \E y \in pairs : \A z \in pairs : size[y] <= size[z]
    <3> HIDE DEF pairs, size
    <3> QED
      BY <2>1, LeastOf
  <2>3. \E y \in pairs : \A z \in pairs : T!Grid(y[1], y[2]) <= T!Grid(z[1], z[2])
    BY <2>2
  <2> QED
    BY <2>3 DEF T!Attachment
<1>5. x[1] \in r.tree /\ x[2] \in r.rest /\ x[1] \in T!Lattice /\ x[2] \in T!Lattice
  BY <1>3, <1>4
<1> HIDE DEF x, pairs, size
<1> DEFINE w == T!Way(x[1], x[2], traces)  s == T!Attach(r, x, traces)
<1>6. Leads(w, x[1]) /\ w[Len(w)][1] = x[2]
  BY <1>5, WayLeads
<1>7. /\ s.tree = r.tree \cup T!HolesOn(w) /\ s.rest = r.rest \ {x[2]} /\ s.ways = r.ways \cup {w}
  BY DEF T!Attach, T!Grow
<1> HIDE DEF w, s
<1>8. x[1] \in T!HolesOn(w) /\ x[2] \in T!HolesOn(w) /\ T!HolesOn(w) \subseteq T!Lattice
  <2>1. /\ w \in Seq(T!Maze) /\ 1 \in DOMAIN w /\ Len(w) \in DOMAIN w
        /\ w[1] = <<x[1], "top">> /\ \A i \in DOMAIN w : w[i] \in T!Maze
    BY <1>6 DEF Leads
  <2>2. w[1][1] = x[1] /\ \A i \in DOMAIN w : w[i][1] \in T!Lattice
    BY <2>1 DEF T!Maze
  <2> QED
    BY <1>6, <2>1, <2>2 DEF T!HolesOn
<1>9. HolesOf(s.ways) = HolesOf(r.ways) \cup T!HolesOn(w)
  BY <1>7 DEF HolesOf
<1>10. Cardinality(s.rest) = Cardinality(holes) - 1 - (k + 1)
  <2>1. Cardinality(r.rest \ {x[2]}) = Cardinality(r.rest) - 1
    <3>1. \A y \in r.rest : Cardinality(r.rest \ {y}) = Cardinality(r.rest) - 1
      BY <1>1, FS_RemoveElement
    <3> QED
      BY <1>5, <3>1
  <2>2. Cardinality(r.rest) = Cardinality(holes) - 1 - k
    BY DEF Growing
  <2>3. Cardinality(s.rest) = Cardinality(holes) - 1 - k - 1
    BY <1>7, <2>1, <2>2, Zenon
  <2> QED
    BY <1>1, <2>3
<1>11. Rooted(s.ways, T!Root(holes))
  <2>1. T!HolesOn(w) \cap ({T!Root(holes)} \cup HolesOf(r.ways)) # {}
    BY <1>5, <1>8 DEF Growing
  <2> QED
    BY <1>7, <2>1, RootedGrows DEF Growing
<1>12. IsFiniteSet(s.ways)
  BY <1>7, FS_AddElement DEF Growing
<1>13. Growing(s, holes, k + 1)
  BY <1>5, <1>6, <1>7, <1>8, <1>9, <1>10, <1>11, <1>12 DEF Growing
<1> QED
  BY <1>13 DEF s, x

LEMMA BareGrows ==
  ASSUME NEW holes \in SUBSET T!Lattice, holes # {}, IsFiniteSet(holes)
  PROVE  Growing(T!Bare(holes), holes, 0)
<1> DEFINE r == T!Bare(holes)  root == T!Root(holes)
<1>1. root \in holes
  BY RootIn
<1>2. r.tree = {root} /\ r.rest = holes \ {root} /\ r.ways = {}
  BY DEF T!Bare
<1> HIDE DEF r, root
<1>3. Cardinality(r.rest) = Cardinality(holes) - 1
  <2>1. \A y \in holes : Cardinality(holes \ {y}) = Cardinality(holes) - 1
    BY FS_RemoveElement
  <2> QED
    BY <1>1, <1>2, <2>1
<1>4. Cardinality(holes) \in Nat
  BY FS_CardinalityType
<1>5. Cardinality(r.rest) = Cardinality(holes) - 1 - 0
  BY <1>3, <1>4
<1>6. Rooted(r.ways, root) /\ IsFiniteSet(r.ways)
  BY <1>2, FS_EmptySet DEF Rooted
<1> QED
  BY <1>1, <1>2, <1>5, <1>6 DEF Growing, r, root

LEMMA NetGoesOn ==
  ASSUME NEW holes \in SUBSET T!Lattice, holes # {}, IsFiniteSet(holes), NEW traces, Copper(traces),
         NEW n \in Nat, n = Cardinality(holes) - 1,
         NEW a, NEW f, Rounds(f, "net", a, traces, T!Bare(holes), n), NEW m \in 0..n
  PROVE  Growing(f[m], holes, m)
<1> DEFINE S == {k \in 0..n : ~Growing(f[k], holes, k)}
<1>1. SUFFICES ASSUME S # {} PROVE FALSE
  OBVIOUS
<1>2. \E k \in S : \A i \in S : k <= i
  <2>1. S \in SUBSET Nat
    OBVIOUS
  <2> HIDE DEF S
  <2> QED
    BY <1>1, <2>1, SmallestNumber
<1> PICK k \in S : \A i \in S : k <= i
  BY <1>2
<1>3. f[k] = IF k = 0 THEN T!Bare(holes) ELSE Turn("net", a, traces, f[k - 1], k)
  BY DEF Rounds
<1>4. CASE k = 0
  BY <1>3, <1>4, BareGrows
<1>5. CASE k # 0
  <2>1. k - 1 \in 0..n /\ k - 1 \notin S /\ k - 1 < n /\ (k - 1) + 1 = k
    BY <1>5
  <2>2. Growing(f[k - 1], holes, k - 1)
    BY <2>1
  <2>3. f[k] = T!Attach(f[k - 1], T!Attachment(f[k - 1]), traces)
    BY <1>3, <1>5 DEF Turn
  <2>4. k - 1 \in Nat /\ k - 1 < Cardinality(holes) - 1
    BY <2>1
  <2>5. Growing(f[k], holes, (k - 1) + 1)
    BY <2>2, <2>3, <2>4, AttachGrows
  <2> QED
    BY <2>1, <2>5
<1> QED
  BY <1>4, <1>5

\* Ways that join holes: a tree's, to each of them.
Joins(ways, holes) ==
  /\ Rooted(ways, T!Root(holes)) /\ IsFiniteSet(ways) /\ ways # {}
  /\ holes \subseteq HolesOf(ways) /\ \A w \in ways : \E from : Leads(w, from)

LEMMA WaysJoin ==
  ASSUME NEW holes \in SUBSET T!Lattice, IsFiniteSet(holes), Cardinality(holes) >= 2,
         NEW traces, Copper(traces)
  PROVE  Joins(T!WaysOf(holes, traces), holes)
<1> DEFINE n == Cardinality(holes) - 1
           base == T!Bare(holes)
           f == CHOOSE g : g = [i \in 0..n |-> IF i = 0 THEN base
                                  ELSE T!Attach(g[i - 1], T!Attachment(g[i - 1]), traces)]
<1>1. n \in Nat /\ n > 0 /\ holes # {}
  BY FS_CardinalityType, FS_EmptySet
<1>2. Rounds(f, "net", 0, traces, base, n)
  <2>1. \E g : Rounds(g, "net", 0, traces, base, n)
    BY <1>1, RoundsExist
  <2>2. \A x, i : Turn("net", 0, traces, x, i) = T!Attach(x, T!Attachment(x), traces)
    BY DEF Turn
  <2>3. \A g : Rounds(g, "net", 0, traces, base, n) <=>
                 g = [i \in 0..n |-> IF i = 0 THEN base ELSE T!Attach(g[i - 1], T!Attachment(g[i - 1]), traces)]
    BY <2>2 DEF Rounds
  <2> QED
    BY <2>1, <2>3
<1>3. T!WaysOf(holes, traces) = f[n].ways
  BY DEF T!WaysOf, T!Cardinality, Cardinality
<1> HIDE DEF f
<1>4. Growing(f[n], holes, n)
  <2>1. n \in 0..n /\ n = Cardinality(holes) - 1
    BY <1>1
  <2> HIDE DEF n
  <2> QED
    BY <1>1, <1>2, <2>1, NetGoesOn
<1>5. f[n].rest = {}
  <2>1. Cardinality(f[n].rest) = 0
    BY <1>1, <1>4 DEF Growing
  <2>2. IsFiniteSet(f[n].rest)
    BY <1>4, FS_Subset DEF Growing
  <2> QED
    BY <2>1, <2>2, FS_EmptySet
<1> DEFINE ways == f[n].ways
<1>6. Rooted(ways, T!Root(holes)) /\ ways # {} /\ IsFiniteSet(ways)
  BY <1>1, <1>4 DEF Growing
<1>7. T!Root(holes) \in HolesOf(ways)
  BY <1>6, RootedPiece
<1>8. holes \subseteq HolesOf(ways)
  BY <1>4, <1>5, <1>7 DEF Growing
<1> QED
  BY <1>3, <1>4, <1>6, <1>8 DEF Joins, Growing

-----------------------------------------------------------------------------
(* The order of the nets *)

\* In a strict order of 1..n, each number is how many come before one of them.
LEMMA PlacesAll ==
  ASSUME NEW n \in Nat, NEW before \in [1..n -> SUBSET (1..n)],
         \A i \in 1..n : i \notin before[i],
         \A i, j \in 1..n : i \in before[j] => before[i] \subseteq before[j],
         \A i, j \in 1..n : i # j => i \in before[j] \/ j \in before[i]
  PROVE  \A i \in 1..n : \E j \in 1..n : Cardinality(before[j]) = i - 1
<1> DEFINE count == [j \in 1..n |-> Cardinality(before[j])]
<1>1. IsFiniteSet(1..n) /\ Cardinality(1..n) = n
  <2>1. 1 \in Int /\ n \in Int
    OBVIOUS
  <2>2. IsFiniteSet(1..n) /\ Cardinality(1..n) = IF 1 > n THEN 0 ELSE n - 1 + 1
    BY <2>1, FS_Interval, Zenon
  <2> QED
    BY <2>2
<1>2. ASSUME NEW j \in 1..n PROVE IsFiniteSet(before[j]) /\ Cardinality(before[j]) \in 0..(n - 1)
  <2>1. before[j] \in SUBSET (1..n) /\ before[j] # 1..n
    OBVIOUS
  <2>2. /\ IsFiniteSet(before[j]) /\ Cardinality(before[j]) <= Cardinality(1..n)
        /\ Cardinality(1..n) # Cardinality(before[j]) /\ Cardinality(before[j]) \in Nat
    BY <1>1, <2>1, FS_Subset, FS_CardinalityType
  <2> QED
    BY <1>1, <2>2
<1>3. ASSUME NEW i \in 1..n, NEW j \in 1..n, i \in before[j]
      PROVE  Cardinality(before[i]) # Cardinality(before[j])
  <2>1. before[i] \in SUBSET before[j] /\ before[i] # before[j]
    BY <1>3
  <2> QED
    BY <1>2, <2>1, FS_Subset
<1>4. ASSUME NEW i \in 1..n, NEW j \in 1..n, i # j
      PROVE  Cardinality(before[i]) # Cardinality(before[j])
  BY <1>3, <1>4
<1>5. count \in Injection(1..n, 0..(n - 1))
  BY <1>2, <1>4 DEF Injection, IsInjective
<1>6. IsFiniteSet(0..(n - 1)) /\ Cardinality(0..(n - 1)) = n
  <2> DEFINE m == n - 1
  <2>1. 0 \in Int /\ m \in Int
    OBVIOUS
  <2> HIDE DEF m
  <2>2. IsFiniteSet(0..m) /\ Cardinality(0..m) = IF 0 > m THEN 0 ELSE m - 0 + 1
    BY <2>1, FS_Interval, Zenon
  <2> QED
    BY <2>2 DEF m
<1>7. count \in Surjection(1..n, 0..(n - 1))
  BY <1>1, <1>5, <1>6, FS_Injection
<1>8. ASSUME NEW i \in 1..n PROVE \E j \in 1..n : Cardinality(before[j]) = i - 1
  <2>1. i - 1 \in 0..(n - 1)
    OBVIOUS
  <2> QED
    BY <1>7, <2>1 DEF Surjection
<1> QED
  BY <1>8

\* The least and the greatest of some columns or rows.
LEMMA BoundsOf ==
  ASSUME NEW m \in Nat, NEW S \in SUBSET (1..m), S # {}
  PROVE  T!Min(S) \in S /\ T!Max(S) \in S
<1> DEFINE up == [x \in S |-> x]  down == [x \in S |-> m - x]
<1>1. \E x \in S : \A y \in S : x <= y
  <2>1. \A x \in S : up[x] \in Nat /\ up[x] = x
    OBVIOUS
  <2> HIDE DEF up
  <2>2. \E x \in S : \A y \in S : up[x] <= up[y]
    BY <2>1, LeastOf
  <2> QED
    BY <2>1, <2>2
<1>2. \E x \in S : \A y \in S : x >= y
  <2>1. \A x \in S : down[x] \in Nat /\ down[x] = m - x /\ x \in Int
    OBVIOUS
  <2> HIDE DEF down
  <2>2. \E x \in S : \A y \in S : down[x] <= down[y]
    BY <2>1, LeastOf
  <2> QED
    BY <2>1, <2>2
<1> QED
  BY <1>1, <1>2 DEF T!Min, T!Max

LEMMA SameCount == \A S : T!Cardinality(S) = Cardinality(S)
BY DEF T!Cardinality, Cardinality, T!IsFiniteSet, IsFiniteSet

LEMMA TerminalsOnBoard ==
  ASSUME NEW n, NEW placed
  PROVE  T!Terminals(n, placed) \in SUBSET T!Lattice /\ IsFiniteSet(T!Terminals(n, placed))
<1>1. T!Terminals(n, placed) \in SUBSET T!Lattice
  BY DEF T!Terminals, T!Connected
<1> QED
  BY <1>1, MazeFacts, FS_Subset

\* The pins of a net that have a hole can be counted.
LEMMA ConnectedFinite ==
  ASSUME NEW i \in DOMAIN Nets, NEW placed
  PROVE  /\ IsFiniteSet(T!Connected(Nets[i], placed))
         /\ Cardinality(T!Connected(Nets[i], placed)) \in Nat
         /\ Cardinality(T!Connected(Nets[i], placed)) >= 1 => T!Terminals(Nets[i], placed) # {}
<1> DEFINE n == Nets[i]  k == Len(Net[n].pins)  C == T!Connected(n, placed)
<1>1. DOMAIN Net[n].pins = 1..k /\ k \in Int
  BY BoardFacts
<1>2. IsFiniteSet(1..k)
  <2>1. 1 \in Int
    OBVIOUS
  <2> HIDE DEF k
  <2> QED
    BY <1>1, <2>1, FS_Interval, Zenon
<1>3. C \in SUBSET (1..k)
  BY <1>1 DEF T!Connected
<1>4. IsFiniteSet(C) /\ Cardinality(C) \in Nat
  BY <1>2, <1>3, FS_Subset, FS_CardinalityType
<1>5. C # {} => T!Terminals(n, placed) # {}
  BY DEF T!Terminals
<1>6. C = {} => Cardinality(C) = 0
  BY FS_EmptySet
<1> QED
  BY <1>4, <1>5, <1>6

LEMMA SpanNumber ==
  ASSUME NEW i \in DOMAIN Nets, NEW placed
  PROVE  T!NetSpan(Nets[i], placed) \in Int
<1> DEFINE holes == T!Terminals(Nets[i], placed)
           xs == {h[1] : h \in holes}  ys == {h[2] : h \in holes}
<1>1. CASE Cardinality(T!Connected(Nets[i], placed)) < 2
  BY <1>1, SameCount DEF T!NetSpan
<1>2. CASE ~(Cardinality(T!Connected(Nets[i], placed)) < 2)
  <2>1. holes # {} /\ holes \in SUBSET T!Lattice
    BY <1>2, ConnectedFinite, TerminalsOnBoard
  <2>2. xs \in SUBSET (1..Cols) /\ ys \in SUBSET (1..Rows) /\ xs # {} /\ ys # {}
    BY <2>1 DEF T!Lattice
  <2>3. T!NetSpan(Nets[i], placed) = T!Max(xs) - T!Min(xs) + T!Max(ys) - T!Min(ys)
    BY <1>2, SameCount DEF T!NetSpan
  <2> HIDE DEF xs, ys
  <2>4. Cols \in Nat /\ Rows \in Nat
    BY BoardFacts
  <2>5. T!Max(xs) \in Int /\ T!Min(xs) \in Int /\ T!Max(ys) \in Int /\ T!Min(ys) \in Int
    <3>1. T!Max(xs) \in xs /\ T!Min(xs) \in xs
      BY <2>2, <2>4, BoundsOf
    <3>2. T!Max(ys) \in ys /\ T!Min(ys) \in ys
      BY <2>2, <2>4, BoundsOf
    <3>3. xs \subseteq Int /\ ys \subseteq Int
      BY <2>2, <2>4
    <3> QED
      BY <3>1, <3>2, <3>3, Zenon
  <2> QED
    BY <2>3, <2>5
<1> QED
  BY <1>1, <1>2

IsKey(k) == k = <<k[1], k[2], k[3], k[4]>> /\ k[1] \in Int /\ k[2] \in Int /\ k[3] \in Int /\ k[4] \in Int

LEMMA KeyNumbers ==
  ASSUME NEW i \in DOMAIN Nets, NEW placed
  PROVE  IsKey(T!SortKey(Nets[i], placed))
<1> DEFINE n == Nets[i]
           a == T!Rank(Net[n].class)  b == 0 - Net[n].priority
           c == 0 - T!Cardinality(T!Connected(n, placed))  d == 0 - T!NetSpan(n, placed)
<1>1. a \in Int
  <2>1. \E j \in DOMAIN T!Classes : T!Classes[j] = Net[n].class
    BY PerfSolveAssumption
  <2>2. DOMAIN T!Classes \subseteq Int
    BY DEF T!Classes
  <2> QED
    BY <2>1, <2>2 DEF T!Rank
<1>2. b \in Int
  BY PerfSolveAssumption
<1>3. c \in Int
  BY ConnectedFinite, SameCount
<1>4. d \in Int
  BY SpanNumber
<1>5. T!SortKey(n, placed) = <<a, b, c, d>>
  BY DEF T!SortKey
<1> HIDE DEF a, b, c, d
<1> QED
  BY <1>1, <1>2, <1>3, <1>4, <1>5 DEF IsKey

LEMMA KeyOrder ==
  ASSUME NEW k, NEW l, IsKey(k), IsKey(l)
  PROVE  /\ ~T!KeyBefore(k, k)
         /\ k # l => T!KeyBefore(k, l) \/ T!KeyBefore(l, k)
         /\ \A m : IsKey(m) /\ T!KeyBefore(k, l) /\ T!KeyBefore(l, m) => T!KeyBefore(k, m)
<1>1. ASSUME NEW x, NEW y, IsKey(x), IsKey(y)
      PROVE  T!KeyBefore(x, y) <=>
               \/ x[1] < y[1]
               \/ x[1] = y[1] /\ x[2] < y[2]
               \/ x[1] = y[1] /\ x[2] = y[2] /\ x[3] < y[3]
               \/ x[1] = y[1] /\ x[2] = y[2] /\ x[3] = y[3] /\ x[4] < y[4]
  <2>1. 1..4 = {1, 2, 3, 4} /\ 1..(1 - 1) = {} /\ 1..(2 - 1) = {1} /\ 1..(3 - 1) = {1, 2} /\ 1..(4 - 1) = {1, 2, 3}
    OBVIOUS
  <2> QED
    BY <1>1, <2>1 DEF T!KeyBefore
<1>2. ~T!KeyBefore(k, k)
  BY <1>1 DEF IsKey
<1>3. k # l => T!KeyBefore(k, l) \/ T!KeyBefore(l, k)
  BY <1>1 DEF IsKey
<1>4. ASSUME NEW m, IsKey(m), T!KeyBefore(k, l), T!KeyBefore(l, m)
      PROVE  T!KeyBefore(k, m)
  BY <1>1, <1>4 DEF IsKey
<1> QED
  BY <1>2, <1>3, <1>4

\* What is sorted are the nets.
LEMMA SortedNets ==
  ASSUME NEW placed
  PROVE  DOMAIN T!Sorted(placed) = DOMAIN Nets /\ \A i \in DOMAIN Nets : T!Sorted(placed)[i] \in AllNets
<1> DEFINE n == Len(Nets)
           key == [i \in DOMAIN Nets |-> T!SortKey(Nets[i], placed)]
           Before(j) == {i \in DOMAIN Nets : T!KeyBefore(key[i], key[j]) \/ (key[i] = key[j] /\ i < j)}
           before == [j \in 1..n |-> Before(j)]
<1>1. n \in Nat /\ DOMAIN Nets = 1..n
  BY BoardFacts
<1>2. \A i \in 1..n : IsKey(key[i])
  BY <1>1, KeyNumbers
<1> HIDE DEF key, n
<1>3. before \in [1..n -> SUBSET (1..n)]
  BY <1>1
<1>4. \A i \in 1..n : i \notin before[i]
  BY <1>1, <1>2, KeyOrder
<1>5. ASSUME NEW i \in 1..n, NEW j \in 1..n, i # j
      PROVE  i \in before[j] \/ j \in before[i]
  BY <1>1, <1>2, <1>5, KeyOrder
<1>6. ASSUME NEW i \in 1..n, NEW j \in 1..n, i \in before[j], NEW h \in before[i]
      PROVE  h \in before[j]
  <2>1. h \in 1..n
    BY <1>1
  <2>2. T!KeyBefore(key[i], key[j]) \/ (key[i] = key[j] /\ i < j)
    BY <1>6
  <2>3. T!KeyBefore(key[h], key[i]) \/ (key[h] = key[i] /\ h < i)
    BY <1>6
  <2>4. T!KeyBefore(key[h], key[j]) \/ (key[h] = key[j] /\ h < j)
    BY <1>1, <1>2, <2>1, <2>2, <2>3, KeyOrder
  <2> QED
    BY <1>1, <2>1, <2>4
<1>7. \A i, j \in 1..n : i \in before[j] => before[i] \subseteq before[j]
  BY <1>6
<1>8. \A i, j \in 1..n : i # j => i \in before[j] \/ j \in before[i]
  BY <1>5
<1>9. \A j \in 1..n : before[j] = Before(j)
  OBVIOUS
<1> HIDE DEF before
<1>10. \A i \in 1..n : \E j \in 1..n : Cardinality(before[j]) = i - 1
  BY <1>1, <1>3, <1>4, <1>7, <1>8, PlacesAll
<1>11. T!Sorted(placed) = [i \in DOMAIN Nets |-> Nets[CHOOSE j \in DOMAIN Nets : T!Cardinality(Before(j)) = i - 1]]
  BY DEF T!Sorted, key
<1>12. ASSUME NEW i \in DOMAIN Nets
       PROVE  (CHOOSE j \in DOMAIN Nets : T!Cardinality(Before(j)) = i - 1) \in DOMAIN Nets
  <2>1. \E j \in DOMAIN Nets : T!Cardinality(Before(j)) = i - 1
    BY <1>1, <1>9, <1>10, SameCount
  <2> HIDE DEF Before
  <2> QED
    BY <2>1
<1> QED
  BY <1>11, <1>12 DEF AllNets
-----------------------------------------------------------------------------
(* All nets *)

WaysFor(n, traces) == {t.way : t \in {u \in traces : u.net = n}}
IsRoute(r) == r = [traces |-> r.traces, unrouted |-> r.unrouted]
Routed(traces, placed) ==
  /\ Copper(traces)
  /\ \A n : WaysFor(n, traces) # {} => Joins(WaysFor(n, traces), T!Terminals(n, placed))

LEMMA JoinsUnion ==
  ASSUME NEW left, NEW right, NEW holes, Joins(left, holes), Joins(right, holes)
  PROVE  Joins(left \cup right, holes)
<1>1. Rooted(left \cup right, T!Root(holes))
  BY RootedUnion DEF Joins
<1>2. IsFiniteSet(left \cup right)
  BY FS_Union DEF Joins
<1>3. holes \subseteq HolesOf(left \cup right)
  BY DEF Joins, HolesOf
<1> QED
  BY <1>1, <1>2, <1>3 DEF Joins

\* A net that is routed once more gets ways of its own.
LEMMA RouteNetJoins ==
  ASSUME NEW r, NEW n, NEW placed, IsRoute(r), Routed(r.traces, placed)
  PROVE  /\ IsRoute(T!RouteNet(r, n, T!Terminals(n, placed)))
         /\ Routed(T!RouteNet(r, n, T!Terminals(n, placed)).traces, placed)
         /\ T!RouteNet(r, n, T!Terminals(n, placed)).unrouted \subseteq r.unrouted \cup {n}
<1> DEFINE holes == T!Terminals(n, placed)  s == T!RouteNet(r, n, holes)
<1>1. holes \in SUBSET T!Lattice /\ IsFiniteSet(holes) /\ Cardinality(holes) \in Nat
  BY TerminalsOnBoard, FS_CardinalityType
<1>2. CASE Cardinality(holes) < 2
  <2> HIDE DEF holes
  <2>1. s = [r EXCEPT !.unrouted = @ \cup {n}]
    BY <1>2 DEF T!RouteNet, T!Cardinality, Cardinality
  <2>2. IsRoute(s) /\ s.traces = r.traces /\ s.unrouted = r.unrouted \cup {n}
    BY <2>1 DEF IsRoute
  <2> QED
    BY <2>2 DEF holes
<1>3. CASE Cardinality(holes) >= 2
  <2> DEFINE W == T!WaysOf(holes, r.traces)
             new == {[net |-> n, way |-> w] : w \in W}
             all == r.traces \cup new
  <2>1. Joins(W, holes)
    <3> HIDE DEF holes
    <3> QED
      BY <1>1, <1>3, WaysJoin DEF Routed
  <2>2. s = [r EXCEPT !.traces = @ \cup new]
    <3> HIDE DEF holes
    <3> QED
      BY <1>1, <1>3 DEF T!RouteNet, T!Cardinality, Cardinality
  <2> HIDE DEF W, holes
  <2>3. IsRoute(s) /\ s.traces = all /\ s.unrouted = r.unrouted
    BY <2>2 DEF IsRoute
  <2>4. Copper(all)
    <3>1. IsFiniteSet(new)
      <4> DEFINE g == [w \in W |-> [net |-> n, way |-> w]]
      <4>1. g \in Surjection(W, new)
        BY DEF Surjection
      <4> QED
        BY <2>1, <4>1, FS_Surjection DEF Joins
    <3>2. \A w \in W : Len(w) \in Nat
      BY <2>1 DEF Joins, Leads
    <3>3. \A t \in new : Len(t.way) \in Nat
      BY <3>2
    <3>4. IsFiniteSet(all)
      <4> HIDE DEF new
      <4> QED
        BY <3>1, FS_Union DEF Routed, Copper
    <3> QED
      BY <3>3, <3>4 DEF Routed, Copper
  <2>5. WaysFor(n, new) = W /\ \A m : m # n => WaysFor(m, new) = {}
    <3>1. \A t \in new : t.net = n /\ t.way \in W
      OBVIOUS
    <3>2. \A w \in W : [net |-> n, way |-> w] \in new
      OBVIOUS
    <3> HIDE DEF new
    <3>3. ASSUME NEW w \in W
          PROVE  \E t \in {u \in new : u.net = n} : t.way = w
      <4> DEFINE t == [net |-> n, way |-> w]
      <4>1. t \in new /\ t.net = n /\ t.way = w
        BY <3>2
      <4> QED
        BY <4>1
    <3>4. \A m : m # n => {u \in new : u.net = m} = {}
      BY <3>1
    <3> QED
      BY <3>1, <3>3, <3>4 DEF WaysFor
  <2>6. \A m : WaysFor(m, all) = WaysFor(m, r.traces) \cup WaysFor(m, new)
    BY DEF WaysFor
  <2> HIDE DEF new, all
  <2>7. ASSUME NEW m, WaysFor(m, all) # {}
        PROVE  Joins(WaysFor(m, all), T!Terminals(m, placed))
    <3>1. CASE m # n
      <4>1. WaysFor(m, all) = WaysFor(m, r.traces)
        BY <2>5, <2>6, <3>1
      <4> QED
        BY <2>7, <4>1 DEF Routed
    <3>2. CASE m = n /\ WaysFor(n, r.traces) = {}
      <4>1. WaysFor(m, all) = W
        BY <2>5, <2>6, <3>2
      <4> QED
        BY <2>1, <3>2, <4>1 DEF holes
    <3>3. CASE m = n /\ WaysFor(n, r.traces) # {}
      <4>1. Joins(WaysFor(n, r.traces), holes)
        BY <3>3 DEF Routed, holes
      <4>2. Joins(WaysFor(n, r.traces) \cup W, holes)
        BY <2>1, <4>1, JoinsUnion
      <4>3. WaysFor(m, all) = WaysFor(n, r.traces) \cup W
        BY <2>5, <2>6, <3>3
      <4> QED
        BY <3>3, <4>2, <4>3 DEF holes
    <3> QED
      BY <3>1, <3>2, <3>3
  <2>8. Routed(s.traces, placed)
    BY <2>3, <2>4, <2>7 DEF Routed
  <2> QED
    BY <2>3, <2>8 DEF holes
<1> QED
  BY <1>1, <1>2, <1>3

LEMMA NetsGoOn ==
  ASSUME NEW nets, NEW placed, NEW n \in Nat, NEW f,
         Rounds(f, "nets", nets, placed, [traces |-> {}, unrouted |-> {}], n), NEW m \in 0..n
  PROVE  IsRoute(f[m]) /\ Routed(f[m].traces, placed) /\ f[m].unrouted \subseteq {nets[i] : i \in 1..n}
<1> DEFINE Good(s) == IsRoute(s) /\ Routed(s.traces, placed) /\ s.unrouted \subseteq {nets[i] : i \in 1..n}
           S == {k \in 0..n : ~Good(f[k])}
           base == [traces |-> {}, unrouted |-> {}]
<1>1. SUFFICES ASSUME S # {} PROVE FALSE
  OBVIOUS
<1>2. \E k \in S : \A i \in S : k <= i
  <2>1. S \in SUBSET Nat
    OBVIOUS
  <2> HIDE DEF S
  <2> QED
    BY <1>1, <2>1, SmallestNumber
<1> PICK k \in S : \A i \in S : k <= i
  BY <1>2
<1>3. f[k] = IF k = 0 THEN base ELSE Turn("nets", nets, placed, f[k - 1], k)
  BY DEF Rounds
<1>4. CASE k = 0
  <2>1. f[k].traces = {} /\ f[k].unrouted = {} /\ IsRoute(f[k])
    BY <1>3, <1>4 DEF IsRoute
  <2>2. Routed({}, placed)
    BY FS_EmptySet DEF Routed, Copper, WaysFor
  <2> QED
    BY <2>1, <2>2
<1>5. CASE k # 0
  <2>1. k - 1 \in 0..n /\ k - 1 \notin S
    BY <1>5
  <2>2. Good(f[k - 1])
    BY <2>1
  <2>3. f[k] = T!RouteNet(f[k - 1], nets[k], T!Terminals(nets[k], placed))
    BY <1>3, <1>5 DEF Turn
  <2>4. nets[k] \in {nets[i] : i \in 1..n}
    BY <1>5
  <2>5. Good(f[k])
    BY <2>2, <2>3, <2>4, RouteNetJoins
  <2> QED
    BY <2>5
<1> QED
  BY <1>4, <1>5

LEMMA RouteJoins ==
  ASSUME NEW placed
  PROVE  Routed(T!Route(placed).traces, placed) /\ T!Route(placed).unrouted \subseteq AllNets
<1> DEFINE nets == T!Sorted(placed)  n == Len(nets)
           base == [traces |-> {}, unrouted |-> {}]
           f == CHOOSE g : g = [i \in 0..n |-> IF i = 0 THEN base
                                  ELSE T!RouteNet(g[i - 1], nets[i], T!Terminals(nets[i], placed))]
<1>1. n \in Nat /\ \A i \in 1..n : nets[i] \in AllNets
  <2>1. Len(Nets) \in Nat /\ DOMAIN Nets = 1..Len(Nets)
    BY BoardFacts
  <2>2. DOMAIN nets = 1..Len(Nets) /\ \A i \in 1..Len(Nets) : nets[i] \in AllNets
    BY <2>1, SortedNets
  <2>3. nets = [i \in DOMAIN nets |-> nets[i]]
    BY DEF T!Sorted
  <2> HIDE DEF nets
  <2>4. nets = [i \in 1..Len(Nets) |-> nets[i]]
    BY <2>2, <2>3
  <2>5. Len([i \in 1..Len(Nets) |-> nets[i]]) = Len(Nets)
    BY <2>1
  <2> QED
    BY <2>1, <2>2, <2>4, <2>5
<1>2. T!Route(placed) = f[n]
  BY DEF T!Route, T!RouteAll
<1>3. Rounds(f, "nets", nets, placed, base, n)
  <2> HIDE DEF nets
  <2>1. \E g : Rounds(g, "nets", nets, placed, base, n)
    BY <1>1, RoundsExist
  <2>2. \A x, i : Turn("nets", nets, placed, x, i) = T!RouteNet(x, nets[i], T!Terminals(nets[i], placed))
    BY DEF Turn
  <2>3. \A g : Rounds(g, "nets", nets, placed, base, n) <=>
                 g = [i \in 0..n |-> IF i = 0 THEN base ELSE T!RouteNet(g[i - 1], nets[i], T!Terminals(nets[i], placed))]
    BY <2>2 DEF Rounds
  <2> QED
    BY <2>1, <2>3
<1> HIDE DEF f, n, nets
<1>4. n \in 0..n
  BY <1>1
<1>5. Routed(f[n].traces, placed) /\ f[n].unrouted \subseteq {nets[i] : i \in 1..n}
  BY <1>1, <1>3, <1>4, NetsGoOn
<1> QED
  BY <1>1, <1>2, <1>5

-----------------------------------------------------------------------------
(* The answer *)

\* Copper comes from the router, for the placement that is answered, and it is the copper
\* that is verified.
CopperInv ==
  /\ phase = "verify" => route.traces = T!Route(found.placed).traces
  /\ answer # NoAnswer => phase = "answered"
  /\ phase = "answered" /\ job.op # "place" =>
       /\ route.traces = T!Route(found.placed).traces
       /\ answer.faults = Diagnostics(found.placed, route.traces)

LEMMA CopperInit == SolveInit => CopperInv
BY DEF SolveInit, CopperInv

LEMMA CopperNext == CopperInv /\ [SolveNext]_allVars => CopperInv'
<1> SUFFICES ASSUME CopperInv, [SolveNext]_allVars PROVE CopperInv'
  OBVIOUS
<1> USE DEF CopperInv
<1>1. CASE RoutePlaced
  <2>1. /\ route' = [traces |-> T!Route(found.placed).traces, unrouted |-> T!Route(found.placed).unrouted]
        /\ phase' = "verify" /\ found' = found /\ answer' = answer /\ phase # "answered"
    BY <1>1 DEF RoutePlaced
  <2> QED
    BY <2>1
<1>2. CASE Verify
  <2>1. /\ answer'.faults = Diagnostics(found.placed, route.traces) /\ phase' = "answered"
        /\ found' = found /\ route' = route /\ job' = job
    BY <1>2 DEF Verify
  <2>2. phase = "verify" \/ job.op = "place"
    BY <1>2 DEF Verify
  <2> QED
    BY <2>1, <2>2
<1>3. CASE Ask
  <2>1. phase' = phase /\ found' = found /\ route' = route /\ job' = job /\ answer' = answer
    BY <1>3 DEF Ask
  <2> QED
    BY <2>1
<1>4. CASE \/ BeginGreedy \/ BeginEmpty \/ BeginSearch \/ BeginRoute
           \/ Retry \/ Collected \/ TakeUp \/ Evaluate \/ PassOver \/ EvaluationsOver
           \/ GreedyAnswers \/ GreedyFails \/ Compare \/ EvaluateGreedy \/ Choose
           \/ Cancel \/ RouteCancelled
  <2>1. phase # "answered" /\ phase' \notin {"verify", "answered"} /\ answer' = answer
    BY <1>4 DEF BeginGreedy, BeginEmpty, BeginSearch, BeginRoute, Retry, Collected, TakeUp, Evaluate, PassOver,
                EvaluationsOver, GreedyAnswers, GreedyFails, Compare, EvaluateGreedy, Choose, Cancel, RouteCancelled
  <2> QED
    BY <2>1
<1>5. CASE Find \/ FindNothing \/ GreedyPlaces \/ UNCHANGED allVars
  <2>1. phase' = phase /\ found' = found /\ route' = route /\ job' = job /\ answer' = answer
    BY <1>5 DEF Find, FindNothing, GreedyPlaces, allVars, jobVars
  <2> QED
    BY <2>1
<1> QED
  BY <1>1, <1>2, <1>3, <1>4, <1>5 DEF SolveNext

\* Of a net that is not reported the ways are one piece.
LEMMA CopperJoins == CopperInv => RoutedMeansJoined
<1> SUFFICES ASSUME CopperInv, answer # NoAnswer, job.op # "place",
                    NEW n \in AllNets, <<"UNROUTED_TERMINAL", n>> \notin answer.faults,
                    NEW x \in PinsOf(n), x[1] \in PlacedRefs(found.placed)
             PROVE  OnePiece(n)
  BY DEF RoutedMeansJoined
<1> DEFINE ways == WaysFor(n, route.traces)
<1>1. /\ route.traces = T!Route(found.placed).traces
      /\ answer.faults = Diagnostics(found.placed, route.traces)
  BY DEF CopperInv
<1>2. \E t \in route.traces : t.net = n
  <2>1. <<"UNROUTED_TERMINAL", n>> \notin TraceFaults(found.placed, route.traces)
    BY <1>1 DEF Diagnostics
  <2> QED
    BY <2>1 DEF TraceFaults
<1>3. ways # {}
  BY <1>2 DEF WaysFor
<1>4. Joins(ways, T!Terminals(n, found.placed))
  BY <1>1, <1>3, RouteJoins DEF Routed
<1>5. ways = {t.way : t \in {u \in route.traces : u.net = n}}
  BY DEF WaysFor
<1> HIDE DEF ways
<1>6. \A w \in ways : \A i \in 1..(Len(w) - 1) : w[i + 1] \in T!Next(w[i])
  BY <1>4 DEF Joins, Leads
<1>7. \A some \in (SUBSET ways) \ {{}, ways} : HolesOf(some) \cap HolesOf(ways \ some) # {}
  BY <1>4, RootedPiece DEF Joins
<1> QED
  BY <1>3, <1>4, <1>5, <1>6, <1>7 DEF OnePiece, Joins, HolesOf

\* In an answer, every net is reported, has no part on the board, or is one piece that
\* reaches all its leads (route(), maze_route, _validate_traces).
THEOREM RoutedJoined == SolveSpec => []RoutedMeansJoined
<1> QED
  BY CopperInit, CopperNext, CopperJoins, PTL DEF SolveSpec

-----------------------------------------------------------------------------
(* The copy of place() *)

\* What SolveProofs shows of place(), carried over to its copy: the constants of the solve
\* loop, which the placer does not use, are any that its assumptions allow.
Placing == INSTANCE SolveProofs WITH
       Holes <- Lattice, Disabled <- {}, RowY <- RowAt, Gap <- <<0, 0>>,
       NearEdge <- NearAnyEdge, OwnPinCounts <- TRUE,
       RailHoles <- {}, Groups <- [h \in Lattice |-> {h}], RailLine <- <<>>, PartPins <- [r \in Refs |-> {}],
       JoinedPins <- <<>>, AllowCritical <- TRUE, Jobs <- {}, WireCost <- 0, UnroutedCost <- 0,
       late <- FALSE, layout <- found, routing <- 0, placing <- 0, iteration <- 0

LEMMA SameLibrary ==
  /\ \A S : P!IsFiniteSet(S) = Placing!IsFiniteSet(S)
  /\ \A S : P!Cardinality(S) = Placing!Cardinality(S)
  /\ \A S : P!Min(S) = Placing!Min(S)
  /\ \A S : P!Max(S) = Placing!Max(S)
  /\ \A f : P!SumFunction(f) = Placing!SumFunction(f)
  /\ \A S : P!SetToSeqs(S) = Placing!SetToSeqs(S)
<1>1. \A S : P!IsFiniteSet(S) = Placing!IsFiniteSet(S)
  BY DEF P!IsFiniteSet, Placing!IsFiniteSet
<1>2. \A S : P!Cardinality(S) = Placing!Cardinality(S)
  BY DEF P!Cardinality, Placing!Cardinality, P!IsFiniteSet, Placing!IsFiniteSet
<1>3. \A S : P!Min(S) = Placing!Min(S)
  BY DEF P!Min, Placing!Min
<1>4. \A S : P!Max(S) = Placing!Max(S)
  BY DEF P!Max, Placing!Max
<1>5. \A f : P!SumFunction(f) = Placing!SumFunction(f)
  BY DEF P!SumFunction, Placing!SumFunction, P!SumFunctionOnSet, Placing!SumFunctionOnSet, P!FoldFunctionOnSet, Placing!FoldFunctionOnSet, P!MapThenFoldSet, Placing!MapThenFoldSet
<1>6. \A S : P!SetToSeqs(S) = Placing!SetToSeqs(S)
  BY <1>2 DEF P!SetToSeqs, Placing!SetToSeqs
<1> QED
  BY <1>1, <1>2, <1>3, <1>4, <1>5, <1>6

LEMMA SameParts ==
  /\ P!Refs = Placing!Refs
  /\ \A r : P!Place(r) = Placing!Place(r)
  /\ \A r : P!Known(r) <=> Placing!Known(r)
  /\ \A r : P!FootprintOf(r) = Placing!FootprintOf(r)
  /\ P!NoSpan = Placing!NoSpan
  /\ P!NoPose = Placing!NoPose
  /\ P!Unit = Placing!Unit
  /\ \A f : P!FootprintType(f) <=> Placing!FootprintType(f)
<1>1. P!Refs = Placing!Refs
  BY DEF P!Refs, Placing!Refs
<1>2. \A r : P!Place(r) = Placing!Place(r)
  BY DEF P!Place, Placing!Place
<1>3. \A r : P!Known(r) <=> Placing!Known(r)
  BY DEF P!Known, Placing!Known
<1>4. \A r : P!FootprintOf(r) = Placing!FootprintOf(r)
  BY DEF P!FootprintOf, Placing!FootprintOf
<1>5. P!NoSpan = Placing!NoSpan
  BY DEF P!NoSpan, Placing!NoSpan
<1>6. P!NoPose = Placing!NoPose
  BY DEF P!NoPose, Placing!NoPose
<1>7. P!Unit = Placing!Unit
  BY DEF P!Unit, Placing!Unit
<1>8. \A f : P!FootprintType(f) <=> Placing!FootprintType(f)
  BY <1>5, SameLibrary DEF P!FootprintType, Placing!FootprintType
<1> QED
  BY <1>1, <1>2, <1>3, <1>4, <1>5, <1>6, <1>7, <1>8

LEMMA SamePoses ==
  /\ \A d, turn : P!Rotate(d, turn) = Placing!Rotate(d, turn)
  /\ \A h, d : P!Plus(h, d) = Placing!Plus(h, d)
  /\ \A length : P!Leads(length) = Placing!Leads(length)
  /\ \A f, span : P!PinOffsets(f, span) = Placing!PinOffsets(f, span)
  /\ \A f, span : P!BodyCells(f, span) = Placing!BodyCells(f, span)
  /\ \A f, turn, span : P!MechCost(f, turn, span) = Placing!MechCost(f, turn, span)
  /\ \A f, anchor, turn, span : P!PoseAt(f, anchor, turn, span) = Placing!PoseAt(f, anchor, turn, span)
  /\ \A pose : P!PinHoles(pose) = Placing!PinHoles(pose)
  /\ \A pose : P!Cells(pose) = Placing!Cells(pose)
  /\ \A cells : P!Straddles(cells) <=> Placing!Straddles(cells)
  /\ \A cells, value : P!Clear(cells, value) <=> Placing!Clear(cells, value)
  /\ \A f, pose : P!Fits(f, pose) <=> Placing!Fits(f, pose)
  /\ \A f : P!PosesOf(f) = Placing!PosesOf(f)
  /\ P!Poses = Placing!Poses
  /\ \A a, b : P!HoleBefore(a, b) <=> Placing!HoleBefore(a, b)
  /\ \A p, q : P!PoseBefore(p, q) <=> Placing!PoseBefore(p, q)
<1>1. \A d, turn : P!Rotate(d, turn) = Placing!Rotate(d, turn)
  BY DEF P!Rotate, Placing!Rotate
<1>2. \A h, d : P!Plus(h, d) = Placing!Plus(h, d)
  BY DEF P!Plus, Placing!Plus
<1>3. \A length : P!Leads(length) = Placing!Leads(length)
  BY DEF P!Leads, Placing!Leads
<1>4. \A f, span : P!PinOffsets(f, span) = Placing!PinOffsets(f, span)
  BY SameParts, <1>3 DEF P!PinOffsets, Placing!PinOffsets
<1>5. \A f, span : P!BodyCells(f, span) = Placing!BodyCells(f, span)
  BY SameParts DEF P!BodyCells, Placing!BodyCells
<1>6. \A f, turn, span : P!MechCost(f, turn, span) = Placing!MechCost(f, turn, span)
  BY SameParts DEF P!MechCost, Placing!MechCost
<1>7. \A f, anchor, turn, span : P!PoseAt(f, anchor, turn, span) = Placing!PoseAt(f, anchor, turn, span)
  BY <1>1, <1>2, <1>4, <1>5, <1>6 DEF P!PoseAt, Placing!PoseAt
<1>8. \A pose : P!PinHoles(pose) = Placing!PinHoles(pose)
  BY DEF P!PinHoles, Placing!PinHoles
<1>9. \A pose : P!Cells(pose) = Placing!Cells(pose)
  BY <1>8 DEF P!Cells, Placing!Cells
<1>10. \A cells : P!Straddles(cells) <=> Placing!Straddles(cells)
  BY DEF P!Straddles, Placing!Straddles
<1>11. \A cells, value : P!Clear(cells, value) <=> Placing!Clear(cells, value)
  BY SameLibrary DEF P!Clear, Placing!Clear
<1>12. \A f, pose : P!Fits(f, pose) <=> Placing!Fits(f, pose)
  BY <1>9, <1>10, <1>11 DEF P!Fits, Placing!Fits
<1>13. \A f : P!PosesOf(f) = Placing!PosesOf(f)
  BY <1>7, <1>12 DEF P!PosesOf, Placing!PosesOf
<1>14. P!Poses = Placing!Poses
  BY <1>13 DEF P!Poses, Placing!Poses
<1>15. \A a, b : P!HoleBefore(a, b) <=> Placing!HoleBefore(a, b)
  BY DEF P!HoleBefore, Placing!HoleBefore
<1>16. \A p, q : P!PoseBefore(p, q) <=> Placing!PoseBefore(p, q)
  BY <1>15 DEF P!PoseBefore, Placing!PoseBefore
<1> QED
  BY <1>1, <1>2, <1>3, <1>4, <1>5, <1>6, <1>7, <1>8, <1>9, <1>10, <1>11, <1>12, <1>13, <1>14, <1>15, <1>16

LEMMA SameCosts ==
  /\ \A d : P!Abs(d) = Placing!Abs(d)
  /\ \A h : P!Point(h) = Placing!Point(h)
  /\ \A a, b : P!Manhattan(a, b) = Placing!Manhattan(a, b)
  /\ \A n : P!Pins(n) = Placing!Pins(n)
  /\ P!NetOfPin = Placing!NetOfPin
  /\ \A r, p : P!NetOf(r, p) = Placing!NetOf(r, p)
  /\ \A n : P!PinsOn(n) = Placing!PinsOn(n)
  /\ \A n, poses : P!PlacedPins(n, poses) = Placing!PlacedPins(n, poses)
  /\ \A r, p, poses : P!Neighbours(r, p, poses) = Placing!Neighbours(r, p, poses)
  /\ \A r, pose, poses : P!DistanceTerm(r, pose, poses) = Placing!DistanceTerm(r, pose, poses)
  /\ \A pose, occupied : P!CongestionTerm(pose, occupied) = Placing!CongestionTerm(pose, occupied)
  /\ \A f, pose : P!AccessTerm(f, pose) = Placing!AccessTerm(f, pose)
  /\ \A pose : P!Centroid(pose) = Placing!Centroid(pose)
  /\ \A r, pose, poses, occupied, anchor : P!Cost(r, pose, poses, occupied, anchor) = Placing!Cost(r, pose, poses, occupied, anchor)
<1>1. \A d : P!Abs(d) = Placing!Abs(d)
  BY DEF P!Abs, Placing!Abs
<1>2. \A h : P!Point(h) = Placing!Point(h)
  BY SameParts DEF P!Point, Placing!Point
<1>3. \A a, b : P!Manhattan(a, b) = Placing!Manhattan(a, b)
  BY <1>1 DEF P!Manhattan, Placing!Manhattan
<1>4. \A n : P!Pins(n) = Placing!Pins(n)
  BY DEF P!Pins, Placing!Pins
<1>5. P!NetOfPin = Placing!NetOfPin
  BY <1>4, SameLibrary DEF P!NetOfPin, Placing!NetOfPin
<1>6. \A r, p : P!NetOf(r, p) = Placing!NetOf(r, p)
  BY <1>5 DEF P!NetOf, Placing!NetOf
<1>7. \A n : P!PinsOn(n) = Placing!PinsOn(n)
  BY <1>5 DEF P!PinsOn, Placing!PinsOn
<1>8. \A n, poses : P!PlacedPins(n, poses) = Placing!PlacedPins(n, poses)
  BY SameParts, <1>7 DEF P!PlacedPins, Placing!PlacedPins
<1>9. \A r, p, poses : P!Neighbours(r, p, poses) = Placing!Neighbours(r, p, poses)
  BY <1>6, <1>8 DEF P!Neighbours, Placing!Neighbours
<1>10. \A r, pose, poses : P!DistanceTerm(r, pose, poses) = Placing!DistanceTerm(r, pose, poses)
  <2> TAKE r, pose, poses
  <2> DEFINE A(p) == {P!Manhattan(P!Point(pose.pins[p]), P!Point(poses[x[1]].pins[x[2]])) : x \in P!Neighbours(r, p, poses)}
             B(p) == {Placing!Manhattan(Placing!Point(pose.pins[p]), Placing!Point(poses[x[1]].pins[x[2]])) :
                        x \in Placing!Neighbours(r, p, poses)}
             a == {p \in DOMAIN pose.pins : P!NetOf(r, p) # NoNet}
             b == {p \in DOMAIN pose.pins : Placing!NetOf(r, p) # NoNet}
             f == [p \in a |-> IF A(p) = {} THEN 0 ELSE P!Min(A(p))]
             g == [p \in b |-> IF B(p) = {} THEN 0 ELSE Placing!Min(B(p))]
  <2>1. \A p : A(p) = B(p)
    BY <1>2, <1>3, <1>9
  <2>2. a = b
    BY <1>6
  <2>3. P!DistanceTerm(r, pose, poses) = P!SumFunction(f) /\ Placing!DistanceTerm(r, pose, poses) = Placing!SumFunction(g)
    BY DEF P!DistanceTerm, Placing!DistanceTerm
  <2>4. f = g
    <3> HIDE DEF A, B, a, b
    <3> QED
      BY <2>1, <2>2, SameLibrary
  <2> HIDE DEF f, g
  <2> QED
    BY <2>3, <2>4, SameLibrary
<1>11. \A pose, occupied : P!CongestionTerm(pose, occupied) = Placing!CongestionTerm(pose, occupied)
  BY SameLibrary DEF P!CongestionTerm, Placing!CongestionTerm
<1>12. \A f, pose : P!AccessTerm(f, pose) = Placing!AccessTerm(f, pose)
  BY DEF P!AccessTerm, Placing!AccessTerm
<1>13. \A pose : P!Centroid(pose) = Placing!Centroid(pose)
  BY <1>2, SameLibrary DEF P!Centroid, Placing!Centroid
<1>14. \A r, pose, poses, occupied, anchor : P!Cost(r, pose, poses, occupied, anchor) = Placing!Cost(r, pose, poses, occupied, anchor)
  BY SameParts, SamePoses, <1>3, <1>10, <1>11, <1>12, <1>13 DEF P!Cost, Placing!Cost
<1> QED
  BY <1>1, <1>2, <1>3, <1>4, <1>5, <1>6, <1>7, <1>8, <1>9, <1>10, <1>11, <1>12, <1>13, <1>14

LEMMA SameClusters ==
  /\ \A r : P!Family(r) = Placing!Family(r)
  /\ P!Dips = Placing!Dips
  /\ P!To92s = Placing!To92s
  /\ \A r : P!TwoPin(r) = Placing!TwoPin(r)
  /\ \A r : P!NetsOf(r) = Placing!NetsOf(r)
  /\ \A r, s : P!Shared(r, s) = Placing!Shared(r, s)
  /\ \A c, r : P!Ensure(c, r) = Placing!Ensure(c, r)
  /\ \A c, anchor, r : P!Join(c, anchor, r) = Placing!Join(c, anchor, r)
  /\ \A r : P!BypassDips(r) = Placing!BypassDips(r)
  /\ \A r : P!ClockDips(r) = Placing!ClockDips(r)
  /\ \A r : P!Transistors(r) = Placing!Transistors(r)
  /\ \A seq, S : P!FirstOf(seq, S) = Placing!FirstOf(seq, S)
  /\ \A c, r, set92 : P!Assign(c, r, set92) = Placing!Assign(c, r, set92)
  /\ \A set92 : P!Clusters(set92) = Placing!Clusters(set92)
  /\ \A anchor, members : P!Members(anchor, members) = Placing!Members(anchor, members)
  /\ \A members : P!AnchorOf(members) = Placing!AnchorOf(members)
<1>1. \A r : P!Family(r) = Placing!Family(r)
  BY SameParts DEF P!Family, Placing!Family
<1>2. P!Dips = Placing!Dips
  BY SameParts, <1>1 DEF P!Dips, Placing!Dips
<1>3. P!To92s = Placing!To92s
  BY SameParts, <1>1 DEF P!To92s, Placing!To92s
<1>4. \A r : P!TwoPin(r) = Placing!TwoPin(r)
  BY SameParts, <1>1, SameLibrary DEF P!TwoPin, Placing!TwoPin
<1>5. \A r : P!NetsOf(r) = Placing!NetsOf(r)
  BY SameCosts DEF P!NetsOf, Placing!NetsOf
<1>6. \A r, s : P!Shared(r, s) = Placing!Shared(r, s)
  BY <1>5 DEF P!Shared, Placing!Shared
<1>7. \A c, r : P!Ensure(c, r) = Placing!Ensure(c, r)
  BY DEF P!Ensure, Placing!Ensure
<1>8. \A c, anchor, r : P!Join(c, anchor, r) = Placing!Join(c, anchor, r)
  BY DEF P!Join, Placing!Join
<1>9. \A r : P!BypassDips(r) = Placing!BypassDips(r)
  BY <1>2, <1>4, <1>6, SameLibrary DEF P!BypassDips, Placing!BypassDips
<1>10. \A r : P!ClockDips(r) = Placing!ClockDips(r)
  BY <1>2, <1>6 DEF P!ClockDips, Placing!ClockDips
<1>11. \A r : P!Transistors(r) = Placing!Transistors(r)
  BY <1>1, <1>3, <1>6 DEF P!Transistors, Placing!Transistors
<1>12. \A seq, S : P!FirstOf(seq, S) = Placing!FirstOf(seq, S)
  BY DEF P!FirstOf, Placing!FirstOf
<1>13. \A c, r, set92 : P!Assign(c, r, set92) = Placing!Assign(c, r, set92)
  BY <1>7, <1>8, <1>9, <1>10, <1>11, <1>12 DEF P!Assign, Placing!Assign
<1>14. \A set92 : P!Clusters(set92) = Placing!Clusters(set92)
  BY SameParts, <1>2, <1>13 DEF P!Clusters, Placing!Clusters
<1>15. \A anchor, members : P!Members(anchor, members) = Placing!Members(anchor, members)
  BY SameParts DEF P!Members, Placing!Members
<1>16. \A members : P!AnchorOf(members) = Placing!AnchorOf(members)
  BY DEF P!AnchorOf, Placing!AnchorOf, P!Place, Placing!Place, P!Refs, Placing!Refs
<1> QED
  BY <1>1, <1>2, <1>3, <1>4, <1>5, <1>6, <1>7, <1>8, <1>9, <1>10, <1>11, <1>12, <1>13, <1>14, <1>15, <1>16

LEMMA SameOrder ==
  /\ \A r : P!PoseCount(r) = Placing!PoseCount(r)
  /\ \A r, kept : P!OrderKey(r, kept) = Placing!OrderKey(r, kept)
  /\ \A k, l : P!KeyBefore(k, l) <=> Placing!KeyBefore(k, l)
  /\ \A key : P!Arranged(key) = Placing!Arranged(key)
  /\ \A kept : P!BaseOrder(kept) = Placing!BaseOrder(kept)
  /\ \A line, r : P!At(line, r) = Placing!At(line, r)
  /\ \A line, anchor, members : P!PullTogether(line, anchor, members) = Placing!PullTogether(line, anchor, members)
  /\ \A kept, members : P!Order(kept, members) = Placing!Order(kept, members)
<1>1. \A r : P!PoseCount(r) = Placing!PoseCount(r)
  BY SameParts, SameLibrary DEF P!PoseCount, Placing!PoseCount
<1>2. \A r, kept : P!OrderKey(r, kept) = Placing!OrderKey(r, kept)
  BY SameParts, SameClusters, <1>1 DEF P!OrderKey, Placing!OrderKey
<1>3. \A k, l : P!KeyBefore(k, l) <=> Placing!KeyBefore(k, l)
  BY DEF P!KeyBefore, Placing!KeyBefore
<1>4. \A key : P!Arranged(key) = Placing!Arranged(key)
  <2> TAKE key
  <2>1. \A r : {q \in DOMAIN key : P!KeyBefore(key[q], key[r])} = {q \in DOMAIN key : Placing!KeyBefore(key[q], key[r])}
    BY <1>3
  <2> DEFINE A(i, r) == P!Cardinality({q \in DOMAIN key : P!KeyBefore(key[q], key[r])}) = i - 1
             B(i, r) == Placing!Cardinality({q \in DOMAIN key : Placing!KeyBefore(key[q], key[r])}) = i - 1
  <2>2. \A i, r : A(i, r) <=> B(i, r)
    BY <2>1, SameLibrary
  <2>3. /\ P!Arranged(key) = [i \in 1..P!Cardinality(DOMAIN key) |-> CHOOSE r \in DOMAIN key : A(i, r)]
        /\ Placing!Arranged(key) = [i \in 1..Placing!Cardinality(DOMAIN key) |-> CHOOSE r \in DOMAIN key : B(i, r)]
    BY DEF P!Arranged, Placing!Arranged
  <2>4. P!Cardinality(DOMAIN key) = Placing!Cardinality(DOMAIN key)
    BY SameLibrary
  <2> HIDE DEF A, B
  <2> QED
    BY <2>2, <2>3, <2>4
<1>5. \A kept : P!BaseOrder(kept) = Placing!BaseOrder(kept)
  BY SameParts, <1>2, <1>4 DEF P!BaseOrder, Placing!BaseOrder
<1>6. \A line, r : P!At(line, r) = Placing!At(line, r)
  BY DEF P!At, Placing!At
<1>7. \A line, anchor, members : P!PullTogether(line, anchor, members) = Placing!PullTogether(line, anchor, members)
  <2> TAKE line, anchor, members
  <2> DEFINE m == P!Members(anchor, members) \ {anchor}
             n == Placing!Members(anchor, members) \ {anchor}
             U(r) == {q \in P!Refs \ m : P!At(line, q) <= P!At(line, r)}
             V(r) == {q \in Placing!Refs \ n : Placing!At(line, q) <= Placing!At(line, r)}
             a == {r \in P!Refs \ m : P!Cardinality(U(r)) <= P!At(line, anchor)}
             b == {r \in Placing!Refs \ n : Placing!Cardinality(V(r)) <= Placing!At(line, anchor)}
             f == [r \in P!Refs |-> CASE r \in a -> <<1, 0, P!At(line, r)>>
                                      [] r \in m -> <<2, 0, P!Place(r)>>
                                      [] OTHER -> <<3, 0, P!At(line, r)>>]
             g == [r \in Placing!Refs |-> CASE r \in b -> <<1, 0, Placing!At(line, r)>>
                                            [] r \in n -> <<2, 0, Placing!Place(r)>>
                                            [] OTHER -> <<3, 0, Placing!At(line, r)>>]
  <2>1. m = n
    BY SameClusters
  <2>2. P!Refs = Placing!Refs /\ \A r : P!Place(r) = Placing!Place(r)
    BY SameParts
  <2>3. \A r : U(r) = V(r)
    <3> HIDE DEF m, n
    <3> QED
      BY <2>1, <2>2, <1>6
  <2>4. a = b
    <3> HIDE DEF m, n, U, V
    <3> QED
      BY <2>1, <2>2, <2>3, <1>6, SameLibrary
  <2>5. f = g
    <3> HIDE DEF m, n, a, b
    <3> QED
      BY <2>1, <2>2, <2>4, <1>6
  <2>6. P!PullTogether(line, anchor, members) = P!Arranged(f) /\ Placing!PullTogether(line, anchor, members) = Placing!Arranged(g)
    BY DEF P!PullTogether, Placing!PullTogether
  <2> HIDE DEF f, g
  <2> QED
    BY <2>5, <2>6, <1>4
<1>8. \A kept, members : P!Order(kept, members) = Placing!Order(kept, members)
  BY <1>5, <1>7 DEF P!Order, Placing!Order
<1> QED
  BY <1>1, <1>2, <1>3, <1>4, <1>5, <1>6, <1>7, <1>8

LEMMA SameStates ==
  /\ P!Infinite = Placing!Infinite
  /\ P!Nowhere = Placing!Nowhere
  /\ \A f : P!OnRefs(f) = Placing!OnRefs(f)
  /\ P!Empty = Placing!Empty
  /\ \A s : P!On(s) = Placing!On(s)
  /\ \A pose, locked : P!PlacementOf(pose, locked) = Placing!PlacementOf(pose, locked)
  /\ \A s, r : P!Lift(s, r) = Placing!Lift(s, r)
  /\ \A s, r, pose : P!Put(s, r, pose) = Placing!Put(s, r, pose)
  /\ \A s, r, pose : P!MoveTo(s, r, pose) = Placing!MoveTo(s, r, pose)
  /\ \A s, r, pose : P!CostIn(s, r, pose) = Placing!CostIn(s, r, pose)
  /\ \A s : P!TotalCost(s) = Placing!TotalCost(s)
<1>1. P!Infinite = Placing!Infinite
  BY DEF P!Infinite, Placing!Infinite
<1>2. P!Nowhere = Placing!Nowhere
  BY SameParts DEF P!Nowhere, Placing!Nowhere
<1>3. \A f : P!OnRefs(f) = Placing!OnRefs(f)
  BY SameParts DEF P!OnRefs, Placing!OnRefs
<1>4. P!Empty = Placing!Empty
  BY <1>2 DEF P!Empty, Placing!Empty
<1>5. \A s : P!On(s) = Placing!On(s)
  BY SameParts DEF P!On, Placing!On
<1>6. \A pose, locked : P!PlacementOf(pose, locked) = Placing!PlacementOf(pose, locked)
  BY SamePoses DEF P!PlacementOf, Placing!PlacementOf
<1>7. \A s, r : P!Lift(s, r) = Placing!Lift(s, r)
  BY SameParts, SamePoses DEF P!Lift, Placing!Lift
<1>8. \A s, r, pose : P!Put(s, r, pose) = Placing!Put(s, r, pose)
  BY SamePoses, <1>6 DEF P!Put, Placing!Put
<1>9. \A s, r, pose : P!MoveTo(s, r, pose) = Placing!MoveTo(s, r, pose)
  BY <1>7, <1>8 DEF P!MoveTo, Placing!MoveTo
<1>10. \A s, r, pose : P!CostIn(s, r, pose) = Placing!CostIn(s, r, pose)
  BY SameCosts DEF P!CostIn, Placing!CostIn
<1>11. \A s : P!TotalCost(s) = Placing!TotalCost(s)
  BY <1>5, <1>10, SameLibrary DEF P!TotalCost, Placing!TotalCost
<1> QED
  BY <1>1, <1>2, <1>3, <1>4, <1>5, <1>6, <1>7, <1>8, <1>9, <1>10, <1>11

LEMMA SameSeed ==
  /\ \A layout : P!LockedIn(layout) = Placing!LockedIn(layout)
  /\ \A r, placement : P!SeedPose(r, placement) = Placing!SeedPose(r, placement)
  /\ \A layout : P!Seeded(layout) = Placing!Seeded(layout)
  /\ P!Seed <=> Placing!Seed
<1>1. \A layout : P!LockedIn(layout) = Placing!LockedIn(layout)
  BY SameParts DEF P!LockedIn, Placing!LockedIn
<1>2. \A r, placement : P!SeedPose(r, placement) = Placing!SeedPose(r, placement)
  BY SameParts, SamePoses DEF P!SeedPose, Placing!SeedPose
<1>3. \A layout : P!Seeded(layout) = Placing!Seeded(layout)
  BY SameStates, <1>1, <1>2 DEF P!Seeded, Placing!Seeded
<1>4. P!Seed <=> Placing!Seed
  BY SameOrder, <1>1, <1>3 DEF P!Seed, Placing!Seed
<1> QED
  BY <1>1, <1>2, <1>3, <1>4

LEMMA SameGreedy ==
  /\ \A r : P!FreePoses(r) = Placing!FreePoses(r)
  /\ \A r : P!Prices(r) = Placing!Prices(r)
  /\ \A price : P!Cheapest(price) = Placing!Cheapest(price)
  /\ P!PlaceNext <=> Placing!PlaceNext
  /\ P!GreedyEnds <=> Placing!GreedyEnds
<1>1. \A r : P!FreePoses(r) = Placing!FreePoses(r)
  BY SameParts, SamePoses DEF P!FreePoses, Placing!FreePoses
<1>2. \A r : P!Prices(r) = Placing!Prices(r)
  BY SameStates, <1>1 DEF P!Prices, Placing!Prices
<1>3. \A price : P!Cheapest(price) = Placing!Cheapest(price)
  BY SamePoses DEF P!Cheapest, Placing!Cheapest
<1>4. P!PlaceNext <=> Placing!PlaceNext
  BY SameParts, SameStates, <1>1, <1>2, <1>3 DEF P!PlaceNext, Placing!PlaceNext
<1>5. P!GreedyEnds <=> Placing!GreedyEnds
  BY SameStates DEF P!GreedyEnds, Placing!GreedyEnds
<1> QED
  BY <1>1, <1>2, <1>3, <1>4, <1>5

LEMMA SameMoves ==
  /\ \A r, pose : P!FreeBut(r, pose) <=> Placing!FreeBut(r, pose)
  /\ \A r : P!Translated(r) = Placing!Translated(r)
  /\ \A r : P!Rotated(r) = Placing!Rotated(r)
  /\ \A r : P!Respanned(r) = Placing!Respanned(r)
  /\ \A r : P!Twins(r) = Placing!Twins(r)
  /\ \A r : P!Swapped(r) = Placing!Swapped(r)
  /\ \A pose, d : P!Shift(pose, d) = Placing!Shift(pose, d)
  /\ \A pose, d : P!Shiftable(pose, d) <=> Placing!Shiftable(pose, d)
  /\ \A anchor : P!Block(anchor) = Placing!Block(anchor)
  /\ \A anchor, pose : P!Delta(anchor, pose) = Placing!Delta(anchor, pose)
  /\ \A seq, n : P!LiftedFrom(seq, n) = Placing!LiftedFrom(seq, n)
  /\ \A d, seq : P!TakenAfter(d, seq) = Placing!TakenAfter(d, seq)
  /\ \A block, d, seq : P!ShiftAll(block, d, seq) = Placing!ShiftAll(block, d, seq)
  /\ \A r : P!Relocated(r) = Placing!Relocated(r)
  /\ \A results : P!Try(results) <=> Placing!Try(results)
  /\ P!Found = Placing!Found
<1>1. \A r, pose : P!FreeBut(r, pose) <=> Placing!FreeBut(r, pose)
  BY SamePoses DEF P!FreeBut, Placing!FreeBut
<1>2. \A r : P!Translated(r) = Placing!Translated(r)
  BY SamePoses, SameStates, <1>1 DEF P!Translated, Placing!Translated
<1>3. \A r : P!Rotated(r) = Placing!Rotated(r)
  BY SamePoses, SameStates, <1>1 DEF P!Rotated, Placing!Rotated
<1>4. \A r : P!Respanned(r) = Placing!Respanned(r)
  BY SameParts, SamePoses, SameStates, <1>1 DEF P!Respanned, Placing!Respanned
<1>5. \A r : P!Twins(r) = Placing!Twins(r)
  BY SameStates DEF P!Twins, Placing!Twins
<1>6. \A r : P!Swapped(r) = Placing!Swapped(r)
  BY SameStates, <1>5 DEF P!Swapped, Placing!Swapped
<1>7. \A pose, d : P!Shift(pose, d) = Placing!Shift(pose, d)
  BY SamePoses DEF P!Shift, Placing!Shift
<1>8. \A pose, d : P!Shiftable(pose, d) <=> Placing!Shiftable(pose, d)
  BY SamePoses DEF P!Shiftable, Placing!Shiftable
<1>9. \A anchor : P!Block(anchor) = Placing!Block(anchor)
  BY SameStates DEF P!Block, Placing!Block
<1>10. \A anchor, pose : P!Delta(anchor, pose) = Placing!Delta(anchor, pose)
  BY DEF P!Delta, Placing!Delta
<1>11. \A seq, n : P!LiftedFrom(seq, n) = Placing!LiftedFrom(seq, n)
  BY SamePoses DEF P!LiftedFrom, Placing!LiftedFrom
<1>12. \A d, seq : P!TakenAfter(d, seq) = Placing!TakenAfter(d, seq)
  BY SamePoses, <1>7, <1>11 DEF P!TakenAfter, Placing!TakenAfter
<1>13. \A block, d, seq : P!ShiftAll(block, d, seq) = Placing!ShiftAll(block, d, seq)
  BY SameParts, SameStates, <1>7, <1>12 DEF P!ShiftAll, Placing!ShiftAll
<1>14. \A r : P!Relocated(r) = Placing!Relocated(r)
  <2> TAKE r
  <2> DEFINE x == clusters.anchorOf[r]
             A == {q \in P!Poses[FootprintId[x]] : q.anchor # state.poses[x].anchor /\ P!FreeBut(x, q)}
             B == {q \in Placing!Poses[FootprintId[x]] : q.anchor # state.poses[x].anchor /\ Placing!FreeBut(x, q)}
             a == {d \in {P!Delta(x, q) : q \in A} : \A m \in P!Block(x) : P!Shiftable(state.poses[m], d)}
             b == {d \in {Placing!Delta(x, q) : q \in B} : \A m \in Placing!Block(x) : Placing!Shiftable(state.poses[m], d)}
             f(y) == P!ShiftAll(P!Block(x), y[1], y[2])
             g(y) == Placing!ShiftAll(Placing!Block(x), y[1], y[2])
  <2>1. A = B
    BY SamePoses, <1>1
  <2>2. P!Block(x) = Placing!Block(x)
    BY <1>9
  <2>3. a = b
    <3> HIDE DEF A, B
    <3> QED
      BY <2>1, <2>2, <1>8, <1>10
  <2>4. \A y : f(y) = g(y)
    BY <2>2, <1>13
  <2>5. P!SetToSeqs(P!Block(x)) = Placing!SetToSeqs(Placing!Block(x))
    BY <2>2, SameLibrary
  <2>6. /\ P!Relocated(r) = IF x = r \/ state.poses[x] = P!NoPose THEN {} ELSE {f(y) : y \in a \X P!SetToSeqs(P!Block(x))}
        /\ Placing!Relocated(r) = IF x = r \/ state.poses[x] = Placing!NoPose THEN {}
                                 ELSE {g(y) : y \in b \X Placing!SetToSeqs(Placing!Block(x))}
    BY DEF P!Relocated, Placing!Relocated
  <2> HIDE DEF x, a, b, f, g
  <2> QED
    BY <2>3, <2>4, <2>5, <2>6, SameParts
<1>15. \A results : P!Try(results) <=> Placing!Try(results)
  BY SameStates, SameLibrary DEF P!Try, Placing!Try
<1>16. P!Found = Placing!Found
  BY SameParts, SameStates DEF P!Found, Placing!Found
<1> QED
  BY <1>1, <1>2, <1>3, <1>4, <1>5, <1>6, <1>7, <1>8, <1>9, <1>10, <1>11, <1>12, <1>13, <1>14, <1>15, <1>16

LEMMA SameSteps ==
  /\ P!Translate <=> Placing!Translate
  /\ P!RotatePart <=> Placing!RotatePart
  /\ P!Span <=> Placing!Span
  /\ P!Swap <=> Placing!Swap
  /\ P!RelocateCluster <=> Placing!RelocateCluster
  /\ P!SearchEnds <=> Placing!SearchEnds
  /\ \A total : P!Beats(total) <=> Placing!Beats(total)
  /\ P!FinishAttempt <=> Placing!FinishAttempt
  /\ P!Init <=> Placing!Init
  /\ P!Next <=> Placing!Next
<1>1. P!Translate <=> Placing!Translate
  BY SameMoves DEF P!Translate, Placing!Translate
<1>2. P!RotatePart <=> Placing!RotatePart
  BY SameMoves DEF P!RotatePart, Placing!RotatePart
<1>3. P!Span <=> Placing!Span
  BY SameMoves DEF P!Span, Placing!Span
<1>4. P!Swap <=> Placing!Swap
  BY SameMoves DEF P!Swap, Placing!Swap
<1>5. P!RelocateCluster <=> Placing!RelocateCluster
  BY SameMoves DEF P!RelocateCluster, Placing!RelocateCluster
<1>6. P!SearchEnds <=> Placing!SearchEnds
  BY SameLibrary DEF P!SearchEnds, Placing!SearchEnds
<1>7. \A total : P!Beats(total) <=> Placing!Beats(total)
  BY SameLibrary DEF P!Beats, Placing!Beats
<1>8. P!FinishAttempt <=> Placing!FinishAttempt
  BY SameStates, <1>7, SameLibrary DEF P!FinishAttempt, Placing!FinishAttempt
<1>9. P!Init <=> Placing!Init
  BY SameClusters, SameStates, SameLibrary DEF P!Init, Placing!Init
<1>10. P!Next <=> Placing!Next
  BY SameSeed, SameGreedy, <1>1, <1>2, <1>3, <1>4, <1>5, <1>6, <1>8 DEF P!Next, Placing!Next
<1> QED
  BY <1>1, <1>2, <1>3, <1>4, <1>5, <1>6, <1>7, <1>8, <1>9, <1>10

LEMMA SameProperties ==
  /\ \A p : P!PlacementType(p) <=> Placing!PlacementType(p)
  /\ P!TypeOK <=> Placing!TypeOK
  /\ P!VisitedOnce <=> Placing!VisitedOnce
  /\ P!EveryPartAccounted <=> Placing!EveryPartAccounted
  /\ \A s : P!Apart(s) <=> Placing!Apart(s)
  /\ \A s : P!Exact(s) <=> Placing!Exact(s)
  /\ P!LoneLockedStay <=> Placing!LoneLockedStay
<1>1. \A p : P!PlacementType(p) <=> Placing!PlacementType(p)
  BY SameParts DEF P!PlacementType, Placing!PlacementType
<1>2. P!TypeOK <=> Placing!TypeOK
  BY SameParts, SameStates, SameMoves, <1>1, SameLibrary DEF P!TypeOK, Placing!TypeOK
<1>3. P!VisitedOnce <=> Placing!VisitedOnce
  BY SameStates DEF P!VisitedOnce, Placing!VisitedOnce
<1>4. P!EveryPartAccounted <=> Placing!EveryPartAccounted
  BY SameParts, SameStates, <1>3 DEF P!EveryPartAccounted, Placing!EveryPartAccounted
<1>5. \A s : P!Apart(s) <=> Placing!Apart(s)
  BY SamePoses, SameStates DEF P!Apart, Placing!Apart
<1>6. \A s : P!Exact(s) <=> Placing!Exact(s)
  BY SamePoses, SameStates, <1>5 DEF P!Exact, Placing!Exact
<1>7. P!LoneLockedStay <=> Placing!LoneLockedStay
  BY SameParts DEF P!LoneLockedStay, Placing!LoneLockedStay
<1> QED
  BY <1>1, <1>2, <1>3, <1>4, <1>5, <1>6, <1>7

LEMMA LatticeFinite == IsFiniteSet(Lattice)
<1>1. 1 \in Int /\ Cols \in Int /\ Rows \in Int
  BY PerfPlacerAssumption
<1>2. IsFiniteSet(1..Cols) /\ IsFiniteSet(1..Rows)
  BY <1>1, FS_Interval, Zenon
<1> QED
  BY <1>2, FS_Product DEF Lattice

LEMMA PlacingFits ==
  /\ Placing!PosesAssumption /\ Placing!ClustersAssumption /\ Placing!PlacerAssumption
  /\ Placing!ValidatorAssumption /\ Placing!SolveAssumption
<1>1. Placing!PosesAssumption /\ Placing!ClustersAssumption /\ Placing!PlacerAssumption
  BY PerfPlacerAssumption, SameLibrary, SameParts DEF P!PosesAssumption, P!ClustersAssumption, P!PlacerAssumption,
     Placing!PosesAssumption, Placing!ClustersAssumption, Placing!PlacerAssumption
<1>2. Placing!ValidatorAssumption
  <2>1. \A h \in Lattice : Cardinality({g \in Lattice : h \in {g}}) = 1
    <3> TAKE h \in Lattice
    <3>1. {g \in Lattice : h \in {g}} = {h}
      OBVIOUS
    <3> QED
      BY <3>1, FS_Singleton
  <2>2. IsFiniteSet({}) /\ Placing!IsFiniteSet({}) 
    BY FS_EmptySet, SameLibrary DEF IsFiniteSet, Placing!IsFiniteSet
  <2>3. \A S : Cardinality(S) = Placing!Cardinality(S)
    BY DEF Cardinality, Placing!Cardinality, IsFiniteSet, Placing!IsFiniteSet
  <2> DEFINE G == [h \in Lattice |-> {h}]  R == [r \in Refs |-> {}]
  <2>4. /\ \A g \in DOMAIN G : G[g] \subseteq Lattice \cup {}
        /\ \A h \in Lattice \cup {} : Placing!Cardinality({g \in DOMAIN G : h \in G[g]}) = 1
    <3>1. DOMAIN G = Lattice /\ \A h : {g \in DOMAIN G : h \in G[g]} = {g \in Lattice : h \in {g}}
      OBVIOUS
    <3>2. \A g \in DOMAIN G : G[g] = {g}
      OBVIOUS
    <3> HIDE DEF G
    <3> QED
      BY <2>1, <2>3, <3>1, <3>2
  <2>5. \A r \in Placing!Refs : R[r] = {}
    BY DEF Placing!Refs, Refs
  <2>6. DOMAIN <<>> = {}
    OBVIOUS
  <2> HIDE DEF G, R
  <2> QED
    BY <2>2, <2>4, <2>5, <2>6 DEF Placing!ValidatorAssumption, Placing!AllHoles, G, R
<1>3. Placing!SolveAssumption
  BY DEF Placing!SolveAssumption
<1> QED
  BY <1>1, <1>2, <1>3

-----------------------------------------------------------------------------
(* The greedy placer *)

\* What is shown of place() holds of its copy: parts are accounted for, lone locked ones
\* stay, and all that it keeps has its type.
GreedyInv == Placing!PlaceInv /\ Placing!AccountInv
GreedyTyped == GreedyInv /\ Placing!PlaceTyped

LEMMA GreedySteps ==
  ASSUME [SolveNext]_allVars
  PROVE  [Placing!Next]_(Placing!vars)
<1>1. [PlacerNext]_placerVars
  BY DEF SolveNext, BeginGreedy, BeginEmpty, BeginSearch, BeginRoute, Find, FindNothing, Retry, Collected, TakeUp,
     Evaluate, PassOver, EvaluationsOver, GreedyPlaces, GreedyAnswers, GreedyFails, Compare, EvaluateGreedy, Choose,
     RoutePlaced, Verify, Cancel, RouteCancelled, Ask, allVars
<1> QED
  BY <1>1, SameSteps DEF PlacerNext, placerVars, Placing!vars, P!Next, Seed, GreedyStep, GreedyEnds, Translate,
     RotatePart, Span, Swap, RelocateCluster, SearchEnds, FinishAttempt

LEMMA GreedyInit ==
  ASSUME SolveInit
  PROVE  GreedyInv /\ (DocumentsOnBoard => GreedyTyped)
<1>1. Placing!Init /\ job \in Jobs /\ given = job.given
  BY SameSteps DEF SolveInit, PlacerInit
<1>2. GreedyInv
  BY <1>1, PlacingFits, Placing!PlaceInitKeeps, Placing!InitAccounts DEF GreedyInv
<1>3. DocumentsOnBoard => Placing!PlaceTyped
  <2>1. DocumentsOnBoard => \A r \in DOMAIN given : Placing!PlacementType(given[r])
    BY <1>1, SameProperties DEF DocumentsOnBoard
  <2> QED
    BY <1>1, <2>1, PlacingFits, Placing!PlaceInitTyped
<1> QED
  BY <1>2, <1>3 DEF GreedyTyped

LEMMA GreedyNext ==
  ASSUME GreedyInv, [SolveNext]_allVars
  PROVE  GreedyInv' /\ (GreedyTyped => GreedyTyped')
<1>1. [Placing!Next]_(Placing!vars)
  BY GreedySteps
<1>2. Placing!PlaceInv' /\ Placing!AccountInv'
  BY <1>1, PlacingFits, Placing!PlaceStepKeeps, Placing!StepAccounts DEF GreedyInv
<1>3. Placing!PlaceTyped => Placing!PlaceTyped'
  BY <1>1, PlacingFits, Placing!PlaceStepTyped DEF GreedyInv, Placing!AccountInv
<1> QED
  BY <1>2, <1>3 DEF GreedyInv, GreedyTyped

\* What the result of the greedy placer is.
OnBoard(placed) == \A r \in Refs : placed[r] # NoPose => P!PlacementType(placed[r])

LEMMA GreedyTypes ==
  ASSUME GreedyTyped
  PROVE  /\ P!TypeOK
         /\ pc = "done" => OnBoard(best.state.placed) /\ best.unplaced \subseteq Refs
<1>1. P!TypeOK
  BY PlacingFits, SameProperties, Placing!PlaceTypes DEF GreedyTyped, GreedyInv, Placing!AccountInv
<1>2. Refs = Placing!Refs /\ NoPose = Placing!NoPose
  BY DEF Refs, Placing!Refs, NoPose, P!NoPose, Placing!NoPose
<1>3. pc = "done" => Placing!BestType
  BY DEF GreedyTyped, GreedyInv, Placing!AccountInv, Placing!BestInv, Placing!PlaceTyped
<1>4. Placing!BestType => OnBoard(best.state.placed) /\ best.unplaced \subseteq Refs
  BY <1>2, SameProperties DEF OnBoard, Placing!BestType, Placing!StateType
<1> QED
  BY <1>1, <1>3, <1>4

\* Every part of the netlist is on the perfboard or reported, and not both, in whatever
\* order the greedy pass comes to it and whatever the search tries (place_greedy).
THEOREM PerfAccounted == SolveSpec => []P!EveryPartAccounted
<1>1. SolveInit => GreedyInv
  BY GreedyInit
<1>2. GreedyInv /\ [SolveNext]_allVars => GreedyInv'
  BY GreedyNext
<1>3. GreedyInv => P!EveryPartAccounted
  BY PlacingFits, SameProperties, Placing!AccountVisits DEF GreedyInv
<1> QED
  BY <1>1, <1>2, <1>3, PTL DEF SolveSpec

\* Once the parts of a perfboard lie apart under an exact mask, only the move of a cluster
\* can change that (_clear_pose_from_state, _apply_pose_to_state).
THEOREM PerfOnlyClusterMoves == SolveSpec => P!OnlyClusterMovesBreak
<1>1. SolveInit => GreedyInv
  BY GreedyInit
<1>2. GreedyInv /\ [SolveNext]_allVars => GreedyInv'
  BY GreedyNext
<1>3. GreedyInv /\ [SolveNext]_allVars =>
        [pc # "seed" /\ P!Exact(state) /\ ~P!RelocateCluster => P!Exact(state')]_(P!vars)
  <2> SUFFICES ASSUME GreedyInv, [SolveNext]_allVars, pc # "seed", P!Exact(state), ~P!RelocateCluster
               PROVE  P!Exact(state')
    OBVIOUS
  <2>1. Placing!EveryPartAccounted
    BY PlacingFits, Placing!AccountVisits DEF GreedyInv
  <2>2. Placing!Exact(state) /\ ~Placing!RelocateCluster
    BY SameProperties, SameSteps
  <2>3. Placing!Exact(state')
    BY <2>1, <2>2, GreedySteps, PlacingFits, Placing!ExactStep DEF GreedyInv, Placing!EveryPartAccounted
  <2> QED
    BY <2>3, SameProperties
<1> QED
  BY <1>1, <1>2, <1>3, PTL DEF SolveSpec, P!OnlyClusterMovesBreak

\* A locked part of a perfboard without a twin that is alone in its cluster stays where the
\* document has it, whatever the search tries.
THEOREM PerfLoneLocked == SolveSpec => []P!LoneLockedStay
<1>1. SolveInit => GreedyInv
  BY GreedyInit
<1>2. GreedyInv /\ [SolveNext]_allVars => GreedyInv'
  BY GreedyNext
<1>3. GreedyInv => P!LoneLockedStay
  BY SameProperties DEF GreedyInv, Placing!PlaceInv, Placing!LoneInv, Placing!LoneLockedStay, Placing!Lone
<1> QED
  BY <1>1, <1>2, <1>3, PTL DEF SolveSpec

-----------------------------------------------------------------------------
(* The types of the jobs *)

\* What CP-SAT finds, and what the document has locked, lies on the board.
LEMMA FoundOnBoard ==
  ASSUME DocumentsOnBoard, job \in Jobs
  PROVE  /\ OnBoard(P!OnRefs(LockedPlacements)) /\ OnBoard(P!OnRefs(job.given))
         /\ \A n : \A a \in Assignments(Candidates(n)) : OnBoard(PlacedBy(a))
<1>1. P!Refs = Refs /\ P!NoPose = NoPose
  BY DEF P!Refs, Refs, NoPose
<1>2. \A r \in DOMAIN job.given : P!PlacementType(job.given[r])
  BY DEF DocumentsOnBoard
<1>3. ASSUME NEW f, \A r \in DOMAIN f : P!PlacementType(f[r]), NEW r \in Refs, P!OnRefs(f)[r] # NoPose
      PROVE  P!PlacementType(P!OnRefs(f)[r])
  <2>1. P!OnRefs(f)[r] = IF r \in DOMAIN f THEN f[r] ELSE NoPose
    BY <1>1 DEF P!OnRefs
  <2> QED
    BY <1>3, <2>1
<1>4. \A r \in DOMAIN LockedPlacements : P!PlacementType(LockedPlacements[r])
  BY <1>2 DEF LockedPlacements, LockedRefs
<1>5. OnBoard(P!OnRefs(LockedPlacements)) /\ OnBoard(P!OnRefs(job.given))
  BY <1>2, <1>3, <1>4 DEF OnBoard
<1>6. ASSUME NEW n, NEW a \in Assignments(Candidates(n)), NEW r \in Refs, PlacedBy(a)[r] # NoPose
      PROVE  P!PlacementType(PlacedBy(a)[r])
  <2>1. CASE r \notin DOMAIN a
    <3>1. PlacedBy(a)[r] = P!OnRefs(LockedPlacements)[r]
      BY <2>1 DEF PlacedBy
    <3> QED
      BY <1>5, <1>6, <3>1 DEF OnBoard
  <2>2. CASE r \in DOMAIN a
    <3>1. r \in Movable /\ a[r] \in CandidatesOf(r, n)
      <4> DEFINE candidates == Candidates(n)
      <4>1. DOMAIN candidates = Movable /\ \A q \in Movable : candidates[q] = CandidatesOf(q, n)
        BY DEF Candidates
      <4> HIDE DEF candidates
      <4>2. DOMAIN a \subseteq DOMAIN candidates /\ \A q \in DOMAIN a : a[q] \in candidates[q]
        BY <1>6 DEF Assignments, candidates
      <4> QED
        BY <2>2, <4>1, <4>2
    <3>2. a[r] \in Enumerated(r)
      BY <3>1, CandidatesEnumerated
    <3>3. Known(r) /\ a[r] \in Poses[FootprintId[r]]
      BY <3>2 DEF Enumerated
    <3>4. Placing!Known(r) /\ a[r] \in Placing!Poses[FootprintId[r]]
      BY <3>3, SameParts, SamePoses DEF Known, Poses
    <3>5. Placing!PlacementType(Placing!PlacementOf(a[r], FALSE))
      BY <3>4, PlacingFits, Placing!PosesTyped, Placing!PlacementTyped
    <3>6. PlacedBy(a)[r] = P!PlacementOf(a[r], FALSE)
      BY <2>2 DEF PlacedBy
    <3> QED
      BY <3>5, <3>6, SameStates, SameProperties
  <2> QED
    BY <2>1, <2>2
<1> QED
  BY <1>5, <1>6 DEF OnBoard

\* The ways of copper go through the maze.
LEMMA RouteTyped ==
  ASSUME NEW placed
  PROVE  /\ T!Route(placed).unrouted \subseteq AllNets
         /\ \A t \in T!Route(placed).traces : \A i \in DOMAIN t.way : t.way[i] \in T!Maze
<1>1. Routed(T!Route(placed).traces, placed) /\ T!Route(placed).unrouted \subseteq AllNets
  BY RouteJoins
<1>2. ASSUME NEW t \in T!Route(placed).traces, NEW i \in DOMAIN t.way
      PROVE  t.way[i] \in T!Maze
  <2> DEFINE ways == WaysFor(t.net, T!Route(placed).traces)
  <2>1. t.way \in ways
    BY DEF WaysFor
  <2>2. Joins(ways, T!Terminals(t.net, placed))
    BY <1>1, <2>1 DEF Routed
  <2> HIDE DEF ways
  <2>3. \E from : Leads(t.way, from)
    BY <2>1, <2>2 DEF Joins
  <2>4. t.way \in Seq(T!Maze)
    BY <2>3 DEF Leads
  <2> QED
    BY <2>4
<1> QED
  BY <1>1, <1>2

\* All that a job keeps, the outcomes of evaluation too, has its type.
JobTyped ==
  /\ SearchInv /\ GreedyTyped /\ (phase = "greedyCandidate" => pc = "done")
  /\ phase \in {"start", "search", "evaluate", "candidate", "greedyCandidate", "rank", "placed", "route", "verify"}
               \cup Greedy \cup Ends
  /\ limit \in {0, Budget.limit, Again(Budget.limit)} /\ tries \in 0..Budget.count
  /\ \A o \in outcomes : OnBoard(o.placed)
  /\ OnBoard(found.placed) /\ found.unplaced \subseteq Refs
  /\ route.unrouted \subseteq AllNets
  /\ \A t \in route.traces : \A i \in DOMAIN t.way : t.way[i] \in T!Maze
  /\ (phase = "answered") = (answer # NoAnswer)

LEMMA JobInit ==
  ASSUME SolveInit, DocumentsOnBoard
  PROVE  JobTyped
<1>1. SearchInv
  BY SearchInit
<1>2. GreedyTyped
  BY GreedyInit
<1>3. OnBoard(Nowhere)
  BY DEF OnBoard, Nowhere
<1>4. tries \in 0..Budget.count
  BY BudgetNumbers DEF SolveInit
<1> QED
  BY <1>1, <1>2, <1>3, <1>4 DEF SolveInit, JobTyped

LEMMA BeginTyped ==
  ASSUME JobTyped, DocumentsOnBoard,
         BeginGreedy \/ BeginEmpty \/ BeginSearch \/ BeginRoute \/ Find \/ FindNothing \/ Retry \/ Collected
  PROVE  JobTyped'
<1>1. Budget.count \in Nat /\ job \in Jobs
  BY BudgetNumbers DEF JobTyped, SearchInv
<1>2. SearchInv' /\ GreedyTyped'
  BY SearchKept, GreedyNext DEF JobTyped, GreedyTyped, SolveNext
<1>3. UNCHANGED <<job, route, answer, outcomes>> /\ phase # "answered" /\ phase' # "answered"
  BY DEF BeginGreedy, BeginEmpty, BeginSearch, BeginRoute, Find, FindNothing, Retry, Collected
<1>4. Budget' = Budget
  BY <1>3 DEF Budget
<1>5. /\ limit' \in {0, Budget.limit, Again(Budget.limit)} /\ tries' \in 0..Budget.count
      /\ phase' \in {"plain", "placed", "search", "route", "evaluate"}
  BY <1>1 DEF JobTyped, BeginGreedy, BeginEmpty, BeginSearch, BeginRoute, Find, FindNothing, Retry, Collected
<1>6. OnBoard(found'.placed) /\ found'.unplaced \subseteq Refs
  <2>1. CASE BeginEmpty \/ BeginRoute
    <3>1. \/ found' = [placed |-> P!OnRefs(LockedPlacements), unplaced |-> Movable]
          \/ found' = [placed |-> P!OnRefs(job.given), unplaced |-> {}]
      BY <2>1 DEF BeginEmpty, BeginRoute
    <3> QED
      BY <1>1, <3>1, FoundOnBoard DEF Movable
  <2>2. CASE found' = found
    BY <2>2 DEF JobTyped
  <2> QED
    BY <2>1, <2>2 DEF BeginGreedy, BeginSearch, Find, FindNothing, Retry, Collected
<1> QED
  BY <1>2, <1>3, <1>4, <1>5, <1>6 DEF JobTyped, Greedy

LEMMA EvaluateTyped ==
  ASSUME JobTyped, DocumentsOnBoard,
         TakeUp \/ Evaluate \/ PassOver \/ EvaluationsOver \/ EvaluateGreedy
  PROVE  JobTyped'
<1>1. SearchInv' /\ GreedyTyped'
  BY SearchKept, GreedyNext DEF JobTyped, GreedyTyped, SolveNext
<1>2. /\ UNCHANGED <<job, route, answer, found, limit, tries>> /\ phase # "answered"
      /\ phase' \in {"candidate", "evaluate", "fallback", "baseline", "rank"}
  BY DEF TakeUp, Evaluate, PassOver, EvaluationsOver, EvaluateGreedy
<1>3. Budget' = Budget
  BY <1>2 DEF Budget
<1>4. ASSUME NEW o \in outcomes' PROVE OnBoard(o.placed)
  <2>1. CASE o \in outcomes
    BY <2>1 DEF JobTyped
  <2>2. CASE Evaluate /\ o \notin outcomes
    <3>1. o \in Outcome(PlacedBy(Head(collected))) /\ phase = "candidate"
      BY <1>4, <2>2 DEF Evaluate
    <3>2. o.placed = PlacedBy(Head(collected))
      BY <3>1, OutcomeVerdict
    <3> DEFINE A == Assignments(Candidates(limit))
    <3>3. collected \in Seq(A) /\ collected # <<>> /\ job \in Jobs
      BY <3>1 DEF JobTyped, SearchInv
    <3>4. Head(collected) \in A
      <4> HIDE DEF A
      <4> QED
        BY <3>3
    <3> QED
      BY <3>2, <3>3, <3>4, FoundOnBoard
  <2>3. CASE EvaluateGreedy /\ o \notin outcomes
    <3>1. o \in Outcome(best.state.placed) /\ phase = "greedyCandidate"
      BY <1>4, <2>3 DEF EvaluateGreedy
    <3>2. o.placed = best.state.placed
      BY <3>1, OutcomeVerdict
    <3> QED
      BY <3>1, <3>2, GreedyTypes DEF JobTyped
  <2> QED
    BY <1>4, <2>1, <2>2, <2>3 DEF TakeUp, PassOver, EvaluationsOver
<1> QED
  BY <1>1, <1>2, <1>3, <1>4 DEF JobTyped, Greedy

LEMMA PlaceEndsTyped ==
  ASSUME JobTyped, DocumentsOnBoard,
         GreedyPlaces \/ GreedyAnswers \/ GreedyFails \/ Compare \/ Choose
  PROVE  JobTyped'
<1>1. SearchInv' /\ GreedyTyped'
  BY SearchKept, GreedyNext DEF JobTyped, GreedyTyped, SolveNext
<1>2. /\ UNCHANGED <<job, route, answer, limit, tries, outcomes>>
      /\ phase \in Greedy \cup {"rank"}
      /\ phase' \in Greedy \cup {"placed", "rank", "greedyCandidate"}
      /\ phase' = "greedyCandidate" => pc' = "done"
  BY DEF GreedyPlaces, GreedyAnswers, GreedyFails, Compare, Choose, jobVars, Greedy, placerVars
<1>3. Budget' = Budget
  BY <1>2 DEF Budget
<1>4. OnBoard(found'.placed) /\ found'.unplaced \subseteq Refs
  <2>1. CASE GreedyAnswers \/ GreedyFails
    <3>1. pc = "done" /\ job \in Jobs
      BY <2>1 DEF GreedyAnswers, GreedyFails, JobTyped, SearchInv
    <3>2. OnBoard(best.state.placed) /\ best.unplaced \subseteq Refs
      BY <3>1, GreedyTypes DEF JobTyped
    <3>3. \/ found' = [placed |-> best.state.placed, unplaced |-> best.unplaced]
          \/ found' = [placed |-> P!OnRefs(LockedPlacements), unplaced |-> best.unplaced]
      BY <2>1 DEF GreedyAnswers, GreedyFails
    <3> QED
      BY <3>1, <3>2, <3>3, FoundOnBoard
  <2>2. CASE Choose
    <3>1. PICK o \in Best(outcomes) : found' = [placed |-> o.placed, unplaced |-> {}]
      BY <2>2 DEF Choose
    <3>2. OnBoard(o.placed)
      BY <3>1 DEF Best, JobTyped
    <3> QED
      BY <3>1, <3>2
  <2>3. CASE found' = found
    BY <2>3 DEF JobTyped
  <2> QED
    BY <2>1, <2>2, <2>3 DEF GreedyPlaces, Compare, jobVars
<1> QED
  BY <1>1, <1>2, <1>3, <1>4 DEF JobTyped, Greedy

LEMMA EndTyped ==
  ASSUME JobTyped, DocumentsOnBoard,
         RoutePlaced \/ Verify \/ Cancel \/ RouteCancelled \/ Ask \/ UNCHANGED allVars
  PROVE  JobTyped'
<1>1. SearchInv' /\ GreedyTyped'
  BY SearchKept, GreedyNext DEF JobTyped, GreedyTyped, SolveNext
<1>2. UNCHANGED <<job, limit, tries, outcomes, found, pc>>
  BY DEF RoutePlaced, Verify, Cancel, RouteCancelled, Ask, allVars, jobVars, placerVars
<1>3. Budget' = Budget
  BY <1>2 DEF Budget
<1>4. CASE RoutePlaced
  <2>1. /\ route' = [traces |-> T!Route(found.placed).traces, unrouted |-> T!Route(found.placed).unrouted]
        /\ phase' = "verify" /\ phase # "answered" /\ answer' = answer
    BY <1>4 DEF RoutePlaced
  <2>2. route'.traces = T!Route(found.placed).traces /\ route'.unrouted = T!Route(found.placed).unrouted
    BY <2>1
  <2>3. route'.unrouted \subseteq AllNets
        /\ \A t \in route'.traces : \A i \in DOMAIN t.way : t.way[i] \in T!Maze
    BY <2>2, RouteTyped
  <2>4. AllNets' = AllNets /\ T!Maze' = T!Maze
    BY DEF AllNets, T!Maze
  <2> QED
    BY <1>1, <1>2, <1>3, <2>1, <2>3, <2>4 DEF JobTyped
<1>5. CASE Verify
  <2>1. PICK faults : answer' = [faults |-> faults, score |-> Score(found.placed, route.traces, faults)]
    BY <1>5 DEF Verify
  <2>2. answer' # NoAnswer
    <3>1. DOMAIN answer' = {"faults", "score"} /\ DOMAIN <<>> = {}
      BY <2>1
    <3> QED
      BY <3>1 DEF NoAnswer
  <2>3. phase' = "answered" /\ route' = route
    BY <1>5 DEF Verify
  <2> QED
    BY <1>1, <1>2, <1>3, <2>2, <2>3 DEF JobTyped, Ends
<1>6. CASE Cancel \/ RouteCancelled
  <2>1. phase' \in {"cancelled", "failed"} /\ route' = route /\ answer' = answer /\ phase # "answered"
    BY <1>6 DEF Cancel, RouteCancelled
  <2> QED
    BY <1>1, <1>2, <1>3, <2>1 DEF JobTyped, Ends
<1>7. CASE Ask \/ UNCHANGED allVars
  <2>1. phase' = phase /\ route' = route /\ answer' = answer
    BY <1>7 DEF Ask, allVars, jobVars
  <2> QED
    BY <1>1, <1>2, <1>3, <2>1 DEF JobTyped
<1> QED
  BY <1>4, <1>5, <1>6, <1>7

\* All that a job on a perfboard keeps has its type, whatever CP-SAT finds and whenever the
\* job is told to stop; the copper goes through the maze, and what is reported as not
\* routed are nets (solve(), place_only(), route_only() of domain/traces/solve.py).
THEOREM TypeCorrect ==
  ASSUME DocumentsOnBoard
  PROVE  SolveSpec => []PerfTypeOK
<1>1. SolveInit => JobTyped
  BY JobInit
<1>2. JobTyped /\ [SolveNext]_allVars => JobTyped'
  BY BeginTyped, EvaluateTyped, PlaceEndsTyped, EndTyped DEF SolveNext
<1>3. JobTyped => PerfTypeOK
  <2> SUFFICES ASSUME JobTyped PROVE PerfTypeOK
    OBVIOUS
  <2>1. P!TypeOK
    BY GreedyTypes DEF JobTyped
  <2>2. \A r \in PlacedRefs(found.placed) : P!PlacementType(found.placed[r])
    BY DEF JobTyped, OnBoard, PlacedRefs
  <2> QED
    BY <2>1, <2>2 DEF PerfTypeOK, JobTyped, SearchInv
<1> QED
  BY <1>1, <1>2, <1>3, PTL DEF SolveSpec
=============================================================================
