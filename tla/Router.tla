-------------------------------- MODULE Router --------------------------------
(* The auto-router of breadboards (domain/route.py, domain/steiner.py) as the jobs
   "route" and "solve" call it, again and again on one document: nets in order, each
   as a tree over its pins and one hole of a rail, then rounds that rip up the
   wires around a net that was left open and route again what they took.

   Path shapes, crossings, colours and costs are left out: they decide nothing about
   which holes are joined.  Lengths are kept where the code sorts by them. *)
EXTENDS Integers, Sequences, SequencesExt, Connectivity

CONSTANTS
  Rails,       \* the groups that are rail segments
  X, Y,        \* where a hole is, in pitches
  Column,      \* the number in its id
  Net,         \* Net[n]: class, priority, prefersRail, and the pins of net n
  Pins,
  Internal,    \* pairs of pins that are joined inside their part
  Placements,  \* the placements the placer may come to: pins to holes
  Documents,   \* the layouts a document may start with
  Drawn,       \* pairs of holes the user may join by hand
  Unplaced, NoNet, NoResult,
  Ripups,      \* the values of options.max_ripup_iterations
  MaxCalls,    \* bound: jobs that are run
  MaxEdits     \* bound: what the user does in between

Nets == DOMAIN Net

\* A jumper's id is "j-" with its net and its number.
Jumper == [net : Nets, no : Nat, from : Holes, to : Holes, locked : BOOLEAN]
Placement == [Pins -> Holes \cup {Unplaced}]
\* Nothing depends on the order in which a document lists its jumpers.
Layout == [pins : Placement, jumpers : SUBSET Jumper, links : SUBSET SUBSET Holes]

ASSUME RouterAssumption ==
  /\ Holes \subseteq Nat /\ Rails \subseteq DOMAIN Groups /\ DOMAIN Groups \subseteq Nat
  /\ Nets \subseteq Nat /\ IsFiniteSet(Nets) /\ NoNet \notin Nets
  /\ \A n \in Nets : Net[n].pins \subseteq Pins
  /\ Internal \subseteq SUBSET Pins
  /\ Drawn \subseteq {{g, h} : g, h \in Holes}
  /\ Drawn # {} => Nets # {}      \* createJumperBetween needs a net
  /\ Placements \subseteq Placement /\ Documents \subseteq Layout
  /\ \A pins \in Placements \cup {d.pins : d \in Documents} :
       \A p, q \in Pins : pins[p] = pins[q] => p = q \/ pins[p] = Unplaced
  /\ Ripups \subseteq Nat /\ MaxCalls \in Nat /\ MaxEdits \in Nat

VARIABLES
  document,    \* the layout the user has
  pc,          \* where the running call of route() is
  op, base,    \* the job's operation and the layout route() was given
  options,     \* allow_critical_net_classes and max_ripup_iterations
  todo,        \* nets that the loop has still to take, in their order
  new,         \* new_jumpers
  known,       \* the pairs that the connectivity in use was built from
  rails,       \* rail_assignment
  unrouted, skipped, ripups,
  result,      \* the layout and the unrouted nets that the job returns
  calls, edits

callVars == <<op, options, todo, new, known, rails, unrouted, skipped, ripups>>
vars == <<document, pc, op, base, options, todo, new, known, rails, unrouted, skipped,
          ripups, result, calls, edits>>

TypeOK ==
  /\ document \in Layout /\ base \in Layout
  /\ pc \in {"idle", "first", "retry", "reroute", "done"}
  /\ op \in {"route", "solve"}
  /\ options \in [allow : BOOLEAN, rounds : Ripups \cup {0}]
  /\ todo \subseteq Nets /\ new \in Seq(Jumper) /\ unrouted \subseteq Nets
  /\ known \subseteq SUBSET Holes
  /\ rails \in [Rails -> Nets \cup {NoNet}]
  /\ skipped \subseteq Nets /\ ripups \in 0..options.rounds
  /\ result \in [layout : Layout, unrouted : SUBSET Nets] \cup {NoResult}
  /\ calls \in 0..MaxCalls /\ edits \in 0..MaxEdits

-----------------------------------------------------------------------------
(* Layouts *)

Wires(jumpers) == {{j.from, j.to} : j \in jumpers}
Ends(jumpers) == UNION Wires(jumpers)

PinHoles(n, pins) == {pins[p] : p \in Net[n].pins} \ {Unplaced}

\* What joins holes besides jumpers: the insides of parts and the manual links.
Joined(layout) ==
  layout.links \cup {{layout.pins[p] : p \in pair} : pair \in
                       {q \in Internal : \A p \in q : layout.pins[p] # Unplaced}}

Preserved(layout) == {j \in layout.jumpers : j.locked}

Manhattan(a, b) ==
  LET Abs(d) == IF d < 0 THEN -d ELSE d
  IN Abs(X[a] - X[b]) + Abs(Y[a] - Y[b])

\* _open_nets: the nets whose placed pins are not one node.
OpenNets(layout, jumpers) ==
  LET nodes == Nodes(Joined(layout) \cup Wires(jumpers))
  IN {n \in Nets : ~Together(PinHoles(n, layout.pins), nodes)}

-----------------------------------------------------------------------------
(* The order of nets *)

IsCritical(n) == Net[n].class \in {"switching", "clock", "analog-sensitive", "high-current"}
IsPower(n) == Net[n].class \in {"power", "ground"}

\* The tuple of _bucket, read as a binary number.  The span of a net is that of the
\* whole board as soon as it has two pins.
Bucket(n) ==
  LET Bit(b) == IF b THEN 1 ELSE 0
      several == Cardinality(Net[n].pins)
  IN 16 * Bit(IsCritical(n)) + 8 * Bit(IsPower(n)) + 4 * Bit(several > 2)
       + 2 * Bit(several > 1) + Bit(Net[n].class = "digital")

Before(m, n) ==
  \/ Bucket(m) < Bucket(n)
  \/ Bucket(m) = Bucket(n) /\ Net[m].priority > Net[n].priority
  \/ Bucket(m) = Bucket(n) /\ Net[m].priority = Net[n].priority /\ m < n

IsFirst(n, ns) == n \in ns /\ \A m \in ns \ {n} : Before(n, m)

-----------------------------------------------------------------------------
(* One net: its endpoints and its tree *)

\* Holes that a new wire on a rail must not take.
Used == {base.pins[p] : p \in Pins} \cup Ends(Preserved(base) \cup ToSet(new))

Near(s, hs) ==
  \E g \in DOMAIN Groups : \E h \in Groups[g], r \in Groups[s] :
    Groups[g] \cap hs # {} /\ X[h] - X[r] \in -1..1

\* Mutation of UsableRails: a segment may be taken by two nets.
UsableRailsShared(n, hs) == {s \in Rails : Near(s, hs)}

UsableRails(n, hs) == {s \in Rails : Near(s, hs) /\ rails[s] \in {NoNet, n}}

\* Unassigned segments first, then those of the same net, then the larger, then the
\* first one.
BetterRail(s, t) ==
  LET rank(r) == <<IF rails[r] = NoNet THEN 1 ELSE 0, Cardinality(Groups[r])>>
  IN \/ rank(s)[1] > rank(t)[1]
     \/ rank(s)[1] = rank(t)[1] /\ rank(s)[2] > rank(t)[2]
     \/ rank(s) = rank(t) /\ s < t

FreeHoles(s) == Groups[s] \ Used

\* The segment and hole of a rail that n also gets, if any.
RailHole(n, hs) ==
  LET usable == UsableRails(n, hs)
      best == {s \in usable : \A t \in usable \ {s} : BetterRail(s, t)}
  IN IF IsPower(n) \/ Net[n].prefersRail
     THEN {<<s, Min(FreeHoles(s))>> : s \in {t \in best : FreeHoles(t) # {}}}
     ELSE {}

\* _grow_tree: the nearest hole comes next, of equally near ones the first; which of
\* equally near holes of the tree it is joined to is left open, because they are kept
\* in a Python set of strings.
Nearest(in, hs) ==
  LET edges == {e \in in \X (hs \ in) : \A f \in in \X (hs \ in) :
                  Manhattan(e[1], e[2]) <= Manhattan(f[1], f[2])}
  IN {e \in edges : \A f \in edges : e[2] <= f[2]}

\* The holes of a tree before its k-th edge.
Reached(root, tree, k) == {root} \cup {tree[i][2] : i \in 1..(k - 1)}

\* greedy_steiner: the trees that may come out.  Every root gives a tree of the same
\* length; for more than three holes rounding may prefer any of them, and more than
\* six are only grown from the first.
Trees(hs) ==
  LET edges == 1..(Cardinality(hs) - 1)
      roots == IF Cardinality(hs) \in 4..6 THEN hs ELSE {Min(hs)}
  IN {tree \in [edges -> hs \X hs] : \E root \in roots :
        \A k \in edges : tree[k] \in Nearest(Reached(root, tree, k), hs)}

\* Mutation of AlreadyConnected: two pins that are joined speak for all.
AlreadyConnectedSome(hs) ==
  LET nodes == Nodes(known)
  IN \E g, h \in hs : g # h /\ Together({g, h}, nodes)

AlreadyConnected(hs) == Together(hs, Nodes(known))

\* The wires and the rail of a net: what _route_single_net adds.
Lay(n, rail, tree) ==
  /\ new' = new \o [i \in DOMAIN tree |->
               [net |-> n, no |-> i - 1, from |-> tree[i][1], to |-> tree[i][2],
                locked |-> FALSE]]
  /\ rails' = [s \in Rails |-> IF \E r \in rail : r[1] = s THEN n ELSE rails[s]]

\* A net is routed: _resolve_net_endpoints and _route_single_net.  (A bound variable of
\* one value has TLC evaluate it once.)
RouteNet(n) ==
  LET hs == PinHoles(n, base.pins)
  IN \E rail \in {RailHole(n, hs)} :
       \E tree \in Trees(hs \cup {r[2] : r \in rail}) : Lay(n, rail, tree)

Refused(n) == IsCritical(n) /\ ~options.allow
TooFewPins(n) == Cardinality(PinHoles(n, base.pins)) < 2

-----------------------------------------------------------------------------
(* A call of route() *)

NoRails == [s \in Rails |-> NoNet]

Defaults == [allow |-> FALSE, rounds |-> 0]

\* No call is running.
Idle ==
  /\ pc' = "idle" /\ op' = "route" /\ options' = Defaults
  /\ todo' = {} /\ new' = <<>> /\ known' = {} /\ rails' = NoRails
  /\ unrouted' = {} /\ skipped' = {} /\ ripups' = 0

Init ==
  /\ document \in Documents /\ base = document
  /\ pc = "idle" /\ op = "route" /\ options = Defaults
  /\ todo = {} /\ new = <<>> /\ known = {} /\ rails = NoRails
  /\ unrouted = {} /\ skipped = {} /\ ripups = 0
  /\ result = NoResult /\ calls = 0 /\ edits = 0

\* base_connectivity has every jumper of the layout, though only the locked ones
\* will be in the result.
KnownAtStart(layout) == Joined(layout) \cup Wires(layout.jumpers)

Begin(o, layout, opts) ==
  /\ pc = "idle" /\ calls < MaxCalls
  /\ calls' = calls + 1
  /\ pc' = "first" /\ op' = o /\ base' = layout /\ options' = opts
  /\ todo' = Nets
  /\ known' = KnownAtStart(layout)
  /\ UNCHANGED <<document, new, rails, unrouted, skipped, ripups, result, edits>>

\* The first pass takes the next net.
FirstPass ==
  /\ pc = "first"
  /\ \E n \in todo :
       /\ IsFirst(n, todo) /\ todo' = todo \ {n}
       /\ \/ /\ Refused(n)
             /\ skipped' = skipped \cup {n} /\ unrouted' = unrouted \cup {n}
             /\ UNCHANGED <<new, rails>>
          \/ /\ ~Refused(n) /\ TooFewPins(n)
             /\ unrouted' = unrouted \cup {n}
             /\ UNCHANGED <<new, rails, skipped>>
          \/ /\ ~Refused(n) /\ ~TooFewPins(n)
             /\ IF AlreadyConnected(PinHoles(n, base.pins))
                THEN UNCHANGED <<new, rails>> ELSE RouteNet(n)
             /\ UNCHANGED <<skipped, unrouted>>
  /\ UNCHANGED <<document, pc, op, base, options, known, ripups, result, calls, edits>>

Routed(left) ==
  [layout |-> [base EXCEPT !.jumpers = Preserved(base) \cup ToSet(new)],
   unrouted |-> left]

\* Mutation of RoundsLeft: the last round is not the last.
RoundsLeftOneMore == options.rounds + 1 - ripups

RoundsLeft == options.rounds - ripups

\* Nothing is left over, or no rounds are wanted.
FinishFirstPass ==
  /\ pc = "first" /\ todo = {}
  /\ unrouted = {} \/ RoundsLeft = 0
  /\ pc' = "done" /\ result' = Routed(unrouted)
  /\ UNCHANGED <<document, base, callVars, calls, edits>>

BeginRetries ==
  /\ pc = "first" /\ todo = {}
  /\ unrouted # {} /\ RoundsLeft > 0
  /\ pc' = "retry"
  /\ UNCHANGED <<document, base, callVars, result, calls, edits>>

-----------------------------------------------------------------------------
(* Rip-up rounds *)

\* failed_nets_in_order
StillFailed == unrouted \cap OpenNets(base, Preserved(base) \cup ToSet(new))

\* _rip_up: the wires of other nets within three columns of the failed one, else of
\* all, the three longest, or else the three newest.
RipUp(n) ==
  LET others == {i \in DOMAIN new : new[i].net # n}
      columns == {Column[h] : h \in PinHoles(n, base.pins)}
      around == {i \in others : \E h \in {new[i].from, new[i].to}, c \in columns :
                   Column[h] - c \in -3..3}
      Length(i) == Manhattan(new[i].from, new[i].to)
      Sooner(i, j) == Length(i) > Length(j) \/ (Length(i) = Length(j) /\ i < j)
  IN IF around # {}
     THEN {i \in around : Cardinality({j \in around : Sooner(j, i)}) < 3}
     ELSE {i \in others : Cardinality({j \in others : j > i}) < 3}

\* Mutation of KnownAfter: what is known has the wires that are taken away.
KnownAfterStale(kept) == Joined(base) \cup Wires(Preserved(base) \cup ToSet(new))

\* fresh_connectivity
KnownAfter(kept) == Joined(base) \cup Wires(Preserved(base) \cup ToSet(kept))

CountRound == ripups' = ripups + 1

\* The elements of s at the positions in is, in their order.
Only(s, is) ==
  [k \in 1..Cardinality(is) |->
     s[CHOOSE i \in is : Cardinality({j \in is : j < i}) = k - 1]]

\* A round for the first failed net.  The wires of every net that loses one go, and
\* these nets are routed again among what is left, with rails that nobody owns.
StartRound ==
  /\ pc = "retry" /\ RoundsLeft > 0
  /\ \E n \in StillFailed :
       LET removed == RipUp(n)
           affected == {n} \cup {new[i].net : i \in removed}
           kept == Only(new, {i \in DOMAIN new : new[i].net \notin affected})
       IN /\ IsFirst(n, StillFailed)
          /\ removed # {}
          /\ new' = kept /\ known' = KnownAfter(kept)
          /\ todo' = affected
  /\ CountRound
  /\ pc' = "reroute" /\ rails' = NoRails
  /\ UNCHANGED <<document, op, base, options, unrouted, skipped, result, calls, edits>>

\* _reroute_subset takes the next net.
Reroute ==
  /\ pc = "reroute"
  /\ \E n \in todo :
       /\ IsFirst(n, todo) /\ todo' = todo \ {n}
       /\ IF Refused(n) \/ TooFewPins(n) \/ AlreadyConnected(PinHoles(n, base.pins))
          THEN UNCHANGED <<new, rails>>
          ELSE RouteNet(n)
  /\ UNCHANGED <<document, pc, op, base, options, known, unrouted, skipped, ripups, result,
                 calls, edits>>

EndRound ==
  /\ pc = "reroute" /\ todo = {}
  /\ pc' = "retry"
  /\ UNCHANGED <<document, base, callVars, result, calls, edits>>

\* No round is left, nothing failed, or nothing can be removed.
RetriesOver ==
  RoundsLeft > 0 => \A n \in StillFailed : IsFirst(n, StillFailed) => RipUp(n) = {}

\* What is open now is reported.
FinishRetries ==
  /\ pc = "retry"
  /\ RetriesOver
  /\ pc' = "done"
  /\ result' = Routed(OpenNets(base, Preserved(base) \cup ToSet(new)) \cup skipped)
  /\ UNCHANGED <<document, base, callVars, calls, edits>>

\* SolverTimeout from the deadline that solve() passes on; a route job has none.
Timeout ==
  /\ op = "solve"
  /\ \/ pc \in {"first", "reroute"} /\ todo # {}
     \/ pc = "retry" /\ RoundsLeft > 0 /\ StillFailed # {}
  /\ Idle
  /\ base' = document
  /\ UNCHANGED <<document, result, calls, edits>>

-----------------------------------------------------------------------------
(* The user between two jobs *)

AnyOptions == [allow : BOOLEAN, rounds : Ripups]

\* A route job works on the document as it is.
RouteJob == \E opts \in AnyOptions : Begin("route", document, opts)

\* A solve job works on a new placement with the document's jumpers and links.
SolveJob(pins) ==
  \E opts \in AnyOptions : Begin("solve", [document EXCEPT !.pins = pins], opts)

\* onApplySolverResult; or the result is lost to solve()'s last checks, or not wanted.
TakeResult ==
  /\ pc = "done"
  /\ document' \in {document, result.layout}
  /\ base' = document' /\ result' = NoResult
  /\ Idle
  /\ UNCHANGED <<calls, edits>>

Edit ==
  /\ pc = "idle" /\ calls < MaxCalls /\ edits < MaxEdits
  /\ edits' = edits + 1
  /\ base' = document'
  /\ UNCHANGED <<pc, callVars, result, calls>>

\* createJumperBetween names the first net of the document; the id is a new one.
DrawJumper(pair) ==
  /\ document' = [document EXCEPT !.jumpers = @ \cup
       {[net |-> Min(Nets), no |-> Cardinality(Holes) + edits, from |-> Min(pair),
         to |-> Max(pair), locked |-> FALSE]}]
  /\ Edit

\* deleteSelection: every jumper with that id.
DeleteJumper(j) ==
  /\ document' = [document EXCEPT !.jumpers = {k \in @ : <<k.net, k.no>> # <<j.net, j.no>>}]
  /\ Edit

\* A client of the API stores the document with other locks (the page has no control
\* for them): of all jumpers or of one.
LockJumpers(js) ==
  /\ document' = [document EXCEPT !.jumpers = {[j EXCEPT !.locked = j \in js] : j \in @}]
  /\ Edit

-----------------------------------------------------------------------------
Step ==
  \/ FirstPass \/ FinishFirstPass \/ BeginRetries
  \/ StartRound \/ Reroute \/ EndRound \/ FinishRetries

User ==
  \/ RouteJob \/ TakeResult
  \/ \E pins \in Placements : SolveJob(pins)
  \/ \E pair \in Drawn : DrawJumper(pair)
  \/ \E j \in document.jumpers : DeleteJumper(j)
  \/ LockJumpers(document.jumpers)
  \/ \E j \in document.jumpers : LockJumpers({j})

Next == Step \/ Timeout \/ User

Spec == Init /\ [][Next]_vars

-----------------------------------------------------------------------------
(* Properties *)

Returned == result # NoResult

\* A layout without the wires that route() drops.
Rigid(layout) == [layout EXCEPT !.jumpers = Preserved(layout)]

\* The rip-up loop was entered: the layout was looked at again before the answer.
Retried == unrouted # {} /\ options.rounds > 0

\* A net that is not reported as unrouted is joined by the wires that the call was given and
\* those that it laid.  The returned layout lacks the given wires that are not locked, and
\* the net is one node there if none is missing or if the rip-up loop was entered (route(),
\* _open_nets).
OpenNetsReported ==
  Returned =>
    /\ OpenNets(base, base.jumpers \cup result.layout.jumpers) \subseteq result.unrouted
    /\ base = Rigid(base) \/ Retried =>
         OpenNets(result.layout, result.layout.jumpers) \subseteq result.unrouted

Shorted(layout) ==
  \E c \in Nodes(Joined(layout) \cup Wires(layout.jumpers)) :
    Cardinality({n \in Nets : PinHoles(n, layout.pins) \cap c # {}}) > 1

\* Rounds for a net that cannot be routed do not cost a net that was.  It has to be said
\* of layouts that short no nets: where nets share nodes, one that is routed again may
\* be found joined by others that took the same rail and may leave it in a later round.
RoutedNetsKept ==
  Returned /\ base = Rigid(base) /\ ~Shorted(base) => result.unrouted \subseteq unrouted

RailHoles == UNION {Groups[s] : s \in Rails}

\* A segment of a rail has wires of one net.
RailsOwned ==
  Returned =>
    \A s \in Rails :
      Cardinality({j.net : j \in {k \in result.layout.jumpers :
                                    {k.from, k.to} \cap Groups[s] # {}}}) <= 1

\* Rails stand alone: what the locked wires and the links join to a segment of a rail
\* is neither a pin nor another segment.  Nothing tells the router of such joints.
RailsAlone(layout) ==
  \A c \in Nodes(Joined(layout) \cup Wires(Preserved(layout))) :
    c \cap RailHoles # {} =>
      /\ \A p \in Pins : layout.pins[p] \notin c
      /\ \A s, t \in Rails : Groups[s] \cap c # {} /\ Groups[t] \cap c # {} => s = t

\* In the first pass each segment of a rail gets one owner, so it shorts no nets; rounds
\* forget the owners.
FirstPassApart ==
  Returned /\ ripups = 0 /\ ~Shorted(Rigid(base)) /\ RailsAlone(base)
  => ~Shorted(result.layout)

\* Whatever the rounds do, a hole of a rail has wires of one net, unless a pin is in it
\* or the locked wires already disagree.
RailHolesApart ==
  Returned =>
    \A j, k \in result.layout.jumpers :
      j.net # k.net /\ ~(j.locked /\ k.locked)
      => {j.from, j.to} \cap {k.from, k.to} \cap RailHoles
           \subseteq {result.layout.pins[p] : p \in Pins}

\* Nets are kept apart: all of them by the first pass, those on rails by every round.
NetsApart == FirstPassApart /\ RailHolesApart
=============================================================================
