------------------------------ MODULE MCRouter ------------------------------
(* An instance of Router for TLC: a board with two rail segments, a refused clock, a
   ground, a signal of three pins and a supply.  Nets and holes are numbered in the
   order of their ids. *)
EXTENDS Router
CONSTANTS c1, c2, g1, g2, s1, s2, s3, v1, v2

clk == 1
gnd == 2
sig == 3
vcc == 4

Fourteen == 1..14
TwoRails == {10, 11}
Board == [g \in 1..9 |-> IF g = 1 THEN {1, 2} ELSE {g + 1}]
         @@ (10 :> {11, 12}) @@ (11 :> {13, 14})
AtX == <<0, 0, 1, 2, 3, 4, 8, 9, 10, 11, 1, 9, 8, 9>>
AtY == <<3, 4, 3, 3, 3, 3, 3, 3, 3, 3, 0, 0, 7, 7>>
InColumn == <<1, 1, 2, 3, 4, 5, 9, 10, 11, 12, 1, 8, 7, 8>>

NetOf(class, pins) ==
  [class |-> class, priority |-> 0, prefersRail |-> FALSE, pins |-> pins]
FourNets ==
  (clk :> NetOf("clock", {c1, c2})) @@ (gnd :> NetOf("ground", {g1, g2}))
    @@ (sig :> NetOf("digital", {s1, s2, s3})) @@ (vcc :> NetOf("power", {v1, v2}))

\* The ground is far from the clock, the supply and the signal lead there.
Spread == (g1 :> 1) @@ (g2 :> 3) @@ (v1 :> 4) @@ (v2 :> 7) @@ (c1 :> 8) @@ (c2 :> 9)
          @@ (s1 :> 5) @@ (s2 :> 6) @@ (s3 :> 10)
\* The ground pins share a strip.
Close == [Spread EXCEPT ![g2] = 2]
\* The supply is near the segment of the ground only, and two pins of the signal
\* find no place.
Left == [Spread EXCEPT ![v2] = 5, ![s1] = 7, ![s2] = Unplaced, ![s3] = Unplaced]

Wire(n, a, b) == [net |-> n, no |-> 0, from |-> a, to |-> b, locked |-> TRUE]
Bare(pins) == [pins |-> pins, jumpers |-> {}, links |-> {}]

SomePlacements == {Spread, Close, Left}
SomeDocuments ==
  {Bare(Spread), [Bare(Spread) EXCEPT !.jumpers = {Wire(sig, 5, 10)}],
   [Bare(Spread) EXCEPT !.jumpers = {Wire(gnd, 1, 3)}, !.links = {{4, 7}}]}
SomeWires == {{1, 4}, {5, 10}}
\* The part with the pins s1 and s2 joins them.
Switch == {{s1, s2}}
NoneOrTwo == {0, 2}
=============================================================================
