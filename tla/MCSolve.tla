-------------------------------- MODULE MCSolve --------------------------------
(* An instance of Solve for TLC: a board of six columns and four rows with the gap in the
   middle and one split rail, a DIP with its bypass capacitor, two equal resistors and a
   connector. *)
EXTENDS Solve

Board == (1..6) \X (0..3)
Rail == {<<1, -1>>, <<2, -1>>, <<5, -1>>, <<6, -1>>}
BoardRowY == (-1) :> -2 @@ 0 :> 0 @@ 1 :> 1 @@ 2 :> 5 @@ 3 :> 6
BoardGap == <<1, 2>>
AtEdge(body) == (\A h \in body : h[1] <= 1) \/ (\A h \in body : h[1] >= 6)

\* Five holes of a real strip are two here; groups 21 and 22 are the halves of the rail.
Strips == [g \in (1..6) \cup (11..16) |->
             IF g < 10 THEN {<<g, 0>>, <<g, 1>>} ELSE {<<g - 10, 2>>, <<g - 10, 3>>}]
          @@ 21 :> {<<1, -1>>, <<2, -1>>} @@ 22 :> {<<5, -1>>, <<6, -1>>}
Line == 21 :> "top" @@ 22 :> "top"

Rigid(family, pins, body, clearance, straddles, facing) ==
  [family |-> family, pins |-> pins, body |-> body, turns |-> {0}, spans |-> {NoSpan},
   preferred |-> 0, clearance |-> clearance, straddles |-> straddles, userFacing |-> facing]
Flexible(family, body, turns, spans, preferred) ==
  [family |-> family, pins |-> "1" :> <<0, 0>> @@ "2" :> <<preferred, 0>>, body |-> body,
   turns |-> turns, spans |-> spans, preferred |-> preferred, clearance |-> 0,
   straddles |-> FALSE, userFacing |-> FALSE]

Registry ==
  [DIP |-> Rigid("DIP", "1" :> <<0, 0>> @@ "2" :> <<1, 0>> @@ "3" :> <<1, 1>> @@ "4" :> <<0, 1>>,
                 {0, 1} \X {0, 1}, 0, TRUE, FALSE),
   CAP |-> Flexible("capacitor", {0, 1} \X {0, 1}, {0, 90}, {1}, 1),
   RES |-> Flexible("resistor", {0, 1, 2} \X {0}, {0, 90}, {1, 2}, 2),
   CONN |-> Rigid("other", "1" :> <<0, 0>>, {<<0, 0>>}, 1, FALSE, TRUE)]

Parts == <<"C1", "J1", "R1", "R2", "U1">>
Document == <<"U1", "J1", "R2", "R1", "C1">>
PartFootprint == [C1 |-> "CAP", J1 |-> "CONN", R1 |-> "RES", R2 |-> "RES", U1 |-> "DIP"]
PinsOfParts == [r \in DOMAIN PartFootprint |-> DOMAIN Registry[PartFootprint[r]].pins]
PinsJoined == [f \in DOMAIN Registry |-> {}]

NetOrder == <<"vcc", "gnd", "sig", "clk">>
NetOfClass(class, pins) == [class |-> class, pins |-> pins, prefersRail |-> FALSE]
NetData ==
  [vcc |-> NetOfClass("power", <<<<"U1", "1">>, <<"C1", "1">>>>),
   gnd |-> NetOfClass("ground", <<<<"U1", "3">>, <<"C1", "2">>, <<"R1", "2">>>>),
   sig |-> NetOfClass("digital", <<<<"U1", "2">>, <<"R2", "1">>, <<"J1", "1">>>>),
   clk |-> NetOfClass("clock", <<<<"U1", "4">>, <<"R1", "1">>>>)]

Weights == [distance |-> 1, congestion |-> 15, mechanical |-> 10, access |-> 25,
            overlap |-> 10000, cluster |-> 8]

Laid(f, h, t, s, locked) ==
  LET pose == PoseAt(Registry[f], h, t, s)
  IN [anchor |-> h, turn |-> t, span |-> s, pins |-> pose.pins, cells |-> Cells(pose), locked |-> locked]

\* A new document; a locked resistor, turned; a locked connector; the DIP and a resistor
\* locked; so much locked that the connector finds no place; all placed by hand.
NewDocument == <<>>
TurnedResistor == [R1 |-> Laid("RES", <<3, 1>>, 90, 1, TRUE)]
LoneConnector == [J1 |-> Laid("CONN", <<1, 3>>, 0, NoSpan, TRUE)]
DipLocked == [U1 |-> Laid("DIP", <<2, 1>>, 0, NoSpan, TRUE), R2 |-> Laid("RES", <<1, 0>>, 0, 2, TRUE)]
Crowded == [U1 |-> Laid("DIP", <<2, 1>>, 0, NoSpan, TRUE), R1 |-> Laid("RES", <<4, 1>>, 0, 1, TRUE),
            R2 |-> Laid("RES", <<4, 2>>, 0, 1, TRUE)]
ByHand(free) ==
  [U1 |-> Laid("DIP", <<1, 1>>, 0, NoSpan, TRUE), R1 |-> Laid("RES", <<5, 0>>, 0, 1, FALSE),
   R2 |-> Laid("RES", <<4, 2>>, 0, 2, ~free), C1 |-> Laid("CAP", <<3, 3>>, 0, 1, TRUE),
   J1 |-> Laid("CONN", <<6, 3>>, 0, NoSpan, TRUE)]

Layouts == {NewDocument, TurnedResistor, LoneConnector, DipLocked, Crowded, ByHand(TRUE), ByHand(FALSE)}
Twice == [restarts |-> 2, iterations |-> 1]
Longer == [restarts |-> 1, iterations |-> 2]
Rounds(n) == [restarts |-> 1, iterations |-> 4 * n]
OptionChoices == {Twice, Longer, Rounds(1), Rounds(2)}

Wire(n, a, b, locked) == [net |-> n, from |-> a, to |-> b, locked |-> locked]
Fresh(document, opts) == [op |-> "solve", given |-> document, options |-> opts, jumpers |-> {}, links |-> {}]
Improve(document, opts) ==
  [op |-> "optimize", given |-> document, options |-> opts, links |-> {},
   jumpers |-> {Wire("gnd", <<2, 2>>, <<4, 3>>, TRUE), Wire("sig", <<2, 0>>, <<4, 2>>, FALSE)}]
JobChoices ==
  {Fresh(NewDocument, Twice), Fresh(TurnedResistor, Longer), Fresh(LoneConnector, Longer),
   Fresh(DipLocked, Twice), Fresh(Crowded, Longer),
   [Fresh(DipLocked, Twice) EXCEPT !.jumpers = {Wire("vcc", <<2, 0>>, <<1, -1>>, TRUE)},
                                   !.links = {{<<2, -1>>, <<5, -1>>}}],
   Improve(ByHand(TRUE), Rounds(1)), Improve(ByHand(FALSE), Rounds(2))}

\* The documents above are such as the page writes.
ASSUME MCDocuments == CompleteDocuments /\ DocumentsOnBoard
=============================================================================
