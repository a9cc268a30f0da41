--------------------------------- MODULE MCPerf ---------------------------------
(* An instance of PerfSolve for TLC: a perfboard of four columns and three rows, two equal
   resistors, a capacitor, a DIP of four pins and a connector. *)
EXTENDS PerfSolve

\* What a theorem takes for granted of documents holds of these.
ASSUME MCDocuments == DocumentsOnBoard

Rigid(family, pins, body, facing) ==
  [family |-> family, pins |-> pins, body |-> body, turns |-> {0}, spans |-> {-1},
   preferred |-> 0, clearance |-> 0, straddles |-> FALSE, userFacing |-> facing]
Flexible(family, turns, spans, preferred) ==
  [family |-> family, pins |-> "1" :> <<0, 0>> @@ "2" :> <<preferred, 0>>,
   body |-> {<<x, 0>> : x \in 0..preferred}, turns |-> turns, spans |-> spans,
   preferred |-> preferred, clearance |-> 0, straddles |-> FALSE, userFacing |-> FALSE]

Registry ==
  [DIP |-> Rigid("DIP", "1" :> <<0, 0>> @@ "2" :> <<1, 0>> @@ "3" :> <<1, 1>> @@ "4" :> <<0, 1>>,
                 {0, 1} \X {0, 1}, FALSE),
   CAP |-> Flexible("capacitor", {0}, {1}, 1),
   RES |-> Flexible("resistor", {0, 90}, {1, 2}, 2),
   CONN |-> Rigid("other", "1" :> <<0, 0>>, {<<0, 0>>}, TRUE)]
Connectors == {"CONN"}

Parts == <<"C1", "J1", "R1", "R2", "U1">>
Document == <<"U1", "J1", "R2", "R1", "C1">>
PartFootprint == [C1 |-> "CAP", J1 |-> "CONN", R1 |-> "RES", R2 |-> "RES", U1 |-> "DIP"]

NetOrder == <<"gnd", "nc", "sig", "vcc">>
NetOf(class, priority, pins) == [class |-> class, priority |-> priority, pins |-> pins]
NetData ==
  [gnd |-> NetOf("ground", 0, <<<<"U1", "3">>, <<"C1", "2">>, <<"R1", "2">>>>),
   nc |-> NetOf("digital", 1, <<<<"R2", "2">>>>),
   sig |-> NetOf("digital", 0, <<<<"U1", "2">>, <<"R2", "1">>, <<"J1", "1">>, <<"R1", "1">>>>),
   vcc |-> NetOf("power", 0, <<<<"U1", "1">>, <<"C1", "1">>>>)]

Weights == [distance |-> 1, congestion |-> 15, mechanical |-> 10, access |-> 25,
            overlap |-> 10000, cluster |-> 8]

Laid(h, pins, body, t, s, locked) ==
  [anchor |-> h, turn |-> t, span |-> s, pins |-> pins, cells |-> body, locked |-> locked]
Across(h, s, locked) ==
  Laid(h, "1" :> h @@ "2" :> <<h[1] + s, h[2]>>, {<<h[1] + x, h[2]>> : x \in 0..s}, 0, s, locked)
Upright(h, s, locked) ==
  Laid(h, "1" :> h @@ "2" :> <<h[1], h[2] - s>>, {<<h[1], h[2] - x>> : x \in 0..s}, 90, s, locked)

U == [U1 |-> Laid(<<2, 1>>, "1" :> <<2, 1>> @@ "2" :> <<3, 1>> @@ "3" :> <<3, 2>> @@ "4" :> <<2, 2>>,
                  {2, 3} \X {1, 2}, 0, -1, TRUE)]
J == [J1 |-> Laid(<<1, 3>>, "1" :> <<1, 3>>, {<<1, 3>>}, 0, -1, TRUE)]
C == [C1 |-> Across(<<3, 3>>, 1, TRUE)]

\* The resistors are free; the capacitor and the DIP; one resistor, with one pose; one with
\* three, two of which start at the same hole; the resistors and the connector; place for
\* the DIP or the capacitor, not both; everything is placed, some parts are locked; all is
\* locked; no hole is left for the connector.
Resistors == U @@ J @@ C
Cluster == J @@ [R1 |-> Across(<<2, 3>>, 1, TRUE)] @@ [R2 |-> Upright(<<4, 3>>, 1, TRUE)]
OneLeft == U @@ J @@ C @@ [R1 |-> Upright(<<4, 2>>, 1, TRUE)]
Column ==
  U @@ C @@ [R1 |-> Upright(<<4, 2>>, 1, TRUE),
             J1 |-> Laid(<<2, 3>>, "1" :> <<2, 3>>, {<<2, 3>>}, 0, -1, TRUE)]
ThreeLeft == U @@ C
NoRoom == J @@ [R1 |-> Upright(<<2, 2>>, 1, TRUE)] @@ [R2 |-> Across(<<2, 3>>, 2, TRUE)]
Full == OneLeft @@ [R2 |-> Upright(<<1, 2>>, 1, FALSE)]
AllLocked == OneLeft @@ [R2 |-> Upright(<<1, 2>>, 1, TRUE)]
Covered ==
  U @@ [C1 |-> Across(<<2, 3>>, 1, TRUE), R1 |-> Upright(<<1, 3>>, 2, TRUE), R2 |-> Upright(<<4, 3>>, 2, TRUE)]
Layouts == {<<>>, Resistors, Cluster, OneLeft, Column, ThreeLeft, NoRoom, Full, AllLocked, Covered}

Options(n, count) ==
  [restarts |-> 1, iterations |-> 1, limit |-> n, count |-> count, preset |-> "fast"]
OptionChoices == {Options(n, count) : n \in {1, 3, 6, 9}, count \in {1, 2, 3, 9}}
Presets == [fast |-> [limit |-> 2, count |-> 2]]
Defaults == [limit |-> 9, count |-> 9]

Order(op, engine, layout, opts) == [op |-> op, engine |-> engine, given |-> layout, options |-> opts]
JobChoices ==
  {Order("solve", "cpsat", Resistors, Options(1, 2)), Order("solve", "cpsat", Resistors, Options(3, 2)),
   Order("solve", "cpsat", Cluster, Options(9, 9)),
   Order("solve", "cpsat", NoRoom, Options(3, 1)), Order("solve", "cpsat", AllLocked, Options(3, 1)),
   Order("place", "cpsat", Column, Options(6, 3)), Order("solve", "cpsat", ThreeLeft, Options(6, 1)),
   Order("place", "greedy", Resistors, Options(3, 1)),
   Order("solve", "greedy", <<>>, Options(3, 1)), Order("route", "cpsat", Full, Options(3, 1)),
   Order("place", "cpsat", Covered, Options(3, 1))}
=============================================================================
