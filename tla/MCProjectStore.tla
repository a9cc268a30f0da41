--------------------------- MODULE MCProjectStore ---------------------------
(* Instances of ProjectStore for TLC. *)
EXTENDS ProjectStore, TLC
CONSTANTS w1, w2, r1, r2, r3, k1

\* r1 and r2 create jobs under one key, for the document as it is or for a
\* revision that is there already; r3 only freezes a revision.
TwoWriters == {w1, w2}
ThreeRequests == {r1, r2, r3}
TwoJobRequests == {r1, r2}
RetriedKey == (r1 :> k1) @@ (r2 :> k1) @@ (r3 :> NoKey)
=============================================================================
