------------------------------ MODULE MCEditor ------------------------------
(* Instances of Editor for TLC. *)
EXTENDS Editor
CONSTANTS bread, perf, a, b, o1

TwoProjects == {bread, perf}
PartsOfTwo == (bread :> {a}) @@ (perf :> {b})
SharedBread == (bread :> {o1}) @@ (perf :> {})
=============================================================================
