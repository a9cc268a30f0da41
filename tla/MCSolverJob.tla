----------------------------- MODULE MCSolverJob -----------------------------
(* Instances of SolverJob for TLC. *)
EXTENDS SolverJob, TLC
CONSTANTS j1, j2, t1, t2

SharedTarget == (j1 :> t1) @@ (j2 :> t1)
OwnTarget == (j1 :> t1) @@ (j2 :> t2)
AloneTarget == j1 :> t1
TwoJobs == {j1, j2}
JobSymmetry == Permutations(TwoJobs)
=============================================================================
