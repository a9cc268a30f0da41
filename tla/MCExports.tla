------------------------------ MODULE MCExports ------------------------------
(* Instances of Exports for TLC. *)
EXTENDS Exports, TLC
CONSTANTS e1, e2

TwoExports == {e1, e2}
=============================================================================
