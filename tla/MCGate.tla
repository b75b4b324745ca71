------------------------------- MODULE MCGate --------------------------------
(* Instances of Gate for TLC. *)
EXTENDS Gate

OneConn == {1}
TwoRuns == 1..2
=============================================================================
