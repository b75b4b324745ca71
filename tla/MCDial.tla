------------------------------- MODULE MCDial --------------------------------
(* An instance of Dial for TLC. *)
EXTENDS Dial

TwoHosts == 1..2
=============================================================================
