------------------------------- MODULE MCRing --------------------------------
(* Ring with small rings, for TLC.                                         *)
EXTENDS Ring

MCReqs == 1..4
=============================================================================
