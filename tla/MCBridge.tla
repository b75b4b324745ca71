------------------------------ MODULE MCBridge -------------------------------
(* Bridge with three hook goroutines and four results, for TLC.            *)
EXTENDS Bridge

CONSTANTS h1, h2, h3, r1, r2, r3, r4

MCHooks == {h1, h2, h3}
MCResults == {r1, r2, r3, r4}
=============================================================================
