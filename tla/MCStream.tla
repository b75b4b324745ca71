------------------------------ MODULE MCStream -------------------------------
(* Stream with buffers of a few bytes, for TLC.                            *)
EXTENDS Stream
=============================================================================
