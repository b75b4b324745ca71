------------------------------ MODULE MCServer -------------------------------
(* Instances of Server for TLC.                                            *)
EXTENDS Server

Base == [f \in Fields |-> 1]

(* Defaults requested by zero and by negative values, a first read larger  *)
(* than MaxReqLen given and defaulted, and a port New refuses.             *)
Passed ==
  {Base,
   [Base EXCEPT !["Workers"] = 2, !["InitialReqLen"] = 9],
   [Base EXCEPT !["Workers"] = -1, !["InitialReqLen"] = 9000,
                !["MaxReqLen"] = 0],
   [f \in Fields |-> IF f \in {"Port", "MaxReqLen"} THEN 1 ELSE 0],
   [f \in Fields |-> 0]}
=============================================================================
