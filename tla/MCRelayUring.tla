---------------------------- MODULE MCRelayUring -----------------------------
(* Instances of RelayUring for TLC.                                        *)
EXTENDS RelayUring

Cfg(m, ports, maxConns, fds, accepts) ==
  [mode |-> m, ports |-> ports, acceptBatch |-> 2, maxConns |-> maxConns,
   hookWorkers |-> 1, fds |-> fds, accepts |-> accepts]

(* More listeners than connections, so that clients are shed; two copying  *)
(* connections at once; two splicing connections in a row, with numbers    *)
(* enough and with too few for the second pipe.                            *)
AllModes == {Cfg("churn", 3, 2, 5, 3), Cfg("duplex", 1, 2, 5, 2),
             Cfg("splice", 2, 1, 7, 2), Cfg("splice", 1, 2, 4, 2)}

(* Two splicing connections at once. *)
TwoSplices == {Cfg("splice", 1, 2, 8, 2)}
=============================================================================
