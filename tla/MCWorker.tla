------------------------------ MODULE MCWorker -------------------------------
(* Instances of Worker for TLC.                                            *)
EXTENDS WorkerProps

D(k, dials, reply) == [kind |-> k, dials |-> dials, reply |-> reply]

(* Every decision, also the caller bugs: a rejected or unfinished request  *)
(* with an upstream, a relay decision without one.                         *)
AllDecisions == [kind : Kinds, dials : BOOLEAN, reply : BOOLEAN]

(* One decision of each kind that hooks in the repository return. *)
UsualDecisions == {D("relay", TRUE, FALSE), D("reject", FALSE, TRUE),
                   D("more", FALSE, FALSE)}
=============================================================================
