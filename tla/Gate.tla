-------------------------------- MODULE Gate ---------------------------------
(***************************************************************************)
(* The gate as the harness assembles it: a load generator, the baseline    *)
(* relay and a sink.  Storms are run against the one-shot sink (Churn),    *)
(* long-lived connections against the echo sink (Tunnel).                  *)
(***************************************************************************)
EXTENDS Churn, Tunnel

vars == <<sockVars, relayVars, sinkVars, churnVars, tunnelVars>>

Init == RelayInit /\ SinkInit /\ ChurnInit /\ TunnelInit

RelayMoves(A) == A /\ UNCHANGED <<sinkVars, churnVars, tunnelVars>>
SinkMoves(A) == A /\ UNCHANGED <<relayVars, churnVars, tunnelVars>>
StormMoves(A) == ~echo /\ A /\ UNCHANGED <<relayVars, sinkVars, tunnelVars>>
TunnelMoves(A) == echo /\ A /\ UNCHANGED <<relayVars, sinkVars, churnVars>>

Next ==
  \/ \E c \in Conns : RelayMoves(RelayStep(c) \/ CopierStep(c))
  \/ \E c \in Conns : ~echo /\ RelayMoves(Wedge(c))
  \/ \E c \in Conns : SinkMoves(SinkStep(c))
  \/ StormMoves(ChurnStep)
  \/ TunnelMoves(TunnelStep)

(* Goroutines run, reads and writes that can be done are done, and         *)
(* deadlines pass.  Nothing is assumed of the timers of a storm, of the    *)
(* hold time, of the requests to the daemon or of a relay that is stalled. *)
Fairness ==
  /\ \A c \in Conns : /\ WF_vars(RelayMoves(RelayStep(c)))
                      /\ WF_vars(RelayMoves(CopierStep(c)))
                      /\ WF_vars(SinkMoves(SinkStep(c)))
  /\ \A r \in Runs : WF_vars(StormMoves(RunStep(r)))
  /\ \A s \in Stops : WF_vars(StormMoves(CloseCancel(s)))
  /\ \A r \in Runs, w \in Workers : WF_vars(StormMoves(WorkerStep(r, w)))
  /\ \A c \in Tunnels : WF_vars(TunnelMoves(ClientStep(c)))

Spec == Init /\ [][Next]_vars /\ Fairness

-----------------------------------------------------------------------------
(* The state is well typed; a part of TwoFdSound. *)
TypeOK ==
  /\ sock \in [Conns -> [Ends -> {"none", "open", "closed"}]]
  /\ \A c \in Conns, e \in Ends : Len(inbox[c][e]) <= SockCap
  /\ relay \in [Conns -> {"none", "initial", "hook", "dialed", "copy", "done"}]
  /\ copier \in [Conns -> {"none", "copy", "done"}]
  /\ sink \in [Conns -> {"none", "read", "write", "count", "echo", "tally",
                      "done"}]
  /\ served \cup completed \cup wedged \cup sampled \subseteq Conns
  /\ cancelCur \in {0} \cup Runs /\ closes \in [Runs -> Nat]
  /\ woff \in [Tunnels -> 0..MaxChunks] /\ over \in BOOLEAN

InStorm(r) == run[r] \in {"warmup", "window", "waiting"}

(* One storm at a time, and /stop can reach it: from the moment a storm    *)
(* runs until it returns, its cancel channel is the current one, unless a  *)
(* /stop request has taken it.  However many requests there are, no        *)
(* channel is closed twice, which would panic.                             *)
StopCanReach ==
  \A r \in Runs :
    /\ closes[r] <= 1
    /\ InStorm(r) =>
         /\ \A q \in Runs \ {r} : ~InStorm(q)
         /\ cancelCur = r \/ closes[r] > 0 \/ \E s \in Stops : chan[s] = r

(* What Run returns is final and consistent: it counts each completed      *)
(* connection once, has a latency sample for each of them, and no worker   *)
(* adds to it afterwards.                                                  *)
ResultIsFinal ==
  \A r \in Runs : run[r] \in {"returned", "cleared", "done"} =>
    /\ result[r] = Counts(r)
    /\ result[r].samples = result[r].completed

(* A connection the storm counts as completed was answered by the sink,    *)
(* which counts it in served or is about to; and the audits at both ends   *)
(* never fail.                                                             *)
CompletedWasServed ==
  /\ \A c \in Conns : attempt[c].as = "completed" =>
       c \in served \/ sink[c] = "count"
  /\ misread = {} /\ \A c \in Conns : attempt[c].as # "auditFail"

(* A stream comes back in order and unchanged, and only after it was at    *)
(* the sink, which has counted it or is about to (countingWriter).         *)
EchoIntact ==
  /\ mismatch = {}
  /\ \A c \in Tunnels :
       roff[c] <= echoed[c] + (IF sink[c] = "tally" THEN 1 ELSE 0)

(* The two-fd check of the gate is sound: what the load generator counts   *)
(* as relayed was at the sink, in both kinds of experiment, although the   *)
(* relay starts its upward copy beside the goroutine that writes the       *)
(* request.                                                                *)
TwoFdSound == TypeOK /\ CompletedWasServed /\ EchoIntact

(* A /stop that answers "stopping" ends its storm, without waiting for the *)
(* warm-up or the window, and whatever a stalled relay does.               *)
StopEnds == \A r \in Runs : closes[r] > 0 ~> ~InStorm(r)

Released(c) == relay[c] = "done" /\ copier[c] # "copy"

(* The relay waits for the upstream, the upstream for the relay. *)
Leaked(c) ==
  /\ relay[c] = "copy" /\ copier[c] = "done" /\ sink[c] = "echo"
  /\ \A e \in Ends : inbox[c][e] = <<>>

(* The relay has no deadline of its own: that it lets go of the            *)
(* connections of a storm rests on the deadlines of the worker and of the  *)
(* sink, which each close their end sooner or later, the sink also when    *)
(* the relay dialled and never sent the request.  With the echo sink, which*)
(* has no deadline, the relay lets go of a connection its client has       *)
(* closed, with one exception: nothing is on its way any more, and the     *)
(* relay, which did not pass on the end of the client's stream, waits for  *)
(* the sink for ever.                                                      *)
ConnsReleased == \A c \in Conns :
  /\ (~echo /\ relay[c] # "none") ~> (c \in wedged \/ Released(c))
  /\ (~echo /\ sock[c]["sk"] = "open") ~> sock[c]["sk"] = "closed"
  /\ (echo /\ sock[c]["cl"] = "closed") ~> (Released(c) \/ Leaked(c))

(* With every buffer of the tunnel full, bulkgen, both copies and the sink *)
(* still do not wait for each other: what was written comes back, unless   *)
(* the client closes.                                                      *)
EchoDelivered == \A c \in Tunnels :
  []<>(roff[c] = woff[c] \/ sock[c]["cl"] = "closed" \/ prog[c] = "holdgen")
=============================================================================
