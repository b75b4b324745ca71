----------------------------- MODULE WorkerProps -----------------------------
(***************************************************************************)
(* What is claimed of one ring worker (Worker.tla).                        *)
(***************************************************************************)
EXTENDS Worker

InRing == sq \cup kops \cup batch

(* Backpressure: connections and accepts in flight never exceed MaxConns   *)
(* together, however accepts, closes and the top-up interleave.            *)
ConnCap == Cardinality(conns) + acceptInflight <= MaxConns

(* acceptInflight covers every accept that has completed and is not        *)
(* handled; no accept completes twice; none is in flight beyond the bound  *)
(* on connections.  This is what makes ConnCap inductive.                  *)
AcceptsCounted ==
  /\ IsFiniteSet(AcceptsDone)
  /\ Cardinality(AcceptsDone) <= acceptInflight
  /\ nextID + Cardinality(Accepted) <= MaxId
  /\ \A o \in batch : o.op = "opAccept" => o \notin kops
  /\ \A o \in sq : o.op # "opAccept"

(* A completed accept that waits to be handled has room in conns: the shed *)
(* branch of opAccept is never taken and Stats.Shed stays 0.  At the cap   *)
(* the worker stops posting accepts instead (topUpAccepts, worker.go:608), *)
(* where docs/DEPLOYMENT.md:258 reads a climbing Shed as the sign of the   *)
(* cap, and docs/API.md:100 and :145 and flashrelay.go:99 and :152 say     *)
(* that connections above it are accepted and closed.                      *)
RoomForAccepted == Running /\ Accepted # {} => Cardinality(conns) < MaxConns

(* counters.live is the number of open, not closing connections. *)
LiveCount == live = Cardinality({c \in conns : ~conn[c].closing})

(* closesLeft counts the close completions still to come, and a closing    *)
(* connection stays in conns until the last of them.                       *)
ClosesPending(c) == Cardinality({o \in InRing : o.op = "opClose" /\ o.id = c})

ClosesAccounted ==
  Running => \A c \in conns :
    IF conn[c].closing
      THEN conn[c].closesLeft = ClosesPending(c) /\ ClosesPending(c) > 0
      ELSE ClosesPending(c) = 0

(* Teardown is accounted for: whichever handler, late result or sweep      *)
(* starts it, live falls once and every close is waited for.               *)
TeardownAccounted == LiveCount /\ ClosesAccounted

(* Every open descriptor has exactly one party that will close it, and no  *)
(* party holds a descriptor that is not open: no leak and no double close  *)
(* (which would hit whatever socket got the number next).                  *)
HeldByConns(f) ==
  {h \in conns \X {"clientFD", "upstreamFD"} :
     /\ conn[h[1]][h[2]] = f
     /\ conn[h[1]].closing => Op(h[1], "opClose", f) \in sq}

Holders(f) ==
  Cardinality(HeldByConns(f))
    + Cardinality({o \in AcceptsDone : o.fd = f})
    + Cardinality({o \in sq : o.op = "opClose" /\ o.id = 0 /\ o.fd = f})
    + Cardinality({i \in DOMAIN ready : ready[i].fd = f})
    + Cardinality({i \in DOMAIN drained : drained[i].fd = f})

DescriptorsOwned ==
  Running => \A f \in FDs : Holders(f) = IF f \in openFDs THEN 1 ELSE 0

(* No connection is forgotten and no buffer has two users.  Before the     *)
(* relay phase an open connection has exactly one thing going on: one      *)
(* operation in the ring or one hook call (queued, running or returned);   *)
(* in the relay phase each direction that has not ended has exactly one    *)
(* operation, and an ended one has none.                                   *)
OpsOf(c, K) == Cardinality({o \in InRing : o.id = c /\ o.op \in K})

HookCalls(c) ==
  Cardinality({i \in DOMAIN jobs : jobs[i].id = c})
    + Cardinality({h \in running : h.id = c})
    + Cardinality({i \in DOMAIN ready : ready[i].id = c})
    + Cardinality({i \in DOMAIN drained : drained[i].id = c})
    + (IF blockedOn = c THEN 1 ELSE 0)

EveryConnHasWork ==
  Running => \A c \in conns : Usable(c) =>
    LET r == conn[c]
        expect(b) == IF b THEN 1 ELSE 0
    IN  /\ OpsOf(c, PreRelayOps) + HookCalls(c) = expect(~r.relayStarted)
        /\ OpsOf(c, C2UOps) = expect(r.relayStarted /\ ~r.clientReadDone)
        /\ OpsOf(c, U2COps) = expect(r.relayStarted /\ ~r.upstreamReadDone)

(* A connection on its way to Completed closes with nothing in flight: no  *)
(* relayed byte is cut off and the kernel uses none of its buffers.        *)
CompletedIsClean ==
  \A c \in conns :
    conn[c].closing /\ ~conn[c].counted =>
      conn[c].relayStarted /\ OpsOf(c, DataOps) = 0

(* The Stats identity as the code keeps it: an accepted connection is      *)
(* charged to one terminal bucket and is charged when it is gone, with one *)
(* exception.  A rejected connection whose reply is not read is charged    *)
(* again by the idle sweep (worker.go:577 does not look at counted), where *)
(* flashrelay.go:138 says EXACTLY ONE.                                     *)
StatsPartition ==
  \A c \in 1..nextID :
    /\ \/ Len(charge[c]) <= 1
       \/ IdleTicks > 0 /\ charge[c] = <<"rejected", "idle">>
    /\ c \notin conns => charge[c] # <<>>

(* A slow hook parks its connection, never the ring: the send on jobs does *)
(* not block.                                                              *)
RingNeverBlocked == phase # "blocked"

(* With an idle timeout the send on jobs may block, but only because the   *)
(* channel still holds the job of a connection that was torn down: live    *)
(* connections alone never fill it.                                        *)
BlockedOnlyByGone ==
  phase = "blocked" /\ Len(jobs) = JobsCap /\ JobsCap >= MaxConns =>
    \E i \in DOMAIN jobs : ~Usable(jobs[i].id)

(* The buffers an operation uses belong to a connection that is still in   *)
(* the table until the operation's completion is harvested.                *)
BuffersOutliveOps ==
  Running => \A o \in sq \cup kops : o.op \in DataOps => o.id \in conns

(* A step of the ring thread never prepares an operation for a connection  *)
(* that is closing or gone, other than the closes of its own teardown.     *)
NoPostAfterClose ==
  [][\A o \in sq' \ sq : o.op \in DataOps =>
       o.id \in conns' /\ ~conn'[o.id].closing]_vars

(* A hook is handed the address of its own client (PeerOf, worker.go:150,  *)
(* looks it up when the job is taken, not when it is queued), except when  *)
(* the idle sweep tore the connection down while its job waited: then the  *)
(* descriptor may be closed, or already be another client's.               *)
Swept(c) == \E i \in DOMAIN charge[c] : charge[c][i] = "idle"

PeerIsOwn == \A h \in running : h.peer = "own" \/ Swept(h.id)

(* The ring thread is stuck for ever in the send on jobs (worker.go:320):  *)
(* the channel is full of jobs of connections that were swept, and no      *)
(* goroutine takes one because each is inside a hook that does not return. *)
StuckInSend == <>[](phase = "blocked")

(* A torn-down connection leaves the table, or the worker has failed, or   *)
(* its thread is stuck in the send on jobs.                                *)
ClosingEnds ==
  \/ StuckInSend
  \/ \A c \in Ids :
       (c \in conns /\ conn[c].closing) ~> (c \notin conns \/ ~Running)

(* With an idle timeout, Stop drains: the worker exits although peers and  *)
(* hooks may stay silent for ever.  Two things keep it from exiting:       *)
(* traffic that keeps refreshing some connection, and a ring thread stuck  *)
(* in the send on jobs, which hooks that never return can bring about.     *)
Refresh == \E c \in conns : conn[c].age > 0 /\ conn'[c].age = 0 /\ c \in conns'

StopDrains == []<><<Refresh>>_vars \/ StuckInSend \/ (stop ~> ~Running)
=============================================================================
