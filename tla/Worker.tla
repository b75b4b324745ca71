------------------------------- MODULE Worker --------------------------------
(***************************************************************************)
(* One ring worker of the relay engine: runWorker in                       *)
(* src/flashrelay/worker.go, with its connection table, its operations in  *)
(* the ring, its hook goroutines, its idle sweep, its counters and its     *)
(* exit.  One action per completion handler; a handler runs on the ring    *)
(* thread and is atomic with respect to the other handlers, while the      *)
(* kernel, the hooks and Stop move at any time.                            *)
(*                                                                         *)
(* Abstractions.  Byte counts are reduced to what the handlers branch on:  *)
(* a completion failed, hit end of stream, moved part or moved all of its  *)
(* buffer.  Times are counted in timer ticks and kept relative to the last *)
(* refresh.  The bridge is the mailbox that Bridge.tla implements: its     *)
(* read completes when results are ready and the handler drains them all.  *)
(* The submission queue never fills (Config.RingSize is large).            *)
(*                                                                         *)
(* A definition marked as a seeded fault is a wrong variant of the one it  *)
(* stands before and is used by nothing: it serves to check that the       *)
(* properties notice such a fault.                                         *)
(***************************************************************************)
EXTENDS Integers, Sequences, FiniteSets

CONSTANTS
  MaxConns,       \* Config.MaxConns
  AcceptBatch,    \* Config.AcceptBatch
  HookWorkers,    \* Config.HookWorkers
  JobsCap,        \* capacity of the jobs channel (65536 in the code)
  IdleTicks,      \* Config.IdleTimeout in ticks, 0 when disabled
  SweepEvery,     \* ticks between two idle sweeps (10 in the code)
  MaxFD,          \* descriptors the process may open besides its own
  Decisions,      \* the decisions hooks return
  MaxId,          \* bound: connections that are accepted in a behaviour
  BatchMax        \* bound: completions harvested by one turn of the loop

Kinds == {"reject", "more", "relay"}

ASSUME ConstantsAssumption ==
  /\ MaxConns \in Nat \ {0}
  /\ AcceptBatch \in Nat \ {0}
  /\ HookWorkers \in Nat \ {0}
  /\ JobsCap \in Nat \ {0}
  /\ IdleTicks \in Nat
  /\ SweepEvery \in Nat \ {0}
  /\ MaxFD \in Nat
  /\ Decisions \subseteq [kind : Kinds, dials : BOOLEAN, reply : BOOLEAN]
  /\ MaxId \in Nat
  /\ BatchMax \in Nat \ {0}

Ids == 1..MaxId
FDs == 1..MaxFD
NoFD == 0

VARIABLES
  phase,          \* "wait" in Submit(1), "batch" in the loop body, "blocked"
                  \* in the send on jobs, "exited", or "failed"
  stop,           \* Server.stop
  acceptInflight, \* accepts prepared or submitted and not harvested
  nextID,         \* connections admitted so far
  conns,          \* ids in the conns map
  conn,           \* the conn structs
  tick,           \* timer ticks, modulo SweepEvery
  sq,             \* operations prepared since the last Submit
  kops,           \* operations the kernel holds
  batch,          \* completions harvested by this turn, not handled yet
  drained,        \* results of br.drain() not applied yet
  blockedOn,      \* the connection whose job does not fit into jobs, or 0
  openFDs,        \* descriptors open in the process
  jobs,           \* the jobs channel
  running,        \* hooks in progress
  ready,          \* results in the bridge
  live,           \* counters.live
  charge          \* for each id, the terminal buckets it was charged to

vars == <<phase, stop, acceptInflight, nextID, conns, conn, tick, sq,
          kops, batch, drained, blockedOn, openFDs, jobs, running, ready,
          live, charge>>

(* The loop's own variables, the connection table, the hook pipeline. *)
ringVars == <<phase, stop, acceptInflight, nextID, tick, kops>>
tableVars == <<conns, conn, sq, live, charge>>
hookVars == <<jobs, running, ready>>

-----------------------------------------------------------------------------
(* Operations in the ring: the type and id of user_data, and the           *)
(* descriptor.  Accepts are counted by acceptInflight; an opAccept element *)
(* is an accept that has completed.                                        *)

PreRelayOps == {"opRecvReq", "opReplyClient", "opReplyMore", "opSendUp",
                "opRejectSend"}
C2UOps == {"opC2URecv", "opC2USend"}
U2COps == {"opU2CRecv", "opU2CSend"}
DataOps == PreRelayOps \cup C2UOps \cup U2COps
OpTypes == DataOps \cup {"opAccept", "opEventfd", "opClose", "opTimeout"}

Ops == [id : 0..MaxId, op : OpTypes, fd : 0..MaxFD]

Op(c, k, fd) == [id |-> c, op |-> k, fd |-> fd]
EventfdOp == Op(0, "opEventfd", NoFD)
TimeoutOp == Op(0, "opTimeout", NoFD)

Conn == [clientFD : 0..MaxFD, upstreamFD : 0..MaxFD, closing : BOOLEAN,
         closesLeft : Int, relayStarted : BOOLEAN, counted : BOOLEAN,
         age : 0..(IdleTicks + 1), clientReadDone : BOOLEAN,
         upstreamReadDone : BOOLEAN]

(* A conn struct as opAccept makes it; age is tick - lastTick, cut off at  *)
(* the first value the sweep acts on.                                      *)
NewConn(fd) ==
  [clientFD |-> fd, upstreamFD |-> NoFD, closing |-> FALSE, closesLeft |-> 0,
   relayStarted |-> FALSE, counted |-> FALSE, age |-> 0,
   clientReadDone |-> FALSE, upstreamReadDone |-> FALSE]

NoConn == NewConn(NoFD)

(* Seeded fault: the closing check is forgotten. *)
UsableWhileClosing(c) == c \in conns

(* The guard at the head of every data handler: cc == nil || cc.closing. *)
Usable(c) == c \in conns /\ ~conn[c].closing

(* Accepts that have completed and are not handled yet, and those of them  *)
(* that brought a connection.                                              *)
AcceptsDone == {o \in kops \cup batch : o.op = "opAccept"}
Accepted == {o \in AcceptsDone : o.fd # NoFD}

(* The kernel hands out the lowest free descriptor. *)
FreeFDs == FDs \ openFDs
LowestFree(f) == f \in FreeFDs /\ \A g \in FreeFDs : f <= g

(* The read of the eventfd and the timer are submitted; accepts follow at  *)
(* the end of the first turn.  A worker whose eventfd, ring or first       *)
(* Submit fails is gone at once.                                           *)
Init ==
  /\ phase \in {"wait", "failed"}
  /\ stop = FALSE
  /\ acceptInflight = 0
  /\ nextID = 0
  /\ conns = {}
  /\ conn = [c \in Ids |-> NoConn]
  /\ tick = 0
  /\ sq = {}
  /\ kops = {EventfdOp, TimeoutOp}
  /\ batch = {}
  /\ drained = <<>>
  /\ blockedOn = 0
  /\ openFDs = {}
  /\ jobs = <<>>
  /\ running = {}
  /\ ready = <<>>
  /\ live = 0
  /\ charge = [c \in Ids |-> <<>>]

-----------------------------------------------------------------------------
(* The closures of runWorker.  Each takes the connection and the struct as *)
(* the handler has changed it so far, and gives the new conns, conn, sq,   *)
(* live and charge.                                                        *)

(* Keep the connection and prepare the operations in P. *)
Proceed(c, r, P) ==
  /\ conn' = [conn EXCEPT ![c] = r]
  /\ sq' = sq \cup P
  /\ UNCHANGED <<conns, live, charge>>

CloseOps(c, r) == {Op(c, "opClose", f) : f \in {r.clientFD, r.upstreamFD} \ {NoFD}}

(* Seeded fault: two closes are expected whatever was opened. *)
ClosingBoth(r) == [r EXCEPT !.closing = TRUE, !.closesLeft = 2]

Closing(r) ==
  [r EXCEPT !.closing = TRUE,
            !.closesLeft = (IF r.clientFD # NoFD THEN 1 ELSE 0)
                             + (IF r.upstreamFD # NoFD THEN 1 ELSE 0)]

(* closeConn, after charging the buckets in B.  Its early return for a     *)
(* closing connection is never taken: every caller has checked closing.    *)
closeConn(c, r, B) ==
  /\ conns' = IF CloseOps(c, r) = {} THEN conns \ {c} ELSE conns
  /\ conn' = [conn EXCEPT ![c] = Closing(r)]
  /\ sq' = sq \cup CloseOps(c, r)
  /\ live' = live - 1
  /\ charge' = [charge EXCEPT ![c] = @ \o B]

(* Seeded fault: counted is not set. *)
failUncounted(c, r) == closeConn(c, r, IF r.counted THEN <<>> ELSE <<"error">>)

fail(c, r) ==
  closeConn(c, [r EXCEPT !.counted = TRUE],
            IF r.counted THEN <<>> ELSE <<"error">>)

startDuplex(c, r) ==
  Proceed(c, [r EXCEPT !.relayStarted = TRUE],
          {Op(c, "opC2URecv", r.clientFD), Op(c, "opU2CRecv", r.upstreamFD)})

(* Straight to duplex when the hook consumed the whole request. *)
forwardInit(c, r) ==
  \/ startDuplex(c, r)
  \/ Proceed(c, r, {Op(c, "opSendUp", r.upstreamFD)})

-----------------------------------------------------------------------------
(* Environment: the kernel, the hooks and the caller of Stop.              *)

Running == phase \in {"wait", "batch", "blocked"}

(* A submitted accept completes: a client arrived and got descriptor f, or *)
(* the accept failed (f is NoFD).  Accepts are prepared right before       *)
(* Submit, so all in flight are submitted whenever the kernel runs.  At    *)
(* most one failed accept waits at a time.                                 *)
KernelAccept(f) ==
  /\ Running
  /\ Cardinality(AcceptsDone) < acceptInflight
  /\ f # NoFD => LowestFree(f) /\ nextID + Cardinality(Accepted) < MaxId
  /\ Op(0, "opAccept", f) \notin kops \cup batch
  /\ openFDs' = openFDs \cup ({f} \ {NoFD})
  /\ kops' = kops \cup {Op(0, "opAccept", f)}
  /\ UNCHANGED <<phase, stop, acceptInflight, nextID, tableVars, tick,
                 batch, drained, blockedOn, hookVars>>

(* Whose address getpeername(fd) yields for a queued job: the connection's *)
(* own client while its descriptor is open, afterwards nobody's, or that   *)
(* of whatever socket got the number.                                      *)
PeerOf(j) ==
  IF j.id \in conns /\ (conn[j.id].closing => Op(j.id, "opClose", j.fd) \in sq)
    THEN "own"
    ELSE IF j.fd \in openFDs THEN "other" ELSE "none"

(* An idle hook goroutine takes a job and looks up its peer. *)
HookTake ==
  /\ jobs # <<>>
  /\ Cardinality(running) < HookWorkers
  /\ running' = running \cup {[id |-> Head(jobs).id, peer |-> PeerOf(Head(jobs))]}
  /\ jobs' = Tail(jobs)
  /\ UNCHANGED <<ringVars, tableVars, batch, drained, blockedOn, openFDs,
                 ready>>

(* The hook returns decision d, for which it may have dialled an upstream, *)
(* and the goroutine pushes it into the bridge.                            *)
HookReturn(h, d, f) ==
  /\ h \in running
  /\ IF d.dials THEN LowestFree(f) ELSE f = NoFD
  /\ openFDs' = openFDs \cup ({f} \ {NoFD})
  /\ ready' = Append(ready, [id |-> h.id, kind |-> d.kind,
                             reply |-> d.reply, fd |-> f])
  /\ running' = running \ {h}
  /\ UNCHANGED <<ringVars, tableVars, batch, drained, blockedOn, jobs>>

Stop ==
  /\ ~stop
  /\ stop' = TRUE
  /\ UNCHANGED <<phase, acceptInflight, nextID, tableVars, tick, kops,
                 batch, drained, blockedOn, openFDs, hookVars>>

-----------------------------------------------------------------------------
(* The turn of the main loop.                                              *)

(* Submit(1) returns with completions to harvest.  The kernel completes    *)
(* operations in any order; those on a descriptor closed in the meantime   *)
(* complete too, late or never, because close does not cancel them.  The   *)
(* read of the eventfd completes when the bridge holds results.            *)
Completable == {o \in kops : o.op = "opEventfd" => ready # <<>>}

Wake(B) ==
  /\ phase = "wait"
  /\ B \subseteq Completable
  /\ B # {}
  /\ phase' = "batch"
  /\ batch' = B
  /\ kops' = kops \ B
  /\ UNCHANGED <<stop, acceptInflight, nextID, tableVars, tick,
                 drained, blockedOn, openFDs, hookVars>>

BatchHandled == phase = "batch" /\ batch = {} /\ drained = <<>>

(* Seeded fault: the top-up looks at AcceptBatch only. *)
TopUpUncapped == IF acceptInflight < AcceptBatch THEN AcceptBatch ELSE acceptInflight

(* for acceptInflight < AcceptBatch && len(conns)+acceptInflight < MaxConns *)
TopUp ==
  LET room == MaxConns - Cardinality(conns)
      goal == IF AcceptBatch < room THEN AcceptBatch ELSE room
  IN  IF acceptInflight < goal THEN goal ELSE acceptInflight

EndOfTurn ==
  /\ BatchHandled
  /\ ~(stop /\ conns = {})
  /\ acceptInflight' = IF stop THEN acceptInflight ELSE TopUp

(* The end of a turn without exit, and the Submit of the next one: closes  *)
(* take effect, the other operations wait in the kernel.                   *)
Turn ==
  /\ EndOfTurn
  /\ kops' = kops \cup sq
  /\ sq' = {}
  /\ openFDs' = openFDs \ {o.fd : o \in {p \in sq : p.op = "opClose"}}
  /\ phase' = "wait"
  /\ UNCHANGED <<stop, nextID, conns, conn, tick, batch, drained, blockedOn,
                 hookVars, live, charge>>

(* As Turn, but io_uring_enter fails: the worker logs and returns. *)
SubmitFails ==
  /\ EndOfTurn
  /\ phase' = "failed"
  /\ UNCHANGED <<stop, nextID, tableVars, tick, kops, batch, drained,
                 blockedOn, openFDs, hookVars>>

(* Drained: the worker returns and its ring is closed, with the operations *)
(* still in it.                                                            *)
Exit ==
  /\ BatchHandled
  /\ stop /\ conns = {}
  /\ phase' = "exited"
  /\ kops' = {}
  /\ sq' = {}
  /\ UNCHANGED <<stop, acceptInflight, nextID, conns, conn, tick,
                 batch, drained, blockedOn, openFDs, hookVars, live, charge>>

-----------------------------------------------------------------------------
(* Completion handlers.  A handler takes one completion o of the batch.    *)

Harvest(o) ==
  /\ phase = "batch"
  /\ drained = <<>>
  /\ o \in batch
  /\ batch' = batch \ {o}

(* What a data handler leaves alone, besides what its closures decide. *)
Elsewhere == UNCHANGED <<ringVars, drained, blockedOn, openFDs, hookVars>>

(* A data handler that finds its connection gone or closing does nothing. *)
Stale(o) ==
  /\ Harvest(o)
  /\ o.op \in DataOps
  /\ ~Usable(o.id)
  /\ Elsewhere
  /\ UNCHANGED tableVars

(* Seeded fault: a failed accept is subtracted a second time. *)
OnAcceptTwice(o) ==
  /\ Harvest(o)
  /\ o.op = "opAccept"
  /\ acceptInflight' = acceptInflight - (IF o.fd = NoFD THEN 2 ELSE 1)
  /\ IF o.fd = NoFD
       THEN UNCHANGED <<nextID, conns, conn, sq, live>>
       ELSE /\ nextID' = nextID + 1
            /\ conns' = conns \cup {nextID'}
            /\ conn' = [conn EXCEPT ![nextID'] = NewConn(o.fd)]
            /\ live' = live + 1
            /\ sq' = sq \cup {Op(nextID', "opRecvReq", o.fd)}
  /\ UNCHANGED <<phase, stop, tick, kops, drained, blockedOn, openFDs,
                 hookVars, charge>>

OnAccept(o) ==
  /\ Harvest(o)
  /\ o.op = "opAccept"
  /\ acceptInflight' = acceptInflight - 1
  /\ IF o.fd = NoFD
       THEN UNCHANGED <<nextID, conns, conn, sq, live>>  \* counters.errors
       ELSE IF Cardinality(conns) >= MaxConns
         THEN /\ sq' = sq \cup {Op(0, "opClose", o.fd)}  \* shed
              /\ UNCHANGED <<nextID, conns, conn, live>>
         ELSE /\ nextID' = nextID + 1
              /\ conns' = conns \cup {nextID'}
              /\ conn' = [conn EXCEPT ![nextID'] = NewConn(o.fd)]
              /\ live' = live + 1
              /\ sq' = sq \cup {Op(nextID', "opRecvReq", o.fd)}
  /\ UNCHANGED <<phase, stop, tick, kops, drained, blockedOn, openFDs,
                 hookVars, charge>>

OnData(o, K) == Harvest(o) /\ o.op \in K /\ Usable(o.id)

(* A completion without error; an operation on no descriptor always fails. *)
OnSuccess(o, K) == OnData(o, K) /\ o.fd # NoFD /\ Elsewhere

(* res < 0; res = 0 too for the pre-relay reads and for all sends. *)
OnFailure(o) ==
  /\ OnData(o, DataOps \ {"opRejectSend"})
  /\ fail(o.id, conn[o.id])
  /\ Elsewhere

Refreshed(c) == [conn[c] EXCEPT !.age = 0]

(* Seeded fault: the next read is posted while the hook has the request. *)
OnRecvReqRearmed(o) ==
  /\ OnData(o, {"opRecvReq"})
  /\ o.fd # NoFD
  /\ Proceed(o.id, Refreshed(o.id), {o})
  /\ IF Len(jobs) < JobsCap
       THEN /\ jobs' = Append(jobs, [id |-> o.id, fd |-> conn[o.id].clientFD])
            /\ UNCHANGED <<phase, blockedOn>>
       ELSE /\ phase' = "blocked"
            /\ blockedOn' = o.id
            /\ UNCHANGED jobs
  /\ UNCHANGED <<stop, acceptInflight, nextID, tick, kops, drained,
                 openFDs, running, ready>>

(* opRecvReq: queue the hook's job; the ring thread waits while the        *)
(* channel is full.                                                        *)
OnRecvReq(o) ==
  /\ OnData(o, {"opRecvReq"})
  /\ o.fd # NoFD
  /\ Proceed(o.id, Refreshed(o.id), {})
  /\ IF Len(jobs) < JobsCap
       THEN /\ jobs' = Append(jobs, [id |-> o.id, fd |-> conn[o.id].clientFD])
            /\ UNCHANGED <<phase, blockedOn>>
       ELSE /\ phase' = "blocked"
            /\ blockedOn' = o.id
            /\ UNCHANGED jobs
  /\ UNCHANGED <<stop, acceptInflight, nextID, tick, kops, drained,
                 openFDs, running, ready>>

(* The blocked send on jobs goes through. *)
Unblock ==
  /\ phase = "blocked"
  /\ Len(jobs) < JobsCap
  /\ jobs' = Append(jobs, [id |-> blockedOn, fd |-> conn[blockedOn].clientFD])
  /\ phase' = "batch"
  /\ blockedOn' = 0
  /\ UNCHANGED <<stop, acceptInflight, nextID, tableVars, tick, kops,
                 batch, drained, openFDs, running, ready>>

(* A send that moved only part of its buffer is prepared again. *)
SendOps == {"opReplyClient", "opReplyMore", "opRejectSend", "opSendUp",
            "opC2USend", "opU2CSend"}

(* Seeded fault: the rest of a short send is dropped. *)
OnPartialSendDropped(o) ==
  /\ OnSuccess(o, SendOps)
  /\ Proceed(o.id, conn[o.id], {})

OnPartialSend(o) ==
  /\ OnSuccess(o, SendOps)
  /\ Proceed(o.id, conn[o.id], {o})

OnReplyClient(o) ==
  /\ OnSuccess(o, {"opReplyClient"})
  /\ forwardInit(o.id, conn[o.id])

OnReplyMore(o) ==
  /\ OnSuccess(o, {"opReplyMore"})
  /\ Proceed(o.id, conn[o.id], {Op(o.id, "opRecvReq", conn[o.id].clientFD)})

(* opRejectSend: sent or failed, the connection is closed. *)
OnRejectSend(o) ==
  /\ OnData(o, {"opRejectSend"})
  /\ closeConn(o.id, conn[o.id], <<>>)
  /\ Elsewhere

OnSendUp(o) ==
  /\ OnSuccess(o, {"opSendUp"})
  /\ startDuplex(o.id, conn[o.id])

(* Relay phase.  Each direction alternates between one read and one send   *)
(* of its buffer.  End of stream shuts down the other side's write half;   *)
(* the connection closes when both directions have ended.                  *)
OnC2URecv(o) ==
  /\ OnSuccess(o, {"opC2URecv"})
  /\ Proceed(o.id, Refreshed(o.id), {Op(o.id, "opC2USend", conn[o.id].upstreamFD)})

(* Seeded fault: no half-close, the client's end of stream closes both. *)
OnC2UEndClosesBoth(o) ==
  /\ OnSuccess(o, {"opC2URecv"})
  /\ closeConn(o.id, [conn[o.id] EXCEPT !.clientReadDone = TRUE], <<>>)

OnC2UEnd(o) ==
  /\ OnSuccess(o, {"opC2URecv"})
  /\ LET r == [conn[o.id] EXCEPT !.clientReadDone = TRUE]
     IN  IF r.upstreamReadDone THEN closeConn(o.id, r, <<>>)
                               ELSE Proceed(o.id, r, {})

OnC2USend(o) ==
  /\ OnSuccess(o, {"opC2USend"})
  /\ Proceed(o.id, conn[o.id],
             IF conn[o.id].clientReadDone THEN {}
             ELSE {Op(o.id, "opC2URecv", conn[o.id].clientFD)})

OnU2CRecv(o) ==
  /\ OnSuccess(o, {"opU2CRecv"})
  /\ Proceed(o.id, Refreshed(o.id), {Op(o.id, "opU2CSend", conn[o.id].clientFD)})

OnU2CEnd(o) ==
  /\ OnSuccess(o, {"opU2CRecv"})
  /\ LET r == [conn[o.id] EXCEPT !.upstreamReadDone = TRUE]
     IN  IF r.clientReadDone THEN closeConn(o.id, r, <<>>)
                             ELSE Proceed(o.id, r, {})

OnU2CSend(o) ==
  /\ OnSuccess(o, {"opU2CSend"})
  /\ Proceed(o.id, conn[o.id],
             IF conn[o.id].upstreamReadDone THEN {}
             ELSE {Op(o.id, "opU2CRecv", conn[o.id].upstreamFD)})

(* opClose: the last close deletes the connection, and charges Completed   *)
(* to one that was relaying and is not charged yet.                        *)
OnClose(o) ==
  /\ Harvest(o)
  /\ o.op = "opClose"
  /\ LET c == o.id
     IN  IF c \notin conns
           THEN UNCHANGED <<conns, conn, charge>>
           ELSE IF conn[c].closesLeft - 1 <= 0
             THEN /\ conns' = conns \ {c}
                  /\ conn' = [conn EXCEPT ![c] = NoConn]
                  /\ charge' = [charge EXCEPT ![c] =
                       IF ~conn[c].counted /\ conn[c].relayStarted
                         THEN Append(@, "completed") ELSE @]
             ELSE /\ conn' = [conn EXCEPT ![c].closesLeft = @ - 1]
                  /\ UNCHANGED <<conns, charge>>
  /\ UNCHANGED <<sq, live>>
  /\ Elsewhere

(* opTimeout: re-arm, count the tick, and on every SweepEvery-th tick      *)
(* close the connections that have been idle for too long.                 *)
Older(r) == IF r.age > IdleTicks \/ IdleTicks = 0 THEN r
            ELSE [r EXCEPT !.age = @ + 1]

(* Seeded faults: the sweep takes closing connections again, or skips the  *)
(* connections that are relaying.                                          *)
IdleAgain(c) == c \in conns /\ Older(conn[c]).age > IdleTicks
IdlePreRelay(c) ==
  Usable(c) /\ ~conn[c].relayStarted /\ Older(conn[c]).age > IdleTicks

Idle(c) == Usable(c) /\ Older(conn[c]).age > IdleTicks

OnTimeout(o) ==
  /\ Harvest(o)
  /\ o.op = "opTimeout"
  /\ tick' = (tick + 1) % SweepEvery
  /\ LET S == IF IdleTicks > 0 /\ tick' = 0 THEN {c \in conns : Idle(c)} ELSE {}
     IN  /\ conn' = [c \in Ids |->
              IF c \in S THEN Closing([Older(conn[c]) EXCEPT !.counted = TRUE])
              ELSE IF c \in conns THEN Older(conn[c]) ELSE conn[c]]
         /\ conns' = {c \in conns : c \in S => CloseOps(c, conn[c]) # {}}
         /\ sq' = sq \cup {TimeoutOp} \cup UNION {CloseOps(c, conn[c]) : c \in S}
         /\ live' = live - Cardinality(S)
         /\ charge' = [c \in Ids |->
              IF c \in S THEN Append(charge[c], "idle") ELSE charge[c]]
  /\ UNCHANGED <<phase, stop, acceptInflight, nextID, kops, drained,
                 blockedOn, openFDs, hookVars>>

(* opEventfd: re-arm the read and drain the bridge; the results are then   *)
(* applied one by one before the next completion is handled.               *)
OnEventfd(o) ==
  /\ Harvest(o)
  /\ o.op = "opEventfd"
  /\ sq' = sq \cup {EventfdOp}
  /\ drained' = ready
  /\ ready' = <<>>
  /\ UNCHANGED <<ringVars, conns, conn, blockedOn, openFDs, jobs, running,
                 live, charge>>

(* One drained result.  An upstream that is not adopted is closed at once. *)
Applying ==
  /\ phase = "batch"
  /\ drained # <<>>
  /\ drained' = Tail(drained)
  /\ UNCHANGED <<ringVars, batch, blockedOn, hookVars>>

(* Seeded fault: the upstream of a late result is not closed. *)
ApplyLateLeaks ==
  /\ Applying
  /\ ~Usable(Head(drained).id)
  /\ UNCHANGED <<openFDs, tableVars>>

ApplyLate ==
  /\ Applying
  /\ ~Usable(Head(drained).id)
  /\ openFDs' = openFDs \ {Head(drained).fd}
  /\ UNCHANGED tableVars

ApplyTo(kind) ==
  /\ Applying
  /\ Usable(Head(drained).id)
  /\ Head(drained).kind = kind

ApplyReject ==
  /\ ApplyTo("reject")
  /\ openFDs' = openFDs \ {Head(drained).fd}
  /\ LET c  == Head(drained).id
         cc == [Refreshed(c) EXCEPT !.counted = TRUE]
     IN  IF Head(drained).reply
           THEN /\ conn' = [conn EXCEPT ![c] = cc]
                /\ sq' = sq \cup {Op(c, "opRejectSend", cc.clientFD)}
                /\ charge' = [charge EXCEPT ![c] = Append(@, "rejected")]
                /\ UNCHANGED <<conns, live>>
           ELSE closeConn(c, cc, <<"rejected">>)

(* growReq succeeds or finds the buffer full at Config.MaxReqLen. *)
ApplyMore ==
  /\ ApplyTo("more")
  /\ openFDs' = openFDs \ {Head(drained).fd}
  /\ LET c  == Head(drained).id
         cc == Refreshed(c)
         k  == IF Head(drained).reply THEN "opReplyMore" ELSE "opRecvReq"
     IN  fail(c, cc) \/ Proceed(c, cc, {Op(c, k, cc.clientFD)})

(* The upstream descriptor becomes the connection's own. *)
ApplyRelay ==
  /\ ApplyTo("relay")
  /\ UNCHANGED openFDs
  /\ LET c  == Head(drained).id
         cc == [Refreshed(c) EXCEPT !.upstreamFD = Head(drained).fd]
     IN  IF Head(drained).reply
           THEN Proceed(c, cc, {Op(c, "opReplyClient", cc.clientFD)})
           ELSE forwardInit(c, cc)

-----------------------------------------------------------------------------
Kernel == \E f \in 0..MaxFD : KernelAccept(f)

Hook ==
  \/ HookTake
  \/ \E h \in running, d \in Decisions, f \in 0..MaxFD : HookReturn(h, d, f)

Relay(o) ==
  \/ OnC2URecv(o) \/ OnC2UEnd(o) \/ OnC2USend(o)
  \/ OnU2CRecv(o) \/ OnU2CEnd(o) \/ OnU2CSend(o)

Handshake(o) ==
  \/ OnRecvReq(o) \/ OnReplyClient(o) \/ OnReplyMore(o)
  \/ OnRejectSend(o) \/ OnSendUp(o)

Handle(o) ==
  \/ OnAccept(o) \/ OnClose(o) \/ OnTimeout(o) \/ OnEventfd(o)
  \/ Stale(o) \/ OnFailure(o) \/ OnPartialSend(o)
  \/ Handshake(o) \/ Relay(o)

ApplyResult == ApplyLate \/ ApplyReject \/ ApplyMore \/ ApplyRelay

RingThread ==
  \/ \E o \in batch : Handle(o)
  \/ ApplyResult
  \/ Unblock
  \/ Turn
  \/ Exit

Waking == \E B \in SUBSET Completable : Cardinality(B) <= BatchMax /\ Wake(B)

(* The worker is gone and its hooks have finished. *)
Terminated ==
  /\ phase \in {"exited", "failed"}
  /\ jobs = <<>> /\ running = {}
  /\ UNCHANGED vars

Next == Kernel \/ Hook \/ Stop \/ Waking \/ RingThread \/ SubmitFails \/ Terminated

SafeSpec == Init /\ [][Next]_vars

(* The ring thread runs.  The kernel completes the timer, the closes and   *)
(* the read of a raised eventfd, and a harvested batch is every completion *)
(* posted so far, so none of these waits for ever.  Reads, sends, accepts  *)
(* and hooks may take for ever.                                            *)
WakeWith(S) == Waking /\ S \cap batch' # {}

Fairness ==
  /\ WF_vars(RingThread)
  /\ WF_vars(Waking)
  /\ SF_vars(WakeWith({TimeoutOp}))
  /\ SF_vars(WakeWith({EventfdOp}))
  /\ \A c \in Ids : SF_vars(WakeWith({Op(c, "opClose", f) : f \in FDs}))

Spec == SafeSpec /\ Fairness

-----------------------------------------------------------------------------

Job == [id : Ids, fd : 0..MaxFD]
HookCall == [id : Ids, peer : {"own", "other", "none"}]
Result == [id : Ids, kind : Kinds, reply : BOOLEAN, fd : 0..MaxFD]
Buckets == {"rejected", "idle", "error", "completed"}

(* Types of the worker's state. *)
TypeOK ==
  /\ phase \in {"wait", "batch", "blocked", "exited", "failed"}
  /\ stop \in BOOLEAN
  /\ acceptInflight \in Nat
  /\ nextID \in 0..MaxId
  /\ conns \subseteq 1..nextID
  /\ conn \in [Ids -> Conn]
  /\ tick \in 0..(SweepEvery - 1)
  /\ sq \subseteq Ops /\ kops \subseteq Ops /\ batch \subseteq Ops
  /\ drained \in Seq(Result)
  /\ blockedOn \in (IF phase = "blocked" THEN Ids ELSE {0})
  /\ openFDs \subseteq FDs
  /\ jobs \in Seq(Job)
  /\ running \subseteq HookCall
  /\ ready \in Seq(Result)
  /\ live \in Int
  /\ charge \in [Ids -> Seq(Buckets)]
=============================================================================
