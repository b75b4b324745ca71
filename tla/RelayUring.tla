----------------------------- MODULE RelayUring ------------------------------
(***************************************************************************)
(* One worker of the benchmark relay                                       *)
(* src/research/gate/cmd/relay-uring/main.go: several listeners, a         *)
(* freelist of connection structs, and three ways of serving a connection  *)
(* ("churn": one request and one reply; "duplex": a copying relay;         *)
(* "splice": a relay through two kernel pipes).                            *)
(*                                                                         *)
(* A handler runs on the ring thread and is atomic; the kernel and the     *)
(* hook goroutines move at any time.  Operations name descriptors by       *)
(* number until they are submitted and hold open files from then on, which *)
(* is what makes the reuse of numbers visible.  Byte counts are reduced to *)
(* -1 (error), 0 (end of stream), 1 (some) and 2 (all of a send); the      *)
(* bridge is the mailbox of Mailbox.tla, which the bridge of this program, *)
(* the same code as the engine's, implements.  The submission queue never  *)
(* fills (4096 entries), and the fatal exits of the process are left out.  *)
(***************************************************************************)
EXTENDS Integers, Sequences, FiniteSets

CONSTANTS
  Configs,        \* the configurations that are explored
  JobsCap,        \* capacity of the jobs channel (65536 in the code)
  CQMax           \* bound: completions waiting in the ring

(* relayCfg: the mode (-duplex, -splice), the number of listeners (-ports), *)
(* -acceptbatch, -maxconns and -hookworkers.  fds bounds the descriptors   *)
(* the process may open besides its own, accepts the clients of a          *)
(* behaviour.                                                              *)
ModeNames == {"churn", "duplex", "splice"}
relayCfg == [mode : ModeNames, ports : Nat \ {0}, acceptBatch : Nat \ {0},
             maxConns : Nat \ {0}, hookWorkers : Nat \ {0}, fds : Nat,
             accepts : Nat]

ASSUME RelayAssumption ==
  /\ Configs \subseteq relayCfg
  /\ JobsCap \in Nat /\ CQMax \in Nat \ {0}

VARIABLES
  c,              \* the configuration, which never changes
  waiting,        \* the ring thread is inside Submit(1)
  left,           \* completions of this turn not handled yet
  acceptInflight, \* accepts in flight, per listener
  totalAccepts,   \* accepts in flight
  accepted,       \* clients accepted (the counter of the code)
  completed,      \* connections served (the counter of the code)
  nextID,         \* ids handed out
  conns,          \* the table: the struct that serves an id, 0 for none
  cell,           \* the conn structs
  made,           \* structs allocated so far
  connFree,       \* the freelist
  sq,             \* operations prepared since the last Submit
  kops,           \* the bag of operations the kernel holds, with their files
  armed,          \* accepts the kernel holds, per listener
  cq,             \* completions not handled yet, oldest first
  fdt,            \* the descriptor table: the connection a number belongs to
  jobs,           \* the jobs channel
  running,        \* connections whose hook is in progress
  ready,          \* results in the bridge
  drained         \* results of br.drain() not applied yet

vars == <<c, waiting, left, acceptInflight, totalAccepts, accepted, completed,
          nextID, conns, cell, made, connFree, sq, kops, armed, cq, fdt, jobs,
          running, ready, drained>>

tableVars == <<conns, cell, made, connFree, nextID>>
hookVars == <<jobs, running, ready, drained>>
acceptVars == <<acceptInflight, totalAccepts, accepted>>
counters == <<acceptVars, completed>>
loopVars == <<c, waiting, left, counters>>
kernelVars == <<kops, armed>>

mode == c.mode
NListeners == c.ports
MaxConns == c.maxConns
Listeners == 1..NListeners
Ids == 1..c.accepts
FDs == 1..c.fds
NoFD == 0
Dirs == {"c2u", "u2c"}
NoDir == "none"
Free == -1        \* a number that is not open; 0 is a client not admitted yet

Larger(x, y) == IF x > y THEN x ELSE y
Smaller(x, y) == IF x < y THEN x ELSE y

-----------------------------------------------------------------------------
(* Operations, connections, descriptors.                                   *)

RelayOps == {"Recv", "Send", "SpliceIn", "SpliceOut"}
ChurnOps == {"RecvReq", "SendUp", "RecvResp", "SendClient"}
OpNames == {"Accept", "Eventfd", "Timeout", "Close"} \cup RelayOps \cup ChurnOps

(* What user_data and the prepared entry say: fds are the descriptors it   *)
(* names, buf is the struct whose buffer it reads or writes, 0 for none.   *)
Ops == [op : OpNames, dir : Dirs \cup {NoDir}, id : Nat, fds : SUBSET Nat, buf : Nat]
Op(o, d, i, fds, b) == [op |-> o, dir |-> d, id |-> i, fds |-> fds, buf |-> b]

AcceptOp(k) == Op("Accept", NoDir, k, {}, 0)
EventfdOp == Op("Eventfd", NoDir, 0, {}, 0)
TimeoutOp == Op("Timeout", NoDir, 0, {}, 0)
CloseOp(i, fd) == Op("Close", NoDir, i, {fd}, 0)

NoPipe == [r |-> NoFD, w |-> NoFD]

Blank == [id |-> 0, client |-> NoFD, up |-> NoFD, closing |-> FALSE,
          closesLeft |-> 0, done |-> [d \in Dirs |-> FALSE],
          pipe |-> [d \in Dirs |-> NoPipe]]

Live == {i \in Ids : conns[i] # 0}
Cc(i) == cell[conns[i]]

From(cc, d) == IF d = "c2u" THEN cc.client ELSE cc.up
To(cc, d) == IF d = "c2u" THEN cc.up ELSE cc.client
Other(d) == IF d = "c2u" THEN "u2c" ELSE "c2u"

RecvOp(i, d) == Op("Recv", d, i, {From(Cc(i), d)}, conns[i])
SendOp(i, d) == Op("Send", d, i, {To(Cc(i), d)}, conns[i])
FillOp(cc, i, d) == Op("SpliceIn", d, i, {From(cc, d), cc.pipe[d].w}, 0)
DrainOp(cc, i, d) == Op("SpliceOut", d, i, {cc.pipe[d].r, To(cc, d)}, 0)

PipeEnds(cc) == (UNION {{cc.pipe[d].r, cc.pipe[d].w} : d \in Dirs}) \ {NoFD}

FreeFDs == {f \in FDs : fdt[f] = Free}
Lowest(S) == CHOOSE f \in S : \A g \in S : f <= g

(* An operation as the kernel takes it: numbers become open files. *)
Held(o) == [o |-> o, files |-> {fdt[f] : f \in o.fds}]

PerLn == Larger(1, c.acceptBatch \div NListeners)

(* How many elements of a sequence are in V. *)
At(s, V) == {j \in DOMAIN s : s[j] \in V}
Occurs(s, V) == Cardinality(At(s, V))

-----------------------------------------------------------------------------
(* The worker before its first wait: one accept per listener whatever the  *)
(* cap, the read of the eventfd, the timer.                                *)
Init ==
  /\ c \in Configs
  /\ waiting = TRUE /\ left = 0
  /\ acceptInflight = [k \in Listeners |-> 1] /\ totalAccepts = NListeners
  /\ accepted = 0 /\ completed = 0 /\ nextID = 0
  /\ conns = [i \in Ids |-> 0]
  /\ cell = [s \in Ids |-> Blank]
  /\ made = 0 /\ connFree = <<>>
  /\ sq = <<>> /\ cq = <<>>
  /\ fdt = [f \in FDs |-> Free]
  /\ kops = [h \in {Held(EventfdOp), Held(TimeoutOp)} |-> 1]
  /\ armed = [k \in Listeners |-> 1]
  /\ jobs = <<>> /\ running = {} /\ ready = <<>> /\ drained = <<>>

-----------------------------------------------------------------------------
(* The kernel.                                                             *)

(* Completions arrive while the ring thread waits: one that arrives while  *)
(* it handles others is taken to arrive right after them.  Timers and      *)
(* failed accepts only come alone, as their handlers change nothing else.  *)
Complete(o, res) ==
  /\ waiting /\ Len(cq) < CQMax
  /\ cq' = Append(cq, [o |-> o, res |-> res])
  /\ UNCHANGED <<loopVars, sq, tableVars, hookVars>>

(* One copy of an operation leaves the kernel. *)
Take(h) ==
  /\ kops' = [g \in {g \in DOMAIN kops : g = h => kops[g] > 1} |->
                IF g = h THEN kops[g] - 1 ELSE kops[g]]
  /\ UNCHANGED armed

TakeAccept(k) ==
  /\ armed[k] > 0
  /\ armed' = [armed EXCEPT ![k] = @ - 1]
  /\ UNCHANGED kops

Completions == [o : Ops, res : Int]
Clients == {e \in Completions : e.o.op = "Accept" /\ e.res > 0}

(* A client arrives: the lowest free number is its descriptor. *)
KernelAccept(k) ==
  /\ accepted + Occurs(cq, Clients) < c.accepts
  /\ FreeFDs # {}
  /\ TakeAccept(k) /\ Complete(AcceptOp(k), Lowest(FreeFDs))
  /\ fdt' = [fdt EXCEPT ![Lowest(FreeFDs)] = 0]

(* An accept fails, for want of a descriptor among other reasons. *)
KernelAcceptFails(k) ==
  /\ cq = <<>>
  /\ TakeAccept(k) /\ Complete(AcceptOp(k), -1)
  /\ UNCHANGED fdt

(* The read of the eventfd completes when there are results, the timer at  *)
(* any time.                                                               *)
KernelWakes(h) ==
  /\ \/ h.o.op = "Timeout" /\ cq = <<>>
     \/ h.o.op = "Eventfd" /\ ready # <<>>
  /\ Take(h) /\ Complete(h.o, 1)
  /\ UNCHANGED fdt

KernelClose(h) ==
  /\ h.o.op = "Close"
  /\ Take(h) /\ Complete(h.o, 0)
  /\ fdt' = [f \in FDs |-> IF f \in h.o.fds THEN Free ELSE fdt[f]]

(* A read, a send or a splice ends.  Outcomes are told apart as far as the *)
(* handlers do: only the copying relay knows end of stream from error and  *)
(* a short send from a whole one, and for a connection that is being       *)
(* closed nobody looks.                                                    *)
Outcomes(h) ==
  IF Free \in h.files \/ h.o.id \notin Live \/ Cc(h.o.id).closing
  THEN {-1}
  ELSE CASE h.o.op = "Send" -> {-1, 1, 2}
         [] h.o.op = "Recv" -> {-1, 0, 1}
         [] OTHER -> {-1, 1}

KernelMoves(h) ==
  /\ h.o.op \notin {"Eventfd", "Timeout", "Close"}
  /\ Take(h) /\ \E res \in Outcomes(h) : Complete(h.o, res)
  /\ UNCHANGED fdt

-----------------------------------------------------------------------------
(* The hook goroutines: take a job, decide (dial), push the result.        *)

HookTake ==
  /\ jobs # <<>> /\ Cardinality(running) < c.hookWorkers
  /\ running' = running \cup {Head(jobs)}
  /\ jobs' = Tail(jobs)
  /\ UNCHANGED <<loopVars, sq, kernelVars, cq, fdt, ready, drained, tableVars>>

Push(i, fd) ==
  /\ running' = running \ {i}
  /\ ready' = Append(ready, [id |-> i, fd |-> fd])
  /\ UNCHANGED <<loopVars, sq, kernelVars, cq, jobs, drained, tableVars>>

HookDials(i) ==
  /\ FreeFDs # {}
  /\ Push(i, Lowest(FreeFDs))
  /\ fdt' = [fdt EXCEPT ![Lowest(FreeFDs)] = i]

HookFails(i) == Push(i, NoFD) /\ UNCHANGED fdt

-----------------------------------------------------------------------------
(* The ring thread's closures.                                             *)

Post(ops) == sq' = sq \o ops

(* Seeded fault: the struct that is handed out stays in the freelist. *)
getConnKeeps ==
  IF mode = "churn" /\ connFree # <<>>
  THEN [struct |-> connFree[Len(connFree)], rest |-> connFree, made |-> made]
  ELSE [struct |-> made + 1, rest |-> connFree, made |-> made + 1]

(* getConn: the struct to use, the freelist and the allocations after it. *)
getConn ==
  IF mode = "churn" /\ connFree # <<>>
  THEN [struct |-> connFree[Len(connFree)], rest |-> SubSeq(connFree, 1, Len(connFree) - 1),
        made |-> made]
  ELSE [struct |-> made + 1, rest |-> connFree, made |-> made + 1]

(* delete(conns, id) and putConn. *)
Forget(i) ==
  /\ conns' = [conns EXCEPT ![i] = 0]
  /\ IF mode = "churn"
     THEN cell' = [cell EXCEPT ![conns[i]] = Blank]
          /\ connFree' = Append(connFree, conns[i])
     ELSE UNCHANGED <<cell, connFree>>

(* Seeded fault: the upstream descriptor is not closed. *)
CloseOpsClient(i) == <<CloseOp(i, Cc(i).client)>>

CloseOps(i) ==
  (IF Cc(i).client > 0 THEN <<CloseOp(i, Cc(i).client)>> ELSE <<>>)
  \o (IF Cc(i).up > 0 THEN <<CloseOp(i, Cc(i).up)>> ELSE <<>>)

(* Seeded fault: the sockets are closed by the handler, like the pipes. *)
closeConnNow(i, cc) ==
  /\ fdt' = [f \in FDs |-> IF f \in PipeEnds(cc) \cup {cc.client, cc.up}
                          THEN Free ELSE fdt[f]]
  /\ Forget(i)
  /\ UNCHANGED sq

(* closeConn on a connection whose struct is cc, with the closing check. *)
closeConn(i, cc) ==
  IF cc.closing THEN UNCHANGED <<sq, fdt, conns, cell, connFree>>
  ELSE /\ Post(CloseOps(i))
       /\ fdt' = [f \in FDs |-> IF f \in PipeEnds(cc) THEN Free ELSE fdt[f]]
       /\ IF CloseOps(i) = <<>> THEN Forget(i)
          ELSE /\ cell' = [cell EXCEPT ![conns[i]] =
                    [cc EXCEPT !.closing = TRUE, !.closesLeft = Len(CloseOps(i))]]
               /\ UNCHANGED <<conns, connFree>>

-----------------------------------------------------------------------------
(* The main loop.  Wake: Submit(1) returns and CQReady is read.  Turn: the *)
(* batch is handled; the accepts are topped up, everything is submitted.   *)

Wake ==
  /\ waiting /\ cq # <<>>
  /\ waiting' = FALSE /\ left' = Len(cq)
  /\ UNCHANGED <<c, counters, sq, kernelVars, cq, fdt, tableVars, hookVars>>

Room == MaxConns - Cardinality(Live) - totalAccepts

(* Seeded fault: the top-up looks at each listener's own accepts only. *)
TopUpEach(upto) ==
  /\ upto[0] = 0
  /\ \A k \in Listeners :
       upto[k] = upto[k - 1]
         + Larger(0, Smaller(PerLn - acceptInflight[k],
                             MaxConns - Cardinality(Live) - acceptInflight[k]))

(* The accepts that the top-up adds: upto[k] to the listeners up to k. *)
TopUp(upto) ==
  /\ upto[0] = 0
  /\ \A k \in Listeners :
       upto[k] = upto[k - 1]
         + Larger(0, Smaller(PerLn - acceptInflight[k], Room - upto[k - 1]))

(* Submit hands what was prepared to the kernel. *)
Submitted(h) == Cardinality({j \in DOMAIN sq : Held(sq[j]) = h})

Turn ==
  /\ ~waiting /\ left = 0 /\ drained = <<>>
  /\ \E upto \in [0..NListeners -> 0..(NListeners * PerLn)] :
       /\ TopUp(upto)
       /\ acceptInflight' = [k \in Listeners |->
                               acceptInflight[k] + upto[k] - upto[k - 1]]
       /\ totalAccepts' = totalAccepts + upto[NListeners]
       /\ armed' = [k \in Listeners |-> armed[k] + upto[k] - upto[k - 1]]
  /\ kops' = [h \in DOMAIN kops \cup {Held(sq[j]) : j \in DOMAIN sq} |->
                (IF h \in DOMAIN kops THEN kops[h] ELSE 0) + Submitted(h)]
  /\ sq' = <<>> /\ waiting' = TRUE
  /\ UNCHANGED <<c, left, accepted, completed, cq, fdt, tableVars, hookVars>>

(* A handler of the completion at the head of the queue. *)
Handle(o) ==
  /\ left > 0 /\ drained = <<>> /\ Head(cq).o.op = o
  /\ left' = left - 1 /\ cq' = Tail(cq)
  /\ UNCHANGED <<c, waiting, kernelVars, running>>

Res == Head(cq).res
Cid == Head(cq).o.id
Dir == Head(cq).o.dir

-----------------------------------------------------------------------------
(* The handlers.                                                           *)

(* The accept is no longer in flight. *)
Harvest ==
  /\ Handle("Accept")
  /\ acceptInflight' = [acceptInflight EXCEPT ![Cid] = @ - 1]
  /\ totalAccepts' = totalAccepts - 1
  /\ UNCHANGED <<completed, jobs, ready, drained>>

(* Seeded fault: a failed accept is not discounted from the total. *)
OnAcceptErrorKeeps ==
  /\ Handle("Accept") /\ Res < 0
  /\ acceptInflight' = [acceptInflight EXCEPT ![Cid] = @ - 1]
  /\ UNCHANGED <<totalAccepts, accepted, completed, sq, fdt, jobs, ready,
                 drained, tableVars>>

OnAcceptError ==
  /\ Harvest /\ Res < 0
  /\ UNCHANGED <<accepted, sq, fdt, tableVars>>

(* At the cap: the client is closed, under an id that is nobody's. *)
OnAcceptShed ==
  /\ Harvest /\ Res > 0 /\ Cardinality(Live) >= MaxConns
  /\ accepted' = accepted + 1
  /\ Post(<<CloseOp(0, Res)>>)
  /\ UNCHANGED <<fdt, tableVars>>

OnAccept ==
  /\ Harvest /\ Res > 0 /\ Cardinality(Live) < MaxConns
  /\ accepted' = accepted + 1
  /\ nextID' = nextID + 1
  /\ conns' = [conns EXCEPT ![nextID'] = getConn.struct]
  /\ made' = getConn.made /\ connFree' = getConn.rest
  /\ cell' = [cell EXCEPT ![getConn.struct] =
                [@ EXCEPT !.id = nextID', !.client = Res]]
  /\ fdt' = [fdt EXCEPT ![Res] = nextID']
  /\ Post(<<Op("RecvReq", NoDir, nextID', {Res}, getConn.struct)>>)

OnTimeout ==
  /\ Handle("Timeout")
  /\ Post(<<TimeoutOp>>)
  /\ UNCHANGED <<counters, fdt, jobs, ready, drained, tableVars>>

(* opEventfd re-arms the read and takes the results; they are applied one  *)
(* by one before anything else of the loop.                                *)
OnEventfd ==
  /\ Handle("Eventfd")
  /\ Post(<<EventfdOp>>)
  /\ drained' = ready /\ ready' = <<>>
  /\ UNCHANGED <<counters, fdt, jobs, tableVars>>

Applying ==
  /\ drained # <<>>
  /\ drained' = Tail(drained)
  /\ UNCHANGED <<loopVars, kernelVars, cq, jobs, running, ready, made, nextID>>

(* A result whose connection is gone: its upstream is closed at once. *)
LateResult(r) ==
  /\ fdt' = [f \in FDs |-> IF f = r.fd THEN Free ELSE fdt[f]]
  /\ UNCHANGED <<sq, conns, cell, connFree>>

FailedResult(r) == closeConn(r.id, Cc(r.id))

(* The upstream is adopted and the request sent, with no look at closing. *)
AdoptUpstream(r) ==
  /\ cell' = [cell EXCEPT ![conns[r.id]].up = r.fd]
  /\ Post(<<Op("SendUp", NoDir, r.id, {r.fd}, conns[r.id])>>)
  /\ UNCHANGED <<fdt, conns, connFree>>

ApplyResult ==
  /\ Applying
  /\ LET r == Head(drained)
     IN IF r.id \notin Live THEN LateResult(r)
        ELSE IF r.fd = NoFD THEN FailedResult(r) ELSE AdoptUpstream(r)

(* The completions of operations on connections. *)
(* cc == nil, and for the relay's handlers cc.closing. *)
Usable(o) == Cid \in Live /\ (o \in RelayOps => ~Cc(Cid).closing)

OnStale(o) ==
  /\ Handle(o) /\ ~Usable(o)
  /\ UNCHANGED <<counters, sq, fdt, jobs, ready, drained, tableVars>>

(* The connection cannot go on.  The relay handlers of the copying mode    *)
(* take 0 as the end of one direction, everyone else as the end of all.    *)
Fatal(o) ==
  CASE o \in {"SendUp", "Recv"} -> Res < 0
    [] o \in {"SendClient", "Close"} -> FALSE
    [] OTHER -> Res <= 0

OnFatal(o) ==
  /\ Handle(o) /\ Usable(o) /\ Fatal(o)
  /\ closeConn(Cid, Cc(Cid))
  /\ UNCHANGED <<counters, jobs, ready, drained, made, nextID>>

(* A handler that goes on with its connection. *)
Serve(o) ==
  /\ Handle(o) /\ Usable(o) /\ ~Fatal(o)
  /\ UNCHANGED <<acceptVars, ready, drained, made, nextID>>

(* Seeded fault: the client is read again while its hook decides. *)
OnRecvReqRearmed ==
  /\ Serve("RecvReq") /\ Len(jobs) < JobsCap
  /\ jobs' = Append(jobs, Cid)
  /\ Post(<<Head(cq).o>>)
  /\ UNCHANGED <<completed, fdt, conns, cell, connFree>>

(* The send on jobs is made by the ring thread and waits for room. *)
OnRecvReq ==
  /\ Serve("RecvReq") /\ Len(jobs) < JobsCap
  /\ jobs' = Append(jobs, Cid)
  /\ UNCHANGED <<completed, sq, fdt, conns, cell, connFree>>

OnSendUp ==
  /\ mode # "splice" /\ Serve("SendUp")
  /\ Post(IF mode = "duplex" THEN <<RecvOp(Cid, "c2u"), RecvOp(Cid, "u2c")>>
          ELSE <<Op("RecvResp", NoDir, Cid, {Cc(Cid).up}, conns[Cid])>>)
  /\ UNCHANGED <<completed, jobs, fdt, conns, cell, connFree>>

(* Two pipes with the lowest free numbers; short of numbers, what was made *)
(* is closed with the connection.                                          *)
OnSendUpSplice ==
  /\ mode = "splice" /\ Serve("SendUp")
  /\ LET n == Cardinality(FreeFDs)
         e1 == Lowest(FreeFDs)
         e2 == Lowest(FreeFDs \ {e1})
         e3 == Lowest(FreeFDs \ {e1, e2})
         e4 == Lowest(FreeFDs \ {e1, e2, e3})
         cc == [Cc(Cid) EXCEPT
                !.pipe["c2u"] = IF n < 2 THEN @ ELSE [r |-> e1, w |-> e2],
                !.pipe["u2c"] = IF n < 4 THEN @ ELSE [r |-> e3, w |-> e4]]
     IN IF n < 4 THEN closeConn(Cid, cc)
        ELSE /\ cell' = [cell EXCEPT ![conns[Cid]] = cc]
             /\ fdt' = [f \in FDs |-> IF f \in PipeEnds(cc) THEN Cid ELSE fdt[f]]
             /\ Post(<<FillOp(cc, Cid, "c2u"), DrainOp(cc, Cid, "c2u"),
                       FillOp(cc, Cid, "u2c"), DrainOp(cc, Cid, "u2c")>>)
             /\ UNCHANGED <<conns, connFree>>
  /\ UNCHANGED <<completed, jobs>>

(* Each splice re-arms itself. *)
OnSplice(o) ==
  /\ Serve(o)
  /\ Post(<<IF o = "SpliceIn" THEN FillOp(Cc(Cid), Cid, Dir)
            ELSE DrainOp(Cc(Cid), Cid, Dir)>>)
  /\ UNCHANGED <<completed, jobs, fdt, conns, cell, connFree>>

(* Data is forwarded; the end of a direction is passed on with a shutdown, *)
(* and the second end closes the connection.                               *)
OnRecv ==
  /\ Serve("Recv")
  /\ LET cc == [Cc(Cid) EXCEPT !.done[Dir] = TRUE]
     IN CASE Res > 0 -> Post(<<SendOp(Cid, Dir)>>)
                        /\ UNCHANGED <<fdt, conns, cell, connFree>>
          [] Res = 0 /\ cc.done[Other(Dir)] -> closeConn(Cid, cc)
          [] OTHER -> cell' = [cell EXCEPT ![conns[Cid]] = cc]
                      /\ UNCHANGED <<sq, fdt, conns, connFree>>
  /\ UNCHANGED <<completed, jobs>>

(* Seeded fault: after a short send the handler reads again. *)
OnSendBoth ==
  /\ Serve("Send")
  /\ Post(IF Res = 1 THEN <<SendOp(Cid, Dir), RecvOp(Cid, Dir)>>
          ELSE <<RecvOp(Cid, Dir)>>)
  /\ UNCHANGED <<completed, jobs, fdt, conns, cell, connFree>>

(* A short send is continued; otherwise the direction reads again. *)
OnSend ==
  /\ Serve("Send")
  /\ Post(IF Res = 1 THEN <<SendOp(Cid, Dir)>>
          ELSE IF Cc(Cid).done[Dir] THEN <<>> ELSE <<RecvOp(Cid, Dir)>>)
  /\ UNCHANGED <<completed, jobs, fdt, conns, cell, connFree>>

OnRecvResp ==
  /\ Serve("RecvResp")
  /\ Post(<<Op("SendClient", NoDir, Cid, {Cc(Cid).client}, conns[Cid])>>)
  /\ UNCHANGED <<completed, jobs, fdt, conns, cell, connFree>>

OnSendClient ==
  /\ Serve("SendClient")
  /\ completed' = IF Res < 0 THEN completed ELSE completed + 1
  /\ closeConn(Cid, Cc(Cid))
  /\ UNCHANGED jobs

(* The last close removes the connection and frees its struct. *)
OnClose ==
  /\ Serve("Close")
  /\ IF Cc(Cid).closesLeft <= 1 THEN Forget(Cid)
     ELSE /\ cell' = [cell EXCEPT ![conns[Cid]].closesLeft = @ - 1]
          /\ UNCHANGED <<conns, connFree>>
  /\ UNCHANGED <<completed, jobs, sq, fdt>>

-----------------------------------------------------------------------------
Kernel ==
  \/ \E k \in Listeners : KernelAccept(k) \/ KernelAcceptFails(k)
  \/ \E h \in DOMAIN kops : KernelWakes(h) \/ KernelClose(h) \/ KernelMoves(h)

Hooks == HookTake \/ \E i \in running : HookDials(i) \/ HookFails(i)

RingThread ==
  \/ Wake \/ Turn \/ ApplyResult
  \/ OnAcceptError \/ OnAcceptShed \/ OnAccept \/ OnTimeout \/ OnEventfd
  \/ \E o \in RelayOps \cup ChurnOps \cup {"Close"} : OnStale(o)
  \/ \E o \in RelayOps \cup ChurnOps : OnFatal(o)
  \/ OnRecvReq \/ OnSendUp \/ OnSendUpSplice \/ OnRecv \/ OnSend
  \/ OnSplice("SpliceIn") \/ OnSplice("SpliceOut")
  \/ OnRecvResp \/ OnSendClient \/ OnClose

Next == Kernel \/ Hooks \/ RingThread

Spec == Init /\ [][Next]_vars

-----------------------------------------------------------------------------
(* Properties.                                                             *)

Results == [id : Nat, fd : Nat]

(* Operations prepared or held by the kernel. *)
Prepared == {sq[j] : j \in DOMAIN sq} \cup {h.o : h \in DOMAIN kops}

(* How many operations in V the kernel holds: a pair for every copy. *)
Copies == UNION {{h} \X (1..kops[h]) : h \in DOMAIN kops}
InKernel(V) == Cardinality({t \in Copies : t[1].o \in V})

(* How many operations in V are prepared, held or completed. *)
Completed(V) == {e \in Completions : e.o \in V}
Count(V) == Occurs(sq, V) + InKernel(V) + Occurs(cq, Completed(V))

OpsOf(i, K, D) == {o \in Ops : o.id = i /\ o.op \in K /\ o.dir \in D}

ResultsFor(i) == {r \in Results : r.id = i}
HookWork(i) ==
  Occurs(jobs, {i}) + (IF i \in running THEN 1 ELSE 0)
  + Occurs(ready, ResultsFor(i)) + Occurs(drained, ResultsFor(i))

ChurnWork(i) == HookWork(i) + Count(OpsOf(i, ChurnOps, {NoDir}))
RelayWork(i, K, d) == Count(OpsOf(i, K, {d}))
CloseWork(i) == Count(OpsOf(i, {"Close"}, {NoDir}))

(* The state is well typed; structs, ids and numbers stay in their ranges. *)
(* A part of CapHolds.                                                     *)
TypeOK ==
  /\ c \in Configs /\ waiting \in BOOLEAN /\ left \in 0..Len(cq)
  /\ acceptInflight \in [Listeners -> Nat] /\ armed \in [Listeners -> Nat]
  /\ accepted \in 0..c.accepts /\ nextID \in 0..accepted
  /\ completed \in 0..nextID
  /\ made \in 0..nextID /\ conns \in [Ids -> 0..made]
  /\ \A s \in Ids :
       /\ cell[s].id \in 0..nextID
       /\ {cell[s].client, cell[s].up} \cup PipeEnds(cell[s]) \subseteq 0..c.fds
       /\ cell[s].closesLeft \in 0..2
  /\ connFree \in Seq(1..made)
  /\ fdt \in [FDs -> {Free} \cup 0..c.accepts]
  /\ jobs \in Seq(Ids) /\ running \subseteq Ids
  /\ \A s \in {ready, drained} : s \in Seq([id : Ids, fd : 0..c.fds])

(* The accepts in flight, listener by listener. *)
Accepts == UNION {{k} \X (1..acceptInflight[k]) : k \in Listeners}

(* "live+inflight never exceeds the cap" (main.go:724): the table never    *)
(* holds more than -maxconns connections, and together with the accepts in *)
(* flight, which totalAccepts counts, no more than the cap or the one      *)
(* accept per listener that every worker starts with.                      *)
CapHolds ==
  /\ TypeOK
  /\ totalAccepts = Cardinality(Accepts)
  /\ Cardinality(Live) <= MaxConns
  /\ Cardinality(Live) + totalAccepts <= Larger(MaxConns, NListeners)

(* Every open number has exactly one holder that will close it, and nobody *)
(* holds a number that is not open: accepted clients not handled yet, open *)
(* connections (their sockets and pipe ends), closes in flight, results on *)
(* their way.  closeConn and the late results close each number once.      *)
ClientAt(f) == {e \in Completions : e.o.op = "Accept" /\ e.res = f}
ClosesOf(f) == {o \in Ops : o.op = "Close" /\ f \in o.fds}
ResultsAt(f) == {r \in Results : r.fd = f}
HeldBy(i) == {Cc(i).client, Cc(i).up} \cup PipeEnds(Cc(i))

Holders(f) ==
  Occurs(cq, ClientAt(f))
  + Cardinality({i \in Live : ~Cc(i).closing /\ f \in HeldBy(i)})
  + Occurs(sq, ClosesOf(f)) + InKernel(ClosesOf(f))
  + Occurs(ready, ResultsAt(f)) + Occurs(drained, ResultsAt(f))

DescriptorsOwned ==
  \A f \in FDs : Holders(f) = IF fdt[f] = Free THEN 0 ELSE 1

(* Exactly the right work is pending for every connection, so none is      *)
(* forgotten and none has two operations where the handlers expect one:    *)
(* closing, its closesLeft closes; before the relay, one operation or one  *)
(* hook call; copying, one operation per direction that is not at its end; *)
(* splicing, "BOTH the inbound splice and the outbound splice continuously *)
(* in flight per direction" (main.go:503).                                 *)
WorkPending ==
  \A i \in Live :
    IF Cc(i).closing
    THEN Cc(i).closesLeft > 0 /\ Cc(i).closesLeft = CloseWork(i)
    ELSE CASE ChurnWork(i) = 1 -> \A d \in Dirs : RelayWork(i, RelayOps, d) = 0
           [] ChurnWork(i) = 0 /\ mode = "duplex" ->
                /\ \E d \in Dirs : ~Cc(i).done[d]
                /\ \A d \in Dirs : RelayWork(i, RelayOps, d)
                                      = IF Cc(i).done[d] THEN 0 ELSE 1
           [] ChurnWork(i) = 0 /\ mode = "splice" ->
                \A d \in Dirs : RelayWork(i, {"SpliceIn"}, d) = 1
                                /\ RelayWork(i, {"SpliceOut"}, d) = 1
           [] OTHER -> FALSE

(* opEventfd adopts an upstream without looking at closing (main.go:474).  *)
(* That is sound because a connection whose hook is due, in progress or    *)
(* answered is always open and has no upstream yet.                        *)
ResultFindsConn ==
  \A i \in Ids :
    HookWork(i) > 0 => i \in Live /\ ~Cc(i).closing /\ Cc(i).up = NoFD

(* "a stale completion landing on a recycled struct can't alias"           *)
(* (main.go:325): the buffer an operation reads or writes belongs to the   *)
(* connection the operation was prepared for, never to the freelist or to  *)
(* the next user of the struct.                                            *)
BuffersNotShared ==
  \A o \in Prepared : o.buf # 0 => cell[o.buf].id = o.id

(* "in-flight splices error out, caught by cc.closing" (main.go:365): an   *)
(* operation in the kernel works on files of its own connection, or on     *)
(* none.                                                                   *)
OpsStayHome ==
  \A h \in DOMAIN kops : h.files \subseteq {Free, h.o.id}

(* In the modes without pipes no operation ever works on the files of      *)
(* another connection, although their numbers are reused: sockets are      *)
(* closed by the ring, behind the operations prepared before.              *)
CopiesStayHome == mode # "splice" => OpsStayHome
=============================================================================
