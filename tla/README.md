# TLA+ model of flash-relay

flash-relay is a TCP relay engine in Go on raw io_uring: one shared-nothing ring
worker per core accepts clients, asks a caller-supplied *hook* what to do with
each, and relays bytes between client and upstream. This directory holds TLA+
modules of the engine, TLC configurations that check them on small instances,
and TLAPS proofs of the main results for every value of the constants.
`PROJECT.json` maps every definition to the lines it models.

## Inventory

| Part | Source | State it keeps | Operations |
| --- | --- | --- | --- |
| ring worker | `flashrelay/worker.go`, `runWorker` | connection table, accepts in flight, tick, operations in the ring | one handler per completion type, end-of-turn top-up, idle sweep, exit |
| hook pool | `worker.go:146-154` | `jobs` channel, running hooks | take a job and look up its peer, run the hook, push the result |
| hook bridge | `worker.go:102-131`, `322-327` | `ready`, `notified`, eventfd counter | `push`, `drain`, clear and re-arm |
| io_uring wrapper | `internal/uring/uring.go` | both rings' indices and their shadows, `toSubmit`, descriptor and mappings | `New`, `GetSQE`, `Submit`, `CQReady`, `PeekCQE`, `CQAdvance`, `Close` |
| counters | `flashrelay.go:136-172` | live count, terminal buckets, bytes | added to by the handlers, read by `Stat` |
| server | `flashrelay.go:175-228` | `stop`, wait group, listeners | `New`, `Run`, `Stop` |
| raw sockets | `internal/rawsock` | none | `Listen`, `Dial`, `DialFP` |
| fingerprint | `fingerprint/bpf`, `flashrelay.go:239-277` | none (eBPF map of profiles) | rewrite of outgoing SYNs |
| benchmark relay | `research/gate/cmd/relay-uring` | connection table, freelist of structs, accepts per listener, pipes | as the ring worker, in three modes |
| baseline relay | `research/gate/cmd/relay-netpoll` | one goroutine per connection, one more for the upward copy | accept, read the request, dial, two copies |
| sink | `gate/internal/sinksrv`, `gate/cmd/sink` | counters, bound ports | scan for ports, serve one request, echo |
| load generators | `gate/internal/storm`, `gate/cmd/bulkgen`, `holdgen` | workers, counters, samples, `measuring`, `stop` | storm, junk, bulk stream, keepalives |
| daemon | `gate/cmd/loadgend` | mutex `busy`, channel `cancelCur` | `/run`, `/stop` |
| gate hook | `gate/internal/hook` | `dialSeq`, targets | choose a target, dial |
| scripts | `gate/harness`, `research/optimizer` | none of the relay's | process control, reports |

**How they interact.** The ring thread owns the connection table and is the only
user of its ring. It hands a request to the hook pool with a send on a bounded
channel (`worker.go:320`) and gets the decision back through the bridge, whose
eventfd is read by an operation of the same ring. `Stop` sets a flag that each
worker reads at the end of a turn. The kernel completes operations in any order,
and a close does not cancel the operations in flight on the same descriptor.
In the gate everything meets at sockets: a load generator, a relay and a sink
with bounded buffers between them, and deadlines at the two ends only. The
daemon's two handlers share `cancelCur` and `busy`; the hooks of a worker share
`dialSeq`.

**What is hard.** Nothing in the engine is locked except the bridge's list, so
everything depends on orders: clear before drain; the guard
`cc == nil || cc.closing` before every use of a connection; `closesLeft` against
the closes in flight; accepts counted before their connections exist; results
that arrive after their connection or even their worker has gone; descriptor
numbers that the kernel reuses at once. `PROJECT.json` lists these as hazards,
each at its line, with the properties that cover them.

**What makes each part correct.**
* bridge: a pushed result is drained, once, in order, even if nobody pushes again;
* ring wrapper: prepared entries reach the kernel once and in order, completions
  are read once and in order across the wrap-around of the indices, and the
  worker never waits for a completion that cannot come;
* data path: the bytes a peer sent, less what the hook consumed, arrive at the
  other peer once, in order and completely before the end of the stream; no
  buffer is overrun;
* server: `Run` gives everything back on every path and returns once no worker serves;
  listeners outlive the workers that use them;
* benchmark relay: the worker's obligations, and no operation or recycled buffer
  that reaches a connection other than its own;
* gate: `/stop` reaches the storm that runs and ends it; a result is final and
  agrees with what the sink has seen; a stalled relay hangs neither side; no
  stream locks up in its own full buffers; dials spread evenly over targets
  that are served, and leave no socket behind;
* worker: the cap on connections; one owner for every descriptor; one operation
  per direction of every connection; closes accounted; one Stats bucket per
  connection; nothing posted for a dying connection; teardown and drain end.

## Modules

| Module | Models | Notes |
| --- | --- | --- |
| `Mailbox` | what the bridge promises | abstract; used by `Bridge` as refinement target and by `Worker` as its bridge |
| `Bridge` | `push`, `drain`, the head of `opEventfd` | one action per atomic step of a hook, the kernel and the ring thread |
| `BridgeProofs` | | invariants and step refinement, any number of hooks and results |
| `IoQueue` | what the ring wrapper promises | abstract |
| `Ring` | `uring.go` with `post` and the main loop as its driver | indices modulo `IndexMod` (2^32 in the code) |
| `RingProofs` | | refinement of `IoQueue` and no endless wait, rings of any size |
| `Worker` | `runWorker` | one action per completion handler or branch of it |
| `WorkerProps` | | the claims about a worker |
| `WorkerProofs` | | type correctness, the cap, the dead shed branch, the life of a connection, descriptors and the accounting of closes, any number of connections |
| `Stream` | the bytes of one connection in `runWorker` | request buffer and `growReq`, replies, `Consumed`, the two relay buffers, half-close, byte counters |
| `StreamProofs` | | every byte in its place, buffers and streams of any length |
| `Server` | `New`, `Run`, `Stop`, `rawsock.Listen`, set-up and exit of workers, `uring.New` and `Close` | one action per system call that may fail |
| `ServerProofs` | | types and defaults, `Run` gives everything back, any number of workers |
| `RelayUring` | the worker loop of `relay-uring` | three modes, one action per completion handler |
| `RelayProofs` | | the same obligations as the worker's, any number of connections, listeners, hooks and descriptors, in all three modes |
| `Netpoll` | `relay-netpoll`, and TCP sockets as the gate uses them (external) | the base of the next four |
| `Sink` | `sinksrv`: `ServeAll` and the echo server | |
| `Churn` | `storm.Run` and `loadgend` | main goroutine, workers and handlers interleave |
| `Tunnel` | `bulkgen` and `holdgen` | against the echo sink |
| `Gate` | the composition, its fairness and its properties | storms with the one-shot sink, tunnels with the echo sink |
| `GateProofs` | | the daemon, results and audits, any number of connections, workers and requests |
| `Dial` | the port scan of `cmd/sink`, `hook.Config`, `rawsock.DialFP` | |
| `DialProofs` | | an even grid, served targets, no socket left, any hosts, ports and hooks |
| `MCBridge`, `MCRing`, `MCWorker`, `MCStream`, `MCServer`, `MCRelayUring`, `MCGate`, `MCDial` | | instances for TLC |

`Worker` composes with the others by their abstractions: its `ready` is the
`Mailbox` that `Bridge` implements, its `sq` and `batch` are the queues of
`IoQueue` that `Ring` implements, `Stream` refines what one of its connections
carries, and `Server` sees of it only set-up, drain and failure. `Server`'s
`DefaultsSound` is what `Worker` and `Stream` assume of their constants.

### How Worker corresponds to the code

| Worker | `runWorker` |
| --- | --- |
| `phase` | where the ring thread is: inside `Submit(1)`, in the loop body, blocked in `jobs <-`, returned, failed |
| `conns`, `conn` | the `conns` map and the structs (fields that handlers branch on) |
| `sq`, `kops`, `batch` | operations prepared since the last Submit, held by the kernel, harvested by this turn |
| `drained` | the rest of the loop over `br.drain()` |
| `openFDs` | the process's descriptors; the kernel hands out the lowest free number |
| `jobs`, `running`, `ready` | the channel, the hook goroutines, the bridge |
| `charge` | the terminal Stats buckets each connection was added to |

A data handler becomes several actions: `Stale` (the guard's early return),
`OnFailure` (`res` bad), `OnPartialSend` (short send), and the action named
after it (success). The closures `closeConn`, `fail`, `startDuplex` and
`forwardInit` are operators with the names of the code. Handlers are atomic:
they run on the one ring thread, and nothing they touch is shared except `jobs`,
`ready` and the descriptor table, which other actors change between handlers.

Abstractions: a byte count is reduced to failed, end of stream, part or all;
whether the hook consumed the whole request and whether `growReq` hits
`MaxReqLen` are nondeterministic; idle time is counted in ticks since the last
refresh, cut off where the sweep acts; the submission queue never fills in
`Worker` (that case is in `Ring`); `tick` is kept modulo the sweep interval;
descriptor 0 is "no descriptor", as in the code's `> 0` tests.

A worker that fails (`eventfd2`, `uring.New` or `Submit`) goes to `failed` and
does nothing any more, as in the code.

### How Stream, Server and RelayUring correspond to the code

`Stream`: a byte is its position in its stream, so that loss, repetition and
reordering are visible; `st` is the operation before the relay phase; `buf[d]` is
the unsent part of a direction's buffer; `got` and `out` are what the peers have
sent and received. Failures and idle sweeps end the connection at any point.

`Server`: `step` is the next system call of `rawsock.Listen`; `ring[w]` the set
of things `uring.New` has acquired; `efd` the eventfds, which the code never
closes. `New` refuses port 0, so the last step of `Listen` is never reached.

| RelayUring | `relay-uring/main.go` |
| --- | --- |
| `c` | `relayCfg` with the mode; it never changes, so one run explores several |
| `cell`, `made`, `connFree`, `conns` | the structs, the freelist, the table |
| `sq`, `cq`, `left` | prepared; completed and not handled; how many of these belong to this turn |
| `armed`, `kops` | what the kernel holds: accepts, counted per listener, and the other operations, a bag |
| `totalAccepts` | `totalAccepts`, the sum of `acceptInflight` that the top-up compares with the cap |
| `fdt` | the descriptor table: which connection a number belongs to |
| `OnStale`, `OnFatal`, `Serve` | the early returns of a handler, and what is left |

An operation names a set of descriptors by number until it is submitted and holds
open files from then on; it has a direction in the relay modes only, `NoDir`
otherwise. Completions arrive only while the ring thread waits, timers and failed
accepts only one at a time: later arrivals and mixed batches of those reach the same
states, because their handlers touch nothing else.

### How the gate's modules correspond to the code

| Gate | code |
| --- | --- |
| `sock[c][e]`, `inbox[c][e]` | the four sockets of a tunnel (client, relay's two, sink) and what arrived unread; at most `SockCap` tokens fit |
| `relay`, `copier` | the goroutine of `relay-netpoll/main.go:112` and that of line 134 |
| `wedged` | connections an overwhelmed relay leaves alone for ever, the fault the deadlines of `storm` and `sinksrv` are for |
| `sink`, `served`, `misread`, `echoed` | the handler in `sinksrv` and its counters |
| `run`, `busy`, `cancelCur`, `chan` | `/run` and `/stop` of `loadgend`; the main goroutine of `storm.Run` is the handler that called it, so `measuring` and `stop` are functions of `run` |
| `worker`, `cur`, `attempt`, `sampled`, `result` | the workers of a storm, the counter each connection went to, the latency samples, what `Run` returned |
| `writer`, `reader`, `woff`, `roff`, `over` | the goroutines of `bulkgen` (for `holdgen` one), offsets in chunks, `stop` or the hold time |

A token is what is read with one `ReadFull`, or a chunk of a stream. A close with
unread input resets the connection: the peer may lose what it has not read. A
deadline is an action that is always enabled while its read or write is pending.
Left out: the room in `io.Copy`'s own buffer, the parsing of requests and
addresses (its failure is `BadRequest` or `BadTarget`), percentiles, printers.

`Dial`: ports count from the base port of the sinks; `held` are the ports other
programs occupy; `listed` tells the two ways a relay is configured apart: with
the exact list of bound ports and `-sinkports 1`, as `box2-setup.sh` prints it,
or with a span. The operator writes the list of targets, so it may be in any order
(`Orders`). `picks` counts the choices of each cell of the grid.

## Runs

| Run | Instance | Shows |
| --- | --- | --- |
| `bridge` | 3 hooks, 4 results | types, `OneWake`, `NoLostWakeup`, `ImplementsMailbox` |
| `ring` | 4 requests, rings of 2, indices modulo 4 | `NeverBlocksForever`, `ImplementsIoQueue` when the kernel consumes what it is asked to |
| `worker_two` | 2 connections at once, 2 hooks, no idle timeout | types, `ConnCap`, `RingNeverBlocked`, `CompletedIsClean` |
| `worker_idle` | cap 1, 2 connections in a row, idle timeout, jobs channel of 1, every decision | `PeerIsOwn`, `StatsPartition`, `TeardownAccounted`, `DescriptorsOwned`, `EveryConnHasWork`, `BlockedOnlyByGone`, `NoPostAfterClose` |
| `worker_live` | as above, smaller, with fairness | `ClosingEnds`, `StopDrains` |
| `stream` | first read 2, `MaxReqLen` 5, buffers of 2, six bytes each way, replies up to 3 bytes | `BuffersFit`, `StreamsIntact`, `RelayedBytesArrive` |
| `relay_uring` | four configurations: churn with more listeners than connections, two copying connections, splicing in a row and short of descriptors | `CapHolds`, `DescriptorsOwned`, `WorkPending`, `ResultFindsConn`, `BuffersNotShared`, `CopiesStayHome` |
| `server` | one to three workers, five configurations, every failure of the set-up | types and defaults, `ReturnsClean`, `ListenerOutlivesWorker`, `RunReturns` |
| `gate` | one tunnel, two `/run` and two `/stop` clients, one worker, a relay that may stall, six chunks through buffers of one | `StopCanReach`, `ResultIsFinal`, `TwoFdSound`, `StopEnds`, `ConnsReleased`, `EchoDelivered` |
| `dial` | two hosts, one or two ports in a window of four with any of them busy, two hooks, nine dials | `GridEven`, `DialsSettle` |

`BuffersFit`, `CapHolds` and `TwoFdSound` contain the type invariants of their
modules; the named parts of `StreamsIntact`, `TeardownAccounted`, `TwoFdSound`
and `DialsSettle` are defined above them.

The bounds let the interesting cases happen: two connections are enough for a
descriptor number to pass from one to the other while a job, a result or an
operation of the first is still around; a jobs channel of one fills, also in
`worker_live`, where the ring thread can get stuck behind it; three hooks
give a pushing, a swapping and a writing hook at the same time; rings of two
with indices modulo four wrap around after two turns and are full and empty at
every index; a request buffer of two grows twice, the second time clamped; five
descriptors for three churn clients make every number pass from one connection
to another; four are too few for the second pipe of a splice; six chunks are more
than the four buffers of a tunnel hold, so that everybody who can wait waits;
two `/run` and two `/stop` requests overlap in every way that matters to the one
current channel; nine dials go around a grid of four cells twice. One tunnel is
enough in `gate` because connections share nothing but the counters, which are
kept per connection. Deadlock is not
checked where the system may stop: `bridge` (all results pushed and drained),
`stream` (the connection ends), `server` (Run returns), `gate` and `dial` (the
bounded work is done). `MaxId` and `BatchMax`
bound the state space only; the proofs hold for every value of them.

### Where the code departs from what it says

Two runs show a documented claim violated.

| Run | Claim | What happens |
| --- | --- | --- |
| `buffer_lifetime` | `uring.go:334-336`, buffers live until the completion | with an idle timeout, the connection, the only reference to its buffers, is deleted while a receive or send may still be in the kernel |
| `relay_splice` | `relay-uring/main.go:365`, in-flight splices error out | the pipes are closed at once; a splice prepared in the same turn is submitted later, on whatever has got the numbers |

Three properties state exactly how far a claim holds, with the exception spelled
out in the property:
* `StatsPartition`: one terminal bucket per connection, except that a rejected
  connection whose reply is not read is swept and charged `IdleClosed` too
  (`worker.go:577`; `flashrelay.go:138` says exactly one);
* `ConnsReleased`: the baseline relay gives connections back, except that with
  an upstream that waits for the end of the client's stream it waits for ever,
  because the upward copy closes nothing when it ends
  (`relay-netpoll/main.go:134-135`; `research/gate/DESIGN.md:47`, "Relay observes
  either half-close and tears down both fds"). The ring worker and `relay-uring`
  in duplex mode do pass the end on (`StreamsIntact`, `WorkPending`);
* `DialsSettle`: a dial goes to a served port, except where the relay was told a
  span and the sink had to skip a busy port of it (`cmd/sink/main.go:63`;
  `-ports` says consecutive, `relay-uring/main.go:209` that the sink must listen
  on the same span).

Other departures are visible in the models without a run of their own:
* `Stop` does not cancel armed accepts, whose clients are admitted during the
  drain (`OnAccept` of `Worker` after `Stop`; `flashrelay.go:226` says that it
  stops accepting);
* clients whose accept completes as the worker exits, and upstreams of hooks
  that return after it, stay open (`Exit` of `Worker`);
* a short submit is forgotten, so the worker may wait with nothing in flight
  (`MCRing.cfg` with `ShortSubmits = TRUE` violates `NeverBlocksForever`);
* jobs of swept connections stay in the channel, which can fill and block the
  ring thread in `jobs <-`; `BlockedOnlyByGone` says that nothing else can. When
  every hook goroutine is inside a hook that does not return, the thread is stuck
  for good: closes are no longer handled and `Stop` does not end the worker
  (the exception `StuckInSend` of `ClosingEnds` and `StopDrains`), although
  `flashrelay.go:80-81` says that a slow hook parks one connection, never the ring;
* with `IdleTimeout = 0`, the default, a silent peer keeps its connection and so
  its worker for ever, and `Run` does not return after `Stop`;
* at the `MaxConns` cap nothing is shed. Accepts in flight are counted before they
  complete, so the worker stops accepting (`worker.go:608`), the shed branch
  (`worker.go:295-299`) is never taken and `Stats.Shed` stays 0
  (`RoomForAccepted`, theorem `WorkerNeverSheds`, for every configuration).
  `docs/DEPLOYMENT.md:258` says "`Shed` climbing | you are at the `MaxConns`
  backpressure cap", `docs/API.md:100` and `flashrelay.go:99` "backpressure; shed
  above", `docs/API.md:145` and `flashrelay.go:152` "accepted-then-closed at the
  backpressure cap";
* `Run` returns nil although workers failed, where its comment promises the first
  fatal error: a nil means that `Stop` was called or that every worker failed;
* with an idle timeout, the peer address of a job that waited in the queue is
  looked up by number after the descriptor may have been closed and reused
  (`PeerOf` of `Worker`; `flashrelay.go:79` promises the client's own address).
  `PeerIsOwn` says that this happens to swept connections only;
* `ServeAll` waits on a channel nobody sends to (`sinksrv.go:165`), although it is
  said to return when a listener fails;
* the delay function of the hooks shares a `rand.Rand` between goroutines
  (`hook.go:36`), which is a data race.

## Fairness

`Bridge`: a goroutine inside `push` is runnable and the ring thread never stops
turning because its 100 ms timer is always armed, so `push`, the ring thread's
steps and the kernel's read of a raised eventfd are weakly fair. A hook need not
return: `PushAppend` is not fair.

`Worker`: the ring thread is weakly fair; the kernel completes timers, closes and
reads of a raised eventfd, and a harvest takes every completion that is there, so
no such completion is passed over for ever (strong fairness of the wake-ups that
contain it). Accepts, reads, sends, hooks and `Stop` carry no fairness. That is
why `StopDrains` needs the idle timeout and excepts two kinds of behaviour: traffic
that refreshes a connection again and again, and a ring thread that is stuck for
ever in the send on `jobs` (`StuckInSend`, excepted by `ClosingEnds` too). The
second happens in the instance: its jobs channel holds one job, so the job of a
swept connection fills it. Taking a job carries no fairness either; with one hook
goroutine, one that takes no job stands for all of them being inside hooks that do
not return, which otherwise takes a third connection.

`Ring`: the ring thread, the kernel's completion of something in flight (the
timer is among it) and its flush of buffered completions are weakly fair.

`Stream`: a peer that does not read stalls its direction, so only the sends are
weakly fair: bytes the relay holds arrive if the receiver reads and the
connection does not fail. Peers, hooks and failures carry no fairness.

`Server`: the caller calls `Run`, and its goroutine and the set-up and the exit of
each worker keep running. `Stop` is not forced, and a serving worker is not forced
to leave, by a failure or by draining: it drains only once its table is empty
(`worker.go:603-605`), and that may never happen (`StopDrains` says when it does).
`RunReturns` therefore says that `Run` comes back unless some worker serves for
ever.

`Gate`: goroutines run, reads and writes that can be done are done, and the
deadlines of `storm` and `sinksrv` pass, so the relay, its copies, the sink, the
workers, the handlers of `/run`, and `/stop` once it has taken a channel are
weakly fair. Nothing is assumed of a storm's timers (`StopEnds` must not wait for
them), of requests to the daemon, of the hold time, of the deadlines of `bulkgen`
and `holdgen` (`EchoDelivered` must not rest on them) or of a stalled relay.

`RelayUring` and `Dial` are checked for safety only.

## Proofs

Each module named `...Proofs` states an inductive invariant, shows that every
action keeps it and derives the properties of the runs. Constants are restricted
only by the named `ASSUME` of the module that declares them; the two theorems with
a further hypothesis say so below. Every invariant was checked by TLC on a small
instance before it was proved.

| Component | Inductive invariant | Properties proved |
| --- | --- | --- |
| `Bridge` | `Inv` | `TypeOK`, `OneWake`, `NoLostWakeup`, step refinement of `Mailbox` |
| `Ring` | `Inv` | `NeverBlocksForever`, step refinement of `IoQueue` |
| `Worker` | `Inv`, `Work`, `Fds` | `TypeOK`, `ConnCap`, `PeerIsOwn`, `EveryConnHasWork`, `StatsPartition`, `CompletedIsClean`, `BlockedOnlyByGone`, `RingNeverBlocked`, `NoPostAfterClose`, `DescriptorsOwned`, `TeardownAccounted` |
| `Stream` | `Inv` | `BuffersFit`, `StreamsIntact` |
| `Server` | `Inv`, `Sound` | `TypeOK`, `ReturnsClean`, `ListenerOutlivesWorker` |
| `Gate` | `Control`, `Traffic` | `StopCanReach`, `ResultIsFinal`, `TwoFdSound` |
| `Dial` | `Inv` | `GridEven`, `DialsSettle` |
| `RelayUring` | `Inv` | `CapHolds`, `DescriptorsOwned`, `WorkPending`, `ResultFindsConn`, `BuffersNotShared`, `CopiesStayHome` |

**Bridge.** `Inv == TypeOK /\ OneWake /\ NoLostWakeup` is inductive as it stands.
`OneWake` says that `notified` is 1 exactly while one wake-up is outstanding and
in exactly one of four places: a hook about to write, the counter, the completed
read, the ring thread before its clear. That is what `NoLostWakeup` needs at the
one dangerous step, a swap that finds the flag set. `BridgeImplementsMailbox`
maps `ready` to the mailbox's queue: an append is a `Put`, a drain is a
`TakeAll` (or a stutter when the list is empty), every other step stutters.

**Ring.** `Submission` and `Completion` say that neither ring is overrun and that
the batch of a turn is in the completion ring; `Activity` says that something is
alive or about to be posted, and that a thread that waits has submitted all of it.
The first lemmas turn index arithmetic modulo `IndexMod` and slot arithmetic modulo
the size of a ring into linear arithmetic, which needs that `IndexMod` is a multiple
of both sizes (2^32 and powers of two in the code); the next say what a write behind
a window of a ring and an advance of its front do to the sequence it holds.
`RingImplementsIoQueue` maps the two windows to the queues of `IoQueue` and holds
whether or not the kernel submits short. `RingNeverBlocks` assumes
`ShortSubmits = FALSE`: without it the property is false (see above).

**Worker, the cap.** `ConnCap` is not inductive: that an admitted client fits needs
the fact that its accept is still counted. `AcceptsCounted` says so: completed
accepts that wait to be handled are at most `acceptInflight`. `Inv == TypeOK /\
ConnCap /\ AcceptsCounted` is. The closures and handlers other than `OnAccept`
and `Turn` are shown to be quiet steps (the table only shrinks, accepts are
untouched); `OnAccept` moves one unit from `acceptInflight` to `conns`; `TopUp`
fills the room that is left. `WorkerNeverSheds` follows: a waiting accept counts
at least 1 in `acceptInflight`, so `conns` is below `MaxConns`. The assumptions
are those of `ConstantsAssumption`, which `Config.defaults` establishes.

**Worker, a connection's life.** `EveryConnHasWork` counts operations, jobs, hooks
and results of one connection. `Work` adds what makes the counts inductive: the
batch and the rest of the ring hold different operations (`Apart`), and both the
batch and the queue are empty while the worker waits (`WaitsIdle`); nothing is
outstanding for an id not yet handed out (`OpsIssued`, `HooksIssued`); for every
entry of the table, which operations belong to its stage and what its fields then
are (`Entries`); what a connection was charged to at each stage (`Charges`); that
a hook call's connection is still there or was swept (`HooksLive`), and that the
one whose job waits to be sent is still there (`BlockedLive`). Each handler is shown to take one operation of its connection away
and to add what its branch posts, and to leave all others alone. `StatsPartition`,
`CompletedIsClean` and `BlockedOnlyByGone` are then facts about one state.
`WorkerNeverBlocks` assumes `IdleTicks = 0` (no idle timeout) and `JobsCap >=
MaxConns`, which is a caller's `MaxConns` of at most the 65536 of `worker.go:146`;
with an idle timeout `BlockedOnlyByGone` says what remains. `WorkerNoPost` is an action property
and follows from `Inv` alone. `WorkerPeers` adds one invariant, that a hook told a
wrong address works for a connection that is not open (`PeersOfOpen`): what is
closing or gone never opens again, and `HooksLive` then says that it was swept.

**Worker, descriptors.** `DescriptorsOwned` and `TeardownAccounted` need each other:
a connection leaves the table with a close still to be submitted unless `closesLeft`
is right, and that is right only when its two descriptors differ, which holds because
no descriptor has two holders. `Fds` says both (`Owned`, `Closes`), that a prepared
close is for a descriptor of a connection that is closing (`ClosesOwned`), and that
a connection that may still adopt an upstream has none (`OneUpstream`). It is
inductive together with `Work`, because whether a late result brings an upstream
to a connection depends on the hook calls it has.

**Stream.** `Base(d)` is the position before the first byte that direction `d`
delivers: the consumed part of the request, or, below zero, the replies that come
first. `Placed` says that what was delivered and what is in the buffer lie behind it
without a gap; `Relays` that in the relay phase they reach to the last byte
received; `Before`, `Request` and `Replies` say the same of the phases before, where
the bytes are in the request buffer and the pending reply; `Counts` ties the byte
counters to them. `StreamsIntact` needs all of them, because the hand-over from the
request buffer to the relay buffers must leave no gap.

**Server.** `ReturnsClean` rests on the wait group: `Inv` says that `wg` is the
number of active workers, so a wait that returns finds none. It also says which
listening sockets are open at each place of `Run` (the one being made included,
from its `socket` call on), that workers exist only while `Run` waits for them,
and what a ring may hold: nothing outside its use, at most the descriptor
before the first mapping, no separate completion ring on kernels with one
mapping. The last two make each error path of `uring.New`, and `Close`, give
back all there is. `ServerListenerOutlives` follows from the first three. The
assumptions are those of `ServerAssumption`; that `defaults` keeps the number of
workers in bounds is a lemma. `Sound` is the rest of the type
invariant: `DefaultsSound` for every configuration that `New` accepts, which is
what `ConstantsAssumption` and `StreamAssumption` take for granted.

**Gate.** `Control` is about the daemon and the storms: who holds the mutex
(`Exclusive`), that a running storm's channel is in `cancelCur`, or with one `/stop`,
or closed (`Channel`), which worker
works on which connection (`Holds`), which samples there are (`Sampling`), and that a
result is the counters of a run whose workers have all returned (`Results`). It does
not depend on the sockets. `Traffic` says which token of the request, the reply or
the stream is in which of the four sockets and goroutines of a tunnel (`OneShot` for
storms, `InOrder` for echoes), so that a reply that was read implies a request that
the sink has served. The assumptions are `NetpollAssumption`, `ChurnAssumption` and
`TunnelAssumption`: finitely many connections, named by positive numbers as requests
are, and sockets that hold at least one token.

**Dial.** `GridEven` compares two counters; `Filled` gives each its value as a function
of `dialSeq`: a cell was chosen once in every full turn, and once more if its place
is among the first `dialSeq % Cells`. A step adds one at exactly the place the
counter has reached; the lemmas prove the arithmetic of quotients and remainders
this needs. `TargetServed` and `NoSocketLeft`, the parts of `DialsSettle`, are
inductive with what a sink holds while it scans (`Scanned`) and what the targets are
made of (`Targets`).

**RelayUring.** None of the six invariants of the run is inductive alone, and they
need each other in a circle. A struct can be given to the next client only because no
operation of the former connection reads or writes its buffer (`BuffersNotShared`);
that is so because at the last close nothing else of the connection is left (`Life`);
the last close is the right one because `closesLeft` counts the closes in flight, and
there are as many as the connection has descriptors because these are different and
its own (`DescriptorsOwned`, `Sockets`, `Tags`); and they are its own because no
operation or late result of a former user of the number is left. `Inv` is the
conjunction of
* `Types`, `Shapes`: types, and what an operation of each kind names;
* `Loop`: a ring thread that waits has submitted all it prepared;
* `Cap`: accepts in flight are with the kernel or not handled yet, so admitting a
  client moves one unit from them to the table, and a turn tops up only what is left;
* `Structs`: a struct serves one connection, is on the freelist once, or is unused;
* `Life`: for every id, the operations, hook calls and closes of its stage. An open
  connection has one of them before the relay phase, and then one per direction that
  has not ended (`Copying`) or two per direction (`Splicing`); a closing one has
  `closesLeft` closes and no step of the churn protocol; one that is gone, or still
  to come, has neither;
* `BuffersNotShared` and `DescriptorsOwned` as the run checks them;
* `Sockets`, `Tags`: the descriptors of an open connection are different and open in
  its name, and an accepted or dialled number is open for whom it was opened;
* `Home`: without pipes, what is prepared or in the kernel names files of its own
  connection. With pipes this is false (`relay_splice`).

A relay operation may outlive its connection, so `Life` says nothing of its relay
operations after the close: their completions are dropped by `OnStale`. Work is counted by
cardinalities, of positions in a sequence and of pairs of an operation and a copy's
number in the kernel's bag; the first lemmas say how appending, taking the head,
submitting and completing change such a count. Then each closure of the code
(`closeConn`, the release of the last close, the start of either relay) gets one lemma
per part of `Inv` it can disturb, and each handler combines these with the stage at
which it finds its connection: a handler that completes the one step that an open
connection has knows that nothing else of it is pending. `RelayAssumption`
gives the constants their types and is all that is assumed; a `jobs` channel smaller
than `-maxconns` only makes the ring thread wait. `CopiesAreHome` is not
claimed of the splice mode, where the run `relay_splice` refutes it.

**Only model-checked.** Liveness (`ClosingEnds`, `StopDrains`, `RunReturns`,
`RelayedBytesArrive`, `StopEnds`, `ConnsReleased`, `EchoDelivered`, the fairness
parts of `ImplementsMailbox` and `ImplementsIoQueue`), because it is outside the
prover. Every safety property of a passing run is proved.

## Not modelled

The shell and Python of the harness and the optimizer; the eBPF rewrite of SYNs
and the table of profiles (byte layout without changing state); core pinning, the
`Prep` helpers (field assignments of one entry), flag parsing, address parsing and
percentiles (no control to check); kernels without `IORING_FEAT_NODROP`, where the code itself only
warns; submission errors inside `post` (`worker.go:186` ignores them and tries
again); bytes in the pipes of a splicing connection. `PROJECT.json` gives the
reason for each component.

## Plan

1. Bytes in the pipes of a splicing connection, with both ways it may end.
2. A composition of `Worker` with `Ring` in which the submission queue fills
   inside a handler.
