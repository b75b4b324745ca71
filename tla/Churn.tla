-------------------------------- MODULE Churn --------------------------------
(***************************************************************************)
(* The load side of the churn experiments: storm.Run, whose workers open   *)
(* one connection after the other, and loadgend, the daemon that starts    *)
(* and stops storms on behalf of HTTP requests.  A /run request runs the   *)
(* storm in its own handler; a /stop request is served beside it.          *)
(***************************************************************************)
EXTENDS Sink

CONSTANTS
  Runs,        \* /run requests, numbered from 1
  Stops,       \* clients that send /stop requests, one after the other
  Workers      \* workers of a storm (Config.InFlight)

ASSUME ChurnAssumption == Runs \subseteq Nat \ {0}

VARIABLES
  run,         \* where the handler of a /run request is
  busy,        \* the mutex busy is held
  cancelCur,   \* the channel /stop would close: that of a run, or none (0)
  closes,      \* how often the channel of each run was closed
  chan,        \* the channel the handler of a /stop request has taken, or 0
  worker,      \* worker[r][w]: where worker w of the storm of run r is
  cur,         \* cur[r][w]: its connection
  attempt,     \* whose connection c is and where it was counted
  sampled,     \* connections whose latency was appended
  result       \* what storm.Run returned: counted and sampled connections

daemonVars == <<run, busy, cancelCur, closes, chan>>
stormVars == <<worker, cur, attempt, sampled, result>>
churnVars == <<daemonVars, stormVars>>

(* measuring and the channel stop follow the main goroutine of Run. *)
Measuring(r) == run[r] = "window"
StopClosed(r) == run[r] \in {"waiting", "returned", "cleared", "done"}

CountedIn(r, bucket) == {c \in Conns : attempt[c] = [run |-> r, as |-> bucket]}

ChurnInit ==
  /\ run = [r \in Runs |-> "new"] /\ busy = FALSE
  /\ cancelCur = 0 /\ closes = [r \in Runs |-> 0]
  /\ chan = [s \in Stops |-> 0]
  /\ worker = [r \in Runs |-> [w \in Workers |-> "off"]]
  /\ cur = [r \in Runs |-> [w \in Workers |-> 0]]
  /\ attempt = [c \in Conns |-> [run |-> 0, as |-> "none"]]
  /\ sampled = {}
  /\ result = [r \in Runs |-> [completed |-> {}, samples |-> {}]]

-----------------------------------------------------------------------------
(* loadgend: /run.                                                         *)

Handle(r, from, to) == run[r] = from /\ run' = [run EXCEPT ![r] = to]

Conflict(r) ==
  /\ busy /\ Handle(r, "new", "refused")
  /\ UNCHANGED <<busy, cancelCur, closes, chan, stormVars, sockVars>>

TryLock(r) ==
  /\ ~busy /\ Handle(r, "new", "locked") /\ busy' = TRUE
  /\ UNCHANGED <<cancelCur, closes, chan, stormVars, sockVars>>

BadRequest(r) ==
  /\ Handle(r, "locked", "refused") /\ busy' = FALSE
  /\ UNCHANGED <<cancelCur, closes, chan, stormVars, sockVars>>

(* The cancel channel is published and storm.Run starts its workers. *)
StartStorm(r) ==
  /\ Handle(r, "locked", "warmup") /\ cancelCur' = r
  /\ worker' = [worker EXCEPT ![r] = [w \in Workers |-> "top"]]
  /\ UNCHANGED <<busy, closes, chan, cur, attempt, sampled, result,
                 sockVars>>

(* No target, source or destination that resolves: Run returns at once. *)
BadTarget(r) ==
  /\ Handle(r, "locked", "returned") /\ cancelCur' = r
  /\ UNCHANGED <<busy, closes, chan, stormVars, sockVars>>

(* sleepOrCancel, twice: the warm-up, then the window. *)
AfterSleep(r) ==
  \/ Handle(r, "warmup", "window") \/ Handle(r, "window", "waiting")

Timer(r) ==
  /\ AfterSleep(r)
  /\ UNCHANGED <<busy, cancelCur, closes, chan, stormVars, sockVars>>

Cancelled(r) ==
  /\ closes[r] > 0 /\ AfterSleep(r)
  /\ UNCHANGED <<busy, cancelCur, closes, chan, stormVars, sockVars>>

Counts(r) == [completed |-> CountedIn(r, "completed"),
              samples |-> {c \in sampled : attempt[c].run = r}]

(* Seeded fault: the counters are read without waiting for the workers. *)
WaitReturnsEarly(r) ==
  /\ Handle(r, "waiting", "returned")
  /\ result' = [result EXCEPT ![r] = Counts(r)]
  /\ UNCHANGED <<busy, cancelCur, closes, chan, worker, cur, attempt,
                 sampled, sockVars>>

(* wg.Wait, the merge of the samples and the Result. *)
WaitReturns(r) ==
  /\ \A w \in Workers : worker[r][w] = "off"
  /\ Handle(r, "waiting", "returned")
  /\ result' = [result EXCEPT ![r] = Counts(r)]
  /\ UNCHANGED <<busy, cancelCur, closes, chan, worker, cur, attempt,
                 sampled, sockVars>>

(* Seeded fault: the deferred calls in the other order. *)
DeferredSwapped(r) ==
  /\ \/ Handle(r, "returned", "cleared") /\ busy' = FALSE /\ UNCHANGED cancelCur
     \/ Handle(r, "cleared", "done") /\ cancelCur' = 0 /\ UNCHANGED busy
  /\ UNCHANGED <<closes, chan, stormVars, sockVars>>

(* After the answer the deferred calls: cancelCur = nil, busy.Unlock. *)
Deferred(r) ==
  /\ \/ Handle(r, "returned", "cleared") /\ cancelCur' = 0 /\ UNCHANGED busy
     \/ Handle(r, "cleared", "done") /\ busy' = FALSE /\ UNCHANGED cancelCur
  /\ UNCHANGED <<closes, chan, stormVars, sockVars>>

(* Seeded fault: the channel stays the current one. *)
TakeCancelKeeps(s) ==
  /\ chan[s] = 0 /\ cancelCur # 0
  /\ chan' = [chan EXCEPT ![s] = cancelCur]
  /\ UNCHANGED <<run, busy, cancelCur, closes, stormVars, sockVars>>

(* loadgend: /stop.  Without a current channel the answer is "no storm     *)
(* running" and nothing changes.                                           *)
TakeCancel(s) ==
  /\ chan[s] = 0 /\ cancelCur # 0
  /\ chan' = [chan EXCEPT ![s] = cancelCur] /\ cancelCur' = 0
  /\ UNCHANGED <<run, busy, closes, stormVars, sockVars>>

CloseCancel(s) ==
  /\ chan[s] # 0
  /\ closes' = [closes EXCEPT ![chan[s]] = @ + 1]
  /\ chan' = [chan EXCEPT ![s] = 0]
  /\ UNCHANGED <<run, busy, cancelCur, stormVars, sockVars>>

-----------------------------------------------------------------------------
(* A worker of a storm.                                                    *)

Step(r, w, from, to) ==
  worker[r][w] = from /\ worker' = [worker EXCEPT ![r][w] = to]

Tally(c, bucket) == attempt' = [attempt EXCEPT ![c].as = bucket]

(* The close of the client's end, together with the count of the attempt. *)
Finish(c, bucket) ==
  Close(c, {"cl"}, inbox) /\ Tally(c, bucket)

WorkerStops(r, w) ==
  /\ StopClosed(r) /\ Step(r, w, "top", "off")
  /\ UNCHANGED <<cur, attempt, sampled, result, daemonVars, sockVars>>

Unused == {c \in Conns : attempt[c].run = 0}

(* The look at stop, after which it may be closed before the dial. *)
WorkerGoesOn(r, w) ==
  /\ ~StopClosed(r) /\ Unused # {} /\ Step(r, w, "top", "dial")
  /\ LET c == CHOOSE x \in Unused : \A y \in Unused : x <= y
     IN /\ cur' = [cur EXCEPT ![r][w] = c]
        /\ attempt' = [attempt EXCEPT ![c].run = r]
  /\ UNCHANGED <<sampled, result, daemonVars, sockVars>>

(* An ordinary connection or junk. *)
WorkerDials(r, w) ==
  /\ \E to \in {"dialed", "junk"} : Step(r, w, "dial", to)
  /\ Connect(cur[r][w], "cl")
  /\ UNCHANGED <<inbox, cur, attempt, sampled, result, daemonVars>>

WorkerDialFails(r, w) ==
  /\ Step(r, w, "dial", "top") /\ Tally(cur[r][w], "errors")
  /\ UNCHANGED <<cur, sampled, result, daemonVars, sockVars>>

(* Seeded fault: the junk connection is left open. *)
JunkOpen(r, w) ==
  /\ Step(r, w, "junk", "top")
  /\ Tally(cur[r][w], IF Measuring(r) THEN "junk" ELSE "warmup")
  /\ UNCHANGED <<cur, sampled, result, daemonVars, sockVars>>

(* Connect, close, count: no request, no upstream. *)
Junk(r, w) ==
  /\ Step(r, w, "junk", "top")
  /\ Finish(cur[r][w], IF Measuring(r) THEN "junk" ELSE "warmup")
  /\ UNCHANGED <<cur, sampled, result, daemonVars>>

WriteRequest(r, w) ==
  /\ Step(r, w, "dialed", "reading") /\ Write(cur[r][w], "cl", "request")
  /\ UNCHANGED <<sock, cur, attempt, sampled, result, daemonVars>>

(* The deadline covers the write, too. *)
WriteRequestFails(r, w) ==
  /\ Step(r, w, "dialed", "top")
  /\ Finish(cur[r][w], "errors")
  /\ UNCHANGED <<cur, sampled, result, daemonVars>>

(* ReadFull, close, audit. *)
ReadReply(r, w) ==
  LET c == cur[r][w] IN
  /\ worker[r][w] = "reading" /\ Readable(c, "cl")
  /\ IF Head(inbox[c]["cl"]) = "reply"
       THEN Step(r, w, "reading", "verified") /\ UNCHANGED attempt
       ELSE Step(r, w, "reading", "top") /\ Tally(c, "auditFail")
  /\ Close(c, {"cl"}, Drop(inbox, c, "cl"))
  /\ UNCHANGED <<cur, sampled, result, daemonVars>>

(* Seeded faults: a failed read is not told from a complete one; the read  *)
(* has no deadline.                                                        *)
ReadReplyFailsOn(r, w) ==
  /\ Step(r, w, "reading", "verified")
  /\ Close(cur[r][w], {"cl"}, inbox)
  /\ UNCHANGED <<cur, attempt, sampled, result, daemonVars>>

ReadReplyFailsLate(r, w) ==
  /\ Step(r, w, "reading", "top") /\ AtEnd(cur[r][w], "cl")
  /\ Finish(cur[r][w], "errors")
  /\ UNCHANGED <<cur, sampled, result, daemonVars>>

(* The read ends early, or at the deadline, whatever the relay does. *)
ReadReplyFails(r, w) ==
  /\ Step(r, w, "reading", "top")
  /\ Finish(cur[r][w], "errors")
  /\ UNCHANGED <<cur, sampled, result, daemonVars>>

(* The look at measuring and the count; Run reads the counters only when   *)
(* the worker has returned, so that nothing comes between the two.         *)
Count(r, w) ==
  /\ Tally(cur[r][w], IF Measuring(r) THEN "completed" ELSE "warmup")
  /\ Step(r, w, "verified", IF Measuring(r) THEN "counted" ELSE "top")
  /\ UNCHANGED <<cur, sampled, result, daemonVars, sockVars>>

Sample(r, w) ==
  /\ Step(r, w, "counted", "top")
  /\ sampled' = sampled \cup {cur[r][w]}
  /\ UNCHANGED <<cur, attempt, result, daemonVars, sockVars>>

-----------------------------------------------------------------------------
(* The steps of a /run request after it has arrived. *)
RunStep(r) ==
  \/ BadRequest(r) \/ StartStorm(r) \/ BadTarget(r)
  \/ Cancelled(r) \/ WaitReturns(r) \/ Deferred(r)

StopStep(s) == TakeCancel(s) \/ CloseCancel(s)

WorkerStep(r, w) ==
  \/ WorkerStops(r, w) \/ WorkerGoesOn(r, w)
  \/ WorkerDials(r, w) \/ WorkerDialFails(r, w) \/ Junk(r, w)
  \/ WriteRequest(r, w) \/ WriteRequestFails(r, w)
  \/ ReadReply(r, w) \/ ReadReplyFails(r, w) \/ Count(r, w) \/ Sample(r, w)

ChurnStep ==
  \/ \E r \in Runs : Conflict(r) \/ TryLock(r) \/ RunStep(r) \/ Timer(r)
  \/ \E s \in Stops : StopStep(s)
  \/ \E r \in Runs, w \in Workers : WorkerStep(r, w)
=============================================================================
