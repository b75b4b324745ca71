------------------------------- MODULE Server --------------------------------
(***************************************************************************)
(* The life of a Server (src/flashrelay/flashrelay.go): New and its        *)
(* defaults, Run with its listeners and its wait group, Stop, and the      *)
(* set-up, the exit and the failures of the workers, down to the           *)
(* descriptors and mappings that rawsock.Listen, the worker and uring.New  *)
(* acquire and must give back.  What a worker does between its set-up and  *)
(* its exit is Worker.tla; here it serves until it has seen stop and has   *)
(* drained, or until Submit fails.                                         *)
(***************************************************************************)
EXTENDS Integers, FiniteSets, Sequences

CONSTANTS
  NumCPU,         \* runtime.NumCPU()
  Configs,        \* the configurations callers pass to New
  MaxWorkers      \* bound: workers of a server

Fields == {"Port", "Workers", "InitialReqLen", "MaxReqLen", "BufSize",
           "MaxConns", "AcceptBatch", "HookWorkers", "RingSize"}

ASSUME ServerAssumption ==
  /\ NumCPU \in Nat \ {0}
  /\ Configs \subseteq [Fields -> Int]
  /\ MaxWorkers \in Nat /\ NumCPU <= MaxWorkers
  /\ \A c \in Configs : c["Workers"] <= MaxWorkers

VARIABLES
  cfg,            \* Server.cfg, before New what the caller passed
  hook,           \* whether the caller passed a hook
  pc,             \* where the goroutine that calls New and Run is
  step,           \* the system call of rawsock.Listen that is next
  lns,            \* how many listeners lns holds
  lnOpen,         \* indices of the listening sockets that are open
  wkr,            \* where each worker is
  failed,         \* workers that gave up: eventfd2, uring.New or Submit
  efd,            \* workers whose eventfd is open
  ring,           \* what each worker's ring has acquired
  singleMmap,     \* the kernel's IORING_FEAT_SINGLE_MMAP
  wg,             \* Server.wg
  stop,           \* Server.stop
  err             \* what New or Run returned: "nil" or the kind of error

vars == <<cfg, hook, pc, step, lns, lnOpen, wkr, failed, efd, ring,
          singleMmap, wg, stop, err>>

runVars == <<cfg, hook, pc, step, lns, lnOpen, err>>
workerVars == <<wkr, failed, efd, ring>>

(* The workers that may exist in this run. *)
Workers == 1..cfg["Workers"]
AllWorkers == 1..MaxWorkers

-----------------------------------------------------------------------------
(* New.                                                                    *)

Default(c, f, v) == IF c[f] <= 0 THEN v ELSE c[f]

(* Seeded fault: MaxReqLen is not raised to InitialReqLen. *)
defaultsUnclamped(c) ==
  [f \in Fields |->
     CASE f = "Workers" -> Default(c, f, NumCPU)
       [] f = "InitialReqLen" -> Default(c, f, 64)
       [] f = "MaxReqLen" -> Default(c, f, 8192)
       [] f = "BufSize" -> Default(c, f, 16384)
       [] f = "MaxConns" -> Default(c, f, 50000)
       [] f = "AcceptBatch" -> Default(c, f, 64)
       [] f = "HookWorkers" -> Default(c, f, 256)
       [] f = "RingSize" -> Default(c, f, 4096)
       [] OTHER -> c[f]]

(* Config.defaults: every size that is not positive gets its default, and  *)
(* the first read must always fit.                                         *)
defaults(c) ==
  [f \in Fields |->
     CASE f = "Workers" -> Default(c, f, NumCPU)
       [] f = "InitialReqLen" -> Default(c, f, 64)
       [] f = "MaxReqLen" ->
            LET initial == Default(c, "InitialReqLen", 64)
                max == Default(c, f, 8192)
            IN IF max < initial THEN initial ELSE max
       [] f = "BufSize" -> Default(c, f, 16384)
       [] f = "MaxConns" -> Default(c, f, 50000)
       [] f = "AcceptBatch" -> Default(c, f, 64)
       [] f = "HookWorkers" -> Default(c, f, 256)
       [] f = "RingSize" -> Default(c, f, 4096)
       [] OTHER -> c[f]]

Init ==
  /\ cfg \in Configs /\ hook \in BOOLEAN
  /\ pc = "new" /\ step = 1 /\ lns = 0 /\ lnOpen = {}
  /\ wkr = [w \in AllWorkers |-> "none"] /\ failed = {} /\ efd = {}
  /\ ring = [w \in AllWorkers |-> {}] /\ singleMmap \in BOOLEAN
  /\ wg = 0 /\ stop = FALSE /\ err = "nil"

NewRefuses ==
  /\ pc = "new" /\ (~hook \/ cfg["Port"] <= 0)
  /\ pc' = "refused"
  /\ err' = IF ~hook THEN "nil hook" ELSE "invalid port"
  /\ UNCHANGED <<cfg, hook, step, lns, lnOpen, workerVars, singleMmap, wg, stop>>

New ==
  /\ pc = "new" /\ hook /\ cfg["Port"] > 0
  /\ cfg' = defaults(cfg)
  /\ pc' = "listen"
  /\ UNCHANGED <<hook, step, lns, lnOpen, err, workerVars, singleMmap, wg, stop>>

-----------------------------------------------------------------------------
(* Run: the listeners.  The socket of the listener being made is number    *)
(* lns + 1.  New refuses port 0, so Listen's last step, reading an         *)
(* ephemeral port back, is never taken here.                               *)

ListenSteps == <<"resolve", "socket", "SO_REUSEADDR", "SO_REUSEPORT", "bind",
                 "listen">>

Listen ==
  /\ pc = "listen" /\ lns < cfg["Workers"]
  /\ lnOpen' = IF ListenSteps[step] = "socket" THEN lnOpen \cup {lns + 1}
               ELSE lnOpen
  /\ IF step = Len(ListenSteps) THEN step' = 1 /\ lns' = lns + 1
     ELSE step' = step + 1 /\ UNCHANGED lns
  /\ UNCHANGED <<cfg, hook, pc, err, workerVars, singleMmap, wg, stop>>

(* Any of the calls may fail; after the socket call the socket is closed. *)
ListenFails ==
  /\ pc = "listen" /\ lns < cfg["Workers"]
  /\ lnOpen' = lnOpen \ {lns + 1}
  /\ pc' = "unwind"
  /\ UNCHANGED <<cfg, hook, step, lns, err, workerVars, singleMmap, wg, stop>>

Unwind ==
  /\ pc = "unwind"
  /\ lnOpen' = lnOpen \ 1..lns
  /\ err' = "listener" /\ pc' = "returned"
  /\ UNCHANGED <<cfg, hook, step, lns, workerVars, singleMmap, wg, stop>>

ListenDone ==
  /\ pc = "listen" /\ lns = cfg["Workers"]
  /\ pc' = "start"
  /\ UNCHANGED <<cfg, hook, step, lns, lnOpen, err, workerVars, singleMmap, wg,
                 stop>>

(* Run: the workers are counted and started one by one. *)
Unstarted == {w \in Workers : wkr[w] = "none"}

(* Seeded fault: the worker counts itself when it gets to run. *)
StartWorkerUncounted ==
  /\ pc = "start"
  /\ \E w \in Unstarted : /\ \A u \in Unstarted : w <= u
                         /\ wkr' = [wkr EXCEPT ![w] = "started"]
  /\ UNCHANGED <<runVars, failed, efd, ring, singleMmap, wg, stop>>

StartWorker ==
  /\ pc = "start"
  /\ wg' = wg + 1
  /\ \E w \in Unstarted : /\ \A u \in Unstarted : w <= u
                         /\ wkr' = [wkr EXCEPT ![w] = "started"]
  /\ UNCHANGED <<runVars, failed, efd, ring, singleMmap, stop>>

(* Seeded fault: Run waits for all workers but one. *)
WaitReturnsEarly ==
  /\ pc = "start" /\ Unstarted = {} /\ wg <= 1
  /\ lnOpen' = lnOpen \ 1..lns
  /\ pc' = "returned" /\ err' = "nil"
  /\ UNCHANGED <<cfg, hook, step, lns, workerVars, singleMmap, wg, stop>>

(* wg.Wait returns; the listeners are closed. *)
WaitReturns ==
  /\ pc = "start" /\ Unstarted = {} /\ wg = 0
  /\ lnOpen' = lnOpen \ 1..lns
  /\ pc' = "returned" /\ err' = "nil"
  /\ UNCHANGED <<cfg, hook, step, lns, workerVars, singleMmap, wg, stop>>

(* Stop may be called at any time after New, also before Run. *)
Stop ==
  /\ pc \notin {"new", "refused"} /\ ~stop
  /\ stop' = TRUE
  /\ UNCHANGED <<runVars, workerVars, singleMmap, wg>>

-----------------------------------------------------------------------------
(* A worker: the eventfd, the ring, the loop.                              *)

Step(w, from, to) ==
  /\ wkr[w] = from
  /\ wkr' = [wkr EXCEPT ![w] = to]
  /\ UNCHANGED <<runVars, singleMmap, stop>>

Eventfd(w) ==
  /\ Step(w, "started", "setup")
  /\ efd' = efd \cup {w}
  /\ UNCHANGED <<failed, ring, wg>>

EventfdFails(w) ==
  /\ Step(w, "started", "done")
  /\ failed' = failed \cup {w}
  /\ UNCHANGED <<efd, ring, wg>>

(* What uring.New acquires next: the ring's descriptor, the submission     *)
(* ring, the completion ring unless the kernel puts both into one mapping, *)
(* the entries.                                                            *)
RingNext(r) == CASE "fd" \notin r -> "fd"
                 [] "fd" \in r /\ "sq" \notin r -> "sq"
                 [] "sq" \in r /\ ~singleMmap /\ "cq" \notin r -> "cq"
                 [] OTHER -> "sqes"
RingComplete(w) == "sqes" \in ring[w]

RingAcquires(w) ==
  /\ wkr[w] = "setup" /\ ~RingComplete(w)
  /\ ring' = [ring EXCEPT ![w] = @ \cup {RingNext(ring[w])}]
  /\ UNCHANGED <<runVars, wkr, failed, efd, singleMmap, wg, stop>>

(* Ring.Close: what is there is given back; with one mapping for both      *)
(* rings there is no completion ring to unmap.                             *)
RingClose(r) ==
  r \ ({"sqes", "sq", "fd"} \cup (IF singleMmap THEN {} ELSE {"cq"}))

(* Seeded fault: an error of the third mapping only closes the descriptor. *)
RingFailsOpen(w) ==
  /\ Step(w, "setup", "done") /\ ~RingComplete(w)
  /\ ring' = [ring EXCEPT ![w] = @ \ {"fd"}]
  /\ failed' = failed \cup {w}
  /\ UNCHANGED <<efd, wg>>

(* An error of the first mapping closes the descriptor, one of a later     *)
(* mapping closes the ring; the worker gives up.                           *)
RingFails(w) ==
  /\ Step(w, "setup", "done") /\ ~RingComplete(w)
  /\ ring' = [ring EXCEPT ![w] = IF RingNext(ring[w]) = "sq" THEN @ \ {"fd"}
                                 ELSE RingClose(@)]
  /\ failed' = failed \cup {w}
  /\ UNCHANGED <<efd, wg>>

Serve(w) ==
  /\ Step(w, "setup", "serving") /\ RingComplete(w)
  /\ UNCHANGED <<failed, efd, ring, wg>>

(* The worker has seen stop and has drained (Exit of Worker.tla). *)
Drained(w) ==
  /\ stop /\ Step(w, "serving", "exit")
  /\ UNCHANGED <<failed, efd, ring, wg>>

SubmitFails(w) ==
  /\ Step(w, "serving", "exit")
  /\ failed' = failed \cup {w}
  /\ UNCHANGED <<efd, ring, wg>>

(* The deferred calls: ring.Close, then wg.Done.  The eventfd stays open. *)
CloseRing(w) ==
  /\ Step(w, "exit", "done")
  /\ ring' = [ring EXCEPT ![w] = RingClose(@)]
  /\ UNCHANGED <<failed, efd, wg>>

(* Seeded fault: a worker that gave up before its loop is not counted. *)
DoneIfServed(w) ==
  /\ Step(w, "done", "gone")
  /\ wg' = IF w \in failed THEN wg ELSE wg - 1
  /\ UNCHANGED <<failed, efd, ring>>

Done(w) ==
  /\ Step(w, "done", "gone")
  /\ wg' = wg - 1
  /\ UNCHANGED <<failed, efd, ring>>

-----------------------------------------------------------------------------
Caller == NewRefuses \/ New \/ Listen \/ ListenFails \/ Unwind \/ ListenDone
          \/ StartWorker \/ WaitReturns

WorkerSteps(w) ==
  Eventfd(w) \/ EventfdFails(w) \/ RingAcquires(w) \/ RingFails(w)
  \/ Serve(w) \/ CloseRing(w) \/ Done(w)

WorkerLeaves(w) == Drained(w) \/ SubmitFails(w)

Next == Caller \/ Stop
        \/ \E w \in AllWorkers : WorkerSteps(w) \/ WorkerLeaves(w)

(* The caller calls Run, and its goroutine and the set-up and the exit of  *)
(* each worker keep running.  Nothing forces Stop, and nothing forces a    *)
(* serving worker to leave: it drains only once its table is empty         *)
(* (worker.go:603), which may be never: with IdleTimeout = 0 a silent peer *)
(* keeps its connection there for ever, and a thread stuck in the send on  *)
(* jobs (worker.go:320) ends no connection.  StopDrains of WorkerProps     *)
(* says when a worker does drain.                                          *)
Spec ==
  /\ Init /\ [][Next]_vars
  /\ WF_vars(Caller)
  /\ \A w \in AllWorkers : WF_vars(WorkerSteps(w))

-----------------------------------------------------------------------------
Active(w) == wkr[w] \notin {"none", "gone"}

(* The configuration that New hands to the workers satisfies what Worker   *)
(* and Stream assume of their constants, whatever the caller passed: all   *)
(* sizes are positive and the first read fits into MaxReqLen.              *)
DefaultsSound ==
  pc \notin {"new", "refused"} =>
    /\ \A f \in Fields : cfg[f] > 0
    /\ cfg["InitialReqLen"] <= cfg["MaxReqLen"]

(* The state is well typed; the wait group never goes below zero, which    *)
(* would panic; and what New hands to the workers is sound.                *)
TypeOK ==
  /\ DefaultsSound
  /\ cfg \in [Fields -> Int] /\ hook \in BOOLEAN
  /\ pc \in {"new", "refused", "listen", "unwind", "start", "returned"}
  /\ step \in 1..Len(ListenSteps) /\ lns \in 0..MaxWorkers
  /\ lnOpen \subseteq AllWorkers
  /\ wkr \in [AllWorkers -> {"none", "started", "setup", "serving", "exit",
                             "done", "gone"}]
  /\ failed \subseteq AllWorkers /\ efd \subseteq AllWorkers
  /\ ring \in [AllWorkers -> SUBSET {"fd", "sq", "cq", "sqes"}]
  /\ singleMmap \in BOOLEAN /\ wg \in 0..MaxWorkers /\ stop \in BOOLEAN
  /\ err \in {"nil", "nil hook", "invalid port", "listener"}

(* When Run returns, with an error or without, no listener is open, no     *)
(* worker runs and no ring is left mapped: also when a listener could not  *)
(* be made or workers failed half way through their set-up.                *)
ReturnsClean ==
  pc = "returned" =>
    /\ lnOpen = {}
    /\ \A w \in AllWorkers : ~Active(w) /\ ring[w] = {}

(* A worker that runs has its listener: Run closes the listeners only      *)
(* after the last worker is done with its accepts.                         *)
ListenerOutlivesWorker == \A w \in AllWorkers : Active(w) => w \in lnOpen

(* Run comes back unless some worker serves for ever: whatever fails,      *)
(* however far the set-up had got and whether workers left by Stop or by a *)
(* failure, no worker that has ended is waited for (wg.Wait,               *)
(* flashrelay.go:219) and no error path hangs.  That workers leave after Stop  *)
(* is not claimed here: see StopDrains of WorkerProps.                     *)
RunReturns ==
  \/ \E w \in AllWorkers : <>[](wkr[w] = "serving")
  \/ <>(pc \in {"refused", "returned"})
=============================================================================
