---------------------------- MODULE ServerProofs -----------------------------
(***************************************************************************)
(* Run of Server.tla gives everything back, for every number of workers,   *)
(* every configuration and every pattern of failures.                      *)
(***************************************************************************)
EXTENDS Server, FiniteSetTheorems, TLAPS

ActiveSet == {w \in AllWorkers : Active(w)}

(* The listening sockets that are open at each place of Run; a listener is *)
(* being made only while there are fewer than workers.                     *)
ListenersOpen ==
  /\ lnOpen = CASE pc = "listen" /\ step > 2 -> 1..(lns + 1)
               [] pc \in {"new", "refused", "returned"} -> {}
               [] OTHER -> 1..lns
  /\ pc = "listen" /\ step > 1 => lns < cfg["Workers"]

(* Workers exist only from the start of the workers on, each has its       *)
(* listener, and none is active when Run has returned.                     *)
WorkersPlaced ==
  /\ pc = "start" => lns = cfg["Workers"]
  /\ \A w \in AllWorkers :
       wkr[w] # "none" => pc \in {"start", "returned"} /\ w \in Workers
  /\ pc = "returned" => ActiveSet = {}

(* What a ring may hold, and that it holds nothing outside its use. *)
RingsPlaced ==
  \A w \in AllWorkers :
    /\ ring[w] \subseteq {"fd", "sq", "sqes"}
                         \cup (IF singleMmap THEN {} ELSE {"cq"})
    /\ "sq" \notin ring[w] => ring[w] \subseteq {"fd"}
    /\ wkr[w] \in {"none", "started", "done", "gone"} => ring[w] = {}

Types ==
  /\ cfg \in [Fields -> Int] /\ cfg["Workers"] <= MaxWorkers
  /\ step \in 1..6 /\ lns \in Nat
  /\ wkr \in [AllWorkers -> {"none", "started", "setup", "serving", "exit",
                             "done", "gone"}]
  /\ ring \in [AllWorkers -> SUBSET {"fd", "sq", "cq", "sqes"}]
  /\ pc \in {"new", "refused", "listen", "unwind", "start", "returned"}

(* The inductive invariant.  The wait group counts the active workers:     *)
(* that is why a wait that returns finds none.                             *)
Inv ==
  /\ Types
  /\ pc = "new" => cfg \in Configs /\ lns = 0 /\ step = 1
  /\ wg = Cardinality(ActiveSet)
  /\ ListenersOpen
  /\ WorkersPlaced
  /\ RingsPlaced

(* There are finitely many workers. *)
LEMMA ActiveFinite == IsFiniteSet(ActiveSet) /\ Cardinality(ActiveSet) \in Nat
<1>1. IsFiniteSet(AllWorkers)
  BY ServerAssumption, FS_Interval DEF AllWorkers
<1>2. ActiveSet \subseteq AllWorkers
  BY DEF ActiveSet
<1>3. QED
  BY <1>1, <1>2, FS_Subset, FS_CardinalityType

(* Len of the constant sequence of system calls of Listen. *)
LEMMA ListenLen == Len(ListenSteps) = 6 /\ ListenSteps[2] = "socket"
                   /\ \A i \in 1..6 : i # 2 => ListenSteps[i] # "socket"
BY DEF ListenSteps

(* The initial states satisfy the invariant: nothing is open. *)
LEMMA InitInv == Init => Inv
<1> SUFFICES ASSUME Init PROVE Inv
  OBVIOUS
<1>1. Types
  BY ServerAssumption DEF Init, Types
<1>2. ActiveSet = {}
  BY DEF Init, ActiveSet, Active
<1>3. wg = Cardinality(ActiveSet)
  BY <1>2, FS_EmptySet DEF Init
<1>4. ListenersOpen /\ WorkersPlaced /\ RingsPlaced
  BY <1>2 DEF Init, ListenersOpen, WorkersPlaced, RingsPlaced
<1>5. QED
  BY <1>1, <1>3, <1>4 DEF Inv, Init

(* defaults makes the number of workers positive and keeps it in bounds. *)
LEMMA DefaultsWorkers ==
  ASSUME NEW c \in Configs
  PROVE  /\ defaults(c) \in [Fields -> Int]
         /\ defaults(c)["Workers"] <= MaxWorkers
<1>1. c \in [Fields -> Int] /\ c["Workers"] <= MaxWorkers
  BY ServerAssumption
<1>2. ASSUME NEW f \in Fields, NEW v \in Int PROVE Default(c, f, v) \in Int
  BY <1>1 DEF Default
<1>3. "Workers" \in Fields /\ "InitialReqLen" \in Fields /\ "MaxReqLen" \in Fields
  BY DEF Fields
<1>4. defaults(c)["Workers"] = Default(c, "Workers", NumCPU)
  BY <1>3 DEF defaults
<1>5. Default(c, "Workers", NumCPU) <= MaxWorkers
  BY <1>1, ServerAssumption DEF Default
<1>6. ASSUME NEW f \in Fields PROVE defaults(c)[f] \in Int
  <2>1. c[f] \in Int
    BY <1>1
  <2>2. QED
    BY <1>2, <1>3, <2>1, ServerAssumption DEF defaults
<1>7. QED
  BY <1>4, <1>5, <1>6 DEF defaults

(* The parts of the invariant that speak of workers survive a step that    *)
(* touches no worker, no ring and no listener of a worker.                 *)
LEMMA CallerKeeps ==
  ASSUME Inv, UNCHANGED <<workerVars, singleMmap, wg>>
  PROVE  /\ ActiveSet' = ActiveSet
         /\ wg' = Cardinality(ActiveSet')
         /\ RingsPlaced'
<1>1. ActiveSet' = ActiveSet
  BY DEF workerVars, ActiveSet, Active
<1>2. QED
  BY <1>1 DEF Inv, RingsPlaced, workerVars

(* Before the start of the workers none is active. *)
LEMMA NoneActive ==
  ASSUME Inv, pc \notin {"start", "returned"}
  PROVE  ActiveSet = {} /\ \A w \in AllWorkers : wkr[w] = "none"
BY DEF Inv, WorkersPlaced, ActiveSet, Active

(* Steps of New and Run, except the start of a worker. *)
LEMMA CallerInv ==
  ASSUME Inv,
         NewRefuses \/ New \/ Listen \/ ListenFails \/ Unwind \/ ListenDone
         \/ WaitReturns
  PROVE  Inv'
<1>0. UNCHANGED <<workerVars, singleMmap, wg>>
  BY DEF NewRefuses, New, Listen, ListenFails, Unwind, ListenDone, WaitReturns
<1>1. /\ ActiveSet' = ActiveSet
      /\ wg' = Cardinality(ActiveSet')
      /\ RingsPlaced'
  BY <1>0, CallerKeeps
<1>2. wkr' = wkr /\ ring' = ring
  BY <1>0 DEF workerVars
<1>3. CASE NewRefuses
  BY <1>1, <1>2, <1>3, NoneActive
     DEF NewRefuses, Inv, Types, ListenersOpen, WorkersPlaced
<1>4. CASE New
  <2>1. cfg \in Configs /\ pc = "new" /\ pc' = "listen"
    BY <1>4 DEF New, Inv
  <2>2. cfg' \in [Fields -> Int] /\ cfg'["Workers"] <= MaxWorkers
    BY <2>1, <1>4, DefaultsWorkers DEF New
  <2>3. Types'
    BY <1>2, <1>4, <2>1, <2>2 DEF New, Inv, Types
  <2>4. ListenersOpen'
    BY <1>4, <2>1 DEF New, Inv, ListenersOpen
  <2>5. WorkersPlaced'
    BY <1>2, <2>1, NoneActive DEF WorkersPlaced
  <2>6. QED
    BY <1>1, <2>1, <2>3, <2>4, <2>5 DEF Inv
<1>5. CASE Listen
  <2>1. /\ pc = "listen" /\ pc' = "listen" /\ cfg' = cfg
        /\ step \in 1..6 /\ lns \in Nat
    BY <1>5 DEF Listen, Inv, Types
  <2>2. \/ step = 6 /\ step' = 1 /\ lns' = lns + 1
        \/ step < 6 /\ step' = step + 1 /\ lns' = lns
    BY <1>5, <2>1, ListenLen DEF Listen
  <2>3. lnOpen' = IF step = 2 THEN lnOpen \cup {lns + 1} ELSE lnOpen
    BY <1>5, <2>1, ListenLen DEF Listen
  <2>4. lnOpen = IF step > 2 THEN 1..(lns + 1) ELSE 1..lns
    BY <2>1 DEF Inv, ListenersOpen
  <2>5. lnOpen' = IF step' > 2 THEN 1..(lns' + 1) ELSE 1..lns'
    <3>1. CASE step = 6
      BY <2>1, <2>2, <2>3, <2>4, <3>1
    <3>2. CASE step = 2
      <4>1. lnOpen' = (1..lns) \cup {lns + 1}
        BY <2>3, <2>4, <3>2
      <4>2. (1..lns) \cup {lns + 1} = 1..(lns + 1)
        BY <2>1
      <4>3. QED
        BY <2>2, <4>1, <4>2, <3>2
    <3>3. CASE step # 6 /\ step # 2
      BY <2>1, <2>2, <2>3, <2>4, <3>3
    <3>4. QED
      BY <3>1, <3>2, <3>3
  <2>6. Types'
    BY <1>2, <2>1, <2>2 DEF Inv, Types
  <2>7. ListenersOpen'
    <3>1. "Workers" \in Fields /\ cfg["Workers"] \in Int
      BY DEF Inv, Types, Fields
    <3>2. pc' = "listen" /\ step' > 1 => lns' < cfg'["Workers"]
      BY <1>5, <2>1, <2>2, <3>1 DEF Listen
    <3>3. lnOpen' = CASE pc' = "listen" /\ step' > 2 -> 1..(lns' + 1)
                      [] pc' \in {"new", "refused", "returned"} -> {}
                      [] OTHER -> 1..lns'
      BY <2>1, <2>5
    <3>4. QED
      BY <3>2, <3>3 DEF ListenersOpen
  <2>8. WorkersPlaced'
    BY <1>2, <2>1, NoneActive DEF WorkersPlaced
  <2>9. QED
    BY <1>1, <2>1, <2>6, <2>7, <2>8 DEF Inv
<1>6. CASE ListenFails
  <2>1. /\ pc = "listen" /\ pc' = "unwind" /\ cfg' = cfg
        /\ lns' = lns /\ lns \in Nat /\ step' = step /\ step \in 1..6
        /\ lnOpen' = lnOpen \ {lns + 1}
    BY <1>6 DEF ListenFails, Inv, Types
  <2>2. lnOpen = 1..lns \/ lnOpen = 1..(lns + 1)
    BY <2>1 DEF Inv, ListenersOpen
  <2>3. lnOpen' = 1..lns
    <3>1. (1..lns) \ {lns + 1} = 1..lns /\ (1..(lns + 1)) \ {lns + 1} = 1..lns
      BY <2>1
    <3>2. QED
      BY <2>1, <2>2, <3>1
  <2>4. Types' /\ ListenersOpen'
    BY <1>2, <2>1, <2>3 DEF Inv, Types, ListenersOpen
  <2>5. WorkersPlaced'
    BY <1>2, <2>1, NoneActive DEF WorkersPlaced
  <2>6. QED
    BY <1>1, <2>1, <2>4, <2>5 DEF Inv
<1>7. CASE Unwind
  <2>1. /\ pc = "unwind" /\ pc' = "returned" /\ lnOpen' = lnOpen \ 1..lns
        /\ lnOpen = 1..lns /\ UNCHANGED <<cfg, step, lns>>
    BY <1>7 DEF Unwind, Inv, ListenersOpen
  <2>2. ActiveSet = {} /\ \A w \in AllWorkers : wkr[w] = "none"
    BY <2>1, NoneActive
  <2>3. QED
    BY <1>1, <1>2, <2>1, <2>2 DEF Inv, Types, ListenersOpen, WorkersPlaced
<1>8. CASE ListenDone
  <2>1. /\ pc = "listen" /\ pc' = "start" /\ lns = cfg["Workers"]
        /\ UNCHANGED <<cfg, step, lns, lnOpen>>
    BY <1>8 DEF ListenDone
  <2>2. step = 1
    BY <2>1 DEF Inv, Types, ListenersOpen
  <2>3. ListenersOpen'
    BY <2>1, <2>2 DEF Inv, ListenersOpen
  <2>4. WorkersPlaced'
    BY <1>2, <2>1, NoneActive DEF WorkersPlaced
  <2>5. QED
    BY <1>1, <1>2, <2>1, <2>3, <2>4 DEF Inv, Types
<1>9. CASE WaitReturns
  <2>1. /\ pc = "start" /\ pc' = "returned" /\ wg = 0
        /\ lnOpen' = lnOpen \ 1..lns /\ UNCHANGED <<cfg, step, lns>>
    BY <1>9 DEF WaitReturns
  <2>2. ActiveSet = {}
    BY <2>1, ActiveFinite, FS_EmptySet DEF Inv
  <2>3. lnOpen = 1..lns
    BY <2>1 DEF Inv, ListenersOpen
  <2>4. lnOpen' = {}
    BY <2>1, <2>3
  <2>5. WorkersPlaced'
    BY <1>1, <1>2, <2>1, <2>2 DEF Inv, WorkersPlaced, Workers
  <2>6. QED
    BY <1>1, <1>2, <2>1, <2>4, <2>5 DEF Inv, Types, ListenersOpen
<1>10. QED
  BY <1>3, <1>4, <1>5, <1>6, <1>7, <1>8, <1>9

(* A step of one worker that leaves Run alone, keeps the worker active and *)
(* keeps what is said of its ring.                                         *)
LEMMA WorkerKeeps ==
  ASSUME Inv, NEW w \in AllWorkers, Active(w),
         UNCHANGED <<runVars, singleMmap, wg>>,
         NEW to \in {"started", "setup", "serving", "exit", "done"},
         NEW held \in SUBSET {"fd", "sq", "cq", "sqes"},
         wkr' = [wkr EXCEPT ![w] = to],
         ring' = [ring EXCEPT ![w] = held],
         held \subseteq {"fd", "sq", "sqes"}
                        \cup (IF singleMmap THEN {} ELSE {"cq"}),
         "sq" \notin held => held \subseteq {"fd"},
         to \in {"started", "done"} => held = {}
  PROVE  Inv'
<1>1. UNCHANGED <<cfg, hook, pc, step, lns, lnOpen, err>>
  BY DEF runVars
<1>2. Types'
  BY <1>1 DEF Inv, Types
<1>3. \A v \in AllWorkers : Active(v)' <=> Active(v)
  BY DEF Inv, Types, Active
<1>4. ActiveSet' = ActiveSet
  BY <1>3 DEF ActiveSet
<1>5. wg' = Cardinality(ActiveSet')
  BY <1>4 DEF Inv
<1>6. ListenersOpen'
  BY <1>1 DEF Inv, ListenersOpen
<1>7. WorkersPlaced'
  BY <1>1, <1>4 DEF Inv, Types, WorkersPlaced, Workers, Active
<1>8. RingsPlaced'
  <2> SUFFICES ASSUME NEW v \in AllWorkers
               PROVE  /\ ring'[v] \subseteq {"fd", "sq", "sqes"}
                           \cup (IF singleMmap THEN {} ELSE {"cq"})
                      /\ "sq" \notin ring'[v] => ring'[v] \subseteq {"fd"}
                      /\ wkr'[v] \in {"none", "started", "done", "gone"}
                           => ring'[v] = {}
    BY DEF RingsPlaced
  <2>1. CASE v = w
    BY <2>1 DEF Inv, Types
  <2>2. CASE v # w
    BY <2>2 DEF Inv, Types, RingsPlaced
  <2>3. QED
    BY <2>1, <2>2
<1>9. QED
  BY <1>1, <1>2, <1>5, <1>6, <1>7, <1>8 DEF Inv

(* A worker starts: it is counted, and has its listener. *)
LEMMA StartInv == ASSUME Inv, StartWorker PROVE Inv'
<1>1. PICK w \in Unstarted : wkr' = [wkr EXCEPT ![w] = "started"]
  BY DEF StartWorker
<1>2. /\ pc = "start" /\ wg' = wg + 1 /\ ring' = ring
      /\ UNCHANGED <<cfg, pc, step, lns, lnOpen, singleMmap>>
  BY DEF StartWorker, runVars
<1>3. "Workers" \in Fields
  BY DEF Fields
<1>4. w \in Workers /\ w \in AllWorkers /\ wkr[w] = "none"
  BY <1>3, ServerAssumption DEF Unstarted, Workers, AllWorkers, Inv, Types
<1>5. Types'
  BY <1>1, <1>2 DEF Inv, Types
<1>6. ActiveSet' = ActiveSet \cup {w} /\ w \notin ActiveSet
  BY <1>1, <1>4 DEF ActiveSet, Active, Inv, Types
<1>7. wg' = Cardinality(ActiveSet')
  BY <1>2, <1>6, ActiveFinite, FS_AddElement DEF Inv
<1>8. ListenersOpen'
  BY <1>2 DEF Inv, ListenersOpen
<1>9. WorkersPlaced'
  BY <1>1, <1>2, <1>4 DEF Inv, Types, WorkersPlaced, Workers
<1>10. RingsPlaced'
  BY <1>1, <1>2, <1>4 DEF Inv, Types, RingsPlaced
<1>11. QED
  BY <1>2, <1>5, <1>7, <1>8, <1>9, <1>10 DEF Inv

(* A worker is done: it is no longer counted, and left nothing. *)
LEMMA DoneInv == ASSUME Inv, NEW w \in AllWorkers, Done(w) PROVE Inv'
<1>1. /\ wkr[w] = "done" /\ wkr' = [wkr EXCEPT ![w] = "gone"]
      /\ wg' = wg - 1 /\ ring' = ring
      /\ UNCHANGED <<cfg, pc, step, lns, lnOpen, singleMmap>>
  BY DEF Done, Step, runVars
<1>2. Types'
  BY <1>1 DEF Inv, Types
<1>3. ActiveSet' = ActiveSet \ {w} /\ w \in ActiveSet
  BY <1>1 DEF ActiveSet, Active, Inv, Types
<1>4. wg' = Cardinality(ActiveSet')
  BY <1>1, <1>3, ActiveFinite, FS_RemoveElement DEF Inv
<1>5. ListenersOpen'
  BY <1>1 DEF Inv, ListenersOpen
<1>6. WorkersPlaced'
  BY <1>1, <1>3 DEF Inv, Types, WorkersPlaced, Workers
<1>7. RingsPlaced'
  BY <1>1 DEF Inv, Types, RingsPlaced
<1>8. QED
  BY <1>1, <1>2, <1>4, <1>5, <1>6, <1>7 DEF Inv

(* Every other step of a worker. *)
LEMMA WorkerInv ==
  ASSUME Inv, NEW w \in AllWorkers, WorkerSteps(w) \/ WorkerLeaves(w)
  PROVE  Inv'
<1>0. /\ wkr \in [AllWorkers -> {"none", "started", "setup", "serving", "exit",
                                 "done", "gone"}]
      /\ ring \in [AllWorkers -> SUBSET {"fd", "sq", "cq", "sqes"}]
      /\ ring[w] \subseteq {"fd", "sq", "sqes"}
                           \cup (IF singleMmap THEN {} ELSE {"cq"})
      /\ "sq" \notin ring[w] => ring[w] \subseteq {"fd"}
      /\ wkr[w] \in {"none", "started", "done", "gone"} => ring[w] = {}
  BY DEF Inv, Types, RingsPlaced
<1>1. ring = [ring EXCEPT ![w] = ring[w]] /\ wkr = [wkr EXCEPT ![w] = wkr[w]]
  BY <1>0
<1>2. CASE Eventfd(w)
  BY <1>0, <1>1, <1>2, WorkerKeeps DEF Eventfd, Step, Active
<1>3. CASE EventfdFails(w)
  BY <1>0, <1>1, <1>3, WorkerKeeps DEF EventfdFails, Step, Active
<1>4. CASE RingAcquires(w)
  <2> DEFINE held == ring[w] \cup {RingNext(ring[w])}
  <2>1. /\ held \subseteq {"fd", "sq", "sqes"}
                          \cup (IF singleMmap THEN {} ELSE {"cq"})
        /\ "sq" \notin held => held \subseteq {"fd"}
        /\ held \in SUBSET {"fd", "sq", "cq", "sqes"}
    BY <1>0 DEF RingNext
  <2>2. wkr[w] = "setup" /\ ring' = [ring EXCEPT ![w] = held] /\ wkr' = wkr
        /\ UNCHANGED <<runVars, singleMmap, wg>>
    BY <1>4 DEF RingAcquires
  <2> HIDE DEF held
  <2>3. QED
    BY <1>0, <1>1, <2>1, <2>2, WorkerKeeps DEF Active
<1>5. CASE RingFails(w)
  <2>1. (IF RingNext(ring[w]) = "sq" THEN ring[w] \ {"fd"}
         ELSE RingClose(ring[w])) = {}
    BY <1>0 DEF RingNext, RingClose
  <2>2. /\ wkr[w] = "setup" /\ wkr' = [wkr EXCEPT ![w] = "done"]
        /\ ring' = [ring EXCEPT ![w] = {}]
        /\ UNCHANGED <<runVars, singleMmap, wg>>
    BY <1>5, <2>1 DEF RingFails, Step
  <2>3. QED
    BY <1>0, <2>2, WorkerKeeps DEF Active
<1>6. CASE Serve(w)
  BY <1>0, <1>1, <1>6, WorkerKeeps DEF Serve, Step, Active
<1>7. CASE Drained(w)
  BY <1>0, <1>1, <1>7, WorkerKeeps DEF Drained, Step, Active
<1>8. CASE SubmitFails(w)
  BY <1>0, <1>1, <1>8, WorkerKeeps DEF SubmitFails, Step, Active
<1>9. CASE CloseRing(w)
  <2>1. RingClose(ring[w]) = {}
    BY <1>0 DEF RingClose
  <2>2. /\ wkr[w] = "exit" /\ wkr' = [wkr EXCEPT ![w] = "done"]
        /\ ring' = [ring EXCEPT ![w] = {}]
        /\ UNCHANGED <<runVars, singleMmap, wg>>
    BY <1>9, <2>1 DEF CloseRing, Step
  <2>3. QED
    BY <1>0, <2>2, WorkerKeeps DEF Active
<1>10. CASE Done(w)
  BY <1>10, DoneInv
<1>11. QED
  BY <1>2, <1>3, <1>4, <1>5, <1>6, <1>7, <1>8, <1>9, <1>10
     DEF WorkerSteps, WorkerLeaves

(* A step that changes nothing the invariant speaks of. *)
LEMMA QuietInv ==
  ASSUME Inv, UNCHANGED <<runVars, workerVars, singleMmap, wg>> PROVE Inv'
<1>1. ActiveSet' = ActiveSet
  BY DEF workerVars, ActiveSet, Active
<1>2. QED
  BY <1>1 DEF Inv, Types, ListenersOpen, WorkersPlaced, RingsPlaced, Workers,
              runVars, workerVars

(* The invariant is inductive. *)
LEMMA NextInv == Inv /\ [Next]_vars => Inv'
<1> SUFFICES ASSUME Inv, [Next]_vars PROVE Inv'
  OBVIOUS
<1>1. CASE Caller
  BY <1>1, CallerInv, StartInv DEF Caller
<1>2. CASE Stop
  BY <1>2, QuietInv DEF Stop
<1>3. CASE \E w \in AllWorkers : WorkerSteps(w) \/ WorkerLeaves(w)
  BY <1>3, WorkerInv
<1>4. CASE UNCHANGED vars
  BY <1>4, QuietInv DEF vars, runVars, workerVars
<1>5. QED
  BY <1>1, <1>2, <1>3, <1>4 DEF Next

(* Every state of a server satisfies the invariant. *)
LEMMA ServerInv == Spec => []Inv
<1>1. QED
  BY InitInv, NextInv, PTL DEF Spec

(* Run gives everything back on every path, for every number of workers,   *)
(* every configuration and every failure of Listen, eventfd2, uring.New    *)
(* or Submit.                                                              *)
THEOREM ServerReturnsClean == Spec => []ReturnsClean
<1>1. Inv => ReturnsClean
  <2> SUFFICES ASSUME Inv, pc = "returned"
               PROVE  lnOpen = {} /\ \A w \in AllWorkers : ~Active(w) /\ ring[w] = {}
    BY DEF ReturnsClean
  <2>1. lnOpen = {}
    BY DEF Inv, ListenersOpen
  <2>2. ASSUME NEW w \in AllWorkers PROVE ~Active(w)
    BY DEF Inv, WorkersPlaced, ActiveSet
  <2>3. ASSUME NEW w \in AllWorkers PROVE ring[w] = {}
    BY <2>2 DEF Inv, RingsPlaced, Active
  <2>4. QED
    BY <2>1, <2>2, <2>3
<1>2. QED
  BY <1>1, ServerInv, PTL

(* No listener is closed under a worker that still runs. *)
THEOREM ServerListenerOutlives == Spec => []ListenerOutlivesWorker
<1>1. Inv => ListenerOutlivesWorker
  <2> SUFFICES ASSUME Inv, NEW w \in AllWorkers, Active(w) PROVE w \in lnOpen
    BY DEF ListenerOutlivesWorker
  <2>1. pc = "start" /\ w \in Workers
    BY DEF Inv, WorkersPlaced, ActiveSet, Active
  <2>2. lnOpen = 1..lns /\ lns = cfg["Workers"]
    BY <2>1 DEF Inv, ListenersOpen, WorkersPlaced
  <2>3. QED
    BY <2>1, <2>2 DEF Workers
<1>2. QED
  BY <1>1, ServerInv, PTL

-----------------------------------------------------------------------------
(* The rest of the type invariant: the configuration of a server that New  *)
(* did not refuse is sound, and the number of listeners is in bounds.      *)
Sound ==
  /\ DefaultsSound
  /\ lns <= MaxWorkers
  /\ hook \in BOOLEAN /\ singleMmap \in BOOLEAN /\ stop \in BOOLEAN
  /\ failed \subseteq AllWorkers /\ efd \subseteq AllWorkers
  /\ err \in {"nil", "nil hook", "invalid port", "listener"}

(* What defaults makes of a configuration whose port is positive: every    *)
(* field is positive and the first read fits, whatever the caller passed.  *)
LEMMA DefaultsAreSound ==
  ASSUME NEW c \in Configs, c["Port"] > 0
  PROVE  /\ \A f \in Fields : defaults(c)[f] > 0
         /\ defaults(c)["InitialReqLen"] <= defaults(c)["MaxReqLen"]
<1>1. c \in [Fields -> Int]
  BY ServerAssumption
<1>2. ASSUME NEW f \in Fields, NEW v \in Nat \ {0}
      PROVE  Default(c, f, v) \in Nat \ {0}
  BY <1>1 DEF Default
<1>3. "InitialReqLen" \in Fields /\ "MaxReqLen" \in Fields
  BY DEF Fields
<1>4. PICK initial \in Nat \ {0} : initial = Default(c, "InitialReqLen", 64)
  BY <1>2, <1>3
<1>5. PICK max \in Nat \ {0} : max = Default(c, "MaxReqLen", 8192)
  BY <1>2, <1>3
<1>6. /\ defaults(c)["InitialReqLen"] = initial
      /\ defaults(c)["MaxReqLen"] = IF max < initial THEN initial ELSE max
  BY <1>3, <1>4, <1>5 DEF defaults
<1>7. ASSUME NEW f \in Fields PROVE defaults(c)[f] > 0
  <2>1. CASE f \in {"InitialReqLen", "MaxReqLen"}
    BY <1>4, <1>5, <1>6, <2>1
  <2>2. CASE f = "Workers"
    <3>1. defaults(c)[f] = Default(c, f, NumCPU)
      BY <2>2 DEF defaults, Fields
    <3>2. QED
      BY <1>2, <3>1, ServerAssumption
  <2>3. CASE f = "Port"
    BY <2>3 DEF defaults, Fields
  <2>4. CASE f \in {"BufSize", "MaxConns", "AcceptBatch", "HookWorkers",
                    "RingSize"}
    <3>1. \E v \in Nat \ {0} : defaults(c)[f] = Default(c, f, v)
      BY <2>4 DEF defaults, Fields
    <3>2. QED
      BY <1>2, <3>1
  <2>5. QED
    BY <2>1, <2>2, <2>3, <2>4 DEF Fields
<1>8. QED
  BY <1>4, <1>5, <1>6, <1>7

(* Steps of New and Run keep the rest sound. *)
LEMMA CallerSound == ASSUME Inv, Sound, Caller PROVE Sound'
<1>0. "Workers" \in Fields /\ cfg["Workers"] \in Int /\ cfg["Workers"] <= MaxWorkers
      /\ lns \in Nat /\ MaxWorkers \in Nat
  BY ServerAssumption DEF Inv, Types, Fields
<1>1. /\ UNCHANGED <<hook, singleMmap, stop>>
      /\ failed' = failed /\ efd' = efd
  BY DEF Caller, NewRefuses, New, Listen, ListenFails, Unwind, ListenDone,
         StartWorker, WaitReturns, runVars, workerVars
<1>2. err' \in {"nil", "nil hook", "invalid port", "listener"}
  BY DEF Sound, Caller, NewRefuses, New, Listen, ListenFails, Unwind,
         ListenDone, StartWorker, WaitReturns, runVars
<1>3. lns' <= MaxWorkers
  <2>1. CASE Listen
    <3>1. lns < cfg["Workers"] /\ (lns' = lns \/ lns' = lns + 1)
      BY <2>1 DEF Listen
    <3>2. QED
      BY <1>0, <3>1
  <2>2. CASE ~Listen
    BY <2>2 DEF Sound, Caller, NewRefuses, New, ListenFails, Unwind,
                ListenDone, StartWorker, WaitReturns, runVars
  <2>3. QED
    BY <2>1, <2>2
<1>4. DefaultsSound'
  <2>1. CASE New
    <3>1. cfg \in Configs /\ cfg["Port"] > 0 /\ cfg' = defaults(cfg)
      BY <2>1 DEF New, Inv
    <3>2. QED
      BY <3>1, DefaultsAreSound DEF DefaultsSound
  <2>2. CASE NewRefuses
    BY <2>2 DEF NewRefuses, DefaultsSound
  <2>3. CASE ~New /\ ~NewRefuses
    <3>1. cfg' = cfg /\ pc \notin {"new", "refused"}
      BY <2>3 DEF Caller, Listen, ListenFails, Unwind, ListenDone,
                  StartWorker, WaitReturns, runVars
    <3>2. QED
      BY <3>1 DEF Sound, DefaultsSound
  <2>4. QED
    BY <2>1, <2>2, <2>3
<1>5. QED
  BY <1>1, <1>2, <1>3, <1>4 DEF Sound

(* So do Stop and the steps of the workers. *)
LEMMA NextSound == Inv /\ Sound /\ [Next]_vars => Sound'
<1> SUFFICES ASSUME Inv, Sound, [Next]_vars PROVE Sound'
  OBVIOUS
<1>1. CASE Caller
  BY <1>1, CallerSound
<1>2. CASE Stop
  BY <1>2 DEF Stop, runVars, workerVars, Sound, DefaultsSound
<1>3. ASSUME NEW w \in AllWorkers, WorkerSteps(w) \/ WorkerLeaves(w) PROVE Sound'
  <2>1. UNCHANGED <<runVars, singleMmap, stop>>
    BY <1>3 DEF WorkerSteps, WorkerLeaves, SubmitFails, Eventfd, EventfdFails,
                RingAcquires, RingFails, Serve, Drained, CloseRing, Done, Step
  <2>2. failed' \subseteq failed \cup {w} /\ efd' \subseteq efd \cup {w}
    BY <1>3 DEF WorkerSteps, WorkerLeaves, SubmitFails, Eventfd, EventfdFails,
                RingAcquires, RingFails, Serve, Drained, CloseRing, Done
  <2>3. QED
    BY <2>1, <2>2 DEF Sound, DefaultsSound, runVars
<1>4. CASE UNCHANGED vars
  BY <1>4 DEF vars, Sound, DefaultsSound
<1>5. QED
  BY <1>1, <1>2, <1>3, <1>4 DEF Next

(* Whatever configuration a caller passes, New refuses it or hands the     *)
(* workers one that satisfies what Worker.tla and Stream.tla assume; and   *)
(* the wait group counts between zero and the number of workers, so that   *)
(* no Done panics.                                                         *)
THEOREM ServerTypes == Spec => []TypeOK
<1>1. Init => Sound
  <2> SUFFICES ASSUME Init PROVE Sound
    OBVIOUS
  <2>1. hook \in BOOLEAN /\ singleMmap \in BOOLEAN /\ stop \in BOOLEAN
    BY Zenon DEF Init
  <2>2. DefaultsSound /\ lns <= MaxWorkers /\ failed = {} /\ efd = {} /\ err = "nil"
    BY ServerAssumption DEF Init, DefaultsSound
  <2>3. QED
    BY <2>1, <2>2 DEF Sound
<1>2. Inv /\ Sound => TypeOK
  <2> SUFFICES ASSUME Inv, Sound PROVE TypeOK
    OBVIOUS
  <2>1. MaxWorkers \in Nat /\ IsFiniteSet(AllWorkers)
        /\ Cardinality(AllWorkers) = MaxWorkers
    BY ServerAssumption, FS_Interval DEF AllWorkers
  <2>2. wg \in 0..MaxWorkers
    <3>1. ActiveSet \subseteq AllWorkers
      BY DEF ActiveSet
    <3>2. Cardinality(ActiveSet) <= Cardinality(AllWorkers)
      BY <2>1, <3>1, FS_Subset
    <3>3. QED
      BY <2>1, <3>2, ActiveFinite DEF Inv
  <2>3. lnOpen \subseteq AllWorkers
    <3>1. "Workers" \in Fields
      BY DEF Fields
    <3>2. lns \in Nat /\ cfg["Workers"] \in Int /\ cfg["Workers"] <= MaxWorkers
          /\ lns <= MaxWorkers
      BY <3>1 DEF Inv, Types, Sound
    <3>3. CASE pc = "listen" /\ step > 2
      <4>1. lns < cfg["Workers"] /\ lnOpen = 1..(lns + 1)
        BY <3>3 DEF Inv, Types, ListenersOpen
      <4>2. QED
        BY <2>1, <3>2, <4>1 DEF AllWorkers
    <3>4. CASE ~(pc = "listen" /\ step > 2)
      <4>1. lnOpen = {} \/ lnOpen = 1..lns
        BY <3>4 DEF Inv, ListenersOpen
      <4>2. QED
        BY <2>1, <3>2, <4>1 DEF AllWorkers
    <3>5. QED
      BY <3>3, <3>4
  <2>4. step \in 1..Len(ListenSteps) /\ lns \in 0..MaxWorkers
    <3>1. step \in 1..6 /\ lns \in Nat /\ lns <= MaxWorkers
      BY DEF Inv, Types, Sound
    <3>2. QED
      BY <2>1, <3>1, ListenLen
  <2>5. /\ cfg \in [Fields -> Int]
        /\ pc \in {"new", "refused", "listen", "unwind", "start", "returned"}
        /\ wkr \in [AllWorkers -> {"none", "started", "setup", "serving", "exit",
                                   "done", "gone"}]
        /\ ring \in [AllWorkers -> SUBSET {"fd", "sq", "cq", "sqes"}]
    BY DEF Inv, Types
  <2>6. QED
    BY <2>2, <2>3, <2>4, <2>5, Zenon DEF Sound, TypeOK
<1>3. QED
  BY <1>1, <1>2, InitInv, NextInv, NextSound, PTL DEF Spec

=============================================================================
