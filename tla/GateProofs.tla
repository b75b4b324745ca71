----------------------------- MODULE GateProofs ------------------------------
(***************************************************************************)
(* Proofs about the gate.  Control is inductive on its own: the mutex of   *)
(* loadgend, the journey of a cancel channel, what a worker of a storm     *)
(* holds and how connections are counted.  Traffic is inductive on top of  *)
(* it: which tokens the four inboxes of a tunnel hold, with the one-shot   *)
(* sink and with the echo sink.                                            *)
(***************************************************************************)
EXTENDS Gate, WellFoundedInduction, TLAPS

SafeSpec == Init /\ [][Next]_vars

Buckets == {"none", "errors", "junk", "warmup", "auditFail", "completed"}
Early == {"new", "locked", "refused"}
Ended == {"returned", "cleared", "done"}
Published == {"warmup", "window", "waiting", "returned"}
Handling == Published \cup {"locked", "cleared"}

ChurnTypes ==
  /\ run \in [Runs -> Early \cup Published \cup Ended]
  /\ busy \in BOOLEAN
  /\ cancelCur \in {0} \cup Runs
  /\ closes \in [Runs -> Nat]
  /\ chan \in [Stops -> {0} \cup Runs]
  /\ worker \in [Runs -> [Workers -> {"off", "top", "dial", "dialed", "junk",
                                      "reading", "verified", "counted"}]]
  /\ cur \in [Runs -> [Workers -> {0} \cup Conns]]
  /\ attempt \in [Conns -> [run : {0} \cup Runs, as : Buckets]]
  /\ sampled \subseteq Conns
  /\ result \in [Runs -> [completed : SUBSET Conns, samples : SUBSET Conns]]

(* The mutex busy is held by the one request that has passed TryLock. *)
Exclusive ==
  \A r \in Runs : run[r] \in Handling =>
    busy /\ \A q \in Runs : run[q] \in Handling => q = r

(* The channel of a run is the current one, or a /stop request has it, or  *)
(* it is closed: never two of these, and one of them during the storm.     *)
Channel(r) ==
  /\ closes[r] \in {0, 1}
  /\ cancelCur = r => /\ run[r] \in Published /\ closes[r] = 0
                      /\ \A s \in Stops : chan[s] # r
  /\ \A s \in Stops : chan[s] = r =>
       closes[r] = 0 /\ \A t \in Stops : chan[t] = r => t = s
  /\ run[r] \in Early => closes[r] = 0 /\ \A s \in Stops : chan[s] # r
  /\ InStorm(r) =>
       cancelCur = r \/ closes[r] = 1 \/ \E s \in Stops : chan[s] = r

(* The worker is between the look at stop and the count of its attempt. *)
Active(r, w) == worker[r][w] \notin {"off", "top"}

(* A worker runs during its storm only, and is the only one to use its     *)
(* connection, which is not yet counted, or counted and not yet sampled.   *)
Holds(r, w) ==
  /\ worker[r][w] # "off" => InStorm(r)
  /\ Active(r, w) =>
       /\ cur[r][w] \in Conns
       /\ attempt[cur[r][w]] =
            [run |-> r, as |-> IF worker[r][w] = "counted" THEN "completed"
                               ELSE "none"]
       /\ \A v \in Workers : Active(r, v) /\ cur[r][v] = cur[r][w] => v = w

(* A connection is sampled once it is counted as completed, or its worker  *)
(* is about to.                                                            *)
Sampling(c) ==
  /\ attempt[c].run = 0 => attempt[c].as = "none"
  /\ attempt[c].run \in Runs => run[attempt[c].run] \notin Early
  /\ c \in sampled => attempt[c].as = "completed"
  /\ attempt[c].as = "completed" =>
       \/ c \in sampled
       \/ \E w \in Workers : /\ worker[attempt[c].run][w] = "counted"
                             /\ cur[attempt[c].run][w] = c

Results(r) ==
  /\ run[r] \in Early => result[r] = [completed |-> {}, samples |-> {}]
  /\ run[r] \in Ended => result[r] = Counts(r)

Control ==
  /\ ChurnTypes /\ Exclusive
  /\ \A r \in Runs : Channel(r)
  /\ \A r \in Runs, w \in Workers : Holds(r, w)
  /\ \A c \in Conns : Sampling(c)
  /\ \A r \in Runs : Results(r)

-----------------------------------------------------------------------------
(* Any set of connections that is not empty has a first one: the choice of *)
(* WorkerGoesOn is a member of Unused.                                     *)
LEMMA First ==
  ASSUME NEW U \in SUBSET Nat, U # {}
  PROVE  (CHOOSE x \in U : \A y \in U : x <= y) \in U
  <1> DEFINE Less == OpToRel(<, Nat)
  <1>1. IsWellFoundedOn(Less, Nat)
    BY NatLessThanWellFounded
  <1>2. \E x \in U : \A y \in U : ~(<<y, x>> \in Less)
    <2> HIDE DEF Less
    <2> QED  BY <1>1, WFMin
  <1>3. PICK x \in U : \A y \in U : ~(<<y, x>> \in Less)
    BY <1>2
  <1>4. ASSUME NEW y \in U PROVE x <= y
    <2>1. y < x => <<y, x>> \in Less
      BY DEF OpToRel
    <2>2. ~(y < x)
      BY <1>3, <2>1
    <2> HIDE DEF Less
    <2> QED  BY <2>2
  <1> QED  BY <1>4

(* Nothing runs and nothing is counted when the daemon starts. *)
LEMMA ControlInit == ChurnInit => Control
  <1> SUFFICES ASSUME ChurnInit PROVE Control
    OBVIOUS
  <1> USE DEF ChurnInit
  <1>1. ChurnTypes
    BY DEF ChurnTypes, Early, Published, Ended, Buckets
  <1>2. Exclusive
    BY DEF Exclusive, Handling, Published
  <1>3. \A r \in Runs : Channel(r)
    BY ChurnAssumption DEF Channel, InStorm, Early
  <1>4. \A r \in Runs, w \in Workers : Holds(r, w)
    BY DEF Holds, Active
  <1>5. \A c \in Conns : Sampling(c)
    BY ChurnAssumption DEF Sampling
  <1>6. \A r \in Runs : Results(r)
    BY DEF Results, Ended
  <1> QED  BY <1>1, <1>2, <1>3, <1>4, <1>5, <1>6 DEF Control

(* Control is about the variables of the load generator. *)
LEMMA ControlStutter ==
  ASSUME Control, UNCHANGED churnVars
  PROVE  Control'
  <1> USE DEF churnVars, daemonVars, stormVars
  <1>1. ChurnTypes' /\ Exclusive'
    BY DEF Control, ChurnTypes, Exclusive
  <1>2. \A r \in Runs : Channel(r)'
    BY DEF Control, Channel, InStorm
  <1>3. \A r \in Runs, w \in Workers : Holds(r, w)'
    BY DEF Control, Holds, Active, InStorm
  <1>4. \A c \in Conns : Sampling(c)'
    BY DEF Control, Sampling
  <1>5. \A r \in Runs : Results(r)'
    BY DEF Control, Results, Counts, CountedIn
  <1> QED  BY <1>1, <1>2, <1>3, <1>4, <1>5 DEF Control

-----------------------------------------------------------------------------
(* The requests to the daemon.                                             *)

(* What a step of a handler of /run does to the rest when it leaves the    *)
(* workers, the counters and the results alone: it never takes the run     *)
(* back, nor ends a storm whose workers run.                               *)
LEMMA HandlerKeepsStorm ==
  ASSUME Control, NEW r \in Runs, NEW to \in Early \cup Published \cup Ended,
         run' = [run EXCEPT ![r] = to], UNCHANGED stormVars,
         to \in Early => run[r] \in Early,
         InStorm(r) => to \in {"warmup", "window", "waiting"},
         to \in Ended => run[r] \in Ended \/ result[r] = Counts(r)
  PROVE  /\ \A q \in Runs, w \in Workers : Holds(q, w)'
         /\ \A c \in Conns : Sampling(c)'
         /\ \A q \in Runs : Results(q)'
  <1> USE DEF stormVars
  <1>1. run \in [Runs -> Early \cup Published \cup Ended]
    BY DEF Control, ChurnTypes
  <1>2. ASSUME NEW q \in Runs, NEW w \in Workers PROVE Holds(q, w)'
    BY <1>1 DEF Control, Holds, Active, InStorm
  <1>3. ASSUME NEW c \in Conns PROVE Sampling(c)'
    BY <1>1 DEF Control, Sampling
  <1>4. ASSUME NEW q \in Runs PROVE Results(q)'
    BY <1>1, ZenonT(30) DEF Control, Results, Counts, CountedIn
  <1> QED  BY <1>2, <1>3, <1>4

(* A handler that leaves the channels alone and keeps its own published.   *)
LEMMA HandlerKeepsChannel ==
  ASSUME Control, NEW r \in Runs, NEW to \in Early \cup Published \cup Ended,
         run' = [run EXCEPT ![r] = to], UNCHANGED <<cancelCur, closes, chan>>,
         to \in Early => run[r] \in Early,
         run[r] \in Published => to \in Published,
         to \in {"warmup", "window", "waiting"} => InStorm(r)
  PROVE  \A q \in Runs : Channel(q)'
  <1>1. run \in [Runs -> Early \cup Published \cup Ended]
    BY DEF Control, ChurnTypes
  <1>2. ASSUME NEW q \in Runs PROVE Channel(q)'
    <2>0. Channel(q)
      BY DEF Control
    <2>1. CASE q = r
      <3>1. run'[q] = to
        BY <1>1, <2>1
      <3> QED  BY <2>0, <2>1, <3>1 DEF Channel, InStorm
    <2>2. CASE q # r
      <3>1. run'[q] = run[q]
        BY <1>1, <2>2
      <3> QED  BY <2>0, <3>1 DEF Channel, InStorm
    <2> QED  BY <2>1, <2>2
  <1> QED  BY <1>2

(* A request in the middle of a storm, or refused. *)
LEMMA RefusedControl ==
  ASSUME Control, NEW r \in Runs, Conflict(r) \/ BadRequest(r)
  PROVE  Control'
  <1> USE DEF Conflict, BadRequest, Handle
  <1>0. Control /\ ChurnTypes /\ Exclusive /\ Channel(r)
    BY DEF Control
  <1>1. ChurnTypes'
    BY <1>0 DEF ChurnTypes, stormVars, Early
  <1>2. Exclusive'
    BY <1>0, <1>1 DEF Exclusive, ChurnTypes, Handling, Published
  <1>3. \A q \in Runs : Channel(q)'
    <2>1. /\ run' = [run EXCEPT ![r] = "refused"]
          /\ UNCHANGED <<cancelCur, closes, chan>>
          /\ run[r] \in Early /\ run[r] \notin Published
      BY DEF Early, Published
    <2> QED  BY <1>0, <2>1, HandlerKeepsChannel DEF Early
  <1>4. /\ run' = [run EXCEPT ![r] = "refused"] /\ UNCHANGED stormVars
        /\ run[r] \in Early /\ ~InStorm(r)
    BY DEF Early, InStorm
  <1>5. /\ \A q \in Runs, w \in Workers : Holds(q, w)'
        /\ \A c \in Conns : Sampling(c)'
        /\ \A q \in Runs : Results(q)'
    BY <1>0, <1>4, HandlerKeepsStorm DEF Early, Ended
  <1> QED  BY <1>1, <1>2, <1>3, <1>5 DEF Control

(* The mutex is taken when nobody holds it. *)
LEMMA TryLockControl ==
  ASSUME Control, NEW r \in Runs, TryLock(r)
  PROVE  Control'
  <1> USE DEF TryLock, Handle
  <1>0. Control /\ ChurnTypes /\ Exclusive /\ Channel(r)
    BY DEF Control
  <1>1. ChurnTypes'
    BY <1>0 DEF ChurnTypes, stormVars, Early
  <1>2. Exclusive'
    BY <1>0, <1>1 DEF Exclusive, ChurnTypes, Handling, Published
  <1>3. \A q \in Runs : Channel(q)'
    <2>1. /\ run' = [run EXCEPT ![r] = "locked"]
          /\ UNCHANGED <<cancelCur, closes, chan>>
          /\ run[r] \in Early /\ run[r] \notin Published
      BY DEF Early, Published
    <2> QED  BY <1>0, <2>1, HandlerKeepsChannel DEF Early
  <1>4. /\ run' = [run EXCEPT ![r] = "locked"] /\ UNCHANGED stormVars
        /\ run[r] \in Early /\ ~InStorm(r)
    BY DEF Early, InStorm
  <1>5. /\ \A q \in Runs, w \in Workers : Holds(q, w)'
        /\ \A c \in Conns : Sampling(c)'
        /\ \A q \in Runs : Results(q)'
    BY <1>0, <1>4, HandlerKeepsStorm DEF Early, Ended
  <1> QED  BY <1>1, <1>2, <1>3, <1>5 DEF Control

(* The run publishes its channel: no other run has one to lose, for the    *)
(* mutex is held; and without workers there is nothing to count.           *)
LEMMA StartControl ==
  ASSUME Control, NEW r \in Runs, StartStorm(r) \/ BadTarget(r)
  PROVE  Control'
  <1> USE DEF StartStorm, BadTarget, Handle
  <1>0. Control /\ ChurnTypes /\ Exclusive /\ Channel(r) /\ Results(r)
    BY DEF Control
  <1>1. ChurnTypes'
    <2>1. CASE StartStorm(r)
      <3>1. worker'[r] = [w \in Workers |-> "top"]
        BY <1>0, <2>1 DEF ChurnTypes
      <3> QED  BY <1>0, <2>1, <3>1 DEF ChurnTypes, Early, Published
    <2>2. CASE BadTarget(r)
      BY <1>0, <2>2 DEF ChurnTypes, stormVars, Early, Published
    <2> QED  BY <2>1, <2>2
  <1>2. Exclusive'
    BY <1>0, <1>1, ZenonT(30) DEF Exclusive, ChurnTypes, Handling, Published
  <1>3. ASSUME NEW q \in Runs PROVE Channel(q)'
    <2>1. q # r => run[q] \notin Published
      BY <1>0 DEF Exclusive, Handling
    <2>2. cancelCur = 0 \/ cancelCur = r
      BY <1>0, <2>1 DEF Control, ChurnTypes, Channel, Exclusive, Handling
    <2> QED
      BY <1>0, <1>1, <2>1, <2>2
      DEF Control, Channel, InStorm, ChurnTypes, Early, Published
  <1>4. ASSUME BadTarget(r)
        PROVE  /\ \A q \in Runs, w \in Workers : Holds(q, w)'
               /\ \A c \in Conns : Sampling(c)'
               /\ \A q \in Runs : Results(q)'
    <2>1. \A c \in Conns : attempt[c].run # r
      BY <1>0, <1>4 DEF Control, Sampling, Early
    <2>2. result[r] = Counts(r)
      BY <1>0, <1>4, <2>1 DEF Results, Counts, CountedIn, Early, Control,
                              ChurnTypes
    <2> QED
      BY <1>0, <1>4, <2>2, HandlerKeepsStorm
      DEF Early, Ended, Published, InStorm
  <1>5. ASSUME StartStorm(r), NEW q \in Runs, NEW w \in Workers
        PROVE  Holds(q, w)'
    <2>1. worker[r][w] = "off"
      BY <1>0, <1>5 DEF Control, Holds, InStorm
    <2> QED
      BY <1>0, <1>1, <1>5, <2>1
      DEF Control, ChurnTypes, Holds, Active, InStorm
  <1>6. ASSUME StartStorm(r), NEW c \in Conns PROVE Sampling(c)'
    <2>1. attempt[c].run # r
      BY <1>0, <1>6 DEF Control, Sampling, Early
    <2> QED
      BY <1>0, <1>1, <1>6, <2>1 DEF Control, ChurnTypes, Sampling
  <1>7. ASSUME StartStorm(r), NEW q \in Runs PROVE Results(q)'
    BY <1>0, <1>7
    DEF Control, ChurnTypes, Results, Counts, CountedIn, Early, Ended
  <1> QED  BY <1>1, <1>2, <1>3, <1>4, <1>5, <1>6, <1>7 DEF Control

(* A timer or a closed channel ends a sleep. *)
LEMMA SleepControl ==
  ASSUME Control, NEW r \in Runs, Timer(r) \/ Cancelled(r)
  PROVE  Control'
  <1> USE DEF Timer, Cancelled, AfterSleep, Handle
  <1>0. Control /\ ChurnTypes /\ Exclusive /\ Channel(r)
    BY DEF Control
  <1>1. ChurnTypes'
    BY <1>0, ZenonT(30) DEF ChurnTypes, stormVars, Published
  <1>2. Exclusive'
    BY <1>0, <1>1, ZenonT(30) DEF Exclusive, ChurnTypes, Handling, Published
  <1>3. \A q \in Runs : Channel(q)'
    <2>1. PICK to \in {"window", "waiting"} :
            /\ run' = [run EXCEPT ![r] = to] /\ InStorm(r)
            /\ UNCHANGED <<cancelCur, closes, chan>>
      BY DEF InStorm
    <2> QED  BY <1>0, <2>1, HandlerKeepsChannel DEF Early, Published
  <1>4. PICK to \in {"window", "waiting"} :
          run' = [run EXCEPT ![r] = to] /\ UNCHANGED stormVars
    OBVIOUS
  <1>5. /\ \A q \in Runs, w \in Workers : Holds(q, w)'
        /\ \A c \in Conns : Sampling(c)'
        /\ \A q \in Runs : Results(q)'
    BY <1>0, <1>4, HandlerKeepsStorm DEF Early, Ended, Published
  <1> QED  BY <1>1, <1>2, <1>3, <1>5 DEF Control

(* Run returns: its workers have, so that what it counts is final. *)
LEMMA WaitControl ==
  ASSUME Control, NEW r \in Runs, WaitReturns(r)
  PROVE  Control'
  <1> USE DEF WaitReturns, Handle
  <1>0. Control /\ ChurnTypes /\ Exclusive /\ Channel(r)
    BY DEF Control
  <1>1. ChurnTypes'
    <2>1. Counts(r) \in [completed : SUBSET Conns, samples : SUBSET Conns]
      BY <1>0 DEF ChurnTypes, Counts, CountedIn
    <2> QED  BY <1>0, <2>1 DEF ChurnTypes, Published
  <1>2. Exclusive'
    BY <1>0, <1>1 DEF Exclusive, ChurnTypes, Handling, Published
  <1>3. \A q \in Runs : Channel(q)'
    <2>1. /\ run' = [run EXCEPT ![r] = "returned"]
          /\ UNCHANGED <<cancelCur, closes, chan>>
          /\ run[r] \notin Early
      BY DEF Early
    <2> QED  BY <1>0, <2>1, HandlerKeepsChannel DEF Early, Published
  <1>4. ASSUME NEW q \in Runs, NEW w \in Workers PROVE Holds(q, w)'
    <2>0. Holds(q, w) /\ worker' = worker /\ cur' = cur /\ attempt' = attempt
      BY <1>0 DEF Control
    <2>1. CASE q = r
      BY <1>0, <2>0, <2>1 DEF Holds, Active
    <2>2. CASE q # r
      <3>1. run'[q] = run[q]
        BY <1>0, <2>2 DEF ChurnTypes
      <3> QED  BY <2>0, <3>1 DEF Holds, Active, InStorm
    <2> QED  BY <2>1, <2>2
  <1>5. ASSUME NEW c \in Conns PROVE Sampling(c)'
    BY <1>0, <1>1 DEF Control, Sampling, ChurnTypes, Early
  <1>6. ASSUME NEW q \in Runs PROVE Results(q)'
    <2>0. Results(q) /\ Counts(q)' = Counts(q)
      BY <1>0 DEF Control, Counts, CountedIn
    <2>1. CASE q = r
      <3>1. run'[q] = "returned" /\ result'[q] = Counts(r)
        BY <1>0, <2>1 DEF ChurnTypes
      <3> QED  BY <2>0, <2>1, <3>1 DEF Results, Early
    <2>2. CASE q # r
      <3>1. run'[q] = run[q] /\ result'[q] = result[q]
        BY <1>0, <2>2 DEF ChurnTypes
      <3> QED  BY <2>0, <3>1 DEF Results
    <2> QED  BY <2>1, <2>2
  <1> QED  BY <1>1, <1>2, <1>3, <1>4, <1>5, <1>6 DEF Control

(* The deferred calls: the current channel is that of this run, or was     *)
(* taken by a /stop, and the mutex is let go of only then.                 *)
LEMMA DeferredControl ==
  ASSUME Control, NEW r \in Runs, Deferred(r)
  PROVE  Control'
  <1>0. Control /\ ChurnTypes /\ Exclusive /\ Channel(r)
    BY DEF Control
  <1>1. PICK to \in {"cleared", "done"} :
          /\ run' = [run EXCEPT ![r] = to] /\ UNCHANGED stormVars
          /\ run[r] = IF to = "cleared" THEN "returned" ELSE "cleared"
          /\ UNCHANGED <<closes, chan>>
          /\ cancelCur' = IF to = "cleared" THEN 0 ELSE cancelCur
          /\ busy' = IF to = "cleared" THEN busy ELSE FALSE
    BY Zenon DEF Deferred, Handle
  <1>2. ChurnTypes'
    BY <1>0, <1>1 DEF ChurnTypes, stormVars, Ended
  <1>3. Exclusive'
    BY <1>0, <1>1, <1>2 DEF Exclusive, ChurnTypes, Handling, Published
  <1>4. ASSUME NEW q \in Runs PROVE Channel(q)'
    <2>1. CASE q = r
      <3>1. Channel(r) /\ run'[r] = to /\ q = r
        BY <1>0, <1>1, <2>1 DEF ChurnTypes
      <3>2. to \notin Early /\ to \notin {"warmup", "window", "waiting"}
        BY DEF Early
      <3>3. cancelCur' # r
        BY <1>0, <1>1, ChurnAssumption DEF Channel, Published
      <3> QED  BY <1>1, <3>1, <3>2, <3>3 DEF Channel, InStorm
    <2>2. CASE q # r
      <3>1. run'[q] = run[q] /\ run[r] \in Handling
        BY <1>0, <1>1, <2>2 DEF ChurnTypes, Handling, Published
      <3>2. run[q] \notin Handling
        BY <1>0, <2>2, <3>1 DEF Exclusive
      <3>3. ~InStorm(q) /\ run[q] \notin Published
        BY <3>2 DEF InStorm, Handling, Published
      <3>4. Channel(q)
        BY <1>0 DEF Control
      <3> QED  BY <1>1, <3>1, <3>3, <3>4, ChurnAssumption DEF Channel, InStorm
    <2> QED  BY <2>1, <2>2
  <1>5. /\ \A q \in Runs, w \in Workers : Holds(q, w)'
        /\ \A c \in Conns : Sampling(c)'
        /\ \A q \in Runs : Results(q)'
    <2>1. /\ run[r] \notin Early /\ ~InStorm(r)
          /\ to \in Ended /\ run[r] \in Ended /\ to \notin Early
      BY <1>1 DEF Early, InStorm, Ended
    <2> QED  BY <1>0, <1>1, <2>1, HandlerKeepsStorm
  <1> QED  BY <1>2, <1>3, <1>4, <1>5 DEF Control

(* A /stop request takes the current channel, and later closes it. *)
LEMMA StopControl ==
  ASSUME Control, NEW s \in Stops, StopStep(s)
  PROVE  Control'
  <1>0. Control /\ ChurnTypes /\ Exclusive
    BY DEF Control
  <1>1. UNCHANGED <<run, busy, stormVars>>
    BY DEF StopStep, TakeCancel, CloseCancel
  <1>2. ChurnTypes'
    <2>1. CASE TakeCancel(s)
      BY <1>0, <1>1, <2>1 DEF ChurnTypes, stormVars, TakeCancel
    <2>2. CASE CloseCancel(s)
      <3>1. chan[s] \in Runs /\ closes[chan[s]] + 1 \in Nat
        BY <1>0, <2>2 DEF ChurnTypes, CloseCancel
      <3>2. closes' \in [Runs -> Nat] /\ chan' \in [Stops -> {0} \cup Runs]
        BY <1>0, <2>2, <3>1 DEF ChurnTypes, CloseCancel
      <3> QED  BY <1>0, <1>1, <2>2, <3>2
               DEF ChurnTypes, stormVars, CloseCancel
    <2> QED  BY <2>1, <2>2 DEF StopStep
  <1>3. Exclusive'
    BY <1>0, <1>1 DEF Exclusive
  <1>4. ASSUME NEW q \in Runs PROVE Channel(q)'
    <2>0. Channel(q) /\ InStorm(q)' = InStorm(q) /\ run'[q] = run[q]
      BY <1>0, <1>1 DEF Control, InStorm
    <2>1. CASE TakeCancel(s)
      <3>1. /\ chan[s] = 0 /\ cancelCur' = 0 /\ closes' = closes
            /\ chan'[s] = cancelCur
            /\ \A t \in Stops : t # s => chan'[t] = chan[t]
        BY <1>0, <2>1 DEF ChurnTypes, TakeCancel
      <3>2. cancelCur = q => run[q] \notin Early
        BY <2>0 DEF Channel, Early, Published
      <3> QED  BY <2>0, <3>1, <3>2, ChurnAssumption DEF Channel
    <2>2. CASE CloseCancel(s)
      <3>1. /\ cancelCur' = cancelCur /\ chan'[s] = 0 /\ chan[s] \in Runs
            /\ \A t \in Stops : t # s => chan'[t] = chan[t]
            /\ closes'[q] = IF chan[s] = q THEN closes[q] + 1 ELSE closes[q]
        BY <1>0, <2>2 DEF ChurnTypes, CloseCancel
      <3>2. q # 0
        BY ChurnAssumption
      <3>3. CASE chan[s] = q
        <4>1. closes[q] = 0 /\ run[q] \notin Early /\ cancelCur # q
          BY <2>0, <3>3 DEF Channel
        <4>2. \A t \in Stops : chan'[t] # q
          BY <2>0, <3>1, <3>2, <3>3 DEF Channel
        <4>3. closes'[q] = 1
          BY <3>1, <3>3, <4>1
        <4> QED  BY <2>0, <3>1, <4>1, <4>2, <4>3 DEF Channel
      <3>4. CASE chan[s] # q
        <4>1. closes'[q] = closes[q]
          BY <3>1, <3>4
        <4>2. \A t \in Stops : (chan'[t] = q) <=> (chan[t] = q)
          BY <3>1, <3>2, <3>4
        <4> QED  BY <2>0, <3>1, <4>1, <4>2 DEF Channel
      <3> QED  BY <3>3, <3>4
    <2> QED  BY <2>1, <2>2 DEF StopStep
  <1>5. /\ \A q \in Runs, w \in Workers : Holds(q, w)'
        /\ \A c \in Conns : Sampling(c)'
        /\ \A q \in Runs : Results(q)'
    <2> USE DEF stormVars
    <2>1. \A q \in Runs, w \in Workers : Holds(q, w)'
      BY <1>0, <1>1 DEF Control, Holds, Active, InStorm
    <2>2. \A c \in Conns : Sampling(c)'
      BY <1>0, <1>1 DEF Control, Sampling
    <2>3. \A q \in Runs : Results(q)'
      BY <1>0, <1>1 DEF Control, Results, Counts, CountedIn
    <2> QED  BY <2>1, <2>2, <2>3
  <1> QED  BY <1>2, <1>3, <1>4, <1>5 DEF Control

-----------------------------------------------------------------------------
(* The workers of a storm.                                                 *)

(* No step of a worker is seen by the daemon. *)
LEMMA WorkerKeepsDaemon ==
  ASSUME Control, UNCHANGED daemonVars
  PROVE  Exclusive' /\ \A q \in Runs : Channel(q)'
  BY DEF Control, daemonVars, Exclusive, Channel, InStorm

(* A worker moves on without counting: it ends, or goes from one place of  *)
(* an attempt to the next.                                                 *)
LEMMA MovesControl ==
  ASSUME Control, NEW r \in Runs, NEW w \in Workers,
         NEW to \in {"off", "dialed", "junk", "reading", "verified"},
         worker' = [worker EXCEPT ![r][w] = to],
         to = "off" => worker[r][w] = "top",
         to # "off" => Active(r, w) /\ worker[r][w] # "counted",
         UNCHANGED <<cur, attempt, sampled, result, daemonVars>>
  PROVE  Control'
  <1>0. Control /\ ChurnTypes /\ UNCHANGED <<run, daemonVars>>
    BY DEF Control, daemonVars
  <1>1. ChurnTypes'
    <2>1. worker' \in [Runs -> [Workers -> {"off", "top", "dial", "dialed",
                        "junk", "reading", "verified", "counted"}]]
      BY <1>0 DEF ChurnTypes
    <2> QED  BY <1>0, <2>1 DEF ChurnTypes, daemonVars
  <1>2. \A q \in Runs, v \in Workers :
          worker'[q][v] = IF q = r /\ v = w THEN to ELSE worker[q][v]
    BY <1>0 DEF ChurnTypes
  <1>3. worker[r][w] # "off" /\ worker[r][w] # "counted" /\ to # "counted"
    BY DEF Active
  <1>4. ASSUME NEW q \in Runs, NEW v \in Workers PROVE Holds(q, v)'
    <2>0. Holds(q, v) /\ InStorm(q)' = InStorm(q)
      BY <1>0 DEF Control, InStorm
    <2>1. \A x \in Workers : Active(q, x)' => Active(q, x)
      BY <1>2 DEF Active
    <2>2. worker'[q][v] # "off" => worker[q][v] # "off"
      BY <1>2, <1>3
    <2>3. worker'[q][v] = "counted" <=> worker[q][v] = "counted"
      BY <1>2, <1>3
    <2> QED  BY <2>0, <2>1, <2>2, <2>3 DEF Holds
  <1>5. ASSUME NEW c \in Conns PROVE Sampling(c)'
    <2>0. Sampling(c) /\ attempt[c].run \in {0} \cup Runs
      BY <1>0 DEF Control, ChurnTypes
    <2>1. \A q \in Runs, v \in Workers :
            worker[q][v] = "counted" => worker'[q][v] = "counted"
      BY <1>2, <1>3
    <2> QED  BY <1>0, <2>0, <2>1 DEF Sampling
  <1>6. ASSUME NEW q \in Runs PROVE Results(q)'
    BY <1>0 DEF Control, Results, Counts, CountedIn
  <1>7. Exclusive' /\ \A q \in Runs : Channel(q)'
    BY WorkerKeepsDaemon
  <1> QED  BY <1>1, <1>4, <1>5, <1>6, <1>7 DEF Control

(* A worker takes a connection nobody has used. *)
LEMMA GoesOnControl ==
  ASSUME Control, NEW r \in Runs, NEW w \in Workers, WorkerGoesOn(r, w)
  PROVE  Control'
  <1> DEFINE c == CHOOSE x \in Unused : \A y \in Unused : x <= y
  <1>0. /\ Control /\ ChurnTypes /\ UNCHANGED <<run, daemonVars>>
        /\ UNCHANGED <<sampled, result>>
    BY DEF Control, daemonVars, WorkerGoesOn
  <1>a. c \in Unused
    BY First, NetpollAssumption DEF Unused, WorkerGoesOn
  <1>b. /\ worker[r][w] = "top"
        /\ worker' = [worker EXCEPT ![r][w] = "dial"]
        /\ cur' = [cur EXCEPT ![r][w] = c]
        /\ attempt' = [attempt EXCEPT ![c].run = r]
    BY DEF WorkerGoesOn, Step
  <1> HIDE DEF c
  <1>c. c \in Conns /\ attempt[c] = [run |-> 0, as |-> "none"]
    BY <1>0, <1>a DEF Unused, Control, Sampling, ChurnTypes
  <1>d. /\ attempt'[c] = [run |-> r, as |-> "none"]
        /\ \A d \in Conns : d # c => attempt'[d] = attempt[d]
        /\ attempt' \in [Conns -> [run : {0} \cup Runs, as : Buckets]]
    BY <1>0, <1>b, <1>c DEF ChurnTypes
  <1>2. /\ \A q \in Runs, v \in Workers :
             worker'[q][v] = IF q = r /\ v = w THEN "dial" ELSE worker[q][v]
        /\ \A q \in Runs, v \in Workers :
             cur'[q][v] = IF q = r /\ v = w THEN c ELSE cur[q][v]
    BY <1>0, <1>b DEF ChurnTypes
  <1>1. ChurnTypes'
    <2>1. worker' \in [Runs -> [Workers -> {"off", "top", "dial", "dialed",
                        "junk", "reading", "verified", "counted"}]]
      BY <1>0, <1>b DEF ChurnTypes
    <2>2. cur' \in [Runs -> [Workers -> {0} \cup Conns]]
      BY <1>0, <1>b, <1>c DEF ChurnTypes
    <2> QED  BY <1>0, <1>d, <2>1, <2>2 DEF ChurnTypes, daemonVars
  <1>3. InStorm(r)
    BY <1>0, <1>b DEF Control, Holds
  <1>e. ASSUME NEW q \in Runs, NEW v \in Workers, Active(q, v)
        PROVE  cur[q][v] # c
    <2>1. Holds(q, v)
      BY <1>0 DEF Control
    <2>2. attempt[cur[q][v]].run = q
      BY <1>e, <2>1 DEF Holds
    <2> QED  BY <1>c, <2>2, ChurnAssumption
  <1>4. ASSUME NEW q \in Runs, NEW v \in Workers PROVE Holds(q, v)'
    <2>0. Holds(q, v) /\ InStorm(q)' = InStorm(q)
      BY <1>0 DEF Control, InStorm
    <2>1. CASE q = r /\ v = w
      <3>1. \A x \in Workers : Active(q, x)' /\ cur'[q][x] = c => x = w
        BY <1>2, <1>e, <2>1 DEF Active
      <3>2. worker'[q][v] = "dial" /\ cur'[q][v] = c
        BY <1>2, <2>1
      <3> QED  BY <1>3, <1>c, <1>d, <2>0, <2>1, <3>1, <3>2 DEF Holds
    <2>2. CASE ~(q = r /\ v = w)
      <3>1. worker'[q][v] = worker[q][v] /\ cur'[q][v] = cur[q][v]
        BY <1>2, <2>2
      <3>2. Active(q, v)' = Active(q, v)
        BY <3>1 DEF Active
      <3>3. Active(q, v) => attempt'[cur[q][v]] = attempt[cur[q][v]]
        BY <1>d, <1>e, <2>0 DEF Holds
      <3>4. ASSUME NEW x \in Workers, Active(q, v), Active(q, x)',
                   cur'[q][x] = cur[q][v]
            PROVE  x = v
        <4>1. ~(q = r /\ x = w)
          BY <1>2, <1>e, <3>4
        <4>2. Active(q, x) /\ cur[q][x] = cur[q][v]
          BY <1>2, <3>4, <4>1 DEF Active
        <4> QED  BY <2>0, <3>4, <4>2 DEF Holds
      <3> QED  BY <2>0, <3>1, <3>2, <3>3, <3>4 DEF Holds
    <2> QED  BY <2>1, <2>2
  <1>5. ASSUME NEW d \in Conns PROVE Sampling(d)'
    <2>0. Sampling(d) /\ attempt[d].run \in {0} \cup Runs
      BY <1>0 DEF Control, ChurnTypes
    <2>1. CASE d = c
      <3>1. d \notin sampled /\ run[r] \notin Early /\ r # 0
        BY <1>3, <1>c, <2>0, <2>1, ChurnAssumption DEF Sampling, InStorm, Early
      <3> QED  BY <1>0, <1>d, <2>1, <3>1 DEF Sampling
    <2>2. CASE d # c
      <3>1. attempt'[d] = attempt[d]
        BY <1>d, <2>2
      <3>2. \A q \in Runs, v \in Workers :
              worker[q][v] = "counted" =>
                worker'[q][v] = "counted" /\ cur'[q][v] = cur[q][v]
        BY <1>2, <1>b
      <3> QED  BY <1>0, <2>0, <3>1, <3>2 DEF Sampling
    <2> QED  BY <2>1, <2>2
  <1>6. ASSUME NEW q \in Runs PROVE Results(q)'
    <2>0. Results(q) /\ run'[q] = run[q] /\ result'[q] = result[q]
      BY <1>0 DEF Control
    <2>1. ASSUME run[q] \in Ended PROVE Counts(q)' = Counts(q)
      <3>1. q # r
        BY <1>3, <2>1 DEF InStorm, Ended
      <3>2. q # 0
        BY ChurnAssumption
      <3>3. /\ \A d \in Conns : attempt'[d].run = q <=> attempt[d].run = q
            /\ \A d \in Conns : attempt'[d] = [run |-> q, as |-> "completed"]
                            <=> attempt[d] = [run |-> q, as |-> "completed"]
        BY <1>c, <1>d, <3>1, <3>2
      <3>4. sampled \subseteq Conns
        BY <1>0 DEF ChurnTypes
      <3> QED  BY <1>0, <3>3, <3>4 DEF Counts, CountedIn
    <2> QED  BY <2>0, <2>1 DEF Results
  <1>7. Exclusive' /\ \A q \in Runs : Channel(q)'
    BY <1>0, WorkerKeepsDaemon
  <1> QED  BY <1>1, <1>4, <1>5, <1>6, <1>7 DEF Control

(* A worker counts its attempt. *)
LEMMA TallyControl ==
  ASSUME Control, NEW r \in Runs, NEW w \in Workers,
         NEW bucket \in Buckets \ {"none"}, NEW to \in {"top", "counted"},
         to = "counted" <=> bucket = "completed",
         Active(r, w), worker[r][w] # "counted",
         worker' = [worker EXCEPT ![r][w] = to], Tally(cur[r][w], bucket),
         UNCHANGED <<cur, sampled, result, daemonVars>>
  PROVE  Control'
  <1> DEFINE c == cur[r][w]
  <1>0. Control /\ ChurnTypes /\ UNCHANGED <<run, daemonVars>>
    BY DEF Control, daemonVars
  <1>a. /\ c \in Conns /\ attempt[c] = [run |-> r, as |-> "none"]
        /\ InStorm(r)
        /\ \A v \in Workers : Active(r, v) /\ cur[r][v] = c => v = w
    <2>1. Holds(r, w) /\ worker[r][w] # "off"
      BY <1>0 DEF Control, Active
    <2> QED  BY <2>1 DEF Holds
  <1>b. attempt' = [attempt EXCEPT ![c].as = bucket]
    BY DEF Tally
  <1>3. c = cur[r][w] /\ cur' = cur
    OBVIOUS
  <1> HIDE DEF c
  <1>d. /\ attempt'[c] = [run |-> r, as |-> bucket]
        /\ \A d \in Conns : d # c => attempt'[d] = attempt[d]
        /\ attempt' \in [Conns -> [run : {0} \cup Runs, as : Buckets]]
    BY <1>0, <1>a, <1>b DEF ChurnTypes
  <1>2. \A q \in Runs, v \in Workers :
          worker'[q][v] = IF q = r /\ v = w THEN to ELSE worker[q][v]
    BY <1>0 DEF ChurnTypes
  <1>1. ChurnTypes'
    <2>1. worker' \in [Runs -> [Workers -> {"off", "top", "dial", "dialed",
                        "junk", "reading", "verified", "counted"}]]
      BY <1>0 DEF ChurnTypes
    <2> QED  BY <1>0, <1>d, <2>1 DEF ChurnTypes, daemonVars
  <1>4. ASSUME NEW q \in Runs, NEW v \in Workers PROVE Holds(q, v)'
    <2>0. Holds(q, v) /\ InStorm(q)' = InStorm(q)
      BY <1>0 DEF Control, InStorm
    <2>4. \A x \in Workers : Active(q, x)' => Active(q, x)
      BY <1>2 DEF Active
    <2>1. CASE q = r /\ v = w
      <3>1. worker'[q][v] = to /\ cur'[q][v] = c
        BY <1>2, <1>3, <2>1
      <3>2. \A x \in Workers : Active(q, x)' /\ cur'[q][x] = cur'[q][v]
                                => x = v
        BY <1>a, <1>3, <2>1, <2>4
      <3>3. Active(q, v)' => to = "counted" /\ bucket = "completed"
        BY <3>1 DEF Active
      <3> QED  BY <1>a, <1>d, <2>0, <2>1, <3>1, <3>2, <3>3 DEF Holds
    <2>2. CASE ~(q = r /\ v = w)
      <3>1. worker'[q][v] = worker[q][v] /\ cur'[q][v] = cur[q][v]
        BY <1>2, <1>3, <2>2
      <3>2. Active(q, v)' = Active(q, v)
        BY <3>1 DEF Active
      <3>3. ASSUME Active(q, v) PROVE attempt'[cur[q][v]] = attempt[cur[q][v]]
        <4>1. cur[q][v] \in Conns /\ attempt[cur[q][v]].run = q
          BY <2>0, <3>3 DEF Holds
        <4>2. cur[q][v] # c
          BY <1>a, <2>2, <3>3, <4>1
        <4> QED  BY <1>d, <4>1, <4>2
      <3> QED  BY <1>3, <2>0, <2>4, <3>1, <3>2, <3>3 DEF Holds
    <2> QED  BY <2>1, <2>2
  <1>5. ASSUME NEW d \in Conns PROVE Sampling(d)'
    <2>0. Sampling(d) /\ attempt[d].run \in {0} \cup Runs
      BY <1>0 DEF Control, ChurnTypes
    <2>1. CASE d = c
      <3>1. d \notin sampled /\ run[r] \notin Early /\ r # 0
        BY <1>a, <2>0, <2>1, ChurnAssumption DEF Sampling, InStorm, Early
      <3>2. bucket = "completed" =>
              worker'[r][w] = "counted" /\ cur'[r][w] = d
        BY <1>2, <1>3, <2>1
      <3> QED  BY <1>0, <1>d, <2>1, <3>1, <3>2 DEF Sampling
    <2>2. CASE d # c
      <3>1. attempt'[d] = attempt[d]
        BY <1>d, <2>2
      <3>2. \A q \in Runs, v \in Workers :
              worker[q][v] = "counted" => worker'[q][v] = "counted"
        BY <1>2
      <3> QED  BY <1>0, <2>0, <3>1, <3>2 DEF Sampling
    <2> QED  BY <2>1, <2>2
  <1>6. ASSUME NEW q \in Runs PROVE Results(q)'
    <2>0. Results(q) /\ run'[q] = run[q] /\ result'[q] = result[q]
      BY <1>0 DEF Control
    <2>1. ASSUME run[q] \in Ended PROVE Counts(q)' = Counts(q)
      <3>1. q # r
        BY <1>a, <2>1 DEF InStorm, Ended
      <3>3. /\ \A d \in Conns : attempt'[d].run = q <=> attempt[d].run = q
            /\ \A d \in Conns : attempt'[d] = [run |-> q, as |-> "completed"]
                            <=> attempt[d] = [run |-> q, as |-> "completed"]
        BY <1>a, <1>d, <3>1
      <3>4. sampled \subseteq Conns
        BY <1>0 DEF ChurnTypes
      <3> QED  BY <1>0, <3>3, <3>4 DEF Counts, CountedIn
    <2> QED  BY <2>0, <2>1 DEF Results
  <1>7. Exclusive' /\ \A q \in Runs : Channel(q)'
    BY <1>0, WorkerKeepsDaemon
  <1> QED  BY <1>1, <1>4, <1>5, <1>6, <1>7 DEF Control

(* A worker appends the latency of a connection it has counted. *)
LEMMA SampleControl ==
  ASSUME Control, NEW r \in Runs, NEW w \in Workers, Sample(r, w)
  PROVE  Control'
  <1> DEFINE c == cur[r][w]
  <1>0. /\ Control /\ ChurnTypes
        /\ UNCHANGED <<cur, attempt, result, run, daemonVars>>
    BY DEF Control, daemonVars, Sample
  <1>b. /\ worker[r][w] = "counted"
        /\ worker' = [worker EXCEPT ![r][w] = "top"]
        /\ sampled' = sampled \cup {c}
    BY DEF Sample, Step
  <1>a. /\ c \in Conns /\ attempt[c] = [run |-> r, as |-> "completed"]
        /\ InStorm(r)
    <2>1. Holds(r, w) /\ worker[r][w] # "off" /\ Active(r, w)
      BY <1>0, <1>b DEF Control, Active
    <2> QED  BY <1>b, <2>1 DEF Holds
  <1>3. c = cur[r][w]
    OBVIOUS
  <1> HIDE DEF c
  <1>2. \A q \in Runs, v \in Workers :
          worker'[q][v] = IF q = r /\ v = w THEN "top" ELSE worker[q][v]
    BY <1>0, <1>b DEF ChurnTypes
  <1>1. ChurnTypes'
    <2>1. worker' \in [Runs -> [Workers -> {"off", "top", "dial", "dialed",
                        "junk", "reading", "verified", "counted"}]]
      BY <1>0, <1>b DEF ChurnTypes
    <2> QED  BY <1>0, <1>a, <1>b, <2>1 DEF ChurnTypes, daemonVars
  <1>4. ASSUME NEW q \in Runs, NEW v \in Workers PROVE Holds(q, v)'
    <2>0. Holds(q, v) /\ InStorm(q)' = InStorm(q)
      BY <1>0 DEF Control, InStorm
    <2>1. \A x \in Workers : Active(q, x)' => Active(q, x)
      BY <1>2, <1>b DEF Active
    <2>2. worker'[q][v] # "off" => worker[q][v] # "off"
      BY <1>2, <1>b
    <2>3. Active(q, v)' => worker'[q][v] = worker[q][v]
      BY <1>2 DEF Active
    <2> QED  BY <1>0, <2>0, <2>1, <2>2, <2>3 DEF Holds
  <1>5. ASSUME NEW d \in Conns PROVE Sampling(d)'
    <2>0. Sampling(d) /\ attempt[d].run \in {0} \cup Runs
      BY <1>0 DEF Control, ChurnTypes
    <2>1. CASE d = c
      <3>1. run[r] \notin Early /\ r # 0
        BY <1>a, ChurnAssumption DEF InStorm, Early
      <3> QED  BY <1>0, <1>a, <1>b, <2>1, <3>1 DEF Sampling
    <2>2. CASE d # c
      <3>2. ASSUME NEW q \in Runs, NEW v \in Workers,
                   worker[q][v] = "counted", cur[q][v] = d
            PROVE  worker'[q][v] = "counted"
        BY <1>2, <1>3, <2>2, <3>2
      <3>3. d \in sampled' <=> d \in sampled
        BY <1>b, <2>2
      <3>4. attempt[d].as = "completed" => attempt[d].run \in Runs
        BY <2>0 DEF Sampling
      <3> QED  BY <1>0, <2>0, <3>2, <3>3, <3>4 DEF Sampling
    <2> QED  BY <2>1, <2>2
  <1>6. ASSUME NEW q \in Runs PROVE Results(q)'
    <2>0. Results(q) /\ run'[q] = run[q] /\ result'[q] = result[q]
      BY <1>0 DEF Control
    <2>1. ASSUME run[q] \in Ended PROVE Counts(q)' = Counts(q)
      <3>1. q # r
        BY <1>a, <2>1 DEF InStorm, Ended
      <3>2. attempt[c].run # q
        BY <1>a, <3>1
      <3> QED  BY <1>0, <1>b, <3>2 DEF Counts, CountedIn
    <2> QED  BY <2>0, <2>1 DEF Results
  <1>7. Exclusive' /\ \A q \in Runs : Channel(q)'
    BY <1>0, WorkerKeepsDaemon
  <1> QED  BY <1>1, <1>4, <1>5, <1>6, <1>7 DEF Control

(* Every step of a worker is one of these. *)
LEMMA WorkerControl ==
  ASSUME Control, NEW r \in Runs, NEW w \in Workers, WorkerStep(r, w)
  PROVE  Control'
  <1> USE DEF Step, Active
  <1>1. CASE WorkerStops(r, w)
    BY <1>1, MovesControl DEF WorkerStops
  <1>2. CASE WorkerGoesOn(r, w)
    BY <1>2, GoesOnControl
  <1>3. CASE WorkerDials(r, w)
    <2>1. PICK to \in {"dialed", "junk"} : Step(r, w, "dial", to)
      BY <1>3 DEF WorkerDials
    <2> QED  BY <1>3, <2>1, MovesControl DEF WorkerDials
  <1>4. CASE WorkerDialFails(r, w)
    BY <1>4, TallyControl DEF WorkerDialFails, Buckets
  <1>5. CASE Junk(r, w)
    <2>1. PICK b \in {"junk", "warmup"} : Finish(cur[r][w], b)
      BY <1>5 DEF Junk
    <2> QED  BY <1>5, <2>1, TallyControl DEF Junk, Finish, Buckets
  <1>6. CASE WriteRequest(r, w)
    BY <1>6, MovesControl DEF WriteRequest
  <1>7. CASE WriteRequestFails(r, w)
    BY <1>7, TallyControl DEF WriteRequestFails, Finish, Buckets
  <1>8. CASE ReadReply(r, w)
    <2>0. UNCHANGED <<cur, sampled, result, daemonVars>>
      BY <1>8 DEF ReadReply
    <2>1. CASE Step(r, w, "reading", "verified") /\ UNCHANGED attempt
      BY <2>0, <2>1, MovesControl
    <2>2. CASE Step(r, w, "reading", "top") /\ Tally(cur[r][w], "auditFail")
      BY <2>0, <2>2, TallyControl DEF Buckets
    <2> QED  BY <1>8, <2>1, <2>2 DEF ReadReply
  <1>9. CASE ReadReplyFails(r, w)
    BY <1>9, TallyControl DEF ReadReplyFails, Finish, Buckets
  <1>10. CASE Count(r, w)
    <2>0. UNCHANGED <<cur, sampled, result, daemonVars>>
      BY <1>10 DEF Count
    <2>1. CASE Measuring(r)
      BY <1>10, <2>0, <2>1, TallyControl DEF Count, Buckets
    <2>2. CASE ~Measuring(r)
      BY <1>10, <2>0, <2>2, TallyControl DEF Count, Buckets
    <2> QED  BY <2>1, <2>2
  <1>11. CASE Sample(r, w)
    BY <1>11, SampleControl
  <1> QED
    BY <1>1, <1>2, <1>3, <1>4, <1>5, <1>6, <1>7, <1>8, <1>9, <1>10, <1>11
    DEF WorkerStep

-----------------------------------------------------------------------------
(* Control is an invariant of the gate: the relay, the sink and the        *)
(* tunnels leave the load generator's state alone.                         *)
THEOREM ControlHolds == SafeSpec => []Control
  <1>1. Init => Control
    BY ControlInit DEF Init
  <1>2. Control /\ [Next]_vars => Control'
    <2> SUFFICES ASSUME Control, [Next]_vars PROVE Control'
      OBVIOUS
    <2>1. CASE UNCHANGED churnVars
      BY <2>1, ControlStutter
    <2>2. CASE ChurnStep
      <3>1. ASSUME NEW r \in Runs,
                   Conflict(r) \/ TryLock(r) \/ RunStep(r) \/ Timer(r)
            PROVE  Control'
        BY <3>1, RefusedControl, TryLockControl, StartControl, SleepControl,
           WaitControl, DeferredControl DEF RunStep
      <3> QED  BY <2>2, <3>1, StopControl, WorkerControl DEF ChurnStep
    <2> QED
      BY <2>1, <2>2
      DEF Next, vars, RelayMoves, SinkMoves, StormMoves, TunnelMoves
  <1> QED  BY <1>1, <1>2, PTL DEF SafeSpec

(* loadgend, for any number of requests: at most one storm runs at a time, *)
(* a /stop request can reach it from its start to its end, and no cancel   *)
(* channel is closed twice.                                                *)
THEOREM GateStopReaches == Spec => []StopCanReach
  <1>1. Control => StopCanReach
    <2> SUFFICES ASSUME Control, NEW r \in Runs
                 PROVE  /\ closes[r] <= 1
                        /\ InStorm(r) =>
                             /\ \A q \in Runs \ {r} : ~InStorm(q)
                             /\ \/ cancelCur = r \/ closes[r] > 0
                                \/ \E s \in Stops : chan[s] = r
      BY DEF StopCanReach
    <2>1. Channel(r) /\ Exclusive
      BY DEF Control
    <2>2. \A q \in Runs : InStorm(q) => run[q] \in Handling
      BY DEF InStorm, Handling, Published
    <2>3. closes[r] <= 1 /\ (closes[r] = 1 => closes[r] > 0)
      BY <2>1 DEF Channel
    <2> QED  BY <2>1, <2>2, <2>3 DEF Channel, Exclusive
  <1>2. Spec => SafeSpec
    BY DEF Spec, SafeSpec
  <1> QED  BY <1>1, <1>2, ControlHolds, PTL

(* storm.Run, for any number of workers: its result does not change after  *)
(* it has returned, and has exactly one latency sample for each completed  *)
(* connection.                                                             *)
THEOREM GateResultFinal == Spec => []ResultIsFinal
  <1>1. Control => ResultIsFinal
    <2> SUFFICES ASSUME Control, NEW r \in Runs, run[r] \in Ended
                 PROVE  /\ result[r] = Counts(r)
                        /\ result[r].samples = result[r].completed
      BY DEF ResultIsFinal, Ended
    <2>1. result[r] = Counts(r)
      BY DEF Control, Results
    <2>2. \A w \in Workers : worker[r][w] = "off"
      BY DEF Control, Holds, InStorm, Ended
    <2>3. attempt \in [Conns -> [run : {0} \cup Runs, as : Buckets]]
          /\ sampled \subseteq Conns
      BY DEF Control, ChurnTypes
    <2>4. ASSUME NEW c \in Conns, attempt[c].run = r
          PROVE  c \in sampled <=> attempt[c].as = "completed"
      BY <2>2, <2>4 DEF Control, Sampling
    <2>5. Counts(r).samples = Counts(r).completed
      <3>1. ASSUME NEW c \in Conns
            PROVE  (c \in sampled /\ attempt[c].run = r)
                     <=> attempt[c] = [run |-> r, as |-> "completed"]
        BY <2>3, <2>4
      <3> QED  BY <2>3, <3>1 DEF Counts, CountedIn
    <2> QED  BY <2>1, <2>5
  <1>2. Spec => SafeSpec
    BY DEF Spec, SafeSpec
  <1> QED  BY <1>1, <1>2, ControlHolds, PTL

-----------------------------------------------------------------------------
(* What arrives where.  Traffic is inductive together with Control: it     *)
(* follows the tokens through the four inboxes of a tunnel.                *)

Tokens == {"request", "reply"} \cup Nat
Places == {"none", "open", "closed"}

SocketTypes ==
  /\ sock \in [Conns -> [Ends -> Places]]
  /\ inbox \in [Conns -> [Ends -> Seq(Tokens)]]
  /\ \A c \in Conns, e \in Ends : Len(inbox[c][e]) <= SockCap

RelayTypes ==
  /\ relay \in [Conns -> {"none", "initial", "hook", "dialed", "copy", "done"}]
  /\ copier \in [Conns -> {"none", "copy", "done"}]
  /\ initial \in [Conns -> Seq(Tokens)]
  /\ completed \cup wedged \subseteq Conns
  /\ \A c \in Conns : relay[c] \in {"hook", "dialed"} => initial[c] # <<>>

SinkTypes ==
  /\ echo \in BOOLEAN
  /\ sink \in [Conns -> {"none", "read", "write", "count", "echo", "tally",
                      "done"}]
  /\ served \cup misread \subseteq Conns
  /\ echoed \in [Conns -> Nat]

TunnelTypes ==
  /\ woff \in [Tunnels -> 0..MaxChunks] /\ roff \in [Tunnels -> Nat]
  /\ mismatch \subseteq Tunnels /\ over \in BOOLEAN

(* The sink runs one of its two services. *)
OneService ==
  \A c \in Conns : IF echo THEN sink[c] \notin {"read", "write", "count"}
                           ELSE sink[c] \notin {"echo", "tally"}

Answered(c) == c \in served \/ sink[c] = "count"

(* With the one-shot sink, requests travel up and replies down; there is   *)
(* no reply below the sink unless it has answered.                         *)
OneShot(c) ==
  /\ inbox[c]["rc"] \in Seq({"request"}) /\ inbox[c]["sk"] \in Seq({"request"})
  /\ inbox[c]["ru"] \in Seq({"reply"}) /\ inbox[c]["cl"] \in Seq({"reply"})
  /\ inbox[c]["ru"] # <<>> \/ inbox[c]["cl"] # <<>> => Answered(c)
  /\ relay[c] \in {"hook", "dialed"} => initial[c] = <<"request">>

(* The audits, and what the storm may count. *)
Audits ==
  /\ misread = {} /\ mismatch = {}
  /\ \A c \in Conns : /\ attempt[c].as # "auditFail"
                      /\ attempt[c].as = "completed" => Answered(c)
  /\ \A r \in Runs, w \in Workers :
       worker[r][w] = "verified" => cur[r][w] \in Conns /\ Answered(cur[r][w])

(* What the echo sink has returned, counted or about to be; whether the    *)
(* relay holds the first token; consecutive tokens from n + 1 on.          *)
Echoes(c) == echoed[c] + (IF sink[c] = "tally" THEN 1 ELSE 0)
Held(c) == IF relay[c] \in {"hook", "dialed"} THEN 1 ELSE 0
Numbered(q, n) == \A i \in 1..Len(q) : q[i] = n + i

(* With the echo sink, the sockets follow the goroutines: the sink closes  *)
(* after the relay.                                                        *)
Linked(c) ==
  /\ \A e \in Ends : sock[c][e] # "open" => inbox[c][e] = <<>>
  /\ relay[c] = "none" => sock[c]["rc"] # "closed"
  /\ relay[c] \in {"none", "initial", "hook"} => sock[c]["ru"] = "none"
  /\ relay[c] \in {"initial", "hook", "dialed", "copy"} => sock[c]["rc"] = "open"
  /\ relay[c] \in {"dialed", "copy"} => sock[c]["ru"] = "open"
  /\ relay[c] = "done" => sock[c]["rc"] = "closed" /\ sock[c]["ru"] # "open"
  /\ copier[c] # "none" => relay[c] \in {"copy", "done"}
  /\ sock[c]["ru"] = "none" => sock[c]["sk"] = "none"
  /\ sock[c]["ru"] = "open" => sock[c]["sk"] = "open"
  /\ sink[c] \in {"echo", "tally"} => sock[c]["sk"] = "open"
  /\ sock[c]["sk"] = "none" => sink[c] = "none" /\ echoed[c] = 0
  /\ sock[c]["sk"] = "closed" => sink[c] = "done"
  /\ sock[c]["cl"] = "none" => /\ woff[c] = 0 /\ roff[c] = 0
                               /\ sock[c]["rc"] = "none"
  /\ sock[c]["rc"] = "none" => sock[c]["cl"] = "none" /\ relay[c] = "none"

(* The tokens between two ends are consecutive, upward and downward, as    *)
(* long as the ends that matter are open: a loss is always the last of an  *)
(* inbox that nothing reaches any more.                                    *)
Upward(c) ==
  /\ Numbered(inbox[c]["sk"], Echoes(c))
  /\ Held(c) = 1 => initial[c] = <<Echoes(c) + Len(inbox[c]["sk"]) + 1>>
  /\ sock[c]["rc"] = "open" =>
       Numbered(inbox[c]["rc"], Echoes(c) + Len(inbox[c]["sk"]) + Held(c))
  /\ sock[c]["rc"] = "open" /\ sock[c]["cl"] = "open" =>
       woff[c] = Echoes(c) + Len(inbox[c]["sk"]) + Held(c)
                   + Len(inbox[c]["rc"])

Downward(c) ==
  /\ Numbered(inbox[c]["cl"], roff[c])
  /\ roff[c] + Len(inbox[c]["cl"]) <= Echoes(c)
  /\ sock[c]["rc"] = "open" /\ sock[c]["cl"] = "open" =>
       /\ Numbered(inbox[c]["ru"], roff[c] + Len(inbox[c]["cl"]))
       /\ Echoes(c) = roff[c] + Len(inbox[c]["cl"]) + Len(inbox[c]["ru"])

InOrder(c) == Linked(c) /\ Upward(c) /\ Downward(c)

Traffic ==
  /\ SocketTypes /\ RelayTypes /\ SinkTypes /\ TunnelTypes /\ OneService
  /\ Audits
  /\ ~echo => \A c \in Conns : OneShot(c)
  /\ \A c \in Tunnels : roff[c] <= Echoes(c)
  /\ echo => \A c \in Tunnels : InOrder(c)

-----------------------------------------------------------------------------
(* The sockets.                                                            *)

Boxes == [Conns -> [Ends -> Seq(Tokens)]]

(* The ends of a tunnel are linked in pairs. *)
LEMMA Peers ==
  /\ Peer("cl") = "rc" /\ Peer("rc") = "cl"
  /\ Peer("ru") = "sk" /\ Peer("sk") = "ru"
  /\ \A e \in Ends : Peer(e) \in Ends
  BY DEF Peer, Ends

(* What Append and Tail do to a sequence of tokens. *)
LEMMA AppendTail ==
  ASSUME NEW T, NEW q \in Seq(T)
  PROVE  /\ Len(q) \in Nat /\ (q = <<>> <=> Len(q) = 0)
         /\ \A t \in T : /\ Append(q, t) \in Seq(T) /\ Append(q, t) # <<>>
                         /\ Len(Append(q, t)) = Len(q) + 1
         /\ q # <<>> => /\ Head(q) \in T /\ Tail(q) \in Seq(T)
                        /\ Len(Tail(q)) = Len(q) - 1
  OBVIOUS

(* A token that is sent arrives at the peer, or nowhere. *)
LEMMA ArriveIs ==
  ASSUME NEW in \in Boxes, NEW c \in Conns, NEW e \in Ends,
         NEW tok \in Tokens
  PROVE  /\ Arrive(in, c, e, tok) \in Boxes
         /\ \A d \in Conns : d # c => Arrive(in, c, e, tok)[d] = in[d]
         /\ \A f \in Ends : Arrive(in, c, e, tok)[c][f] =
              IF f = Peer(e) /\ ~PeerGone(c, e) THEN Append(in[c][f], tok)
              ELSE in[c][f]
  <1>1. Peer(e) \in Ends
    BY Peers
  <1>2. Append(in[c][Peer(e)], tok) \in Seq(Tokens)
    BY <1>1, AppendTail DEF Boxes
  <1> HIDE DEF Ends
  <1>3. CASE PeerGone(c, e)
    BY <1>3 DEF Arrive
  <1>4. CASE ~PeerGone(c, e)
    <2>1. Arrive(in, c, e, tok)
            = [in EXCEPT ![c][Peer(e)] = Append(in[c][Peer(e)], tok)]
      BY <1>4, <1>1 DEF Arrive
    <2> QED  BY <1>1, <1>2, <1>4, <2>1 DEF Boxes
  <1> QED  BY <1>3, <1>4

(* The first token of an inbox is read. *)
LEMMA DropIs ==
  ASSUME NEW in \in Boxes, NEW c \in Conns, NEW e \in Ends, in[c][e] # <<>>
  PROVE  /\ Drop(in, c, e) \in Boxes
         /\ \A d \in Conns : d # c => Drop(in, c, e)[d] = in[d]
         /\ \A f \in Ends : Drop(in, c, e)[c][f] =
              IF f = e THEN Tail(in[c][f]) ELSE in[c][f]
         /\ Head(in[c][e]) \in Tokens
  <1>1. Tail(in[c][e]) \in Seq(Tokens) /\ Head(in[c][e]) \in Tokens
    BY AppendTail DEF Boxes
  <1> QED  BY <1>1 DEF Drop, Boxes

(* A close empties the inboxes of the ends it closes, and perhaps those of *)
(* their peers.                                                            *)
LEMMA CloseIs ==
  ASSUME sock \in [Conns -> [Ends -> Places]],
         NEW in \in Boxes, NEW c \in Conns, NEW es \in SUBSET Ends,
         Close(c, es, in)
  PROVE  /\ sock' \in [Conns -> [Ends -> Places]] /\ inbox' \in Boxes
         /\ \A d \in Conns : d # c => sock'[d] = sock[d] /\ inbox'[d] = in[d]
         /\ \A e \in Ends : sock'[c][e] =
              IF e \in es /\ sock[c][e] = "open" THEN "closed" ELSE sock[c][e]
         /\ \A e \in Ends : inbox'[c][e] \in {in[c][e], <<>>}
         /\ \A e \in es : inbox'[c][e] = <<>>
         /\ \A e \in Ends : e \notin es /\ (\A f \in es : Peer(f) # e)
              => inbox'[c][e] = in[c][e]
  <1>1. PICK lost \in SUBSET {Peer(e) : e \in {x \in es : in[c][x] # <<>>}} :
          inbox' = [in EXCEPT ![c] = [e \in Ends |->
                      IF e \in lost \cup es THEN <<>> ELSE in[c][e]]]
    BY DEF Close, Boxes
  <1>2. [e \in Ends |-> IF e \in lost \cup es THEN <<>> ELSE in[c][e]]
          \in [Ends -> Seq(Tokens)]
    BY DEF Boxes
  <1>3. inbox' \in Boxes
    BY <1>1, <1>2 DEF Boxes
  <1>4. sock' = [sock EXCEPT ![c] = [e \in Ends |->
                  IF e \in es /\ sock[c][e] = "open" THEN "closed"
                  ELSE sock[c][e]]]
    BY DEF Close
  <1>5. sock' \in [Conns -> [Ends -> Places]]
    BY <1>4 DEF Places
  <1>6. \A e \in Ends : inbox'[c][e] =
          IF e \in lost \cup es THEN <<>> ELSE in[c][e]
    BY <1>1 DEF Boxes
  <1>7. \A e \in lost : \E f \in es : Peer(f) = e
    OBVIOUS
  <1> QED  BY <1>1, <1>3, <1>4, <1>5, <1>6, <1>7 DEF Boxes

(* A connection opens two ends. *)
LEMMA ConnectIs ==
  ASSUME sock \in [Conns -> [Ends -> Places]],
         NEW c \in Conns, NEW e \in Ends, Connect(c, e)
  PROVE  /\ sock' \in [Conns -> [Ends -> Places]]
         /\ \A d \in Conns : d # c => sock'[d] = sock[d]
         /\ \A f \in Ends : sock'[c][f] =
              IF f \in {e, Peer(e)} THEN "open" ELSE sock[c][f]
  <1>1. Peer(e) \in Ends
    BY Peers
  <1> QED  BY <1>1 DEF Connect, Places

-----------------------------------------------------------------------------
(* The sockets stay well typed, and no inbox overflows.                    *)

(* A write appends where there is room. *)
LEMMA WriteTypes ==
  ASSUME SocketTypes, NEW c \in Conns, NEW e \in Ends, NEW tok \in Tokens,
         Write(c, e, tok), UNCHANGED sock
  PROVE  SocketTypes'
  <1>1. inbox \in Boxes /\ Peer(e) \in Ends
    BY Peers DEF SocketTypes, Boxes
  <1>2. inbox' = Arrive(inbox, c, e, tok) /\ HasRoom(c, e)
    BY DEF Write
  <1>4. /\ inbox' \in Boxes
        /\ \A d \in Conns : d # c => inbox'[d] = inbox[d]
        /\ \A f \in Ends : inbox'[c][f] =
              IF f = Peer(e) /\ ~PeerGone(c, e) THEN Append(inbox[c][f], tok)
              ELSE inbox[c][f]
    BY <1>1, <1>2, ArriveIs
  <1>3. ASSUME NEW d \in Conns, NEW f \in Ends PROVE Len(inbox'[d][f]) <= SockCap
    <2>1. CASE d = c /\ f = Peer(e) /\ ~PeerGone(c, e)
      <3>1. inbox'[d][f] = Append(inbox[c][f], tok)
        BY <1>4, <2>1
      <3>2. Len(inbox[c][f]) < SockCap /\ inbox[c][f] \in Seq(Tokens)
        BY <1>1, <1>2, <2>1 DEF HasRoom, Boxes
      <3>3. Len(Append(inbox[c][f], tok)) = Len(inbox[c][f]) + 1
            /\ Len(inbox[c][f]) \in Nat
        BY <3>2, AppendTail
      <3> QED  BY <3>1, <3>2, <3>3, NetpollAssumption
    <2>2. CASE ~(d = c /\ f = Peer(e) /\ ~PeerGone(c, e))
      BY <1>4, <2>2 DEF SocketTypes
    <2> QED  BY <2>1, <2>2
  <1> QED  BY <1>3, <1>4 DEF SocketTypes, Boxes

(* A read takes a token out. *)
LEMMA DropTypes ==
  ASSUME SocketTypes, NEW c \in Conns, NEW e \in Ends, inbox[c][e] # <<>>
  PROVE  /\ Drop(inbox, c, e) \in Boxes
         /\ \A d \in Conns, f \in Ends : Len(Drop(inbox, c, e)[d][f]) <= SockCap
  <1>1. inbox \in Boxes
    BY DEF SocketTypes, Boxes
  <1>2. Len(Tail(inbox[c][e])) <= SockCap
    <2>1. inbox[c][e] \in Seq(Tokens) /\ Len(inbox[c][e]) <= SockCap
      BY DEF SocketTypes
    <2>2. Len(inbox[c][e]) \in Nat /\ Len(Tail(inbox[c][e])) = Len(inbox[c][e]) - 1
      BY <2>1, AppendTail
    <2> QED  BY <2>1, <2>2, NetpollAssumption
  <1>3. /\ Drop(inbox, c, e) \in Boxes
        /\ \A d \in Conns : d # c => Drop(inbox, c, e)[d] = inbox[d]
        /\ \A f \in Ends : Drop(inbox, c, e)[c][f] =
              IF f = e THEN Tail(inbox[c][f]) ELSE inbox[c][f]
    BY <1>1, DropIs
  <1>4. ASSUME NEW d \in Conns, NEW f \in Ends
        PROVE  Len(Drop(inbox, c, e)[d][f]) <= SockCap
    <2>1. Len(inbox[d][f]) <= SockCap
      BY DEF SocketTypes
    <2> QED  BY <1>2, <1>3, <2>1
  <1> QED  BY <1>3, <1>4

(* A read that closes nothing. *)
LEMMA ReadTypes ==
  ASSUME SocketTypes, NEW c \in Conns, NEW e \in Ends, inbox[c][e] # <<>>,
         inbox' = Drop(inbox, c, e), UNCHANGED sock
  PROVE  SocketTypes'
  BY DropTypes DEF SocketTypes, Boxes

(* A close takes tokens out. *)
LEMMA CloseTypes ==
  ASSUME SocketTypes, NEW c \in Conns, NEW es \in SUBSET Ends, NEW in \in Boxes,
         \A d \in Conns, f \in Ends : Len(in[d][f]) <= SockCap,
         Close(c, es, in)
  PROVE  SocketTypes'
  <1>1. sock \in [Conns -> [Ends -> Places]]
    BY DEF SocketTypes
  <1>2. sock' \in [Conns -> [Ends -> Places]] /\ inbox' \in Boxes
    BY <1>1, CloseIs
  <1>3. ASSUME NEW d \in Conns, NEW f \in Ends PROVE Len(inbox'[d][f]) <= SockCap
    <2>1. inbox'[d][f] \in {in[d][f], <<>>}
      BY <1>1, CloseIs, ZenonT(30)
    <2>2. Len(<<>>) = 0 /\ Len(in[d][f]) <= SockCap /\ 0 <= SockCap
      BY NetpollAssumption
    <2> QED  BY <2>1, <2>2
  <1> QED  BY <1>2, <1>3 DEF SocketTypes, Boxes

(* A copy moves a token; its two inboxes are not the same. *)
LEMMA MoveTypes ==
  ASSUME SocketTypes, NEW c \in Conns, NEW a \in Ends, NEW b \in Ends,
         a # Peer(b), inbox[c][a] # <<>>, HasRoom(c, b),
         inbox' = Arrive(Drop(inbox, c, a), c, b, Head(inbox[c][a])),
         UNCHANGED sock
  PROVE  /\ SocketTypes'
         /\ \A d \in Conns : d # c => inbox'[d] = inbox[d]
         /\ \A f \in Ends : inbox'[c][f] =
              IF f = a THEN Tail(inbox[c][a])
              ELSE IF f = Peer(b) /\ ~PeerGone(c, b)
                THEN Append(inbox[c][f], Head(inbox[c][a]))
              ELSE inbox[c][f]
  <1>1. inbox \in Boxes /\ Peer(b) \in Ends
    BY Peers DEF SocketTypes, Boxes
  <1>2. PICK in \in Boxes : in = Drop(inbox, c, a)
    BY <1>1, DropIs
  <1>3. /\ \A d \in Conns : d # c => in[d] = inbox[d]
        /\ \A f \in Ends : in[c][f] =
              IF f = a THEN Tail(inbox[c][f]) ELSE inbox[c][f]
        /\ Head(inbox[c][a]) \in Tokens
        /\ \A d \in Conns, f \in Ends : Len(in[d][f]) <= SockCap
    BY <1>1, <1>2, DropIs, DropTypes
  <1>4. PICK tok \in Tokens : tok = Head(inbox[c][a])
    BY <1>3
  <1>5. /\ inbox' \in Boxes
        /\ \A d \in Conns : d # c => inbox'[d] = in[d]
        /\ \A f \in Ends : inbox'[c][f] =
              IF f = Peer(b) /\ ~PeerGone(c, b) THEN Append(in[c][f], tok)
              ELSE in[c][f]
    BY <1>2, <1>4, ArriveIs
  <1>6. ASSUME NEW d \in Conns, NEW f \in Ends PROVE Len(inbox'[d][f]) <= SockCap
    <2>1. CASE d = c /\ f = Peer(b) /\ ~PeerGone(c, b)
      <3>1. inbox'[d][f] = Append(inbox[c][f], tok)
        BY <1>3, <1>5, <2>1
      <3>2. Len(inbox[c][f]) < SockCap /\ inbox[c][f] \in Seq(Tokens)
        BY <1>1, <2>1 DEF HasRoom, Boxes
      <3>3. Len(Append(inbox[c][f], tok)) = Len(inbox[c][f]) + 1
            /\ Len(inbox[c][f]) \in Nat
        BY <3>2, AppendTail
      <3> QED  BY <3>1, <3>2, <3>3, NetpollAssumption
    <2>2. CASE ~(d = c /\ f = Peer(b) /\ ~PeerGone(c, b))
      BY <1>3, <1>5, <2>2
    <2> QED  BY <2>1, <2>2
  <1> QED  BY <1>1, <1>3, <1>4, <1>5, <1>6 DEF SocketTypes, Boxes

(* A new connection has empty inboxes or none at all. *)
LEMMA ConnectTypes ==
  ASSUME SocketTypes, NEW c \in Conns, NEW e \in Ends, Connect(c, e),
         UNCHANGED inbox
  PROVE  SocketTypes'
  BY ConnectIs DEF SocketTypes

-----------------------------------------------------------------------------
(* Consecutive tokens.                                                     *)

(* No tokens are consecutive from anywhere on. *)
LEMMA NumberedEmpty == \A n : Numbered(<<>>, n)
  BY DEF Numbered

(* The first of consecutive tokens, and the rest. *)
LEMMA NumberedTail ==
  ASSUME NEW T, NEW q \in Seq(T), NEW n \in Nat, Numbered(q, n), q # <<>>
  PROVE  Head(q) = n + 1 /\ Numbered(Tail(q), n + 1)
  <1>1. Len(q) \in Nat \ {0} /\ Len(Tail(q)) = Len(q) - 1
    OBVIOUS
  <1>2. Head(q) = n + 1
    BY <1>1 DEF Numbered
  <1>3. ASSUME NEW i \in 1..Len(Tail(q)) PROVE Tail(q)[i] = n + 1 + i
    <2>1. i + 1 \in 1..Len(q) /\ Tail(q)[i] = q[i + 1]
      BY <1>1
    <2>2. q[i + 1] = n + (i + 1)
      BY <2>1 DEF Numbered
    <2> QED  BY <1>1, <2>1, <2>2
  <1> QED  BY <1>2, <1>3 DEF Numbered

(* Consecutive tokens and the next one. *)
LEMMA NumberedAppend ==
  ASSUME NEW T, NEW q \in Seq(T), NEW t \in T, NEW n \in Nat, Numbered(q, n),
         t = n + Len(q) + 1
  PROVE  Numbered(Append(q, t), n)
  <1>1. Len(q) \in Nat /\ Len(Append(q, t)) = Len(q) + 1
    OBVIOUS
  <1>2. ASSUME NEW i \in 1..Len(Append(q, t)) PROVE Append(q, t)[i] = n + i
    <2>1. CASE i \in 1..Len(q)
      BY <2>1 DEF Numbered
    <2>2. CASE i = Len(q) + 1
      BY <1>1, <2>2
    <2> QED  BY <1>1, <2>1, <2>2
  <1> QED  BY <1>2 DEF Numbered

-----------------------------------------------------------------------------
(* A step of one tunnel leaves the others alone.                           *)

(* Tunnel d as the step found it. *)
Kept(d) ==
  /\ sock'[d] = sock[d] /\ inbox'[d] = inbox[d] /\ relay'[d] = relay[d]
  /\ copier'[d] = copier[d] /\ initial'[d] = initial[d]
  /\ sink'[d] = sink[d] /\ echoed'[d] = echoed[d]
  /\ d \in served' <=> d \in served
  /\ d \in Tunnels => woff'[d] = woff[d] /\ roff'[d] = roff[d]

(* What holds of a tunnel that is kept still holds. *)
LEMMA KeptHolds ==
  ASSUME NEW d, Kept(d)
  PROVE  /\ OneShot(d) => OneShot(d)'
         /\ d \in Tunnels => /\ InOrder(d) => InOrder(d)'
                             /\ roff[d] <= Echoes(d) => roff'[d] <= Echoes(d)'
  <1>1. Echoes(d)' = Echoes(d) /\ Held(d)' = Held(d)
    BY DEF Kept, Echoes, Held
  <1>2. Answered(d)' <=> Answered(d)
    BY DEF Kept, Answered
  <1>3. OneShot(d) => OneShot(d)'
    BY <1>2 DEF Kept, OneShot
  <1>4. ASSUME d \in Tunnels PROVE InOrder(d) => InOrder(d)'
    <2>1. Linked(d) => Linked(d)'
      BY <1>4 DEF Kept, Linked
    <2>2. Upward(d) => Upward(d)'
      BY <1>1, <1>4 DEF Kept, Upward
    <2>3. Downward(d) => Downward(d)'
      BY <1>1, <1>4 DEF Kept, Downward
    <2> QED  BY <2>1, <2>2, <2>3 DEF InOrder
  <1> QED  BY <1>1, <1>3, <1>4 DEF Kept

(* What is left to show of a step of tunnel c. *)
LEMMA OneTunnel ==
  ASSUME Traffic, NEW c \in Conns, \A d \in Conns : d # c => Kept(d),
         echo' = echo, SocketTypes', RelayTypes', SinkTypes', TunnelTypes',
         OneService', Audits',
         ~echo => OneShot(c)',
         c \in Tunnels => /\ echo => InOrder(c)'
                          /\ ~echo => roff'[c] <= Echoes(c)'
  PROVE  Traffic'
  <1>1. ASSUME ~echo PROVE \A d \in Conns : OneShot(d)'
    BY <1>1, KeptHolds DEF Traffic
  <1>2. ASSUME echo PROVE \A d \in Tunnels : InOrder(d)'
    BY <1>2, KeptHolds, TunnelAssumption DEF Traffic
  <1>3. ASSUME NEW d \in Tunnels PROVE roff'[d] <= Echoes(d)'
    <2>1. CASE d # c
      BY <2>1, KeptHolds, TunnelAssumption DEF Traffic
    <2>2. CASE d = c /\ ~echo
      BY <2>2
    <2>3. CASE d = c /\ echo
      <3>1. roff'[d] + Len(inbox'[d]["cl"]) <= Echoes(d)'
        BY <2>3 DEF InOrder, Downward
      <3>2. /\ inbox'[d]["cl"] \in Seq(Tokens) /\ roff'[d] \in Nat
            /\ sink'[d] = sink'[d] /\ echoed'[d] \in Nat
        BY TunnelAssumption
        DEF SocketTypes, SinkTypes, TunnelTypes, Ends
      <3>3. Len(inbox'[d]["cl"]) \in Nat
        BY <3>2
      <3>4. Echoes(d)' \in Nat
        BY <3>2 DEF Echoes
      <3> QED  BY <3>1, <3>2, <3>3, <3>4
    <2> QED  BY <2>1, <2>2, <2>3
  <1> QED  BY <1>1, <1>2, <1>3 DEF Traffic

(* The types of what the steps of tunnel c are about. *)
LEMMA Local ==
  ASSUME Traffic, NEW c \in Tunnels
  PROVE  /\ c \in Conns /\ \A e \in Ends : /\ inbox[c][e] \in Seq(Tokens)
                                           /\ Len(inbox[c][e]) \in Nat
         /\ Echoes(c) \in Nat /\ Held(c) \in {0, 1}
         /\ woff[c] \in Nat /\ roff[c] \in Nat
         /\ "cl" \in Ends /\ "rc" \in Ends /\ "ru" \in Ends /\ "sk" \in Ends
  <1>1. c \in Conns
    BY TunnelAssumption
  <1>2. \A e \in Ends : inbox[c][e] \in Seq(Tokens)
    BY <1>1 DEF Traffic, SocketTypes
  <1>3. echoed[c] \in Nat
    BY <1>1 DEF Traffic, SinkTypes
  <1>4. woff[c] \in Nat /\ roff[c] \in Nat
    BY TunnelAssumption DEF Traffic, TunnelTypes
  <1>5. \A e \in Ends : Len(inbox[c][e]) \in Nat
    BY <1>2
  <1>6. Echoes(c) \in Nat /\ Held(c) \in {0, 1}
    BY <1>3 DEF Echoes, Held
  <1> QED  BY <1>1, <1>2, <1>4, <1>5, <1>6 DEF Ends

-----------------------------------------------------------------------------
(* The relay.                                                              *)

(* What is left to show of a step of the relay on tunnel c. *)
LEMMA RelayTunnel ==
  ASSUME Traffic, NEW c \in Conns,
         UNCHANGED <<sinkVars, churnVars, tunnelVars>>,
         \A d \in Conns : d # c => /\ sock'[d] = sock[d]
                                   /\ inbox'[d] = inbox[d]
                                   /\ relay'[d] = relay[d]
                                   /\ copier'[d] = copier[d]
                                   /\ initial'[d] = initial[d],
         SocketTypes', RelayTypes', ~echo => OneShot(c)',
         c \in Tunnels /\ echo => InOrder(c)'
  PROVE  Traffic'
  <1> USE DEF sinkVars, churnVars, tunnelVars, daemonVars, stormVars
  <1>1. SinkTypes' /\ TunnelTypes' /\ OneService' /\ echo' = echo
    BY DEF Traffic, SinkTypes, TunnelTypes, OneService
  <1>2. Audits'
    BY DEF Traffic, Audits, Answered
  <1>3. \A d \in Conns : d # c => Kept(d)
    BY DEF Kept
  <1>4. c \in Tunnels => roff'[c] <= Echoes(c)'
    BY DEF Traffic, Echoes
  <1> QED  BY <1>1, <1>2, <1>3, <1>4, OneTunnel

(* Accept, the end of the upward copy, and a stall: no token moves. *)
LEMMA AcceptTraffic ==
  ASSUME Traffic, NEW c \in Conns,
         Accept(c) \/ CopyUpEnds(c) \/ Wedge(c),
         UNCHANGED <<sinkVars, churnVars, tunnelVars>>
  PROVE  Traffic'
  <1>0. /\ SocketTypes /\ RelayTypes /\ UNCHANGED <<sock, inbox, initial>>
        /\ sink' = sink /\ echoed' = echoed /\ served' = served
        /\ woff' = woff /\ roff' = roff
    BY DEF Traffic, Accept, CopyUpEnds, Wedge, sockVars, sinkVars, tunnelVars
  <1>1. SocketTypes'
    BY <1>0 DEF SocketTypes
  <1>2. RelayTypes'
    <2>1. CASE Accept(c)
      BY <1>0, <2>1 DEF RelayTypes, Accept, Go
    <2>2. CASE CopyUpEnds(c)
      BY <1>0, <2>2 DEF RelayTypes, CopyUpEnds
    <2>3. CASE Wedge(c)
      BY <1>0, <2>3 DEF RelayTypes, Wedge
    <2> QED  BY <2>1, <2>2, <2>3
  <1>3. /\ relay'[c] = relay[c] \/ (/\ relay[c] = "none" /\ relay'[c] = "initial"
                                    /\ sock[c]["rc"] = "open")
        /\ copier'[c] = copier[c] \/ (copier[c] = "copy" /\ copier'[c] = "done")
        /\ \A d \in Conns : d # c => relay'[d] = relay[d] /\ copier'[d] = copier[d]
    BY <1>0 DEF Accept, CopyUpEnds, Wedge, Go, RelayTypes
  <1>4. ASSUME ~echo PROVE OneShot(c)'
    <2>1. OneShot(c)
      BY <1>4 DEF Traffic
    <2> QED  BY <1>0, <1>3, <2>1 DEF OneShot, Answered
  <1>5. ASSUME c \in Tunnels, echo PROVE InOrder(c)'
    <2>1. Linked(c) /\ Upward(c) /\ Downward(c)
      BY <1>5 DEF Traffic, InOrder
    <2>2. Linked(c)'
      BY <1>0, <1>3, <2>1 DEF Linked
    <2>3. Held(c)' = Held(c) /\ Echoes(c)' = Echoes(c)
      BY <1>0, <1>3 DEF Held, Echoes
    <2>4. Upward(c)'
      BY <1>0, <2>1, <2>3 DEF Upward
    <2>5. Downward(c)'
      BY <1>0, <2>1, <2>3 DEF Downward
    <2> QED  BY <2>2, <2>4, <2>5 DEF InOrder
  <1> QED  BY <1>0, <1>1, <1>2, <1>3, <1>4, <1>5, RelayTunnel

(* The relay's goroutine returns and closes its sockets. *)
LEMMA ReturnTraffic ==
  ASSUME Traffic, NEW c \in Conns,
         NEW from \in {"initial", "hook", "dialed", "copy"},
         Return(c, from), completed' \in {completed, completed \cup {c}},
         UNCHANGED <<sinkVars, churnVars, tunnelVars>>
  PROVE  Traffic'
  <1>0. /\ SocketTypes /\ RelayTypes /\ UNCHANGED <<copier, initial, wedged>>
        /\ sink' = sink /\ echoed' = echoed /\ served' = served
        /\ woff' = woff /\ roff' = roff
        /\ inbox \in Boxes /\ sock \in [Conns -> [Ends -> Places]]
        /\ {"rc", "ru"} \in SUBSET Ends
        /\ relay[c] = from /\ relay' = [relay EXCEPT ![c] = "done"]
        /\ Close(c, {"rc", "ru"}, inbox)
    BY DEF Traffic, Return, Go, sinkVars, tunnelVars, Boxes, SocketTypes, Ends
  <1>1. SocketTypes'
    BY <1>0, CloseTypes DEF SocketTypes
  <1>2. /\ \A d \in Conns : d # c => sock'[d] = sock[d] /\ inbox'[d] = inbox[d]
        /\ \A e \in Ends : sock'[c][e] =
              IF e \in {"rc", "ru"} /\ sock[c][e] = "open" THEN "closed"
              ELSE sock[c][e]
        /\ \A e \in Ends : inbox'[c][e] \in {inbox[c][e], <<>>}
        /\ inbox'[c]["rc"] = <<>> /\ inbox'[c]["ru"] = <<>>
    BY <1>0, CloseIs
  <1>3. RelayTypes' /\ relay'[c] = "done"
        /\ \A d \in Conns : d # c => relay'[d] = relay[d]
    BY <1>0 DEF RelayTypes
  <1>4. ASSUME ~echo PROVE OneShot(c)'
    <2>1. OneShot(c) /\ (Answered(c)' <=> Answered(c))
      BY <1>0, <1>4 DEF Traffic, Answered
    <2>2. /\ inbox'[c]["cl"] \in {inbox[c]["cl"], <<>>}
          /\ inbox'[c]["sk"] \in {inbox[c]["sk"], <<>>}
      BY <1>2 DEF Ends
    <2>3. <<>> \in Seq({"request"}) /\ <<>> \in Seq({"reply"})
      OBVIOUS
    <2> QED  BY <1>2, <1>3, <2>1, <2>2, <2>3 DEF OneShot
  <1>5. ASSUME c \in Tunnels, echo PROVE InOrder(c)'
    <2>1. Linked(c) /\ Upward(c) /\ Downward(c)
      BY <1>5 DEF Traffic, InOrder
    <2>2. /\ sock'[c]["cl"] = sock[c]["cl"] /\ sock'[c]["sk"] = sock[c]["sk"]
          /\ sock'[c]["rc"] = "closed" /\ sock'[c]["ru"] # "open"
          /\ sock'[c]["ru"] = "none" => sock[c]["ru"] = "none"
          /\ inbox'[c]["cl"] \in {inbox[c]["cl"], <<>>}
          /\ inbox'[c]["sk"] \in {inbox[c]["sk"], <<>>}
      BY <1>0, <1>2, <2>1 DEF Ends, Linked
    <2>3. \A e \in Ends : sock'[c][e] # "open" => inbox'[c][e] = <<>>
      BY <1>2, <2>1, <2>2 DEF Linked, Ends
    <2>4. Linked(c)'
      BY <1>0, <1>3, <2>1, <2>2, <2>3 DEF Linked
    <2>5. Held(c)' = 0 /\ Echoes(c)' = Echoes(c)
      BY <1>0, <1>3 DEF Held, Echoes
    <2>6. Upward(c)'
      BY <2>1, <2>2, <2>5, NumberedEmpty DEF Upward
    <2>7. Len(inbox'[c]["cl"]) \in {Len(inbox[c]["cl"]), 0}
      BY <2>2
    <2>8. roff[c] + Len(inbox'[c]["cl"]) <= Echoes(c)
      BY <1>5, <2>1, <2>7, Local DEF Downward
    <2>9. Downward(c)'
      BY <1>0, <2>1, <2>2, <2>5, <2>8, NumberedEmpty DEF Downward
    <2> QED  BY <2>4, <2>6, <2>9 DEF InOrder
  <1> QED  BY <1>0, <1>1, <1>2, <1>3, <1>4, <1>5, RelayTunnel

(* The relay reads the first token of the client. *)
LEMMA ReadInitialTraffic ==
  ASSUME Traffic, NEW c \in Conns, ReadInitial(c),
         UNCHANGED <<sinkVars, churnVars, tunnelVars>>
  PROVE  Traffic'
  <1> DEFINE q == inbox[c]["rc"]
  <1>0. /\ SocketTypes /\ RelayTypes /\ UNCHANGED <<sock, copier, completed, wedged>>
        /\ sink' = sink /\ echoed' = echoed /\ served' = served
        /\ woff' = woff /\ roff' = roff
        /\ inbox \in Boxes /\ "rc" \in Ends
        /\ relay[c] = "initial" /\ relay' = [relay EXCEPT ![c] = "hook"]
        /\ initial' = [initial EXCEPT ![c] = <<Head(q)>>]
        /\ q # <<>> /\ q \in Seq(Tokens) /\ inbox' = Drop(inbox, c, "rc")
    BY DEF Traffic, ReadInitial, Readable, Go, sinkVars, tunnelVars, Boxes,
           SocketTypes, Ends
  <1>1. SocketTypes'
    BY <1>0, ReadTypes
  <1>2. /\ \A d \in Conns : d # c => inbox'[d] = inbox[d]
        /\ \A f \in Ends : inbox'[c][f] =
              IF f = "rc" THEN Tail(inbox[c][f]) ELSE inbox[c][f]
        /\ Head(q) \in Tokens
    BY <1>0, DropIs
  <1>3. /\ RelayTypes' /\ relay'[c] = "hook" /\ initial'[c] = <<Head(q)>>
        /\ \A d \in Conns : d # c => /\ relay'[d] = relay[d]
                                     /\ initial'[d] = initial[d]
    <2>1. <<Head(q)>> \in Seq(Tokens) /\ <<Head(q)>> # <<>>
      BY <1>2
    <2> HIDE DEF q
    <2> QED  BY <1>0, <2>1 DEF RelayTypes
  <1>4. ASSUME ~echo PROVE OneShot(c)'
    <2>1. OneShot(c) /\ (Answered(c)' <=> Answered(c))
      BY <1>0, <1>4 DEF Traffic, Answered
    <2>2. q \in Seq({"request"})
      BY <2>1 DEF OneShot
    <2>3. Head(q) = "request" /\ Tail(q) \in Seq({"request"})
      BY <1>0, <2>2, AppendTail
    <2> QED  BY <1>2, <1>3, <2>1, <2>3 DEF OneShot, Ends
  <1>5. ASSUME c \in Tunnels, echo PROVE InOrder(c)'
    <2>1. Linked(c) /\ Upward(c) /\ Downward(c)
      BY <1>5 DEF Traffic, InOrder
    <2>2. /\ inbox'[c]["cl"] = inbox[c]["cl"] /\ inbox'[c]["sk"] = inbox[c]["sk"]
          /\ inbox'[c]["ru"] = inbox[c]["ru"] /\ inbox'[c]["rc"] = Tail(q)
      BY <1>2 DEF Ends
    <2>3. \A e \in Ends : sock'[c][e] # "open" => inbox'[c][e] = <<>>
      BY <1>0, <1>2, <2>1 DEF Linked
    <2>4. Linked(c)'
      BY <1>0, <1>3, <2>1, <2>3 DEF Linked
    <2>5. Held(c) = 0 /\ Held(c)' = 1 /\ Echoes(c)' = Echoes(c)
      BY <1>0, <1>3 DEF Held, Echoes
    <2>6. PICK n \in Nat : n = Echoes(c) + Len(inbox[c]["sk"])
      BY <1>5, Local
    <2>7. sock[c]["rc"] = "open" /\ n + 0 = n
      BY <1>0, <2>1, <2>6 DEF Linked
    <2>8. Numbered(q, n)
      BY <2>1, <2>5, <2>6, <2>7 DEF Upward
    <2>9. Head(q) = n + 1 /\ Numbered(Tail(q), n + 1)
      BY <1>0, <2>8, NumberedTail
    <2>10. Len(Tail(q)) = Len(q) - 1 /\ Len(q) \in Nat
      BY <1>0, AppendTail
    <2>11. sock[c]["cl"] = "open" => woff[c] = n + 1 + Len(Tail(q))
      <3>1. sock[c]["cl"] = "open" => woff[c] = n + 0 + Len(q)
        BY <2>1, <2>5, <2>6, <2>7 DEF Upward
      <3>2. PICK k \in Nat : k = Len(q)
        BY <2>10
      <3>3. Len(Tail(q)) = k - 1
        BY <2>10, <3>2
      <3>4. n + 0 + k = n + 1 + (k - 1)
        OBVIOUS
      <3> QED  BY <3>1, <3>2, <3>3, <3>4
    <2>12. Upward(c)'
      BY <1>0, <1>3, <2>1, <2>2, <2>5, <2>6, <2>9, <2>11 DEF Upward
    <2>13. Downward(c)'
      BY <1>0, <2>1, <2>2, <2>5 DEF Downward
    <2> QED  BY <2>4, <2>12, <2>13 DEF InOrder
  <1> QED  BY <1>0, <1>1, <1>2, <1>3, <1>4, <1>5, RelayTunnel

(* The dial opens a connection to the sink. *)
LEMMA DialTraffic ==
  ASSUME Traffic, NEW c \in Conns, Dial(c),
         UNCHANGED <<sinkVars, churnVars, tunnelVars>>
  PROVE  Traffic'
  <1>0. /\ SocketTypes /\ RelayTypes
        /\ UNCHANGED <<inbox, copier, initial, completed, wedged>>
        /\ sink' = sink /\ echoed' = echoed /\ served' = served
        /\ woff' = woff /\ roff' = roff
        /\ sock \in [Conns -> [Ends -> Places]] /\ "ru" \in Ends
        /\ relay[c] = "hook" /\ relay' = [relay EXCEPT ![c] = "dialed"]
        /\ Connect(c, "ru")
    BY DEF Traffic, Dial, Go, sinkVars, tunnelVars, SocketTypes, Ends
  <1>1. SocketTypes'
    BY <1>0, ConnectTypes
  <1>2. /\ \A d \in Conns : d # c => sock'[d] = sock[d]
        /\ sock'[c]["ru"] = "open" /\ sock'[c]["sk"] = "open"
        /\ sock'[c]["rc"] = sock[c]["rc"] /\ sock'[c]["cl"] = sock[c]["cl"]
    BY <1>0, ConnectIs, Peers DEF Ends
  <1>3. /\ RelayTypes' /\ relay'[c] = "dialed"
        /\ \A d \in Conns : d # c => relay'[d] = relay[d]
    BY <1>0 DEF RelayTypes
  <1>4. ASSUME ~echo PROVE OneShot(c)'
    <2>1. OneShot(c) /\ (Answered(c)' <=> Answered(c))
      BY <1>0, <1>4 DEF Traffic, Answered
    <2> QED  BY <1>0, <1>3, <2>1 DEF OneShot
  <1>5. ASSUME c \in Tunnels, echo PROVE InOrder(c)'
    <2>1. Linked(c) /\ Upward(c) /\ Downward(c)
      BY <1>5 DEF Traffic, InOrder
    <2>2. \A e \in Ends : sock'[c][e] # "open" => inbox'[c][e] = <<>>
      BY <1>0, <1>2, <2>1 DEF Linked, Ends
    <2>3. Linked(c)'
      BY <1>0, <1>2, <1>3, <2>1, <2>2 DEF Linked
    <2>4. Held(c)' = Held(c) /\ Echoes(c)' = Echoes(c)
      BY <1>0, <1>3 DEF Held, Echoes
    <2>5. Upward(c)'
      BY <1>0, <1>2, <2>1, <2>4 DEF Upward
    <2>6. Downward(c)'
      BY <1>0, <1>2, <2>1, <2>4 DEF Downward
    <2> QED  BY <2>3, <2>5, <2>6 DEF InOrder
  <1> QED  BY <1>0, <1>1, <1>2, <1>3, <1>4, <1>5, RelayTunnel

(* The relay sends on the first token, and starts the upward copy. *)
LEMMA WriteInitialTraffic ==
  ASSUME Traffic, NEW c \in Conns, WriteInitial(c),
         UNCHANGED <<sinkVars, churnVars, tunnelVars>>
  PROVE  Traffic'
  <1>0. /\ SocketTypes /\ RelayTypes /\ UNCHANGED <<sock, initial, completed, wedged>>
        /\ sink' = sink /\ echoed' = echoed /\ served' = served
        /\ woff' = woff /\ roff' = roff
        /\ inbox \in Boxes /\ "ru" \in Ends
        /\ relay[c] = "dialed" /\ relay' = [relay EXCEPT ![c] = "copy"]
        /\ copier' = [copier EXCEPT ![c] = "copy"]
        /\ Write(c, "ru", initial[c][1])
    BY DEF Traffic, WriteInitial, Go, sinkVars, tunnelVars, Boxes,
           SocketTypes, Ends
  <1>a. PICK tok \in Tokens : tok = initial[c][1]
    <2>1. initial[c] \in Seq(Tokens) /\ initial[c] # <<>>
      BY <1>0 DEF RelayTypes
    <2>2. initial[c][1] \in Tokens
      BY <2>1
    <2> QED  BY <2>2
  <1>b. Write(c, "ru", tok) /\ inbox' = Arrive(inbox, c, "ru", tok)
    BY <1>0, <1>a DEF Write
  <1>1. SocketTypes'
    BY <1>0, <1>b, WriteTypes
  <1>2. /\ \A d \in Conns : d # c => inbox'[d] = inbox[d]
        /\ \A f \in Ends : inbox'[c][f] =
              IF f = "sk" /\ ~PeerGone(c, "ru") THEN Append(inbox[c][f], tok)
              ELSE inbox[c][f]
    BY <1>0, <1>b, ArriveIs, Peers
  <1>3. /\ RelayTypes' /\ relay'[c] = "copy" /\ copier'[c] = "copy"
        /\ \A d \in Conns : d # c => /\ relay'[d] = relay[d]
                                     /\ copier'[d] = copier[d]
    BY <1>0 DEF RelayTypes
  <1>4. ASSUME ~echo PROVE OneShot(c)'
    <2>1. OneShot(c) /\ (Answered(c)' <=> Answered(c))
      BY <1>0, <1>4 DEF Traffic, Answered
    <2>2. tok = "request" /\ inbox[c]["sk"] \in Seq({"request"})
      BY <1>0, <1>a, <2>1 DEF OneShot
    <2>3. Append(inbox[c]["sk"], tok) \in Seq({"request"})
      BY <2>2, AppendTail
    <2> QED  BY <1>2, <1>3, <2>1, <2>2, <2>3 DEF OneShot, Ends
  <1>5. ASSUME c \in Tunnels, echo PROVE InOrder(c)'
    <2> DEFINE q == inbox[c]["sk"]
    <2>1. Linked(c) /\ Upward(c) /\ Downward(c)
      BY <1>5 DEF Traffic, InOrder
    <2>a. sock[c]["sk"] = "open" /\ sock[c]["ru"] = "open"
      BY <1>0, <2>1 DEF Linked
    <2>2. /\ inbox'[c]["cl"] = inbox[c]["cl"] /\ inbox'[c]["rc"] = inbox[c]["rc"]
          /\ inbox'[c]["ru"] = inbox[c]["ru"] /\ inbox'[c]["sk"] = Append(q, tok)
      BY <1>2, <2>a, Peers DEF Ends, PeerGone
    <2>3. \A e \in Ends : sock'[c][e] # "open" => inbox'[c][e] = <<>>
      BY <1>0, <1>2, <2>1, <2>a DEF Linked
    <2>4. Linked(c)'
      BY <1>0, <1>3, <2>1, <2>3 DEF Linked
    <2>5. Held(c) = 1 /\ Held(c)' = 0 /\ Echoes(c)' = Echoes(c)
      BY <1>0, <1>3 DEF Held, Echoes
    <2>6. PICK n \in Nat : n = Echoes(c)
      BY <1>5, Local
    <2>7. PICK m \in Nat : m = Len(q)
      BY <1>5, Local
    <2>8. q \in Seq(Tokens)
      BY <1>5, Local
    <2>9. tok = n + m + 1
      BY <1>a, <2>1, <2>5, <2>6, <2>7 DEF Upward
    <2>10. Len(Append(q, tok)) = m + 1
      BY <2>7, <2>8, AppendTail
    <2>11. Numbered(Append(q, tok), n)
      BY <2>1, <2>6, <2>7, <2>8, <2>9, NumberedAppend DEF Upward
    <2>12. n + (m + 1) + 0 = n + m + 1
      OBVIOUS
    <2> HIDE DEF q
    <2>13. /\ sock[c]["rc"] = "open" => Numbered(inbox[c]["rc"], n + m + 1)
           /\ sock[c]["rc"] = "open" /\ sock[c]["cl"] = "open" =>
                woff[c] = n + m + 1 + Len(inbox[c]["rc"])
      BY <2>1, <2>5, <2>6, <2>7 DEF Upward, q
    <2>14. Upward(c)'
      BY <1>0, <2>2, <2>5, <2>6, <2>10, <2>11, <2>12, <2>13 DEF Upward
    <2>15. Downward(c)'
      BY <1>0, <2>1, <2>2, <2>5 DEF Downward
    <2> QED  BY <2>4, <2>14, <2>15 DEF InOrder
  <1> QED  BY <1>0, <1>1, <1>2, <1>3, <1>4, <1>5, RelayTunnel

(* The upward copy moves a token on to the sink. *)
LEMMA CopyUpTraffic ==
  ASSUME Traffic, NEW c \in Conns, CopyUp(c),
         UNCHANGED <<sinkVars, churnVars, tunnelVars>>
  PROVE  Traffic'
  <1> DEFINE q == inbox[c]["sk"]
             p == inbox[c]["rc"]
             tok == Head(p)
  <1>0. /\ SocketTypes /\ RelayTypes
        /\ UNCHANGED <<sock, relay, copier, initial, completed, wedged>>
        /\ sink' = sink /\ echoed' = echoed /\ served' = served
        /\ woff' = woff /\ roff' = roff
        /\ "ru" \in Ends /\ "rc" \in Ends /\ copier[c] = "copy"
        /\ p # <<>> /\ HasRoom(c, "ru") /\ "rc" # Peer("ru")
        /\ sock[c]["rc"] = "open"
        /\ inbox' = Arrive(Drop(inbox, c, "rc"), c, "ru", Head(inbox[c]["rc"]))
    BY Peers DEF Traffic, CopyUp, Move, Readable, relayVars, sinkVars,
                 tunnelVars, Ends
  <1>1. SocketTypes' /\ p \in Seq(Tokens) /\ q \in Seq(Tokens)
    BY <1>0, MoveTypes, ZenonT(30) DEF SocketTypes, Ends
  <1>2. /\ \A d \in Conns : d # c => inbox'[d] = inbox[d]
        /\ \A f \in Ends : inbox'[c][f] =
              IF f = "rc" THEN Tail(p)
              ELSE IF f = Peer("ru") /\ ~PeerGone(c, "ru")
                THEN Append(inbox[c][f], tok)
              ELSE inbox[c][f]
    BY <1>0, MoveTypes
  <1>a. /\ inbox'[c]["cl"] = inbox[c]["cl"] /\ inbox'[c]["rc"] = Tail(p)
        /\ inbox'[c]["ru"] = inbox[c]["ru"]
        /\ inbox'[c]["sk"] = IF ~PeerGone(c, "ru") THEN Append(q, tok) ELSE q
    BY <1>2, Peers DEF Ends
  <1>3. RelayTypes'
    BY <1>0 DEF RelayTypes
  <1>b. Len(Tail(p)) = Len(p) - 1 /\ Len(p) \in Nat \ {0} /\ tok \in Tokens
    BY <1>0, <1>1, AppendTail
  <1>4. ASSUME ~echo PROVE OneShot(c)'
    <2>1. OneShot(c) /\ (Answered(c)' <=> Answered(c))
      BY <1>0, <1>4 DEF Traffic, Answered
    <2>2. p \in Seq({"request"}) /\ q \in Seq({"request"})
      BY <2>1 DEF OneShot
    <2>3. tok \in {"request"} /\ Tail(p) \in Seq({"request"})
      BY <1>0, <2>2, AppendTail
    <2>4. Append(q, tok) \in Seq({"request"})
      BY <2>2, <2>3, AppendTail
    <2> HIDE DEF q, p, tok
    <2> QED  BY <1>0, <1>a, <2>1, <2>2, <2>3, <2>4 DEF OneShot, q
  <1>5. ASSUME c \in Tunnels, echo PROVE InOrder(c)'
    <2>1. Linked(c) /\ Upward(c) /\ Downward(c)
      BY <1>5 DEF Traffic, InOrder
    <2>a. sock[c]["sk"] = "open" /\ relay[c] = "copy"
      BY <1>0, <2>1 DEF Linked
    <2>2. inbox'[c]["sk"] = Append(q, tok)
      BY <1>a, <2>a, Peers DEF PeerGone
    <2>3. \A e \in Ends : sock'[c][e] # "open" => inbox'[c][e] = <<>>
      BY <1>0, <1>a, <2>1, <2>a DEF Linked, Ends
    <2>4. Linked(c)'
      BY <1>0, <2>1, <2>3 DEF Linked
    <2>5. Held(c) = 0 /\ Held(c)' = 0 /\ Echoes(c)' = Echoes(c)
      BY <1>0, <2>a DEF Held, Echoes
    <2>6. PICK n \in Nat : n = Echoes(c)
      BY <1>5, Local
    <2>7. PICK m \in Nat : m = Len(q)
      BY <1>5, Local
    <2>8. n + m + 0 = n + m /\ n + m \in Nat
      OBVIOUS
    <2>9. Numbered(p, n + m) /\ Numbered(q, n)
      BY <1>0, <2>1, <2>5, <2>6, <2>7, <2>8 DEF Upward
    <2>10. tok = n + m + 1 /\ Numbered(Tail(p), n + m + 1)
      BY <1>0, <1>1, <2>8, <2>9, NumberedTail
    <2>11. Len(Append(q, tok)) = m + 1
      BY <1>1, <1>b, <2>7, AppendTail
    <2>12. Numbered(Append(q, tok), n)
      BY <1>1, <1>b, <2>7, <2>9, <2>10, NumberedAppend
    <2>13. n + (m + 1) + 0 = n + m + 1
      OBVIOUS
    <2>14. sock[c]["cl"] = "open" => woff[c] = n + m + 0 + Len(p)
      BY <1>0, <2>1, <2>5, <2>6, <2>7 DEF Upward
    <2> HIDE DEF q, p, tok
    <2>15. sock[c]["cl"] = "open" => woff[c] = n + m + 1 + Len(Tail(p))
      BY <1>b, <2>14
    <2>16. Upward(c)'
      <3>1. Numbered(inbox'[c]["sk"], Echoes(c)') /\ Held(c)' # 1
        BY <2>2, <2>5, <2>6, <2>12
      <3>2. Echoes(c)' + Len(inbox'[c]["sk"]) + Held(c)' = n + m + 1
        BY <2>2, <2>5, <2>6, <2>11, <2>13
      <3>3. Numbered(inbox'[c]["rc"], n + m + 1)
        BY <1>a, <2>10
      <3>4. sock'[c]["cl"] = "open" =>
              woff'[c] = n + m + 1 + Len(inbox'[c]["rc"])
        BY <1>0, <1>a, <2>15
      <3> QED  BY <3>1, <3>2, <3>3, <3>4 DEF Upward
    <2>17. Downward(c)'
      BY <1>0, <1>a, <2>1, <2>5 DEF Downward
    <2> QED  BY <2>4, <2>16, <2>17 DEF InOrder
  <1> QED  BY <1>0, <1>1, <1>2, <1>3, <1>4, <1>5, RelayTunnel

(* The downward copy moves a token on to the client. *)
LEMMA CopyDownTraffic ==
  ASSUME Traffic, NEW c \in Conns, CopyDown(c),
         UNCHANGED <<sinkVars, churnVars, tunnelVars>>
  PROVE  Traffic'
  <1> DEFINE q == inbox[c]["cl"]
             p == inbox[c]["ru"]
             tok == Head(p)
  <1>0. /\ SocketTypes /\ RelayTypes
        /\ UNCHANGED <<sock, relay, copier, initial, completed, wedged>>
        /\ sink' = sink /\ echoed' = echoed /\ served' = served
        /\ woff' = woff /\ roff' = roff
        /\ "ru" \in Ends /\ "rc" \in Ends /\ relay[c] = "copy"
        /\ p # <<>> /\ HasRoom(c, "rc") /\ "ru" # Peer("rc")
        /\ sock[c]["ru"] = "open" /\ sock[c]["rc"] = "open"
        /\ inbox' = Arrive(Drop(inbox, c, "ru"), c, "rc", Head(inbox[c]["ru"]))
    BY Peers DEF Traffic, CopyDown, Move, Readable, relayVars, sinkVars,
                 tunnelVars, Ends
  <1>1. SocketTypes' /\ p \in Seq(Tokens) /\ q \in Seq(Tokens)
    BY <1>0, MoveTypes, ZenonT(30) DEF SocketTypes, Ends
  <1>2. /\ \A d \in Conns : d # c => inbox'[d] = inbox[d]
        /\ \A f \in Ends : inbox'[c][f] =
              IF f = "ru" THEN Tail(p)
              ELSE IF f = Peer("rc") /\ ~PeerGone(c, "rc")
                THEN Append(inbox[c][f], tok)
              ELSE inbox[c][f]
    BY <1>0, MoveTypes
  <1>a. /\ inbox'[c]["sk"] = inbox[c]["sk"] /\ inbox'[c]["ru"] = Tail(p)
        /\ inbox'[c]["rc"] = inbox[c]["rc"]
        /\ inbox'[c]["cl"] = IF sock[c]["cl"] # "closed" THEN Append(q, tok)
                             ELSE q
    BY <1>2, Peers DEF Ends, PeerGone
  <1>3. RelayTypes'
    BY <1>0 DEF RelayTypes
  <1>b. Len(Tail(p)) = Len(p) - 1 /\ Len(p) \in Nat \ {0} /\ tok \in Tokens
    BY <1>0, <1>1, AppendTail
  <1>4. ASSUME ~echo PROVE OneShot(c)'
    <2>1. OneShot(c) /\ (Answered(c)' <=> Answered(c))
      BY <1>0, <1>4 DEF Traffic, Answered
    <2>2. p \in Seq({"reply"}) /\ q \in Seq({"reply"}) /\ Answered(c)
      BY <1>0, <2>1 DEF OneShot
    <2>3. tok \in {"reply"} /\ Tail(p) \in Seq({"reply"})
      BY <1>0, <2>2, AppendTail
    <2>4. Append(q, tok) \in Seq({"reply"})
      BY <2>2, <2>3, AppendTail
    <2> HIDE DEF q, p, tok
    <2> QED  BY <1>0, <1>a, <2>1, <2>2, <2>3, <2>4 DEF OneShot, q
  <1>5. ASSUME c \in Tunnels, echo PROVE InOrder(c)'
    <2>1. Linked(c) /\ Upward(c) /\ Downward(c)
      BY <1>5 DEF Traffic, InOrder
    <2>a. sock[c]["cl"] # "none"
      BY <1>0, <2>1 DEF Linked
    <2>c. sock[c]["cl"] \in Places
      BY <1>0 DEF SocketTypes, Ends
    <2>2. inbox'[c]["cl"] = IF sock[c]["cl"] = "open" THEN Append(q, tok) ELSE q
      BY <1>a, <2>a, <2>c DEF Places
    <2>3. \A e \in Ends : sock'[c][e] # "open" => inbox'[c][e] = <<>>
      BY <1>0, <1>a, <2>1, <2>2 DEF Linked, Ends
    <2>4. Linked(c)'
      BY <1>0, <2>1, <2>3 DEF Linked
    <2>5. Held(c)' = Held(c) /\ Echoes(c)' = Echoes(c)
      BY <1>0 DEF Held, Echoes
    <2>17. Upward(c)'
      BY <1>0, <1>a, <2>1, <2>5 DEF Upward
    <2>6. CASE sock[c]["cl"] # "open"
      BY <1>0, <2>1, <2>2, <2>4, <2>5, <2>6, <2>17 DEF Downward, InOrder
    <2>7. CASE sock[c]["cl"] = "open"
      <3>1. PICK n \in Nat : n = roff[c]
        BY <1>5, Local
      <3>2. PICK m \in Nat : m = Len(q)
        BY <1>5, Local
      <3>3. PICK k \in Nat : k = Echoes(c)
        BY <1>5, Local
      <3>4. Numbered(q, n) /\ Numbered(p, n + m) /\ k = n + m + Len(p)
        BY <1>0, <2>1, <2>7, <3>1, <3>2, <3>3 DEF Downward
      <3>5. tok = n + m + 1 /\ Numbered(Tail(p), n + m + 1)
        BY <1>0, <1>1, <3>4, NumberedTail
      <3>6. Len(Append(q, tok)) = m + 1
        BY <1>1, <1>b, <3>2, AppendTail
      <3>7. Numbered(Append(q, tok), n)
        BY <1>1, <1>b, <3>2, <3>4, <3>5, NumberedAppend
      <3> HIDE DEF q, p, tok
      <3>8. /\ n + (m + 1) <= k /\ k = n + (m + 1) + Len(Tail(p))
            /\ n + (m + 1) = n + m + 1
        BY <1>b, <3>4
      <3>9. Downward(c)'
        BY <1>0, <1>a, <2>2, <2>5, <2>7, <3>1, <3>3, <3>5, <3>6, <3>7, <3>8
        DEF Downward
      <3> QED  BY <2>4, <2>17, <3>9 DEF InOrder
    <2> QED  BY <2>6, <2>7
  <1> QED  BY <1>0, <1>1, <1>2, <1>3, <1>4, <1>5, RelayTunnel

(* All steps of the relay. *)
LEMMA RelayTraffic ==
  ASSUME Traffic, NEW c \in Conns,
         RelayStep(c) \/ CopierStep(c) \/ Wedge(c),
         UNCHANGED <<sinkVars, churnVars, tunnelVars>>
  PROVE  Traffic'
  <1>1. ASSUME \/ ReadInitialFails(c) \/ DialFails(c)
               \/ WriteInitialFails(c) \/ CopyDownEnds(c)
        PROVE  Traffic'
    <2>1. CASE ReadInitialFails(c)
      BY <2>1, ReturnTraffic DEF ReadInitialFails
    <2>2. CASE DialFails(c)
      BY <2>2, ReturnTraffic DEF DialFails
    <2>3. CASE WriteInitialFails(c)
      BY <2>3, ReturnTraffic DEF WriteInitialFails
    <2>4. CASE CopyDownEnds(c)
      BY <2>4, ReturnTraffic DEF CopyDownEnds
    <2> QED  BY <1>1, <2>1, <2>2, <2>3, <2>4
  <1> QED
    BY <1>1, AcceptTraffic, ReadInitialTraffic, DialTraffic,
       WriteInitialTraffic, CopyUpTraffic, CopyDownTraffic
    DEF RelayStep, CopierStep

-----------------------------------------------------------------------------
(* The sink.                                                               *)

(* What is left to show of a step of the sink on tunnel c. *)
LEMMA SinkTunnel ==
  ASSUME Traffic, NEW c \in Conns,
         UNCHANGED <<relayVars, churnVars, tunnelVars>>, echo' = echo,
         \A d \in Conns : d # c => /\ sock'[d] = sock[d]
                                   /\ inbox'[d] = inbox[d]
                                   /\ sink'[d] = sink[d]
                                   /\ echoed'[d] = echoed[d]
                                   /\ d \in served' <=> d \in served,
         SocketTypes', SinkTypes', OneService', misread' = {},
         Answered(c) => Answered(c)',
         ~echo => echoed' = echoed /\ OneShot(c)',
         c \in Tunnels /\ echo => InOrder(c)'
  PROVE  Traffic'
  <1> USE DEF relayVars, churnVars, tunnelVars, daemonVars, stormVars
  <1>1. RelayTypes' /\ TunnelTypes'
    BY DEF Traffic, RelayTypes, TunnelTypes
  <1>2. Audits'
    <2>1. \A d \in Conns : Answered(d) => Answered(d)'
      BY DEF Answered
    <2>2. ASSUME NEW r \in Runs, NEW w \in Workers, worker[r][w] = "verified"
          PROVE  cur[r][w] \in Conns /\ Answered(cur[r][w])'
      BY <2>1, <2>2 DEF Traffic, Audits
    <2> QED  BY <2>1, <2>2 DEF Traffic, Audits
  <1>3. \A d \in Conns : d # c => Kept(d)
    BY DEF Kept
  <1>4. ASSUME c \in Tunnels, ~echo PROVE roff'[c] <= Echoes(c)'
    <2>1. Echoes(c)' = Echoes(c)
      BY <1>4 DEF Echoes, OneService, Traffic
    <2> QED  BY <1>4, <2>1 DEF Traffic
  <1> QED  BY <1>1, <1>2, <1>3, <1>4, OneTunnel

(* The sink accepts a connection: no token moves. *)
LEMMA SinkAcceptTraffic ==
  ASSUME Traffic, NEW c \in Conns, SinkAccept(c),
         UNCHANGED <<relayVars, churnVars, tunnelVars>>
  PROVE  Traffic'
  <1>0. /\ SocketTypes /\ SinkTypes /\ OneService /\ misread = {}
        /\ UNCHANGED <<sock, inbox, echo, served, misread, echoed>>
        /\ sock[c]["sk"] = "open" /\ sink[c] = "none"
        /\ sink' = [sink EXCEPT ![c] = IF echo THEN "echo" ELSE "read"]
        /\ relay' = relay /\ copier' = copier /\ initial' = initial
        /\ woff' = woff /\ roff' = roff
    BY DEF Traffic, Audits, SinkAccept, At, sockVars, relayVars, tunnelVars
  <1>1. SocketTypes' /\ sink'[c] \in {"echo", "read"}
        /\ \A d \in Conns : d # c => sink'[d] = sink[d]
    BY <1>0 DEF SocketTypes, SinkTypes
  <1>2. SinkTypes'
    BY <1>0 DEF SinkTypes
  <1>3. OneService'
    <2>1. ASSUME NEW d \in Conns
          PROVE  IF echo THEN sink'[d] \notin {"read", "write", "count"}
                         ELSE sink'[d] \notin {"echo", "tally"}
      BY <1>0 DEF OneService, SinkTypes
    <2> QED  BY <1>0, <2>1 DEF OneService
  <1>a. Answered(c)' <=> Answered(c)
    BY <1>0, <1>1 DEF Answered
  <1>4. ASSUME ~echo PROVE OneShot(c)'
    BY <1>0, <1>4, <1>a DEF OneShot, Traffic
  <1>5. ASSUME c \in Tunnels, echo PROVE InOrder(c)'
    <2>1. Linked(c) /\ Upward(c) /\ Downward(c)
      BY <1>5 DEF Traffic, InOrder
    <2>2. Held(c)' = Held(c) /\ Echoes(c)' = Echoes(c)
      BY <1>0, <1>1 DEF Held, Echoes
    <2>3. Linked(c)'
      BY <1>0, <1>1, <2>1 DEF Linked
    <2>4. Upward(c)'
      BY <1>0, <2>1, <2>2 DEF Upward
    <2>5. Downward(c)'
      BY <1>0, <2>1, <2>2 DEF Downward
    <2> QED  BY <2>3, <2>4, <2>5 DEF InOrder
  <1> QED  BY <1>0, <1>1, <1>2, <1>3, <1>4, <1>5, <1>a, SinkTunnel

(* The one-shot sink reads a request. *)
LEMMA SinkReadTraffic ==
  ASSUME Traffic, NEW c \in Conns, SinkRead(c),
         UNCHANGED <<relayVars, churnVars, tunnelVars>>
  PROVE  Traffic'
  <1> DEFINE q == inbox[c]["sk"]
  <1>0. /\ SocketTypes /\ SinkTypes /\ OneService /\ misread = {}
        /\ UNCHANGED <<sock, echo, served, echoed>>
        /\ q # <<>> /\ q \in Seq(Tokens) /\ sink[c] = "read"
        /\ sink' = [sink EXCEPT ![c] = "write"]
        /\ inbox' = Drop(inbox, c, "sk") /\ inbox \in Boxes /\ "sk" \in Ends
        /\ misread' = IF Head(q) = "request" THEN misread ELSE misread \cup {c}
        /\ relay' = relay /\ initial' = initial
    BY DEF Traffic, Audits, SinkRead, Readable, At, relayVars, Boxes,
           SocketTypes, Ends
  <1>a. ~echo /\ OneShot(c)
    BY <1>0 DEF Traffic, OneService
  <1>b. q \in Seq({"request"})
    BY <1>a DEF OneShot
  <1>c. Head(q) = "request" /\ Tail(q) \in Seq({"request"})
    BY <1>0, <1>b, AppendTail
  <1>1. SocketTypes'
    BY <1>0, ReadTypes
  <1>2. /\ \A d \in Conns : d # c => inbox'[d] = inbox[d]
        /\ \A f \in Ends : inbox'[c][f] =
              IF f = "sk" THEN Tail(inbox[c][f]) ELSE inbox[c][f]
    BY <1>0, DropIs
  <1>3. /\ misread' = {} /\ sink'[c] = "write"
        /\ \A d \in Conns : d # c => sink'[d] = sink[d]
    BY <1>0, <1>c DEF SinkTypes
  <1>4. SinkTypes' /\ OneService'
    BY <1>0, <1>3, <1>a DEF SinkTypes, OneService
  <1>5. Answered(c)' <=> Answered(c)
    BY <1>0, <1>3 DEF Answered
  <1>6. OneShot(c)'
    BY <1>0, <1>2, <1>5, <1>a, <1>c DEF OneShot, Ends
  <1> QED  BY <1>0, <1>1, <1>2, <1>3, <1>4, <1>5, <1>6, <1>a, SinkTunnel

(* The one-shot sink answers: from now on it counts as having done so. *)
LEMMA SinkWriteTraffic ==
  ASSUME Traffic, NEW c \in Conns, SinkWrite(c),
         UNCHANGED <<relayVars, churnVars, tunnelVars>>
  PROVE  Traffic'
  <1>0. /\ SocketTypes /\ SinkTypes /\ OneService /\ misread = {}
        /\ UNCHANGED <<sock, echo, served, misread, echoed>>
        /\ sink[c] = "write" /\ sink' = [sink EXCEPT ![c] = "count"]
        /\ Write(c, "sk", "reply") /\ inbox \in Boxes /\ "sk" \in Ends
        /\ inbox' = Arrive(inbox, c, "sk", "reply") /\ "reply" \in Tokens
        /\ relay' = relay /\ initial' = initial
    BY DEF Traffic, Audits, SinkWrite, Write, At, relayVars, Boxes,
           SocketTypes, Ends, Tokens
  <1>a. ~echo /\ OneShot(c)
    BY <1>0 DEF Traffic, OneService
  <1>1. SocketTypes'
    BY <1>0, WriteTypes
  <1>2. /\ \A d \in Conns : d # c => inbox'[d] = inbox[d]
        /\ \A f \in Ends : inbox'[c][f] =
              IF f = "ru" /\ ~PeerGone(c, "sk")
              THEN Append(inbox[c][f], "reply") ELSE inbox[c][f]
    BY <1>0, ArriveIs, Peers
  <1>3. /\ sink'[c] = "count"
        /\ \A d \in Conns : d # c => sink'[d] = sink[d]
    BY <1>0 DEF SinkTypes
  <1>4. SinkTypes' /\ OneService'
    BY <1>0, <1>3, <1>a DEF SinkTypes, OneService
  <1>5. Answered(c)'
    BY <1>3 DEF Answered
  <1>6. OneShot(c)'
    <2>1. inbox[c]["ru"] \in Seq({"reply"})
      BY <1>a DEF OneShot
    <2>2. Append(inbox[c]["ru"], "reply") \in Seq({"reply"})
      BY <2>1, AppendTail
    <2> QED  BY <1>0, <1>2, <1>5, <1>a, <2>1, <2>2 DEF OneShot, Ends
  <1> QED  BY <1>0, <1>1, <1>2, <1>3, <1>4, <1>5, <1>6, <1>a, SinkTunnel

(* The sink closes: the one-shot sink when it has failed or answered, the  *)
(* echo sink only after the relay.                                         *)
LEMMA SinkCloseTraffic ==
  ASSUME Traffic, NEW c \in Conns,
         \/ SinkReadFails(c) \/ SinkWriteFails(c)
         \/ SinkCount(c) \/ EchoEnds(c),
         UNCHANGED <<relayVars, churnVars, tunnelVars>>
  PROVE  Traffic'
  <1>0. /\ SocketTypes /\ SinkTypes /\ OneService /\ misread = {}
        /\ UNCHANGED <<echo, misread, echoed>>
        /\ sink[c] \in {"read", "write", "count", "echo"}
        /\ sink' = [sink EXCEPT ![c] = "done"]
        /\ served' = IF sink[c] = "count" THEN served \cup {c} ELSE served
        /\ Close(c, {"sk"}, inbox) /\ inbox \in Boxes /\ {"sk"} \in SUBSET Ends
        /\ sock \in [Conns -> [Ends -> Places]]
        /\ relay' = relay /\ initial' = initial /\ copier' = copier
        /\ woff' = woff /\ roff' = roff
    BY DEF Traffic, Audits, SinkReadFails, SinkWriteFails, SinkCount, EchoEnds,
           At, relayVars, tunnelVars, Boxes, SocketTypes, Ends
  <1>1. SocketTypes'
    BY <1>0, CloseTypes DEF SocketTypes
  <1>2. /\ \A d \in Conns : d # c => sock'[d] = sock[d] /\ inbox'[d] = inbox[d]
        /\ \A e \in Ends : sock'[c][e] =
              IF e \in {"sk"} /\ sock[c][e] = "open" THEN "closed"
              ELSE sock[c][e]
        /\ \A e \in Ends : inbox'[c][e] \in {inbox[c][e], <<>>}
        /\ inbox'[c]["sk"] = <<>>
        /\ inbox'[c]["rc"] = inbox[c]["rc"] /\ inbox'[c]["cl"] = inbox[c]["cl"]
    BY <1>0, CloseIs, Peers DEF Ends
  <1>3. /\ sink'[c] = "done"
        /\ \A d \in Conns : d # c => sink'[d] = sink[d]
        /\ \A d \in Conns : d # c => (d \in served' <=> d \in served)
    BY <1>0 DEF SinkTypes
  <1>4. SinkTypes' /\ OneService'
    <2>1. sink' \in [Conns -> {"none", "read", "write", "count", "echo",
                               "tally", "done"}]
      BY <1>0 DEF SinkTypes
    <2>2. served' \cup misread' \subseteq Conns
      BY <1>0 DEF SinkTypes
    <2>3. SinkTypes'
      BY <1>0, <2>1, <2>2 DEF SinkTypes
    <2> QED  BY <1>0, <1>3, <2>3 DEF OneService
  <1>5. Answered(c)' <=> Answered(c)
    BY <1>0, <1>3 DEF Answered
  <1>6. ASSUME ~echo PROVE OneShot(c)'
    <2>1. OneShot(c)
      BY <1>6 DEF Traffic
    <2>2. /\ inbox'[c]["ru"] \in {inbox[c]["ru"], <<>>}
          /\ <<>> \in Seq({"request"}) /\ <<>> \in Seq({"reply"})
      BY <1>2 DEF Ends
    <2> QED  BY <1>0, <1>2, <1>5, <2>1, <2>2 DEF OneShot
  <1>7. ASSUME c \in Tunnels, echo PROVE InOrder(c)'
    <2>1. Linked(c) /\ Upward(c) /\ Downward(c)
      BY <1>7 DEF Traffic, InOrder
    <2>2. EchoEnds(c) /\ sink[c] = "echo"
      BY <1>7 DEF Traffic, OneService, SinkReadFails, SinkWriteFails,
                  SinkCount, EchoEnds, At
    <2>3. /\ sock[c]["sk"] = "open" /\ PeerGone(c, "sk")
      BY <2>1, <2>2 DEF EchoEnds, CopyOver, AtEnd, Linked
    <2>4. sock[c]["ru"] = "closed" /\ inbox[c]["ru"] = <<>>
      BY <2>1, <2>3, Peers DEF PeerGone, Linked, Ends
    <2>5. relay[c] = "done" /\ sock[c]["rc"] = "closed"
      <3>1. relay[c] \in {"none", "initial", "hook", "dialed", "copy", "done"}
        BY DEF Traffic, RelayTypes
      <3> QED  BY <2>1, <2>4, <3>1 DEF Linked
    <2>6. /\ sock'[c]["cl"] = sock[c]["cl"] /\ sock'[c]["sk"] = "closed"
          /\ sock'[c]["rc"] = "closed" /\ sock'[c]["ru"] = "closed"
          /\ inbox'[c]["ru"] = <<>>
      BY <1>2, <2>3, <2>4, <2>5 DEF Ends
    <2>7. \A e \in Ends : sock'[c][e] # "open" => inbox'[c][e] = <<>>
      BY <1>2, <2>1, <2>6 DEF Linked, Ends
    <2>8. Linked(c)'
      BY <1>0, <1>3, <2>1, <2>5, <2>6, <2>7 DEF Linked
    <2>9. Held(c)' = 0 /\ Echoes(c)' = Echoes(c)
      BY <1>0, <1>3, <2>2, <2>5 DEF Held, Echoes
    <2>10. Upward(c)'
      BY <1>2, <2>6, <2>9, NumberedEmpty DEF Upward
    <2>11. Downward(c)'
      BY <1>0, <1>2, <2>1, <2>6, <2>9 DEF Downward
    <2> QED  BY <2>8, <2>10, <2>11 DEF InOrder
  <1> QED  BY <1>0, <1>1, <1>2, <1>3, <1>4, <1>5, <1>6, <1>7, SinkTunnel

(* The echo sink returns a token, which counts from then on. *)
LEMMA EchoTraffic ==
  ASSUME Traffic, NEW c \in Conns, Echo(c),
         UNCHANGED <<relayVars, churnVars, tunnelVars>>
  PROVE  Traffic'
  <1> DEFINE q == inbox[c]["ru"]
             p == inbox[c]["sk"]
             tok == Head(p)
  <1>0. /\ SocketTypes /\ SinkTypes /\ OneService /\ misread = {}
        /\ UNCHANGED <<sock, echo, served, misread, echoed>>
        /\ sink[c] = "echo" /\ sink' = [sink EXCEPT ![c] = "tally"]
        /\ p # <<>> /\ HasRoom(c, "sk") /\ "sk" \in Ends /\ "sk" # Peer("sk")
        /\ inbox' = Arrive(Drop(inbox, c, "sk"), c, "sk", Head(inbox[c]["sk"]))
        /\ relay' = relay /\ initial' = initial /\ copier' = copier
        /\ woff' = woff /\ roff' = roff
    BY Peers DEF Traffic, Audits, Echo, Readable, At, relayVars, tunnelVars, Ends
  <1>1. SocketTypes' /\ p \in Seq(Tokens) /\ q \in Seq(Tokens)
    BY <1>0, MoveTypes DEF SocketTypes, Ends
  <1>2. /\ \A d \in Conns : d # c => inbox'[d] = inbox[d]
        /\ \A f \in Ends : inbox'[c][f] =
              IF f = "sk" THEN Tail(p)
              ELSE IF f = Peer("sk") /\ ~PeerGone(c, "sk")
                THEN Append(inbox[c][f], tok)
              ELSE inbox[c][f]
    BY <1>0, MoveTypes
  <1>a. /\ inbox'[c]["cl"] = inbox[c]["cl"] /\ inbox'[c]["sk"] = Tail(p)
        /\ inbox'[c]["rc"] = inbox[c]["rc"]
        /\ inbox'[c]["ru"] = IF sock[c]["ru"] # "closed" THEN Append(q, tok)
                             ELSE q
    BY <1>2, Peers DEF Ends, PeerGone
  <1>b. /\ Len(Tail(p)) = Len(p) - 1 /\ Len(p) \in Nat \ {0} /\ tok \in Tokens
        /\ Len(Append(q, tok)) = Len(q) + 1 /\ Len(q) \in Nat
    BY <1>0, <1>1, AppendTail
  <1>3. /\ echo /\ sink'[c] = "tally"
        /\ \A d \in Conns : d # c => sink'[d] = sink[d]
    BY <1>0 DEF OneService, SinkTypes
  <1>4. SinkTypes' /\ OneService'
    BY <1>0, <1>3 DEF SinkTypes, OneService
  <1>5. Answered(c)' <=> Answered(c)
    BY <1>0, <1>3 DEF Answered
  <1>6. ASSUME c \in Tunnels PROVE InOrder(c)'
    <2>1. Linked(c) /\ Upward(c) /\ Downward(c)
      BY <1>3, <1>6 DEF Traffic, InOrder
    <2>2. sock[c]["sk"] = "open" /\ sock[c]["ru"] # "none"
      BY <1>0, <2>1 DEF Linked
    <2>c. sock[c]["ru"] \in Places
      BY <1>0 DEF SocketTypes, Ends
    <2>3. inbox'[c]["ru"] = IF sock[c]["ru"] = "open" THEN Append(q, tok) ELSE q
      BY <1>a, <2>2, <2>c DEF Places
    <2>4. \A e \in Ends : sock'[c][e] # "open" => inbox'[c][e] = <<>>
      BY <1>0, <1>a, <2>1, <2>2, <2>3 DEF Linked, Ends
    <2>5. Linked(c)'
      BY <1>0, <1>3, <2>1, <2>2, <2>4 DEF Linked
    <2>6. PICK n \in Nat : n = Echoes(c)
      BY <1>6, Local
    <2>7. Held(c)' = Held(c) /\ Echoes(c)' = n + 1
      <3>1. n = echoed[c] + 0 /\ echoed[c] \in Nat
        BY <1>0, <2>6 DEF Echoes, SinkTypes
      <3> QED  BY <1>0, <1>3, <3>1 DEF Held, Echoes
    <2>8. PICK h \in Nat : h = Held(c)
      BY <1>6, Local
    <2>9. Numbered(p, n)
      BY <2>1, <2>6 DEF Upward
    <2>10. tok = n + 1 /\ Numbered(Tail(p), n + 1)
      BY <1>0, <1>1, <2>9, NumberedTail
    <2>11. PICK m \in Nat : m = Len(p) /\ m # 0
      BY <1>b
    <2>12. Len(Tail(p)) = m - 1 /\ n + 1 + (m - 1) = n + m
      <3>1. Len(Tail(p)) = m - 1
        BY <1>b, <2>11
      <3>2. n + 1 + (m - 1) = n + m
        OBVIOUS
      <3> QED  BY <3>1, <3>2
    <2>13. /\ h = 1 => initial[c] = <<n + m + 1>>
           /\ sock[c]["rc"] = "open" => Numbered(inbox[c]["rc"], n + m + h)
           /\ sock[c]["rc"] = "open" /\ sock[c]["cl"] = "open" =>
                woff[c] = n + m + h + Len(inbox[c]["rc"])
      BY <2>1, <2>6, <2>8, <2>11 DEF Upward
    <2>14. Upward(c)'
      <3> HIDE DEF p, q, tok
      <3>1. Numbered(inbox'[c]["sk"], Echoes(c)')
        BY <1>a, <2>7, <2>10
      <3>2. Echoes(c)' + Len(inbox'[c]["sk"]) = n + m /\ Held(c)' = h
        BY <1>a, <2>7, <2>8, <2>12
      <3>3. inbox'[c]["rc"] = inbox[c]["rc"] /\ initial' = initial
            /\ sock' = sock /\ woff' = woff
        BY <1>0, <1>a
      <3> QED  BY <2>13, <3>1, <3>2, <3>3 DEF Upward
    <2>15. Downward(c)'
      <3>1. PICK o \in Nat : o = roff[c] + Len(inbox[c]["cl"])
        BY <1>6, Local
      <3>2. /\ Numbered(inbox[c]["cl"], roff[c]) /\ o <= n
            /\ sock[c]["rc"] = "open" /\ sock[c]["cl"] = "open" =>
                 Numbered(q, o) /\ n = o + Len(q)
        BY <2>1, <2>6, <3>1 DEF Downward
      <3>3. o <= n + 1
        BY <3>2
      <3>4. ASSUME sock[c]["rc"] = "open", sock[c]["cl"] = "open"
            PROVE  /\ inbox'[c]["ru"] = Append(q, tok)
                   /\ Numbered(Append(q, tok), o)
                   /\ n + 1 = o + Len(Append(q, tok))
        <4>1. sock[c]["ru"] = "open"
          <5>1. relay[c] \in {"none", "initial", "hook", "dialed", "copy", "done"}
            BY DEF Traffic, RelayTypes
          <5> QED  BY <2>1, <2>2, <3>4, <5>1 DEF Linked
        <4>2. Numbered(q, o) /\ n = o + Len(q)
          BY <3>2, <3>4
        <4>3. PICK k \in Nat : k = Len(q)
          BY <1>b
        <4>4. tok = o + k + 1 /\ n + 1 = o + (k + 1)
          BY <2>10, <4>2, <4>3
        <4>5. Numbered(Append(q, tok), o)
          BY <1>1, <1>b, <4>2, <4>3, <4>4, NumberedAppend
        <4> QED  BY <1>b, <2>3, <4>1, <4>3, <4>4, <4>5
      <3> HIDE DEF p, q, tok
      <3> QED  BY <1>0, <1>a, <2>7, <3>1, <3>2, <3>3, <3>4 DEF Downward
    <2> QED  BY <2>5, <2>14, <2>15 DEF InOrder
  <1> QED  BY <1>0, <1>1, <1>2, <1>3, <1>4, <1>5, <1>6, SinkTunnel

(* countingWriter counts what was echoed. *)
LEMMA EchoCountTraffic ==
  ASSUME Traffic, NEW c \in Conns, EchoCount(c),
         UNCHANGED <<relayVars, churnVars, tunnelVars>>
  PROVE  Traffic'
  <1>0. /\ SocketTypes /\ SinkTypes /\ OneService /\ misread = {}
        /\ UNCHANGED <<sock, inbox, echo, served, misread>>
        /\ sink[c] = "tally" /\ sink' = [sink EXCEPT ![c] = "echo"]
        /\ echoed' = [echoed EXCEPT ![c] = @ + 1]
        /\ relay' = relay /\ copier' = copier /\ initial' = initial
        /\ woff' = woff /\ roff' = roff
    BY DEF Traffic, Audits, EchoCount, At, sockVars, relayVars, tunnelVars
  <1>1. /\ SocketTypes' /\ sink'[c] = "echo" /\ echo
        /\ echoed'[c] = echoed[c] + 1 /\ echoed[c] \in Nat
        /\ \A d \in Conns : d # c => sink'[d] = sink[d] /\ echoed'[d] = echoed[d]
    BY <1>0 DEF SocketTypes, SinkTypes, OneService
  <1>2. SinkTypes' /\ OneService'
    BY <1>0, <1>1 DEF SinkTypes, OneService
  <1>3. Answered(c)' <=> Answered(c)
    BY <1>0, <1>1 DEF Answered
  <1>4. ASSUME c \in Tunnels PROVE InOrder(c)'
    <2>1. Linked(c) /\ Upward(c) /\ Downward(c)
      BY <1>1, <1>4 DEF Traffic, InOrder
    <2>2. Held(c)' = Held(c) /\ Echoes(c)' = Echoes(c)
      BY <1>0, <1>1 DEF Held, Echoes
    <2>3. Linked(c)'
      BY <1>0, <1>1, <2>1 DEF Linked
    <2>4. Upward(c)'
      BY <1>0, <2>1, <2>2 DEF Upward
    <2>5. Downward(c)'
      BY <1>0, <2>1, <2>2 DEF Downward
    <2> QED  BY <2>3, <2>4, <2>5 DEF InOrder
  <1> QED  BY <1>0, <1>1, <1>2, <1>3, <1>4, SinkTunnel

(* All steps of the sink. *)
LEMMA SinkTraffic ==
  ASSUME Traffic, NEW c \in Conns, SinkStep(c),
         UNCHANGED <<relayVars, churnVars, tunnelVars>>
  PROVE  Traffic'
  BY SinkAcceptTraffic, SinkReadTraffic, SinkWriteTraffic, SinkCloseTraffic,
     EchoTraffic, EchoCountTraffic DEF SinkStep

-----------------------------------------------------------------------------
(* The storm, which runs against the one-shot sink.                        *)

(* What is left to show of a step of the storm or its daemon. *)
LEMMA StormTunnel ==
  ASSUME Traffic, ~echo, UNCHANGED <<relayVars, sinkVars, tunnelVars>>,
         SocketTypes', Audits', \A d \in Conns : OneShot(d)'
  PROVE  Traffic'
  <1> USE DEF relayVars, sinkVars, tunnelVars
  <1>1. RelayTypes' /\ SinkTypes' /\ TunnelTypes' /\ OneService' /\ echo' = echo
    BY DEF Traffic, RelayTypes, SinkTypes, TunnelTypes, OneService
  <1>2. \A c \in Tunnels : roff'[c] <= Echoes(c)'
    BY DEF Traffic, Echoes
  <1> QED  BY <1>1, <1>2 DEF Traffic

(* When the audits still hold: who is newly completed or verified was      *)
(* answered.                                                               *)
LEMMA AuditsStorm ==
  ASSUME Traffic, UNCHANGED <<sinkVars, tunnelVars>>,
         \A c \in Conns :
           /\ attempt'[c].as # "auditFail"
           /\ attempt'[c].as = "completed" =>
                attempt[c].as = "completed" \/ Answered(c),
         \A r \in Runs, w \in Workers : worker'[r][w] = "verified" =>
           \/ worker[r][w] = "verified" /\ cur'[r][w] = cur[r][w]
           \/ cur'[r][w] \in Conns /\ Answered(cur'[r][w])
  PROVE  Audits'
  <1>1. misread' = {} /\ mismatch' = {} /\ served' = served /\ sink' = sink
    BY DEF Traffic, Audits, sinkVars, tunnelVars
  <1>2. ASSUME NEW c \in Conns, attempt'[c].as = "completed"
        PROVE  Answered(c)'
    <2>1. Answered(c)
      BY <1>2 DEF Traffic, Audits
    <2> QED  BY <1>1, <2>1 DEF Answered
  <1>3. ASSUME NEW r \in Runs, NEW w \in Workers, worker'[r][w] = "verified"
        PROVE  cur'[r][w] \in Conns /\ Answered(cur[r][w])'
    <2>1. cur'[r][w] \in Conns /\ Answered(cur'[r][w])
      BY <1>3 DEF Traffic, Audits
    <2> QED  BY <1>1, <2>1 DEF Answered
  <1> QED  BY <1>1, <1>2, <1>3 DEF Audits

(* A count of an attempt that is not completed. *)
LEMMA TallyKeeps ==
  ASSUME Control, Traffic, NEW c \in Conns, NEW bucket, Tally(c, bucket)
  PROVE  /\ attempt'[c].as = bucket
         /\ \A d \in Conns : d # c => attempt'[d] = attempt[d]
         /\ \A d \in Conns : attempt[d].as # "auditFail"
  BY DEF Control, ChurnTypes, Tally, Traffic, Audits

(* What a worker knows of its connection. *)
LEMMA WorkersConn ==
  ASSUME Control, NEW r \in Runs, NEW w \in Workers, Active(r, w)
  PROVE  cur[r][w] \in Conns
  BY DEF Control, Holds

(* What a step of a worker does to its place. *)
LEMMA StepIs ==
  ASSUME Control, NEW r \in Runs, NEW w \in Workers, NEW from, NEW to,
         Step(r, w, from, to)
  PROVE  /\ worker[r][w] = from
         /\ \A q \in Runs, v \in Workers :
              worker'[q][v] = IF q = r /\ v = w THEN to ELSE worker[q][v]
  BY DEF Control, ChurnTypes, Step

(* The client of a one-shot connection closes. *)
LEMMA ClientCloses ==
  ASSUME Traffic, ~echo, NEW c \in Conns, NEW in \in Boxes,
         in = inbox \/ (in = Drop(inbox, c, "cl") /\ inbox[c]["cl"] # <<>>),
         Close(c, {"cl"}, in), UNCHANGED <<relayVars, sinkVars>>
  PROVE  SocketTypes' /\ \A d \in Conns : OneShot(d)'
  <1>0. /\ SocketTypes /\ \A d \in Conns : OneShot(d)
        /\ sock \in [Conns -> [Ends -> Places]] /\ {"cl"} \in SUBSET Ends
        /\ "cl" \in Ends /\ inbox \in Boxes
        /\ relay' = relay /\ initial' = initial
        /\ sink' = sink /\ served' = served
    BY DEF Traffic, SocketTypes, Boxes, Ends, relayVars, sinkVars
  <1>1. /\ \A d \in Conns, f \in Ends : Len(in[d][f]) <= SockCap
        /\ \A d \in Conns : d # c => in[d] = inbox[d]
        /\ \A f \in Ends : f # "cl" => in[c][f] = inbox[c][f]
    <2>1. CASE in = inbox
      BY <1>0, <2>1 DEF SocketTypes
    <2>2. CASE in = Drop(inbox, c, "cl") /\ inbox[c]["cl"] # <<>>
      BY <1>0, <2>2, DropIs, DropTypes
    <2> QED  BY <2>1, <2>2
  <1>2. SocketTypes'
    BY <1>0, <1>1, CloseTypes
  <1>3. /\ \A d \in Conns : d # c => inbox'[d] = in[d]
        /\ \A e \in Ends : inbox'[c][e] \in {in[c][e], <<>>}
        /\ inbox'[c]["cl"] = <<>>
    BY <1>0, CloseIs
  <1>4. ASSUME NEW d \in Conns PROVE OneShot(d)'
    <2>1. OneShot(d) /\ (Answered(d)' <=> Answered(d))
      BY <1>0 DEF Answered
    <2>2. CASE d = c
      <3>1. /\ inbox'[c]["rc"] \in {inbox[c]["rc"], <<>>}
            /\ inbox'[c]["ru"] \in {inbox[c]["ru"], <<>>}
            /\ inbox'[c]["sk"] \in {inbox[c]["sk"], <<>>}
            /\ <<>> \in Seq({"request"}) /\ <<>> \in Seq({"reply"})
        BY <1>1, <1>3 DEF Ends
      <3> QED  BY <1>0, <1>3, <2>1, <2>2, <3>1 DEF OneShot
    <2>3. CASE d # c
      BY <1>0, <1>1, <1>3, <2>1, <2>3 DEF OneShot
    <2> QED  BY <2>2, <2>3
  <1> QED  BY <1>2, <1>4

(* Nothing moves on the sockets. *)
LEMMA QuietSockets ==
  ASSUME Traffic, ~echo, UNCHANGED <<sockVars, relayVars, sinkVars>>
  PROVE  SocketTypes' /\ \A d \in Conns : OneShot(d)'
  <1> USE DEF sockVars, relayVars, sinkVars
  <1>1. SocketTypes'
    BY DEF Traffic, SocketTypes
  <1>2. ASSUME NEW d \in Conns PROVE OneShot(d)'
    BY DEF Traffic, OneShot, Answered
  <1> QED  BY <1>1, <1>2

(* A worker gives its attempt up, or counts it as junk. *)
LEMMA GiveUpTraffic ==
  ASSUME Control, Traffic, ~echo, NEW r \in Runs, NEW w \in Workers,
         NEW from \in {"dial", "junk", "dialed", "reading"},
         NEW bucket \in {"errors", "junk", "warmup"},
         Step(r, w, from, "top"), UNCHANGED cur,
         UNCHANGED <<relayVars, sinkVars, tunnelVars>>,
         \/ Finish(cur[r][w], bucket)
         \/ Tally(cur[r][w], bucket) /\ UNCHANGED sockVars
  PROVE  Traffic'
  <1>1. PICK c \in Conns : c = cur[r][w]
    BY WorkersConn, StepIs DEF Active
  <1>2. Tally(c, bucket)
    BY <1>1 DEF Finish
  <1>3. SocketTypes' /\ \A d \in Conns : OneShot(d)'
    <2>1. CASE Finish(c, bucket)
      <3>1. inbox \in Boxes
        BY DEF Traffic, SocketTypes, Boxes
      <3> QED  BY <2>1, <3>1, ClientCloses DEF Finish
    <2>2. CASE UNCHANGED sockVars
      BY <2>2, QuietSockets
    <2> QED  BY <1>1, <2>1, <2>2
  <1>4. /\ attempt'[c].as = bucket
        /\ \A d \in Conns : d # c => attempt'[d] = attempt[d]
        /\ \A d \in Conns : attempt[d].as # "auditFail"
    BY <1>2, TallyKeeps
  <1>5. \A q \in Runs, v \in Workers :
          worker'[q][v] = IF q = r /\ v = w THEN "top" ELSE worker[q][v]
    BY StepIs
  <1>6. Audits'
    BY <1>4, <1>5, AuditsStorm
  <1> QED  BY <1>3, <1>6, StormTunnel

(* A worker dials, and sends its request. *)
LEMMA RequestTraffic ==
  ASSUME Control, Traffic, ~echo, NEW r \in Runs, NEW w \in Workers,
         WorkerDials(r, w) \/ WriteRequest(r, w),
         UNCHANGED <<relayVars, sinkVars, tunnelVars>>
  PROVE  Traffic'
  <1>0. /\ SocketTypes /\ \A d \in Conns : OneShot(d)
        /\ sock \in [Conns -> [Ends -> Places]]
        /\ "cl" \in Ends /\ inbox \in Boxes /\ "request" \in Tokens
        /\ relay' = relay /\ initial' = initial
        /\ sink' = sink /\ served' = served
        /\ UNCHANGED <<cur, attempt>>
    BY DEF Traffic, SocketTypes, Boxes, Ends, Tokens, relayVars, sinkVars,
           WorkerDials, WriteRequest
  <1>1. PICK from \in {"dial", "dialed"}, to \in {"dialed", "junk", "reading"} :
          Step(r, w, from, to)
    BY DEF WorkerDials, WriteRequest
  <1>2. PICK c \in Conns : c = cur[r][w]
    BY <1>1, WorkersConn, StepIs DEF Active
  <1>3. \A q \in Runs, v \in Workers :
          worker'[q][v] = IF q = r /\ v = w THEN to ELSE worker[q][v]
    BY <1>1, StepIs
  <1>4. Audits'
    <2>1. \A d \in Conns : attempt[d].as # "auditFail"
      BY DEF Traffic, Audits
    <2> QED  BY <1>0, <1>3, <2>1, AuditsStorm
  <1>5. CASE WorkerDials(r, w)
    <2>1. Connect(c, "cl") /\ inbox' = inbox
      BY <1>2, <1>5 DEF WorkerDials
    <2>2. SocketTypes'
      BY <1>0, <2>1, ConnectTypes
    <2>3. ASSUME NEW d \in Conns PROVE OneShot(d)'
      BY <1>0, <2>1 DEF OneShot, Answered
    <2> QED  BY <1>4, <2>2, <2>3, StormTunnel
  <1>6. CASE WriteRequest(r, w)
    <2>1. /\ Write(c, "cl", "request") /\ sock' = sock
          /\ inbox' = Arrive(inbox, c, "cl", "request")
      BY <1>2, <1>6 DEF WriteRequest, Write
    <2>2. SocketTypes'
      BY <1>0, <2>1, WriteTypes
    <2>3. /\ \A d \in Conns : d # c => inbox'[d] = inbox[d]
          /\ \A f \in Ends : inbox'[c][f] =
                IF f = "rc" /\ ~PeerGone(c, "cl")
                THEN Append(inbox[c][f], "request") ELSE inbox[c][f]
      BY <1>0, <2>1, ArriveIs, Peers
    <2>4. ASSUME NEW d \in Conns PROVE OneShot(d)'
      <3>1. OneShot(d) /\ (Answered(d)' <=> Answered(d))
        BY <1>0 DEF Answered
      <3>2. CASE d = c
        <4>1. inbox[c]["rc"] \in Seq({"request"})
          BY <3>1, <3>2 DEF OneShot
        <4>2. Append(inbox[c]["rc"], "request") \in Seq({"request"})
          BY <4>1, AppendTail
        <4> QED  BY <1>0, <2>3, <3>1, <3>2, <4>1, <4>2 DEF OneShot, Ends
      <3>3. CASE d # c
        BY <1>0, <2>3, <3>1, <3>3 DEF OneShot
      <3> QED  BY <3>2, <3>3
    <2> QED  BY <1>4, <2>2, <2>4, StormTunnel
  <1> QED  BY <1>5, <1>6

(* What a worker reads is a reply of the sink. *)
LEMMA ReadReplyTraffic ==
  ASSUME Control, Traffic, ~echo, NEW r \in Runs, NEW w \in Workers,
         ReadReply(r, w), UNCHANGED <<relayVars, sinkVars, tunnelVars>>
  PROVE  Traffic'
  <1>0. worker[r][w] = "reading" /\ inbox \in Boxes /\ "cl" \in Ends
    BY DEF ReadReply, Traffic, SocketTypes, Boxes, Ends
  <1>1. PICK c \in Conns : c = cur[r][w]
    BY <1>0, WorkersConn DEF Active
  <1>2. /\ inbox[c]["cl"] # <<>> /\ Close(c, {"cl"}, Drop(inbox, c, "cl"))
        /\ UNCHANGED cur
    BY <1>1 DEF ReadReply, Readable
  <1>3. PICK in \in Boxes : in = Drop(inbox, c, "cl")
    BY <1>0, <1>2, DropIs
  <1>4. SocketTypes' /\ \A d \in Conns : OneShot(d)'
    BY <1>2, <1>3, ClientCloses
  <1>5. Answered(c) /\ inbox[c]["cl"] \in Seq({"reply"})
    BY <1>2 DEF Traffic, OneShot
  <1>6. Head(inbox[c]["cl"]) = "reply"
    BY <1>2, <1>5, AppendTail
  <1>7. Step(r, w, "reading", "verified") /\ UNCHANGED attempt
    BY <1>1, <1>6 DEF ReadReply
  <1>8. \A q \in Runs, v \in Workers :
          worker'[q][v] = IF q = r /\ v = w THEN "verified" ELSE worker[q][v]
    BY <1>7, StepIs
  <1>9. \A d \in Conns : attempt[d].as # "auditFail"
    BY DEF Traffic, Audits
  <1>10. Audits'
    BY <1>1, <1>2, <1>5, <1>7, <1>8, <1>9, AuditsStorm
  <1> QED  BY <1>4, <1>10, StormTunnel

(* Steps that leave the sockets alone: the look at stop, the count, the    *)
(* sample.                                                                 *)
LEMMA CountTraffic ==
  ASSUME Control, Traffic, ~echo, NEW r \in Runs, NEW w \in Workers,
         \/ WorkerStops(r, w) \/ WorkerGoesOn(r, w)
         \/ Count(r, w) \/ Sample(r, w),
         UNCHANGED <<relayVars, sinkVars, tunnelVars>>
  PROVE  Traffic'
  <1>1. UNCHANGED sockVars
    BY DEF WorkerStops, WorkerGoesOn, Count, Sample
  <1>2. SocketTypes' /\ \A d \in Conns : OneShot(d)'
    BY <1>1, QuietSockets
  <1>3. \A d \in Conns : attempt[d].as # "auditFail"
    BY DEF Traffic, Audits
  <1>4. CASE WorkerStops(r, w) \/ Sample(r, w)
    <2>1. PICK from \in {"top", "counted"}, to \in {"off", "top"} :
            Step(r, w, from, to) /\ UNCHANGED <<cur, attempt>>
      BY <1>4 DEF WorkerStops, Sample
    <2>2. \A q \in Runs, v \in Workers :
            worker'[q][v] = IF q = r /\ v = w THEN to ELSE worker[q][v]
      BY <2>1, StepIs
    <2>3. Audits'
      BY <1>3, <2>1, <2>2, AuditsStorm
    <2> QED  BY <1>2, <2>3, StormTunnel
  <1>5. CASE WorkerGoesOn(r, w)
    <2>1. PICK c : /\ cur' = [cur EXCEPT ![r][w] = c]
                   /\ attempt' = [attempt EXCEPT ![c].run = r]
      BY <1>5 DEF WorkerGoesOn
    <2>2. \A q \in Runs, v \in Workers :
            worker'[q][v] = IF q = r /\ v = w THEN "dial" ELSE worker[q][v]
      BY <1>5, StepIs DEF WorkerGoesOn
    <2>3. \A q \in Runs, v \in Workers :
            ~(q = r /\ v = w) => cur'[q][v] = cur[q][v]
      BY <2>1 DEF Control, ChurnTypes
    <2>4. \A d \in Conns : attempt'[d].as = attempt[d].as
      BY <2>1 DEF Control, ChurnTypes
    <2>5. \A q \in Runs, v \in Workers :
            worker'[q][v] = "verified" => /\ worker[q][v] = "verified"
                                          /\ cur'[q][v] = cur[q][v]
      BY <2>2, <2>3
    <2>6. Audits'
      BY <1>3, <2>4, <2>5, AuditsStorm
    <2> QED  BY <1>2, <2>6, StormTunnel
  <1>6. CASE Count(r, w)
    <2>1. PICK bucket \in {"completed", "warmup"}, to \in {"counted", "top"} :
            Tally(cur[r][w], bucket) /\ Step(r, w, "verified", to)
      BY <1>6 DEF Count
    <2>2. /\ worker[r][w] = "verified" /\ UNCHANGED cur
          /\ \A q \in Runs, v \in Workers :
               worker'[q][v] = IF q = r /\ v = w THEN to ELSE worker[q][v]
      BY <1>6, <2>1, StepIs DEF Count
    <2>3. PICK c \in Conns : c = cur[r][w] /\ Answered(c)
      BY <2>2 DEF Traffic, Audits
    <2>4. /\ attempt'[c].as = bucket
          /\ \A d \in Conns : d # c => attempt'[d] = attempt[d]
      BY <2>1, <2>3, TallyKeeps
    <2>5. Audits'
      BY <1>3, <2>2, <2>3, <2>4, AuditsStorm
    <2> QED  BY <1>2, <2>5, StormTunnel
  <1> QED  BY <1>4, <1>5, <1>6

(* All steps of the storm and of its daemon. *)
LEMMA StormTraffic ==
  ASSUME Control, Traffic, ~echo, ChurnStep,
         UNCHANGED <<relayVars, sinkVars, tunnelVars>>
  PROVE  Traffic'
  <1>1. ASSUME NEW r \in Runs,
               Conflict(r) \/ TryLock(r) \/ RunStep(r) \/ Timer(r)
        PROVE  Traffic'
    <2>1. UNCHANGED <<sockVars, cur, attempt>>
      BY <1>1 DEF Conflict, TryLock, RunStep, Timer, BadRequest, StartStorm,
                  BadTarget, Cancelled, WaitReturns, Deferred, stormVars
    <2>2. worker' = worker
          \/ worker' = [worker EXCEPT ![r] = [w \in Workers |-> "top"]]
      BY <1>1 DEF Conflict, TryLock, RunStep, Timer, BadRequest, StartStorm,
                  BadTarget, Cancelled, WaitReturns, Deferred, stormVars
    <2>3. ASSUME NEW q \in Runs, NEW v \in Workers,
                 worker'[q][v] = "verified"
          PROVE  worker[q][v] = "verified"
      <3>1. \/ worker'[q] = worker[q]
            \/ worker'[q] = [x \in Workers |-> "top"]
        BY <2>2 DEF Control, ChurnTypes
      <3> QED  BY <2>3, <3>1
    <2>4. \A d \in Conns : attempt[d].as # "auditFail"
      BY DEF Traffic, Audits
    <2>5. Audits'
      BY <2>1, <2>3, <2>4, AuditsStorm
    <2> QED  BY <2>1, <2>5, QuietSockets, StormTunnel
  <1>2. ASSUME NEW s \in Stops, StopStep(s) PROVE Traffic'
    <2>1. UNCHANGED <<sockVars, cur, attempt, worker>>
      BY <1>2 DEF StopStep, TakeCancel, CloseCancel, stormVars
    <2>2. \A d \in Conns : attempt[d].as # "auditFail"
      BY DEF Traffic, Audits
    <2>3. Audits'
      BY <2>1, <2>2, AuditsStorm
    <2> QED  BY <2>1, <2>3, QuietSockets, StormTunnel
  <1>3. ASSUME NEW r \in Runs, NEW w \in Workers, WorkerStep(r, w)
        PROVE  Traffic'
    <2>1. CASE WorkerDialFails(r, w)
      BY <2>1, GiveUpTraffic DEF WorkerDialFails
    <2>2. CASE Junk(r, w)
      <3>1. PICK b \in {"junk", "warmup"} : Finish(cur[r][w], b)
        BY <2>2 DEF Junk
      <3> QED  BY <2>2, <3>1, GiveUpTraffic DEF Junk
    <2>3. CASE WriteRequestFails(r, w)
      BY <2>3, GiveUpTraffic DEF WriteRequestFails
    <2>4. CASE ReadReplyFails(r, w)
      BY <2>4, GiveUpTraffic DEF ReadReplyFails
    <2> QED
      BY <1>3, <2>1, <2>2, <2>3, <2>4, RequestTraffic, ReadReplyTraffic,
         CountTraffic DEF WorkerStep
  <1> QED  BY <1>1, <1>2, <1>3 DEF ChurnStep

-----------------------------------------------------------------------------
(* The tunnels, which run against the echo sink.                           *)

(* What is left to show of a step of the client of tunnel c. *)
LEMMA TunnelTunnel ==
  ASSUME Traffic, echo, NEW c \in Tunnels,
         UNCHANGED <<relayVars, sinkVars, churnVars>>,
         \A d \in Conns : d # c =>
           /\ sock'[d] = sock[d] /\ inbox'[d] = inbox[d]
           /\ d \in Tunnels => woff'[d] = woff[d] /\ roff'[d] = roff[d],
         SocketTypes', TunnelTypes', mismatch' = {}, InOrder(c)'
  PROVE  Traffic'
  <1> USE DEF relayVars, sinkVars, churnVars, daemonVars, stormVars
  <1>1. RelayTypes' /\ SinkTypes' /\ OneService' /\ echo' = echo /\ c \in Conns
    BY TunnelAssumption DEF Traffic, RelayTypes, SinkTypes, OneService
  <1>2. Audits'
    BY DEF Traffic, Audits, Answered
  <1>3. \A d \in Conns : d # c => Kept(d)
    BY DEF Kept
  <1> QED  BY <1>1, <1>2, <1>3, OneTunnel

(* What the steps below begin with. *)
LEMMA TunnelLocal ==
  ASSUME Traffic, echo, NEW c \in Tunnels
  PROVE  /\ Linked(c) /\ Upward(c) /\ Downward(c)
         /\ SocketTypes /\ TunnelTypes /\ mismatch = {} /\ c \in Conns
         /\ inbox \in Boxes /\ sock \in [Conns -> [Ends -> Places]]
         /\ Ends = {"cl", "rc", "ru", "sk"}
  BY TunnelAssumption
  DEF Traffic, InOrder, Audits, SocketTypes, Boxes, Ends

(* Steps of the goroutines that move no token. *)
LEMMA TunnelQuiet ==
  ASSUME Traffic, echo, UNCHANGED <<relayVars, sinkVars, churnVars>>,
         UNCHANGED <<sockVars, woff, roff, mismatch>>, over' \in BOOLEAN
  PROVE  Traffic'
  <1> USE DEF relayVars, sinkVars, churnVars, daemonVars, stormVars, sockVars
  <1>1. SocketTypes' /\ RelayTypes' /\ SinkTypes' /\ TunnelTypes'
        /\ OneService' /\ echo' = echo
    BY DEF Traffic, SocketTypes, RelayTypes, SinkTypes, TunnelTypes, OneService
  <1>2. Audits'
    BY DEF Traffic, Audits, Answered
  <1>3. \A d \in Conns : Kept(d)
    BY DEF Kept
  <1>4. \A c \in Tunnels : InOrder(c)' /\ roff'[c] <= Echoes(c)'
    BY <1>3, KeptHolds, TunnelAssumption DEF Traffic
  <1> QED  BY <1>1, <1>2, <1>4 DEF Traffic

(* The client dials. *)
LEMMA OpenTraffic ==
  ASSUME Traffic, echo, NEW c \in Tunnels, NEW p, NEW w, NEW r,
         Open(c, p, w, r), UNCHANGED <<relayVars, sinkVars, churnVars>>
  PROVE  Traffic'
  <1>0. /\ Linked(c) /\ Upward(c) /\ Downward(c)
        /\ SocketTypes /\ TunnelTypes /\ mismatch = {} /\ c \in Conns
        /\ sock \in [Conns -> [Ends -> Places]]
        /\ Ends = {"cl", "rc", "ru", "sk"}
    BY TunnelLocal
  <1>1. /\ sock[c]["cl"] = "none" /\ Connect(c, "cl")
        /\ UNCHANGED <<inbox, woff, roff, mismatch, over>>
        /\ relay' = relay /\ copier' = copier /\ initial' = initial
        /\ sink' = sink /\ echoed' = echoed
    BY DEF Open, relayVars, sinkVars
  <1>2. /\ \A d \in Conns : d # c => sock'[d] = sock[d]
        /\ sock'[c]["cl"] = "open" /\ sock'[c]["rc"] = "open"
        /\ sock'[c]["ru"] = sock[c]["ru"] /\ sock'[c]["sk"] = sock[c]["sk"]
    BY <1>0, <1>1, ConnectIs, Peers
  <1>3. SocketTypes' /\ TunnelTypes'
    BY <1>0, <1>1, ConnectTypes DEF TunnelTypes
  <1>4. /\ sock[c]["rc"] = "none" /\ relay[c] = "none" /\ sock[c]["ru"] = "none"
        /\ sock[c]["sk"] = "none" /\ sink[c] = "none" /\ echoed[c] = 0
        /\ woff[c] = 0 /\ roff[c] = 0
        /\ \A e \in Ends : inbox[c][e] = <<>>
    BY <1>0, <1>1 DEF Linked
  <1>5. Linked(c)'
    BY <1>0, <1>1, <1>2, <1>4 DEF Linked
  <1>6. /\ Echoes(c)' = 0 /\ Held(c)' = 0 /\ Len(<<>>) = 0 /\ 0 + 0 = 0
        /\ \A e \in Ends : inbox'[c][e] = <<>>
        /\ woff'[c] = 0 /\ roff'[c] = 0
    BY <1>1, <1>4 DEF Echoes, Held
  <1>7. Upward(c)' /\ Downward(c)'
    <2>1. /\ inbox'[c]["cl"] = <<>> /\ inbox'[c]["rc"] = <<>>
          /\ inbox'[c]["ru"] = <<>> /\ inbox'[c]["sk"] = <<>>
      BY <1>0, <1>6
    <2>2. 0 + 0 + 0 = 0 /\ 0 + 0 + 0 + 0 = 0 /\ 0 <= 0 /\ 0 # 1
      OBVIOUS
    <2>3. Upward(c)'
      BY <1>6, <2>1, <2>2, NumberedEmpty DEF Upward
    <2>4. Downward(c)'
      BY <1>6, <2>1, <2>2, NumberedEmpty DEF Downward
    <2> QED  BY <2>3, <2>4
  <1> QED  BY <1>0, <1>1, <1>2, <1>3, <1>5, <1>7, TunnelTunnel DEF InOrder

(* The client sends the next chunk. *)
LEMMA SendTraffic ==
  ASSUME Traffic, echo, NEW c \in Tunnels, NEW from, NEW to,
         SendChunk(c, from, to), UNCHANGED <<relayVars, sinkVars, churnVars>>
  PROVE  Traffic'
  <1> DEFINE q == inbox[c]["rc"]
  <1>0. /\ Linked(c) /\ Upward(c) /\ Downward(c)
        /\ SocketTypes /\ TunnelTypes /\ mismatch = {} /\ c \in Conns
        /\ inbox \in Boxes /\ Ends = {"cl", "rc", "ru", "sk"}
    BY TunnelLocal
  <1>1. /\ sock[c]["cl"] = "open" /\ woff[c] < MaxChunks
        /\ Write(c, "cl", woff[c] + 1) /\ woff' = [woff EXCEPT ![c] = @ + 1]
        /\ UNCHANGED <<sock, roff, mismatch, over>>
        /\ relay' = relay /\ copier' = copier /\ initial' = initial
        /\ sink' = sink /\ echoed' = echoed
    BY DEF SendChunk, relayVars, sinkVars
  <1>a. PICK n \in Nat : n = woff[c] /\ n < MaxChunks
    BY <1>0, <1>1, TunnelAssumption DEF TunnelTypes
  <1>b. PICK tok \in Tokens : tok = n + 1
    <2>1. n + 1 \in Nat
      OBVIOUS
    <2>2. n + 1 \in Tokens
      BY <2>1 DEF Tokens
    <2> QED  BY <2>2
  <1>c. Write(c, "cl", tok) /\ inbox' = Arrive(inbox, c, "cl", tok)
    BY <1>1, <1>a, <1>b DEF Write
  <1>2. /\ \A d \in Conns : d # c => inbox'[d] = inbox[d]
        /\ \A f \in Ends : inbox'[c][f] =
              IF f = "rc" /\ ~PeerGone(c, "cl")
              THEN Append(inbox[c][f], tok) ELSE inbox[c][f]
    <2>1. "cl" \in Ends /\ Peer("cl") = "rc" /\ inbox \in Boxes /\ c \in Conns
      BY <1>0, Peers
    <2> QED  BY <1>c, <2>1, ArriveIs
  <1>d. SocketTypes'
    BY <1>0, <1>1, <1>c, WriteTypes
  <1>3. TunnelTypes' /\ woff'[c] = n + 1
        /\ \A d \in Tunnels : d # c => woff'[d] = woff[d]
    <2>1. n + 1 \in 0..MaxChunks
      BY <1>a, TunnelAssumption
    <2> QED  BY <1>0, <1>1, <1>a, <2>1 DEF TunnelTypes
  <1>e. sock[c]["rc"] \in {"open", "closed"}
    BY <1>0, <1>1 DEF SocketTypes, Linked, Places
  <1>4. /\ inbox'[c]["cl"] = inbox[c]["cl"] /\ inbox'[c]["ru"] = inbox[c]["ru"]
        /\ inbox'[c]["sk"] = inbox[c]["sk"]
        /\ inbox'[c]["rc"] = IF sock[c]["rc"] = "open" THEN Append(q, tok) ELSE q
    BY <1>0, <1>2, <1>e, Peers DEF PeerGone
  <1>f. \A e \in Ends : sock'[c][e] # "open" => inbox'[c][e] = <<>>
    BY <1>0, <1>1, <1>4 DEF Linked
  <1>5. Linked(c)'
    BY <1>0, <1>1, <1>f DEF Linked
  <1>6. Echoes(c)' = Echoes(c) /\ Held(c)' = Held(c)
    BY <1>1 DEF Echoes, Held
  <1>7. Downward(c)'
    BY <1>0, <1>1, <1>4, <1>6 DEF Downward
  <1>8. PICK m \in Nat : m = Echoes(c) + Len(inbox[c]["sk"]) + Held(c)
    <2>1. /\ Echoes(c) \in Nat /\ Held(c) \in {0, 1}
          /\ Len(inbox[c]["sk"]) \in Nat
      BY <1>0, Local
    <2> QED  BY <2>1
  <1>9. q \in Seq(Tokens) /\ Len(q) \in Nat
    BY <1>0, Local
  <1>10. ASSUME sock[c]["rc"] = "open"
         PROVE  /\ Numbered(Append(q, tok), m)
                /\ n + 1 = m + Len(Append(q, tok))
    <2>1. Numbered(q, m) /\ n = m + Len(q)
      BY <1>0, <1>1, <1>10, <1>8, <1>a DEF Upward
    <2>2. PICK k \in Nat : k = Len(q)
      BY <1>9
    <2>3. tok = m + k + 1 /\ n + 1 = m + (k + 1)
      BY <1>b, <2>1, <2>2
    <2>4. Len(Append(q, tok)) = k + 1
      BY <1>9, <2>2, AppendTail
    <2>5. Numbered(Append(q, tok), m)
      BY <1>9, <2>1, <2>2, <2>3, NumberedAppend
    <2> QED  BY <2>3, <2>4, <2>5
  <1> HIDE DEF q
  <1>11. Upward(c)'
    BY <1>0, <1>1, <1>3, <1>4, <1>6, <1>8, <1>10 DEF Upward
  <1> QED  BY <1>1, <1>0, <1>2, <1>3, <1>5, <1>7, <1>11, <1>d, TunnelTunnel
           DEF InOrder

(* The client reads the next chunk, and it is the next one. *)
LEMMA ReadTraffic ==
  ASSUME Traffic, echo, NEW c \in Tunnels, Readable(c, "cl"),
         inbox' = Drop(inbox, c, "cl"), roff' = [roff EXCEPT ![c] = @ + 1],
         UNCHANGED <<sock, woff, mismatch, over>>,
         UNCHANGED <<relayVars, sinkVars, churnVars>>
  PROVE  Traffic'
  <1> DEFINE q == inbox[c]["cl"]
  <1>0. /\ Linked(c) /\ Upward(c) /\ Downward(c)
        /\ SocketTypes /\ TunnelTypes /\ mismatch = {} /\ c \in Conns
        /\ inbox \in Boxes /\ Ends = {"cl", "rc", "ru", "sk"}
    BY TunnelLocal
  <1>1. /\ q # <<>> /\ sock[c]["cl"] = "open" /\ "cl" \in Ends
        /\ relay' = relay /\ copier' = copier /\ initial' = initial
        /\ sink' = sink /\ echoed' = echoed
    BY <1>0 DEF Readable, relayVars, sinkVars
  <1>2. /\ \A d \in Conns : d # c => inbox'[d] = inbox[d]
        /\ \A f \in Ends : inbox'[c][f] =
              IF f = "cl" THEN Tail(inbox[c][f]) ELSE inbox[c][f]
    BY <1>0, <1>1, DropIs
  <1>3. SocketTypes'
    BY <1>0, <1>1, ReadTypes
  <1>4. PICK n \in Nat : n = roff[c]
    BY Local
  <1>5. /\ TunnelTypes' /\ roff'[c] = n + 1
        /\ \A d \in Tunnels : d # c => roff'[d] = roff[d]
    BY <1>0, <1>4 DEF TunnelTypes
  <1>6. /\ inbox'[c]["cl"] = Tail(q) /\ inbox'[c]["ru"] = inbox[c]["ru"]
        /\ inbox'[c]["sk"] = inbox[c]["sk"] /\ inbox'[c]["rc"] = inbox[c]["rc"]
    BY <1>0, <1>2
  <1>7. \A e \in Ends : sock'[c][e] # "open" => inbox'[c][e] = <<>>
    BY <1>0, <1>1, <1>2 DEF Linked
  <1>8. Linked(c)'
    BY <1>0, <1>1, <1>7 DEF Linked
  <1>9. Echoes(c)' = Echoes(c) /\ Held(c)' = Held(c)
    BY <1>1 DEF Echoes, Held
  <1>10. Upward(c)'
    BY <1>0, <1>1, <1>6, <1>9 DEF Upward
  <1>11. q \in Seq(Tokens) /\ Numbered(q, n)
    BY <1>0, <1>4, Local DEF Downward
  <1>12. Numbered(Tail(q), n + 1)
    BY <1>1, <1>11, NumberedTail
  <1>13. PICK k \in Nat : k = Len(q) /\ Len(Tail(q)) = k - 1
    BY <1>1, <1>11, AppendTail
  <1>14. n + 1 + (k - 1) = n + k
    OBVIOUS
  <1>15. n + 1 + Len(Tail(q)) = roff[c] + Len(q)
    BY <1>4, <1>13, <1>14
  <1> HIDE DEF q
  <1>16. Downward(c)'
    BY <1>0, <1>5, <1>6, <1>9, <1>12, <1>15 DEF Downward, q
  <1> QED  BY <1>0, <1>1, <1>2, <1>3, <1>5, <1>8, <1>10, <1>16, TunnelTunnel
           DEF InOrder

(* The client closes. *)
LEMMA HangUpTraffic ==
  ASSUME Traffic, echo, NEW c \in Tunnels, Close(c, {"cl"}, inbox),
         UNCHANGED <<woff, roff, mismatch, over>>,
         UNCHANGED <<relayVars, sinkVars, churnVars>>
  PROVE  Traffic'
  <1>0. /\ Linked(c) /\ Upward(c) /\ Downward(c)
        /\ SocketTypes /\ TunnelTypes /\ mismatch = {} /\ c \in Conns
        /\ inbox \in Boxes /\ sock \in [Conns -> [Ends -> Places]]
        /\ Ends = {"cl", "rc", "ru", "sk"}
    BY TunnelLocal
  <1>1. /\ relay' = relay /\ copier' = copier /\ initial' = initial
        /\ sink' = sink /\ echoed' = echoed /\ {"cl"} \in SUBSET Ends
    BY <1>0 DEF relayVars, sinkVars
  <1>2. SocketTypes' /\ TunnelTypes'
    <2>1. \A d \in Conns, f \in Ends : Len(inbox[d][f]) <= SockCap
      BY <1>0 DEF SocketTypes
    <2> QED  BY <1>0, <1>1, <2>1, CloseTypes DEF TunnelTypes
  <1>3. /\ \A d \in Conns : d # c => sock'[d] = sock[d] /\ inbox'[d] = inbox[d]
        /\ \A e \in Ends : sock'[c][e] =
              IF e \in {"cl"} /\ sock[c][e] = "open" THEN "closed"
              ELSE sock[c][e]
        /\ \A e \in Ends : inbox'[c][e] \in {inbox[c][e], <<>>}
        /\ inbox'[c]["cl"] = <<>>
        /\ \A e \in Ends : e \notin {"cl"} /\ (\A f \in {"cl"} : Peer(f) # e)
             => inbox'[c][e] = inbox[c][e]
    BY <1>0, <1>1, CloseIs
  <1>4. /\ sock'[c]["cl"] # "open"
        /\ sock'[c]["cl"] = "none" <=> sock[c]["cl"] = "none"
        /\ sock'[c]["rc"] = sock[c]["rc"]
        /\ sock'[c]["ru"] = sock[c]["ru"] /\ sock'[c]["sk"] = sock[c]["sk"]
        /\ inbox'[c]["rc"] \in {inbox[c]["rc"], <<>>}
        /\ inbox'[c]["ru"] = inbox[c]["ru"] /\ inbox'[c]["sk"] = inbox[c]["sk"]
    <2>1. /\ sock'[c]["cl"] # "open"
          /\ sock'[c]["cl"] = "none" <=> sock[c]["cl"] = "none"
      BY <1>0, <1>3
    <2>2. /\ inbox'[c]["ru"] = inbox[c]["ru"] /\ inbox'[c]["sk"] = inbox[c]["sk"]
          /\ inbox'[c]["rc"] \in {inbox[c]["rc"], <<>>}
      BY <1>0, <1>3, Peers
    <2> QED  BY <1>0, <1>3, <2>1, <2>2
  <1>5. \A e \in Ends : sock'[c][e] # "open" => inbox'[c][e] = <<>>
    BY <1>0, <1>3, <1>4 DEF Linked
  <1>6. Linked(c)'
    BY <1>0, <1>1, <1>4, <1>5 DEF Linked
  <1>7. Echoes(c)' = Echoes(c) /\ Held(c)' = Held(c)
    BY <1>1 DEF Echoes, Held
  <1>8. Upward(c)'
    BY <1>0, <1>1, <1>4, <1>7, NumberedEmpty DEF Upward
  <1>9. Downward(c)'
    <2>1. roff[c] + 0 <= Echoes(c)
      BY <1>0, Local DEF Downward
    <2>2. Len(<<>>) = 0
      OBVIOUS
    <2> QED  BY <1>3, <1>4, <1>7, <2>1, <2>2, NumberedEmpty DEF Downward
  <1> QED  BY <1>0, <1>2, <1>3, <1>6, <1>8, <1>9, TunnelTunnel DEF InOrder

(* All steps of the tunnels' clients.  The branch of BulkReads that finds  *)
(* a wrong chunk is never taken.                                           *)
LEMMA TunnelTraffic ==
  ASSUME Traffic, echo, TunnelStep, UNCHANGED <<relayVars, sinkVars, churnVars>>
  PROVE  Traffic'
  <1>0. over \in BOOLEAN
    BY DEF Traffic, TunnelTypes
  <1>1. CASE TimeUp
    BY <1>1, TunnelQuiet DEF TimeUp
  <1>2. ASSUME NEW c \in Tunnels,
               \/ ClientStep(c) \/ BulkWriteFails(c) \/ BulkExpires(c)
               \/ HoldFails(c)
        PROVE  Traffic'
    <2>1. CASE BulkDials(c)
      BY <2>1, OpenTraffic DEF BulkDials
    <2>2. CASE HoldDials(c)
      BY <2>2, OpenTraffic DEF HoldDials
    <2>3. CASE BulkWriterLooks(c)
      BY <1>0, <2>3, TunnelQuiet DEF BulkWriterLooks
    <2>4. CASE BulkWriteFails(c)
      BY <1>0, <2>4, TunnelQuiet DEF BulkWriteFails
    <2>5. CASE BulkWrites(c)
      BY <2>5, SendTraffic DEF BulkWrites
    <2>6. CASE HoldSends(c)
      BY <2>6, SendTraffic DEF HoldSends
    <2>7. CASE BulkReaderLooks(c)
      <3>0. UNCHANGED <<woff, roff, mismatch, over>>
        BY <2>7 DEF BulkReaderLooks
      <3>1. CASE ReaderReturns(c, inbox)
        BY <3>0, <3>1, HangUpTraffic DEF ReaderReturns
      <3>2. CASE UNCHANGED sockVars
        BY <1>0, <3>0, <3>2, TunnelQuiet
      <3> QED  BY <2>7, <3>1, <3>2 DEF BulkReaderLooks
    <2>8. CASE BulkReadFails(c)
      BY <2>8, HangUpTraffic DEF BulkReadFails, ReaderReturns
    <2>9. CASE HoldReads(c)
      BY <2>9, ReadTraffic DEF HoldReads
    <2>10. CASE HoldReturns(c, "send") \/ HoldReturns(c, "await")
      BY <2>10, HangUpTraffic DEF HoldReturns
    <2>11. CASE BulkReads(c)
      <3>1. Readable(c, "cl") /\ UNCHANGED <<woff, over>>
        BY <2>11 DEF BulkReads
      <3>2. Head(inbox[c]["cl"]) = roff[c] + 1
        <4>1. inbox[c]["cl"] \in Seq(Tokens) /\ roff[c] \in Nat
          BY Local
        <4>2. Numbered(inbox[c]["cl"], roff[c])
          BY TunnelLocal DEF Downward
        <4> QED  BY <3>1, <4>1, <4>2, NumberedTail DEF Readable
      <3>3. /\ inbox' = Drop(inbox, c, "cl")
            /\ roff' = [roff EXCEPT ![c] = @ + 1]
            /\ UNCHANGED <<sock, mismatch>>
        BY <2>11, <3>2 DEF BulkReads
      <3> QED  BY <3>1, <3>3, ReadTraffic
    <2> QED
      BY <1>2, <2>1, <2>2, <2>3, <2>4, <2>5, <2>6, <2>7, <2>8, <2>9, <2>10,
         <2>11
      DEF ClientStep, BulkEnds, BulkExpires, HoldFails, HoldEnds
  <1> QED  BY <1>1, <1>2 DEF TunnelStep

-----------------------------------------------------------------------------
(* Nothing has been sent when the gate starts. *)
LEMMA TrafficInit == Init => Traffic
  <1> SUFFICES ASSUME Init PROVE Traffic
    OBVIOUS
  <1>0. RelayInit /\ SinkInit /\ ChurnInit /\ TunnelInit
    BY DEF Init
  <1>1. SocketTypes
    <2>1. <<>> \in Seq(Tokens) /\ Len(<<>>) = 0 /\ 0 <= SockCap
      BY NetpollAssumption
    <2> QED  BY <1>0, <2>1 DEF RelayInit, SocketTypes, Places
  <1>2. RelayTypes
    <2>1. <<>> \in Seq(Tokens)
      OBVIOUS
    <2> QED  BY <1>0, <2>1 DEF RelayInit, RelayTypes
  <1>3. SinkTypes /\ OneService
    BY <1>0 DEF SinkInit, SinkTypes, OneService
  <1>4. TunnelTypes
    <2>1. 0 \in 0..MaxChunks /\ 0 \in Nat
      BY TunnelAssumption
    <2>2. woff \in [Tunnels -> 0..MaxChunks] /\ roff \in [Tunnels -> Nat]
      BY <1>0, <2>1 DEF TunnelInit
    <2> QED  BY <1>0, <2>2 DEF TunnelInit, TunnelTypes
  <1>5. Audits
    BY <1>0 DEF SinkInit, TunnelInit, ChurnInit, Audits
  <1>6. ASSUME NEW c \in Conns PROVE OneShot(c)
    <2>1. <<>> \in Seq({"request"}) /\ <<>> \in Seq({"reply"})
      OBVIOUS
    <2> QED  BY <1>0, <2>1 DEF RelayInit, OneShot, Ends
  <1>7. ASSUME NEW c \in Tunnels PROVE InOrder(c) /\ roff[c] <= Echoes(c)
    <2>1. /\ \A e \in Ends : sock[c][e] = "none" /\ inbox[c][e] = <<>>
          /\ relay[c] = "none" /\ copier[c] = "none"
          /\ sink[c] = "none" /\ echoed[c] = 0 /\ woff[c] = 0 /\ roff[c] = 0
      BY <1>0, TunnelAssumption DEF RelayInit, SinkInit, TunnelInit
    <2>2. /\ Echoes(c) = 0 /\ Held(c) = 0
      BY <2>1 DEF Echoes, Held
    <2>3. Linked(c)
      BY <2>1 DEF Linked, Ends
    <2>4. Len(<<>>) = 0 /\ 0 + 0 <= 0 /\ 0 <= 0 /\ 0 # 1
      OBVIOUS
    <2>5. Upward(c)
      BY <2>1, <2>2, <2>4, NumberedEmpty DEF Upward, Ends
    <2>6. Downward(c)
      BY <2>1, <2>2, <2>4, NumberedEmpty DEF Downward, Ends
    <2> QED  BY <2>1, <2>2, <2>3, <2>4, <2>5, <2>6 DEF InOrder
  <1> QED  BY <1>1, <1>2, <1>3, <1>4, <1>5, <1>6, <1>7 DEF Traffic

(* Nothing happens. *)
LEMMA TrafficStutter ==
  ASSUME Traffic, UNCHANGED vars
  PROVE  Traffic'
  <1> USE DEF vars, sockVars, relayVars, sinkVars, churnVars, tunnelVars,
              stormVars
  <1>1. SocketTypes' /\ RelayTypes' /\ SinkTypes' /\ TunnelTypes'
        /\ OneService' /\ echo' = echo
    BY DEF Traffic, SocketTypes, RelayTypes, SinkTypes, TunnelTypes, OneService
  <1>2. Audits'
    BY DEF Traffic, Audits, Answered
  <1>3. \A d \in Conns : Kept(d)
    BY DEF Kept
  <1>4. ASSUME ~echo PROVE \A d \in Conns : OneShot(d)'
    BY <1>3, <1>4, KeptHolds DEF Traffic
  <1>5. ASSUME NEW c \in Tunnels
        PROVE  roff'[c] <= Echoes(c)' /\ (echo => InOrder(c)')
    BY <1>3, KeptHolds, TunnelAssumption DEF Traffic
  <1> QED  BY <1>1, <1>2, <1>4, <1>5 DEF Traffic

(* Traffic is an invariant of the gate: every token is where it belongs.   *)
THEOREM TrafficHolds == SafeSpec => [](Control /\ Traffic)
  <1>1. Init => Control /\ Traffic
    BY ControlInit, TrafficInit DEF Init
  <1>2. Control /\ Traffic /\ [Next]_vars => Traffic'
    <2> SUFFICES ASSUME Control, Traffic, [Next]_vars PROVE Traffic'
      OBVIOUS
    <2>1. CASE UNCHANGED vars
      BY <2>1, TrafficStutter
    <2>2. ASSUME NEW c \in Conns,
                 \/ RelayMoves(RelayStep(c) \/ CopierStep(c))
                 \/ RelayMoves(Wedge(c))
          PROVE  Traffic'
      BY <2>2, RelayTraffic DEF RelayMoves
    <2>3. ASSUME NEW c \in Conns, SinkMoves(SinkStep(c)) PROVE Traffic'
      BY <2>3, SinkTraffic DEF SinkMoves
    <2>4. CASE StormMoves(ChurnStep)
      BY <2>4, StormTraffic DEF StormMoves
    <2>5. CASE TunnelMoves(TunnelStep)
      BY <2>5, TunnelTraffic DEF TunnelMoves
    <2> QED  BY <2>1, <2>2, <2>3, <2>4, <2>5 DEF Next
  <1> QED  BY <1>1, <1>2, ControlHolds, PTL DEF SafeSpec

(* The two-fd check of the gate, for any number of connections, workers,   *)
(* requests and chunks and any size of the socket buffers: a connection    *)
(* the storm counts as completed was answered by the sink, a stream comes  *)
(* back in order and only after the sink has seen it, and neither end's    *)
(* audit ever fails.                                                       *)
THEOREM GateTwoFd == Spec => []TwoFdSound
  <1>1. Control /\ Traffic => TwoFdSound
    <2> SUFFICES ASSUME Control, Traffic PROVE TwoFdSound
      OBVIOUS
    <2>0. /\ SocketTypes /\ RelayTypes /\ SinkTypes /\ TunnelTypes
          /\ Audits /\ ChurnTypes
      BY DEF Traffic, Control
    <2>1. TypeOK
      <3>1. served \cup completed \cup wedged \cup sampled \subseteq Conns
        BY <2>0 DEF RelayTypes, SinkTypes, ChurnTypes
      <3>2. cancelCur \in {0} \cup Runs /\ closes \in [Runs -> Nat]
        BY <2>0 DEF ChurnTypes
      <3> QED  BY <2>0, <3>1, <3>2
               DEF TypeOK, SocketTypes, RelayTypes, SinkTypes, TunnelTypes, Places
    <2>2. CompletedWasServed
      BY <2>0 DEF CompletedWasServed, Audits, Answered
    <2>3. EchoIntact
      BY <2>0 DEF EchoIntact, Audits, Traffic, Echoes
    <2> QED  BY <2>1, <2>2, <2>3 DEF TwoFdSound
  <1>2. Spec => SafeSpec
    BY DEF Spec, SafeSpec
  <1> QED  BY <1>1, <1>2, TrafficHolds, PTL

=============================================================================
