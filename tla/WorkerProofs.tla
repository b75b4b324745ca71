---------------------------- MODULE WorkerProofs -----------------------------
(***************************************************************************)
(* Proofs about Worker.tla, for every value of its constants.              *)
(*                                                                         *)
(* First part: type correctness, the connection cap, and that the shed     *)
(* branch of opAccept is dead.  The inductive invariant adds               *)
(* AcceptsCounted: a completed accept is still counted in acceptInflight,  *)
(* so admitting its connection moves one unit from acceptInflight to conns *)
(* and the sum stays.                                                      *)
(*                                                                         *)
(* Second part: the life of a connection.  No connection is forgotten and  *)
(* no buffer has two users, a connection is charged once, live counts the  *)
(* open ones, a completed connection closes with nothing in flight, and    *)
(* the send on jobs blocks only behind connections that are gone.  All of  *)
(* this rests on one inductive invariant, Work, which says of every        *)
(* connection in the table which operations and hook calls it has, and     *)
(* what it has been charged to.  A handler touches one connection; what it *)
(* does to it follows from which of its operations completed.              *)
(*                                                                         *)
(* Third part: descriptors.  Every open descriptor has exactly one party   *)
(* that will close it, and a torn-down connection waits for exactly the    *)
(* closes that it submitted.  The two need each other.  A connection       *)
(* leaves the table with a close still to be submitted unless closesLeft   *)
(* is right; closesLeft is right only when its two descriptors differ, and *)
(* they do because no descriptor has two holders.                          *)
(***************************************************************************)
EXTENDS WorkerProps, FiniteSetTheorems, TLAPS

Inv == TypeOK /\ ConnCap /\ AcceptsCounted

USE ConstantsAssumption

(* What a closure of runWorker does to the connection table, as far as the *)
(* invariant is concerned: it may delete connections, never add one, and   *)
(* keeps the types.                                                        *)
TableStep ==
  /\ conns' \subseteq conns
  /\ conn' \in [Ids -> Conn]
  /\ sq' \subseteq Ops
  /\ \A o \in sq' : o.op # "opAccept"
  /\ live' \in Int
  /\ charge' \in [Ids -> Seq(Buckets)]

(* Everything a handler other than OnAccept may do. *)
QuietStep ==
  /\ TableStep
  /\ batch' \subseteq batch
  /\ kops' = kops
  /\ acceptInflight' = acceptInflight
  /\ nextID' = nextID

-----------------------------------------------------------------------------
(* The table holds ids that were handed out, *)
LEMMA ConnsAreIds == Inv => conns \subseteq Ids
  BY DEF Inv, TypeOK, Ids

(* and is finite. *)
LEMMA ConnsFinite == Inv => IsFiniteSet(conns) /\ Cardinality(conns) \in Nat
<1> SUFFICES ASSUME Inv PROVE IsFiniteSet(conns) /\ Cardinality(conns) \in Nat
  OBVIOUS
<1>1. IsFiniteSet(1..nextID)
  BY FS_Interval DEF Inv, TypeOK
<1>2. IsFiniteSet(conns)
  BY <1>1, FS_Subset DEF Inv, TypeOK
<1>3. QED
  BY <1>2, FS_CardinalityType

(* Completed accepts are a finite set, and so are those with a descriptor. *)
LEMMA AcceptsFinite ==
  Inv => /\ IsFiniteSet(Accepted)
         /\ Cardinality(Accepted) \in Nat
         /\ Cardinality(AcceptsDone) \in Nat
         /\ Cardinality(Accepted) <= Cardinality(AcceptsDone)
<1> SUFFICES ASSUME Inv
             PROVE  /\ IsFiniteSet(Accepted)
                    /\ Cardinality(Accepted) \in Nat
                    /\ Cardinality(AcceptsDone) \in Nat
                    /\ Cardinality(Accepted) <= Cardinality(AcceptsDone)
  OBVIOUS
<1>1. Accepted \subseteq AcceptsDone
  BY DEF Accepted
<1>2. QED
  BY <1>1, FS_Subset, FS_CardinalityType DEF Inv, AcceptsCounted

(* Completed accepts that only become fewer stay counted, and a table that *)
(* only shrinks stays under the cap.                                       *)
LEMMA FewerAccepts ==
  ASSUME Inv, AcceptsDone' \subseteq AcceptsDone,
         acceptInflight' = acceptInflight, nextID' = nextID,
         \A o \in batch' : o.op = "opAccept" => o \notin kops',
         \A o \in sq' : o.op # "opAccept"
  PROVE  AcceptsCounted'
<1>1. Accepted' \subseteq Accepted
  BY DEF Accepted
<1>2. IsFiniteSet(AcceptsDone') /\ Cardinality(AcceptsDone') <= Cardinality(AcceptsDone)
  BY FS_Subset DEF Inv, AcceptsCounted
<1>3. Cardinality(Accepted') <= Cardinality(Accepted)
  BY <1>1, AcceptsFinite, FS_Subset
<1>4. IsFiniteSet(Accepted') /\ IsFiniteSet(AcceptsDone')
  BY <1>1, <1>2, AcceptsFinite, FS_Subset
<1>5. Cardinality(Accepted') \in Nat /\ Cardinality(AcceptsDone') \in Nat
  BY <1>4, FS_CardinalityType
<1>6. acceptInflight \in Nat /\ nextID \in Nat
  BY DEF Inv, TypeOK
<1>7. Cardinality(AcceptsDone') <= acceptInflight'
  BY <1>2, <1>5, <1>6, AcceptsFinite DEF Inv, AcceptsCounted
<1>8. nextID' + Cardinality(Accepted') <= MaxId
  BY <1>3, <1>5, <1>6, AcceptsFinite DEF Inv, AcceptsCounted
<1>9. QED
  BY <1>2, <1>7, <1>8 DEF AcceptsCounted

(* A table and accepts in flight that do not grow stay under the cap. *)
LEMMA FewerConns ==
  ASSUME Inv, conns' \subseteq conns, acceptInflight' = acceptInflight
  PROVE  ConnCap'
<1>1. Cardinality(conns') <= Cardinality(conns) /\ Cardinality(conns') \in Nat
  BY ConnsFinite, FS_Subset, FS_CardinalityType
<1>2. QED
  BY <1>1, ConnsFinite DEF Inv, TypeOK, ConnCap

(* A handler that admits nothing keeps the cap and the accounting. *)
LEMMA QuietStepCounts ==
  ASSUME Inv, QuietStep PROVE ConnCap' /\ AcceptsCounted'
<1>1. AcceptsDone' \subseteq AcceptsDone
  BY DEF AcceptsDone, QuietStep
<1>2. \A o \in batch' : o.op = "opAccept" => o \notin kops'
  BY DEF QuietStep, Inv, AcceptsCounted
<1>3. QED
  BY <1>1, <1>2, FewerAccepts, FewerConns DEF QuietStep, TableStep

-----------------------------------------------------------------------------
(* The closures keep the table well formed.                                *)

(* Every field that a handler assigns keeps the struct a Conn. *)
LEMMA ConnFields ==
  ASSUME NEW r \in Conn
  PROVE  /\ r.clientFD \in 0..MaxFD /\ r.upstreamFD \in 0..MaxFD
         /\ [r EXCEPT !.counted = TRUE] \in Conn
         /\ [r EXCEPT !.relayStarted = TRUE] \in Conn
         /\ [r EXCEPT !.clientReadDone = TRUE] \in Conn
         /\ [r EXCEPT !.upstreamReadDone = TRUE] \in Conn
         /\ [r EXCEPT !.age = 0] \in Conn
         /\ \A f \in 0..MaxFD : [r EXCEPT !.upstreamFD = f] \in Conn
         /\ \A n \in Int : [r EXCEPT !.closesLeft = n] \in Conn
         /\ Closing(r) \in Conn
         /\ Older(r) \in Conn
<1>1. 0 \in 0..(IdleTicks + 1)
  OBVIOUS
<1>2. Closing(r) \in Conn
  <2> DEFINE n == (IF r.clientFD # NoFD THEN 1 ELSE 0)
                    + (IF r.upstreamFD # NoFD THEN 1 ELSE 0)
  <2>1. n \in Int
    OBVIOUS
  <2> HIDE DEF n
  <2>2. [r EXCEPT !.closing = TRUE, !.closesLeft = n] \in Conn
    BY <2>1 DEF Conn
  <2>3. QED
    BY <2>2 DEF Closing, n
<1>3. Older(r) \in Conn
  BY DEF Conn, Older
<1>4. QED
  BY <1>1, <1>2, <1>3 DEF Conn

(* closeConn prepares closes, never accepts. *)
LEMMA CloseOpsType ==
  ASSUME NEW c \in Ids, NEW r \in Conn
  PROVE  CloseOps(c, r) \subseteq Ops /\ \A o \in CloseOps(c, r) : o.op = "opClose"
<1>1. ASSUME NEW f \in {r.clientFD, r.upstreamFD} \ {NoFD}
      PROVE  Op(c, "opClose", f) \in Ops /\ Op(c, "opClose", f).op = "opClose"
  BY <1>1 DEF Op, Ops, OpTypes, Conn, Ids, NoFD
<1>2. QED
  BY <1>1 DEF CloseOps

(* Keeping a connection with new operations is a TableStep, *)
LEMMA ProceedStep ==
  ASSUME Inv, NEW c \in conns, NEW r \in Conn, NEW P \in SUBSET Ops,
         \A o \in P : o.op # "opAccept", Proceed(c, r, P)
  PROVE  TableStep
  BY DEF Proceed, TableStep, Inv, TypeOK, AcceptsCounted

(* and so is closeConn, whatever buckets it charges, *)
LEMMA CloseConnStep ==
  ASSUME Inv, NEW c \in conns, NEW r \in Conn, NEW B \in Seq(Buckets),
         closeConn(c, r, B)
  PROVE  TableStep
<1>1. c \in Ids
  BY DEF Inv, TypeOK, Ids
<1>2. Closing(r) \in Conn
  BY ConnFields
<1>3. conns' \subseteq conns /\ conn' \in [Ids -> Conn] /\ live' \in Int
  BY <1>1, <1>2 DEF closeConn, Inv, TypeOK
<1>4. charge' \in [Ids -> Seq(Buckets)]
  <2>1. charge[c] \o B \in Seq(Buckets)
    BY <1>1 DEF Inv, TypeOK
  <2>2. QED
    BY <1>1, <2>1 DEF closeConn, Inv, TypeOK
<1>5. sq' \subseteq Ops /\ \A o \in sq' : o.op # "opAccept"
  BY <1>1, CloseOpsType DEF closeConn, Inv, TypeOK, AcceptsCounted
<1>6. QED
  BY <1>3, <1>4, <1>5 DEF TableStep

(* and so is fail, *)
LEMMA FailStep ==
  ASSUME Inv, NEW c \in conns, NEW r \in Conn, fail(c, r)
  PROVE  TableStep
<1>1. [r EXCEPT !.counted = TRUE] \in Conn
  BY ConnFields
<1>2. <<>> \in Seq(Buckets) /\ <<"error">> \in Seq(Buckets)
  BY DEF Buckets
<1>3. QED
  BY <1>1, <1>2, CloseConnStep DEF fail

(* An operation for a connection and one of the data operations. *)
LEMMA OpType ==
  ASSUME Inv, NEW c \in conns, NEW k \in DataOps, NEW f \in 0..MaxFD
  PROVE  Op(c, k, f) \in Ops /\ Op(c, k, f).op # "opAccept"
  BY DEF Inv, TypeOK, Op, Ops, OpTypes, DataOps, PreRelayOps, C2UOps, U2COps, Ids

(* and so is startDuplex, *)
LEMMA StartDuplexStep ==
  ASSUME Inv, NEW c \in conns, NEW r \in Conn, startDuplex(c, r)
  PROVE  TableStep
<1> DEFINE P == {Op(c, "opC2URecv", r.clientFD), Op(c, "opU2CRecv", r.upstreamFD)}
<1>1. P \in SUBSET Ops /\ \A o \in P : o.op # "opAccept"
  <2>1. r.clientFD \in 0..MaxFD /\ r.upstreamFD \in 0..MaxFD
    BY DEF Conn
  <2>2. "opC2URecv" \in DataOps /\ "opU2CRecv" \in DataOps
    BY DEF DataOps, C2UOps, U2COps
  <2>3. QED
    BY <2>1, <2>2, OpType
<1>2. [r EXCEPT !.relayStarted = TRUE] \in Conn
  BY ConnFields
<1>3. QED
  BY <1>1, <1>2, ProceedStep DEF startDuplex

(* and so is forwardInit. *)
LEMMA ForwardInitStep ==
  ASSUME Inv, NEW c \in conns, NEW r \in Conn, forwardInit(c, r)
  PROVE  TableStep
<1> DEFINE P == {Op(c, "opSendUp", r.upstreamFD)}
<1>1. P \in SUBSET Ops /\ \A o \in P : o.op # "opAccept"
  <2>1. r.upstreamFD \in 0..MaxFD
    BY DEF Conn
  <2>2. "opSendUp" \in DataOps
    BY DEF DataOps, PreRelayOps
  <2>3. QED
    BY <2>1, <2>2, OpType
<1>2. CASE startDuplex(c, r)
  BY <1>2, StartDuplexStep
<1>3. CASE Proceed(c, r, P)
  BY <1>1, <1>3, ProceedStep
<1>4. QED
  BY <1>2, <1>3 DEF forwardInit

-----------------------------------------------------------------------------
(* The invariant after a quiet step, a data handler, an applied result.    *)

(* A TableStep that leaves accepts and ids alone keeps the invariant. *)
LEMMA QuietInv ==
  ASSUME Inv, QuietStep,
         UNCHANGED <<phase, stop, tick, blockedOn>>,
         drained' \in Seq(Result), openFDs' \subseteq FDs,
         jobs' \in Seq(Job), running' \subseteq HookCall,
         ready' \in Seq(Result)
  PROVE  Inv'
<1>1. TypeOK'
  BY DEF Inv, TypeOK, QuietStep, TableStep
<1>2. QED
  BY <1>1, QuietStepCounts DEF Inv

(* So does a data handler whose closures make a TableStep, *)
LEMMA DataHandlerInv ==
  ASSUME Inv, NEW o, Harvest(o), TableStep, Elsewhere
  PROVE  Inv'
<1>1. QuietStep
  BY DEF QuietStep, Harvest, Elsewhere, ringVars
<1>2. QED
  BY <1>1, QuietInv DEF Elsewhere, ringVars, hookVars, tableVars, Inv, TypeOK

(* and a drained result that is applied by a TableStep. *)
LEMMA ApplyInv ==
  ASSUME Inv, Applying, TableStep, openFDs' \subseteq openFDs
  PROVE  Inv'
<1>1. QuietStep
  BY DEF QuietStep, Applying, ringVars
<1>2. Tail(drained) \in Seq(Result)
  BY DEF Applying, Inv, TypeOK
<1>3. openFDs' \subseteq FDs
  BY DEF Inv, TypeOK
<1>4. QED
  BY <1>1, <1>2, <1>3, QuietInv DEF Applying, ringVars, hookVars, tableVars, Inv, TypeOK

(* The connection that a usable completion or result belongs to. *)
LEMMA UsableConn ==
  ASSUME Inv, NEW c, Usable(c)
  PROVE  /\ c \in conns /\ c \in Ids
         /\ conn[c] \in Conn
         /\ Refreshed(c) \in Conn
         /\ conn[c].clientFD \in 0..MaxFD
         /\ conn[c].upstreamFD \in 0..MaxFD
         /\ Refreshed(c).clientFD \in 0..MaxFD
<1>1. c \in conns /\ c \in Ids
  BY DEF Usable, Inv, TypeOK, Ids
<1>2. conn[c] \in Conn
  BY <1>1 DEF Inv, TypeOK
<1>3. Refreshed(c) \in Conn
  BY <1>2, ConnFields DEF Refreshed
<1>4. QED
  BY <1>1, <1>2, <1>3 DEF Conn

(* Keeping the connection with at most one new data operation. *)
LEMMA ProceedOne ==
  ASSUME Inv, NEW c \in conns, NEW r \in Conn, NEW k \in DataOps,
         NEW f \in 0..MaxFD,
         Proceed(c, r, {Op(c, k, f)}) \/ Proceed(c, r, {})
  PROVE  TableStep
<1>1. Op(c, k, f) \in Ops /\ Op(c, k, f).op # "opAccept"
  BY OpType
<1>2. CASE Proceed(c, r, {Op(c, k, f)})
  BY <1>1, <1>2, ProceedStep
<1>3. CASE Proceed(c, r, {})
  BY <1>3, ProceedStep
<1>4. QED
  BY <1>2, <1>3

(* The handlers of the relay phase. *)
LEMMA RelayInv ==
  ASSUME Inv, NEW o \in batch, Relay(o) PROVE Inv'
<1> DEFINE c == o.id
<1>0. Harvest(o) /\ Usable(c) /\ Elsewhere
  BY DEF Relay, OnC2URecv, OnC2UEnd, OnC2USend, OnU2CRecv, OnU2CEnd,
         OnU2CSend, OnSuccess, OnData
<1>1. /\ c \in conns
      /\ conn[c] \in Conn /\ Refreshed(c) \in Conn
      /\ conn[c].clientFD \in 0..MaxFD /\ conn[c].upstreamFD \in 0..MaxFD
  BY <1>0, UsableConn
<1>2. /\ "opC2URecv" \in DataOps /\ "opC2USend" \in DataOps
      /\ "opU2CRecv" \in DataOps /\ "opU2CSend" \in DataOps
  BY DEF DataOps, C2UOps, U2COps
<1>3. /\ [conn[c] EXCEPT !.clientReadDone = TRUE] \in Conn
      /\ [conn[c] EXCEPT !.upstreamReadDone = TRUE] \in Conn
  BY <1>1, ConnFields
<1>4. <<>> \in Seq(Buckets)
  OBVIOUS
<1>5. TableStep
  <2>1. CASE OnC2URecv(o)
    BY <2>1, <1>1, <1>2, ProceedOne DEF OnC2URecv
  <2>2. CASE OnC2UEnd(o)
    BY <2>2, <1>1, <1>2, <1>3, <1>4, ProceedOne, CloseConnStep DEF OnC2UEnd
  <2>3. CASE OnC2USend(o)
    BY <2>3, <1>1, <1>2, ProceedOne DEF OnC2USend
  <2>4. CASE OnU2CRecv(o)
    BY <2>4, <1>1, <1>2, ProceedOne DEF OnU2CRecv
  <2>5. CASE OnU2CEnd(o)
    BY <2>5, <1>1, <1>2, <1>3, <1>4, ProceedOne, CloseConnStep DEF OnU2CEnd
  <2>6. CASE OnU2CSend(o)
    BY <2>6, <1>1, <1>2, ProceedOne DEF OnU2CSend
  <2>7. QED
    BY <2>1, <2>2, <2>3, <2>4, <2>5, <2>6 DEF Relay
<1>6. QED
  BY <1>0, <1>5, DataHandlerInv

(* The handlers of the handshake. *)
LEMMA HandshakeInv ==
  ASSUME Inv, NEW o \in batch, Handshake(o) PROVE Inv'
<1> DEFINE c == o.id
<1>0. Harvest(o) /\ Usable(c)
  BY DEF Handshake, OnRecvReq, OnReplyClient, OnReplyMore, OnRejectSend,
         OnSendUp, OnSuccess, OnData
<1>1. /\ c \in conns /\ c \in Ids
      /\ conn[c] \in Conn /\ Refreshed(c) \in Conn
      /\ conn[c].clientFD \in 0..MaxFD
  BY <1>0, UsableConn
<1>2. "opRecvReq" \in DataOps
  BY DEF DataOps, PreRelayOps
<1>3. <<>> \in Seq(Buckets)
  OBVIOUS
<1>4. CASE OnRecvReq(o)
  <2>1. TableStep
    BY <1>4, <1>1, ProceedStep DEF OnRecvReq
  <2>2. QuietStep
    BY <1>4, <2>1 DEF OnRecvReq, OnData, Harvest, QuietStep
  <2>3. [id |-> c, fd |-> conn[c].clientFD] \in Job
    BY <1>1 DEF Job
  <2>4. jobs' \in Seq(Job) /\ blockedOn' \in (IF phase' = "blocked" THEN Ids ELSE {0})
    <3>1. jobs \in Seq(Job) /\ phase = "batch" /\ blockedOn = 0
      BY <1>0 DEF Harvest, Inv, TypeOK
    <3>2. Append(jobs, [id |-> c, fd |-> conn[c].clientFD]) \in Seq(Job)
      BY <2>3, <3>1
    <3>3. CASE Len(jobs) < JobsCap
      BY <1>4, <3>1, <3>2, <3>3 DEF OnRecvReq
    <3>4. CASE ~(Len(jobs) < JobsCap)
      BY <1>4, <1>1, <3>1, <3>4 DEF OnRecvReq
    <3>5. QED
      BY <3>3, <3>4
  <2>5. TypeOK'
    BY <1>4, <2>1, <2>2, <2>4
    DEF OnRecvReq, OnData, Harvest, QuietStep, TableStep, Inv, TypeOK
  <2>6. QED
    BY <2>2, <2>5, QuietStepCounts DEF Inv
<1>5. CASE OnReplyClient(o)
  <2>1. TableStep
    BY <1>5, <1>1, ForwardInitStep DEF OnReplyClient
  <2>2. QED
    BY <1>5, <1>0, <2>1, DataHandlerInv DEF OnReplyClient, OnSuccess
<1>6. CASE OnReplyMore(o)
  <2>1. TableStep
    BY <1>6, <1>1, <1>2, ProceedOne DEF OnReplyMore
  <2>2. QED
    BY <1>6, <1>0, <2>1, DataHandlerInv DEF OnReplyMore, OnSuccess
<1>7. CASE OnRejectSend(o)
  <2>1. TableStep
    BY <1>7, <1>1, <1>3, CloseConnStep DEF OnRejectSend
  <2>2. QED
    BY <1>7, <1>0, <2>1, DataHandlerInv DEF OnRejectSend
<1>8. CASE OnSendUp(o)
  <2>1. TableStep
    BY <1>8, <1>1, StartDuplexStep DEF OnSendUp
  <2>2. QED
    BY <1>8, <1>0, <2>1, DataHandlerInv DEF OnSendUp, OnSuccess
<1>9. QED
  BY <1>4, <1>5, <1>6, <1>7, <1>8 DEF Handshake

(* Completions of dead connections, failures and partial sends. *)
LEMMA StaleInv ==
  ASSUME Inv, NEW o \in batch, Stale(o) PROVE Inv'
<1>1. TableStep
  BY DEF Stale, tableVars, TableStep, Inv, TypeOK, AcceptsCounted
<1>2. QED
  BY <1>1, DataHandlerInv DEF Stale

(* A failed completion ends its connection through fail. *)
LEMMA FailureInv ==
  ASSUME Inv, NEW o \in batch, OnFailure(o) PROVE Inv'
<1>1. o.id \in conns /\ conn[o.id] \in Conn
  BY UsableConn DEF OnFailure, OnData
<1>2. TableStep
  BY <1>1, FailStep DEF OnFailure
<1>3. QED
  BY <1>2, DataHandlerInv DEF OnFailure, OnData

(* A short send prepares the same operation again. *)
LEMMA PartialSendInv ==
  ASSUME Inv, NEW o \in batch, OnPartialSend(o) PROVE Inv'
<1>1. o.id \in conns /\ conn[o.id] \in Conn
  BY UsableConn DEF OnPartialSend, OnSuccess, OnData
<1>2. o \in Ops /\ o.op # "opAccept"
  BY DEF OnPartialSend, OnSuccess, OnData, SendOps, Inv, TypeOK
<1>3. TableStep
  BY <1>1, <1>2, ProceedStep DEF OnPartialSend
<1>4. QED
  BY <1>3, DataHandlerInv DEF OnPartialSend, OnSuccess, OnData

(* opClose deletes at most. *)
LEMMA CloseInv ==
  ASSUME Inv, NEW o \in batch, OnClose(o) PROVE Inv'
<1> DEFINE c == o.id
<1>1. Harvest(o) /\ Elsewhere /\ sq' = sq /\ live' = live
  BY DEF OnClose
<1>2. conns' \subseteq conns
  BY DEF OnClose
<1>3. conn' \in [Ids -> Conn] /\ charge' \in [Ids -> Seq(Buckets)]
  <2>1. CASE c \notin conns
    BY <2>1 DEF OnClose, Inv, TypeOK
  <2>2. CASE c \in conns
    <3>0. c \in Ids
      BY <2>2, ConnsAreIds
    <3>1. c \in Ids /\ conn[c] \in Conn /\ charge[c] \in Seq(Buckets)
      BY <3>0 DEF Inv, TypeOK
    <3>2. NoConn \in Conn
      BY DEF NoConn, NewConn, Conn, NoFD
    <3>3. conn[c].closesLeft \in Int
      BY <3>1 DEF Conn
    <3>4. [conn[c] EXCEPT !.closesLeft = conn[c].closesLeft - 1] \in Conn
      <4>1. ASSUME NEW r \in Conn, NEW n \in Int
            PROVE  [r EXCEPT !.closesLeft = n] \in Conn
        BY DEF Conn
      <4>2. conn[c].closesLeft - 1 \in Int
        BY <3>3
      <4>3. QED
        BY <3>1, <4>1, <4>2
    <3>5. Append(charge[c], "completed") \in Seq(Buckets)
      BY <3>1 DEF Buckets
    <3>6. CASE conn[c].closesLeft - 1 <= 0
      BY <2>2, <3>1, <3>2, <3>5, <3>6 DEF OnClose, Inv, TypeOK
    <3>7. CASE ~(conn[c].closesLeft - 1 <= 0)
      BY <2>2, <3>1, <3>4, <3>7 DEF OnClose, Inv, TypeOK
    <3>8. QED
      BY <3>6, <3>7
  <2>3. QED
    BY <2>1, <2>2
<1>4. TableStep
  BY <1>1, <1>2, <1>3 DEF TableStep, Inv, TypeOK, AcceptsCounted
<1>5. QED
  BY <1>1, <1>4, DataHandlerInv

(* opTimeout sweeps and re-arms; it touches no accept and admits nothing. *)
LEMMA TimeoutInv ==
  ASSUME Inv, NEW o \in batch, OnTimeout(o) PROVE Inv'
<1>1. PICK S \in SUBSET conns :
        /\ conn' = [c \in Ids |->
             IF c \in S THEN Closing([Older(conn[c]) EXCEPT !.counted = TRUE])
             ELSE IF c \in conns THEN Older(conn[c]) ELSE conn[c]]
        /\ sq' = sq \cup {TimeoutOp} \cup UNION {CloseOps(c, conn[c]) : c \in S}
        /\ live' = live - Cardinality(S)
        /\ charge' = [c \in Ids |->
             IF c \in S THEN Append(charge[c], "idle") ELSE charge[c]]
  BY DEF OnTimeout
<1>2. conns' \subseteq conns
  BY DEF OnTimeout
<1>3. conn' \in [Ids -> Conn]
  <2>1. ASSUME NEW c \in Ids
        PROVE  /\ Closing([Older(conn[c]) EXCEPT !.counted = TRUE]) \in Conn
               /\ Older(conn[c]) \in Conn
               /\ conn[c] \in Conn
    <3>1. conn[c] \in Conn
      BY DEF Inv, TypeOK
    <3>2. Older(conn[c]) \in Conn
      BY <3>1, ConnFields
    <3>3. [Older(conn[c]) EXCEPT !.counted = TRUE] \in Conn
      BY <3>2, ConnFields
    <3>4. QED
      BY <3>1, <3>2, <3>3, ConnFields
  <2>2. QED
    BY <1>1, <2>1
<1>4. charge' \in [Ids -> Seq(Buckets)]
  <2>1. ASSUME NEW c \in Ids
        PROVE  charge[c] \in Seq(Buckets) /\ Append(charge[c], "idle") \in Seq(Buckets)
    BY DEF Inv, TypeOK, Buckets
  <2>2. QED
    BY <1>1, <2>1
<1>5. sq' \subseteq Ops /\ \A p \in sq' : p.op # "opAccept"
  <2>1. TimeoutOp \in Ops /\ TimeoutOp.op # "opAccept"
    BY DEF TimeoutOp, Op, Ops, OpTypes, NoFD
  <2>2. ASSUME NEW c \in S
        PROVE  /\ CloseOps(c, conn[c]) \subseteq Ops
               /\ \A p \in CloseOps(c, conn[c]) : p.op # "opAccept"
    <3>1. c \in Ids
      BY ConnsAreIds
    <3>2. conn[c] \in Conn
      BY <3>1 DEF Inv, TypeOK
    <3>3. QED
      BY <3>1, <3>2, CloseOpsType
  <2>3. QED
    BY <1>1, <2>1, <2>2 DEF Inv, TypeOK, AcceptsCounted
<1>6. live' \in Int
  <2>1. Cardinality(S) \in Nat
    BY ConnsFinite, FS_Subset, FS_CardinalityType
  <2>2. QED
    BY <1>1, <2>1, SMTT(30) DEF Inv, TypeOK
<1>7. tick' \in 0..(SweepEvery - 1)
  <2>1. tick \in Nat /\ SweepEvery \in Nat \ {0}
    BY ConstantsAssumption DEF Inv, TypeOK
  <2>2. tick' = (tick + 1) % SweepEvery
    BY DEF OnTimeout
  <2>3. QED
    BY <2>1, <2>2
<1>8. QuietStep
  BY <1>2, <1>3, <1>4, <1>5, <1>6 DEF QuietStep, TableStep, OnTimeout, Harvest
<1>9. TypeOK'
  BY <1>7, <1>8 DEF QuietStep, TableStep, OnTimeout, Inv, TypeOK, hookVars, tableVars
<1>10. QED
  BY <1>8, <1>9, QuietStepCounts DEF Inv

(* opEventfd re-arms its read and moves the results to drained. *)
LEMMA EventfdInv ==
  ASSUME Inv, NEW o \in batch, OnEventfd(o) PROVE Inv'
<1>1. EventfdOp \in Ops /\ EventfdOp.op # "opAccept"
  BY DEF EventfdOp, Op, Ops, OpTypes, NoFD
<1>2. QuietStep
  BY <1>1 DEF OnEventfd, Harvest, QuietStep, TableStep, ringVars, Inv, TypeOK,
              AcceptsCounted
<1>3. QED
  BY <1>2, QuietInv DEF OnEventfd, ringVars, Inv, TypeOK

(* Applying a hook's decision. *)
LEMMA ApplyResultInv ==
  ASSUME Inv, ApplyResult PROVE Inv'
<1> DEFINE c == Head(drained).id
<1>1. Applying
  BY DEF ApplyResult, ApplyLate, ApplyReject, ApplyMore, ApplyRelay, ApplyTo
<1>2. Head(drained) \in Result
  BY <1>1 DEF Applying, Inv, TypeOK
<1>3. Head(drained).fd \in 0..MaxFD
  BY <1>2 DEF Result
<1>4. /\ "opRejectSend" \in DataOps /\ "opReplyMore" \in DataOps
      /\ "opRecvReq" \in DataOps /\ "opReplyClient" \in DataOps
  BY DEF DataOps, PreRelayOps
<1>5. CASE ApplyLate
  <2>1. TableStep
    BY <1>5 DEF ApplyLate, tableVars, TableStep, Inv, TypeOK, AcceptsCounted
  <2>2. QED
    BY <1>1, <1>5, <2>1, ApplyInv DEF ApplyLate
<1>6. ASSUME Usable(c)
      PROVE  /\ c \in conns /\ c \in Ids
             /\ Refreshed(c) \in Conn /\ Refreshed(c).clientFD \in 0..MaxFD
             /\ [Refreshed(c) EXCEPT !.counted = TRUE] \in Conn
             /\ [Refreshed(c) EXCEPT !.counted = TRUE].clientFD \in 0..MaxFD
             /\ [Refreshed(c) EXCEPT !.upstreamFD = Head(drained).fd] \in Conn
             /\ [Refreshed(c) EXCEPT !.upstreamFD = Head(drained).fd].clientFD \in 0..MaxFD
  <2>1. /\ c \in conns /\ c \in Ids
        /\ Refreshed(c) \in Conn /\ Refreshed(c).clientFD \in 0..MaxFD
    BY <1>6, UsableConn
  <2>2. /\ [Refreshed(c) EXCEPT !.counted = TRUE] \in Conn
        /\ [Refreshed(c) EXCEPT !.upstreamFD = Head(drained).fd] \in Conn
    BY <2>1, <1>3, ConnFields
  <2>3. QED
    BY <2>1, <2>2 DEF Conn
<1>7. CASE ApplyReject
  <2> DEFINE cc == [Refreshed(c) EXCEPT !.counted = TRUE]
  <2>1. Usable(c)
    BY <1>7 DEF ApplyReject, ApplyTo
  <2>2. c \in conns /\ c \in Ids /\ cc \in Conn /\ cc.clientFD \in 0..MaxFD
    BY <1>6, <2>1
  <2>3. CASE Head(drained).reply
    <3>1. Op(c, "opRejectSend", cc.clientFD) \in Ops
          /\ Op(c, "opRejectSend", cc.clientFD).op # "opAccept"
      BY <1>4, <2>2, OpType
    <3>2. Append(charge[c], "rejected") \in Seq(Buckets)
      BY <2>2, SMTT(30) DEF Inv, TypeOK, Buckets
    <3>3. /\ conn' = [conn EXCEPT ![c] = cc]
          /\ sq' = sq \cup {Op(c, "opRejectSend", cc.clientFD)}
          /\ charge' = [charge EXCEPT ![c] = Append(charge[c], "rejected")]
          /\ conns' = conns /\ live' = live
      BY <1>7, <2>3 DEF ApplyReject
    <3> HIDE DEF cc
    <3>4. TableStep
      BY <2>2, <3>1, <3>2, <3>3 DEF TableStep, Inv, TypeOK, AcceptsCounted
    <3>5. QED
      BY <1>1, <1>7, <3>4, ApplyInv DEF ApplyReject
  <2>4. CASE ~Head(drained).reply
    <3>1. <<"rejected">> \in Seq(Buckets)
      BY DEF Buckets
    <3>2. closeConn(c, cc, <<"rejected">>)
      BY <1>7, <2>4 DEF ApplyReject
    <3>3. TableStep
      BY <2>2, <3>1, <3>2, CloseConnStep
    <3>4. QED
      BY <1>1, <1>7, <3>3, ApplyInv DEF ApplyReject
  <2>5. QED
    BY <2>3, <2>4
<1>8. CASE ApplyMore
  <2>1. Usable(c)
    BY <1>8 DEF ApplyMore, ApplyTo
  <2> DEFINE k == IF Head(drained).reply THEN "opReplyMore" ELSE "opRecvReq"
  <2>2. k \in DataOps
    BY <1>4
  <2>3. \/ fail(c, Refreshed(c))
        \/ Proceed(c, Refreshed(c), {Op(c, k, Refreshed(c).clientFD)})
    BY <1>8 DEF ApplyMore
  <2> HIDE DEF k
  <2>4. TableStep
    BY <1>6, <2>1, <2>2, <2>3, FailStep, ProceedOne
  <2>5. QED
    BY <1>1, <1>8, <2>4, ApplyInv DEF ApplyMore
<1>9. CASE ApplyRelay
  <2> DEFINE cc == [Refreshed(c) EXCEPT !.upstreamFD = Head(drained).fd]
  <2>1. Usable(c)
    BY <1>9 DEF ApplyRelay, ApplyTo
  <2>2. c \in conns /\ cc \in Conn /\ cc.clientFD \in 0..MaxFD
    BY <1>6, <2>1
  <2>3. \/ Proceed(c, cc, {Op(c, "opReplyClient", cc.clientFD)})
        \/ forwardInit(c, cc)
    BY <1>9 DEF ApplyRelay
  <2> HIDE DEF cc
  <2>4. TableStep
    BY <1>4, <2>2, <2>3, ForwardInitStep, ProceedOne
  <2>5. QED
    BY <1>1, <1>9, <2>4, ApplyInv DEF ApplyRelay
<1>10. QED
  BY <1>5, <1>7, <1>8, <1>9 DEF ApplyResult

-----------------------------------------------------------------------------
(* The steps that move the cap's two terms.                                *)

(* Handling a completed accept takes one from acceptInflight and admits at *)
(* most one connection; there is room for it.                              *)
LEMMA AcceptInv ==
  ASSUME Inv, NEW o \in batch, OnAccept(o) PROVE Inv'
<1>1. Harvest(o) /\ o.op = "opAccept" /\ acceptInflight' = acceptInflight - 1
  BY DEF OnAccept
<1>2. o \in AcceptsDone /\ o \notin kops
  BY <1>1 DEF AcceptsDone, Inv, AcceptsCounted
<1>3. kops' = kops /\ batch' = batch \ {o}
  BY DEF OnAccept, Harvest
<1>4. AcceptsDone' = AcceptsDone \ {o}
  BY <1>2, <1>3 DEF AcceptsDone
<1>5. /\ IsFiniteSet(AcceptsDone')
      /\ Cardinality(AcceptsDone') = Cardinality(AcceptsDone) - 1
  BY <1>2, <1>4, FS_RemoveElement DEF Inv, AcceptsCounted
<1>6. acceptInflight' \in Nat /\ Cardinality(AcceptsDone') <= acceptInflight'
  <2>1. Cardinality(AcceptsDone') \in Nat
    BY <1>5, FS_CardinalityType
  <2>2. QED
    BY <1>1, <1>5, <2>1, AcceptsFinite DEF Inv, TypeOK, AcceptsCounted
<1>7. \A p \in batch' : p.op = "opAccept" => p \notin kops'
  BY <1>3 DEF Inv, AcceptsCounted
<1>8. Cardinality(conns) < MaxConns
  BY <1>1, <1>6, ConnsFinite DEF Inv, TypeOK, ConnCap
<1>9. CASE o.fd = NoFD
  <2>1. UNCHANGED <<nextID, conns, conn, sq, live>>
    BY <1>9 DEF OnAccept
  <2>2. Accepted' = Accepted
    BY <1>4, <1>9 DEF Accepted
  <2>3. TypeOK'
    BY <1>3, <1>6, <2>1 DEF OnAccept, Inv, TypeOK, hookVars, tableVars
  <2>4. ConnCap'
    BY <1>1, <2>1, ConnsFinite DEF Inv, TypeOK, ConnCap
  <2>5. AcceptsCounted'
    BY <1>5, <1>6, <1>7, <2>1, <2>2 DEF Inv, AcceptsCounted
  <2>6. QED
    BY <2>3, <2>4, <2>5 DEF Inv
<1>10. CASE o.fd # NoFD
  <2> DEFINE n == nextID + 1
  <2>1. /\ nextID' = n
        /\ conns' = conns \cup {n}
        /\ conn' = [conn EXCEPT ![n] = NewConn(o.fd)]
        /\ live' = live + 1
        /\ sq' = sq \cup {Op(n, "opRecvReq", o.fd)}
    BY <1>8, <1>10, ConnsFinite DEF OnAccept
  <2>2. o \in Accepted
    BY <1>2, <1>10 DEF Accepted
  <2>3. Accepted' = Accepted \ {o}
    BY <1>4 DEF Accepted
  <2>4. Cardinality(Accepted') = Cardinality(Accepted) - 1
    BY <2>2, <2>3, AcceptsFinite, FS_RemoveElement
  <2>5. Cardinality(Accepted') \in Nat
    BY <2>3, AcceptsFinite, FS_Subset, FS_CardinalityType
  <2>6. n \in Ids /\ nextID' + Cardinality(Accepted') <= MaxId
    <3>1. nextID \in Nat /\ MaxId \in Nat /\ nextID + Cardinality(Accepted) <= MaxId
      BY DEF Inv, TypeOK, AcceptsCounted
    <3>2. Cardinality(Accepted) \in Nat
      BY AcceptsFinite
    <3>3. QED
      BY <2>1, <2>4, <2>5, <3>1, <3>2 DEF Ids
  <2>7. n \notin conns
    BY DEF Inv, TypeOK
  <2>8. Cardinality(conns') = Cardinality(conns) + 1
    BY <2>1, <2>7, ConnsFinite, FS_AddElement
  <2>9. ConnCap'
    BY <1>1, <2>8, ConnsFinite DEF Inv, TypeOK, ConnCap
  <2>10. o.fd \in 0..MaxFD
    BY DEF Inv, TypeOK, Ops
  <2>11. NewConn(o.fd) \in Conn
    BY <2>10 DEF NewConn, Conn, NoFD
  <2>12. Op(n, "opRecvReq", o.fd) \in Ops /\ Op(n, "opRecvReq", o.fd).op # "opAccept"
    BY <2>6, <2>10 DEF Op, Ops, OpTypes, DataOps, PreRelayOps, Ids
  <2>13. sq' \subseteq Ops /\ \A p \in sq' : p.op # "opAccept"
    BY <2>1, <2>12 DEF Inv, TypeOK, AcceptsCounted
  <2>14. nextID' \in 0..MaxId /\ conns' \subseteq 1..nextID'
    BY <2>1, <2>6 DEF Inv, TypeOK, Ids
  <2>15. conn' \in [Ids -> Conn] /\ live' \in Int
    BY <2>1, <2>6, <2>11 DEF Inv, TypeOK
  <2>16. TypeOK'
    BY <1>3, <1>6, <2>13, <2>14, <2>15 DEF OnAccept, Inv, TypeOK, hookVars, tableVars
  <2>17. AcceptsCounted'
    BY <1>5, <1>6, <1>7, <2>6, <2>13 DEF AcceptsCounted
  <2>18. QED
    BY <2>9, <2>16, <2>17 DEF Inv
<1>11. QED
  BY <1>9, <1>10

(* The top-up fills the room that is left and no more. *)
LEMMA TopUpBound ==
  ASSUME Inv
  PROVE  /\ TopUp \in Nat /\ acceptInflight <= TopUp
         /\ Cardinality(conns) + TopUp <= MaxConns
<1>1. acceptInflight \in Nat /\ Cardinality(conns) \in Nat
      /\ Cardinality(conns) + acceptInflight <= MaxConns
  BY ConnsFinite DEF Inv, TypeOK, ConnCap
<1>2. QED
  BY <1>1 DEF TopUp

(* The end of a turn tops up the accepts and submits, or fails to submit. *)
LEMMA TurnInv ==
  ASSUME Inv, Turn \/ SubmitFails PROVE Inv'
<1>1. /\ acceptInflight' \in Nat /\ acceptInflight <= acceptInflight'
      /\ Cardinality(conns) + acceptInflight' <= MaxConns
  BY TopUpBound DEF Turn, SubmitFails, EndOfTurn, Inv, TypeOK, ConnCap
<1>2. UNCHANGED <<nextID, conns, conn, batch>>
  BY DEF Turn, SubmitFails, EndOfTurn, tableVars
<1>3. TypeOK'
  BY <1>1, <1>2 DEF Turn, SubmitFails, EndOfTurn, BatchHandled, hookVars, tableVars, Inv, TypeOK
<1>4. ConnCap'
  BY <1>1, <1>2 DEF ConnCap
<1>5. AcceptsDone' = AcceptsDone
  BY <1>2 DEF Turn, SubmitFails, EndOfTurn, tableVars, AcceptsDone, Inv, AcceptsCounted
<1>6. Accepted' = Accepted
  BY <1>5 DEF Accepted
<1>7. /\ \A p \in batch' : p.op = "opAccept" => p \notin kops'
      /\ \A p \in sq' : p.op # "opAccept"
  BY DEF Turn, SubmitFails, EndOfTurn, BatchHandled, tableVars, Inv, AcceptsCounted
<1>8. Cardinality(AcceptsDone') <= acceptInflight'
  BY <1>1, <1>5, AcceptsFinite DEF Inv, TypeOK, AcceptsCounted
<1>9. AcceptsCounted'
  BY <1>2, <1>5, <1>6, <1>7, <1>8 DEF Inv, AcceptsCounted
<1>10. QED
  BY <1>3, <1>4, <1>9 DEF Inv

(* The drained worker forgets its operations. *)
LEMMA ExitInv ==
  ASSUME Inv, Exit PROVE Inv'
<1>1. AcceptsDone' \subseteq AcceptsDone
  BY DEF Exit, AcceptsDone
<1>2. ConnCap' /\ AcceptsCounted'
  BY <1>1, FewerAccepts, FewerConns DEF Exit
<1>3. TypeOK'
  BY DEF Exit, BatchHandled, hookVars, tableVars, Inv, TypeOK
<1>4. QED
  BY <1>2, <1>3 DEF Inv

(* Harvesting moves completions from the kernel into the batch. *)
LEMMA WakeInv ==
  ASSUME Inv, NEW B, Wake(B) PROVE Inv'
<1>1. B \subseteq kops /\ kops' = kops \ B /\ batch' = B
  BY DEF Wake, Completable
<1>2. AcceptsDone' \subseteq AcceptsDone
  BY <1>1 DEF AcceptsDone
<1>3. \A p \in batch' : p.op = "opAccept" => p \notin kops'
  BY <1>1
<1>4. ConnCap' /\ AcceptsCounted'
  BY <1>2, <1>3, FewerAccepts, FewerConns DEF Wake, tableVars, Inv, AcceptsCounted
<1>5. TypeOK'
  BY <1>1 DEF Wake, hookVars, tableVars, Inv, TypeOK
<1>6. QED
  BY <1>4, <1>5 DEF Inv

(* An accept completes only while acceptInflight covers it. *)
LEMMA KernelInv ==
  ASSUME Inv, Kernel PROVE Inv'
<1>1. PICK f \in 0..MaxFD : KernelAccept(f)
  BY DEF Kernel
<1> DEFINE a == Op(0, "opAccept", f)
<1>2. a \in Ops /\ a.op = "opAccept" /\ a.fd = f
  BY DEF Op, Ops, OpTypes
<1>3. AcceptsDone' = AcceptsDone \cup {a} /\ a \notin AcceptsDone
  BY <1>1, <1>2 DEF KernelAccept, AcceptsDone
<1> HIDE DEF a
<1>4. /\ IsFiniteSet(AcceptsDone')
      /\ Cardinality(AcceptsDone') = Cardinality(AcceptsDone) + 1
  BY <1>3, FS_AddElement DEF Inv, AcceptsCounted
<1>5. Cardinality(AcceptsDone') <= acceptInflight'
  BY <1>1, <1>4, AcceptsFinite DEF KernelAccept, Inv, TypeOK
<1>6. nextID' + Cardinality(Accepted') <= MaxId
  <2>1. CASE f = NoFD
    <3>1. Accepted' = Accepted
      BY <1>2, <1>3, <2>1 DEF Accepted
    <3>2. QED
      BY <1>1, <3>1 DEF KernelAccept, Inv, AcceptsCounted
  <2>2. CASE f # NoFD
    <3>1. Accepted' = Accepted \cup {a} /\ a \notin Accepted
      BY <1>2, <1>3, <2>2 DEF Accepted
    <3>2. Cardinality(Accepted') = Cardinality(Accepted) + 1
      BY <3>1, AcceptsFinite, FS_AddElement
    <3>3. QED
      BY <1>1, <2>2, <3>2, AcceptsFinite DEF KernelAccept, Inv, TypeOK
  <2>3. QED
    BY <2>1, <2>2
<1>7. \A p \in batch' : p.op = "opAccept" => p \notin kops'
  BY <1>1 DEF a, KernelAccept, Inv, AcceptsCounted
<1>8. AcceptsCounted'
  BY <1>1, <1>4, <1>5, <1>6, <1>7 DEF KernelAccept, tableVars, Inv, AcceptsCounted
<1>9. TypeOK' /\ ConnCap'
  <2>1. openFDs' \subseteq FDs
    BY <1>1 DEF KernelAccept, FDs, NoFD, Inv, TypeOK
  <2>2. QED
    BY <1>1, <1>2, <2>1
    DEF a, KernelAccept, hookVars, tableVars, Inv, TypeOK, ConnCap
<1>10. QED
  BY <1>8, <1>9 DEF Inv

(* Hooks move jobs to results; the table and the accepts are not theirs. *)
LEMMA HookInv ==
  ASSUME Inv, Hook PROVE Inv'
<1>1. QuietStep /\ UNCHANGED <<phase, stop, tick, blockedOn, drained>>
  BY DEF Hook, HookTake, HookReturn, tableVars, QuietStep, TableStep, ringVars, Inv,
         TypeOK, AcceptsCounted
<1>2. CASE HookTake
  <2>1. Head(jobs) \in Job /\ Tail(jobs) \in Seq(Job)
    BY <1>2 DEF HookTake, Inv, TypeOK
  <2>2. [id |-> Head(jobs).id, peer |-> PeerOf(Head(jobs))] \in HookCall
    BY <2>1 DEF Job, HookCall, PeerOf
  <2>3. QED
    BY <1>1, <1>2, <2>1, <2>2, QuietInv DEF HookTake, Inv, TypeOK
<1>3. ASSUME NEW h \in running, NEW d \in Decisions, NEW f \in 0..MaxFD,
             HookReturn(h, d, f)
      PROVE  Inv'
  <2>1. h.id \in Ids
    BY DEF HookCall, Inv, TypeOK
  <2>2. d.kind \in Kinds /\ d.reply \in BOOLEAN
    OBVIOUS
  <2>3. [id |-> h.id, kind |-> d.kind, reply |-> d.reply, fd |-> f] \in Result
    BY <2>1, <2>2 DEF Result
  <2>4. ready' \in Seq(Result) /\ jobs' = jobs /\ running' \subseteq running
    BY <1>3, <2>3 DEF HookReturn, Inv, TypeOK
  <2>5. openFDs' \subseteq FDs
    BY <1>3 DEF HookReturn, LowestFree, FreeFDs, FDs, NoFD, Inv, TypeOK
  <2>6. QED
    BY <1>1, <2>4, <2>5, QuietInv DEF Inv, TypeOK
<1>4. QED
  BY <1>2, <1>3 DEF Hook

(* The blocked send on jobs touches neither table nor accepts. *)
LEMMA UnblockInv ==
  ASSUME Inv, Unblock PROVE Inv'
<1>1. blockedOn \in Ids
  BY DEF Unblock, Inv, TypeOK
<1>2. conn[blockedOn] \in Conn
  BY <1>1 DEF Inv, TypeOK
<1>3. [id |-> blockedOn, fd |-> conn[blockedOn].clientFD] \in Job
  BY <1>1, <1>2 DEF Job, Conn
<1>4. jobs' \in Seq(Job)
  BY <1>3 DEF Unblock, Inv, TypeOK
<1>5. TypeOK'
  BY <1>4 DEF Unblock, tableVars, Inv, TypeOK
<1>6. QuietStep
  BY DEF Unblock, tableVars, QuietStep, TableStep, Inv, TypeOK, AcceptsCounted
<1>7. QED
  BY <1>5, <1>6, QuietStepCounts DEF Inv

(* Stop only sets the flag. *)
LEMMA StopInv ==
  ASSUME Inv, Stop PROVE Inv'
<1>1. QuietStep
  BY DEF Stop, tableVars, QuietStep, TableStep, Inv, TypeOK, AcceptsCounted
<1>2. TypeOK'
  BY DEF Stop, hookVars, tableVars, Inv, TypeOK
<1>3. QED
  BY <1>1, <1>2, QuietStepCounts DEF Inv

-----------------------------------------------------------------------------
(* A fresh worker has no connection and no accept in flight. *)
LEMMA InitInv == Init => Inv
<1> SUFFICES ASSUME Init PROVE Inv
  OBVIOUS
<1>1. conns = {} /\ AcceptsDone = {} /\ Accepted = {}
  BY DEF Init, AcceptsDone, Accepted, EventfdOp, TimeoutOp, Op
<1>2. Cardinality(conns) = 0 /\ Cardinality(AcceptsDone) = 0
      /\ Cardinality(Accepted) = 0 /\ IsFiniteSet(AcceptsDone)
  BY <1>1, FS_EmptySet
<1>3. EventfdOp \in Ops /\ TimeoutOp \in Ops
      /\ EventfdOp.op # "opAccept" /\ TimeoutOp.op # "opAccept"
  BY DEF EventfdOp, TimeoutOp, Op, Ops, OpTypes, NoFD
<1>4. NoConn \in Conn
  BY DEF NoConn, NewConn, Conn, NoFD
<1>5. TypeOK
  <2>1. conn \in [Ids -> Conn] /\ charge \in [Ids -> Seq(Buckets)]
    BY <1>4 DEF Init
  <2>2. sq \subseteq Ops /\ kops \subseteq Ops /\ batch \subseteq Ops
    BY <1>3 DEF Init
  <2>3. nextID \in 0..MaxId /\ tick \in 0..(SweepEvery - 1)
    BY DEF Init
  <2>4. /\ drained \in Seq(Result) /\ jobs \in Seq(Job)
        /\ ready \in Seq(Result) /\ running \subseteq HookCall
    BY DEF Init
  <2>5. /\ phase \in {"wait", "failed"} /\ blockedOn = 0 /\ acceptInflight \in Nat
        /\ live \in Int /\ conns = {} /\ openFDs = {}
    BY DEF Init
  <2>6. stop \in BOOLEAN
    BY Zenon DEF Init
  <2>7. QED
    BY <2>1, <2>2, <2>3, <2>4, <2>5, <2>6 DEF TypeOK
<1>6. ConnCap /\ AcceptsCounted
  BY <1>2, <1>3 DEF Init, ConnCap, AcceptsCounted
<1>7. QED
  BY <1>5, <1>6 DEF Inv

(* Every step of the kernel, the hooks, Stop and the worker keeps Inv. *)
LEMMA NextInv == Inv /\ [Next]_vars => Inv'
<1> SUFFICES ASSUME Inv, [Next]_vars PROVE Inv'
  OBVIOUS
<1>1. CASE Kernel
  BY <1>1, KernelInv
<1>2. CASE Hook
  BY <1>2, HookInv
<1>3. CASE Stop
  BY <1>3, StopInv
<1>4. CASE Waking
  BY <1>4, WakeInv DEF Waking
<1>5. ASSUME NEW o \in batch, Handle(o) PROVE Inv'
  BY <1>5, AcceptInv, CloseInv, TimeoutInv, EventfdInv, StaleInv, FailureInv,
     PartialSendInv, HandshakeInv, RelayInv
  DEF Handle
<1>6. CASE ApplyResult \/ Unblock
  BY <1>6, ApplyResultInv, UnblockInv
<1>7. CASE Turn \/ SubmitFails
  BY <1>7, TurnInv
<1>8. CASE Exit
  BY <1>8, ExitInv
<1>9. CASE UNCHANGED vars
  BY <1>9 DEF vars, Inv, TypeOK, ConnCap, AcceptsCounted, AcceptsDone, Accepted
<1>10. QED
  BY <1>1, <1>2, <1>3, <1>4, <1>5, <1>6, <1>7, <1>8, <1>9
  DEF Next, RingThread, Terminated

(* The inductive invariant holds in every behaviour of the worker. *)
THEOREM InvHolds == SafeSpec => []Inv
<1>1. QED
  BY InitInv, NextInv, PTL DEF SafeSpec

(* Type correctness of the worker's state. *)
THEOREM WorkerTypeOK == SafeSpec => []TypeOK
<1>1. Inv => TypeOK
  BY DEF Inv
<1>2. QED
  BY <1>1, InvHolds, PTL

(* The connection table and the accepts in flight never exceed MaxConns,   *)
(* for any configuration, any hooks and any order of completions.          *)
THEOREM WorkerConnCap == SafeSpec => []ConnCap
<1>1. Inv => ConnCap
  BY DEF Inv
<1>2. QED
  BY <1>1, InvHolds, PTL

(* The shed branch of opAccept is dead: a completed accept finds fewer     *)
(* than MaxConns connections, so Stats.Shed stays 0 at the cap (see        *)
(* RoomForAccepted for what the documents say instead).                    *)
THEOREM WorkerNeverSheds == SafeSpec => []RoomForAccepted
<1>1. Inv => RoomForAccepted
  <2> SUFFICES ASSUME Inv, Accepted # {} PROVE Cardinality(conns) < MaxConns
    BY DEF RoomForAccepted
  <2>1. Cardinality(Accepted) # 0
    BY AcceptsFinite, FS_EmptySet
  <2>2. acceptInflight >= 1
    BY <2>1, AcceptsFinite DEF Inv, TypeOK, AcceptsCounted
  <2>3. QED
    BY <2>2, ConnsFinite DEF Inv, TypeOK, ConnCap
<1>2. QED
  BY <1>1, InvHolds, PTL

-----------------------------------------------------------------------------
(***************************************************************************)
(* How the number of elements with some quality changes when a sequence is *)
(* appended to or loses its head, and when a set gains or loses an         *)
(* element.  The quality is a set V of values.  Queues of jobs and results *)
(* and sets of operations are counted this way in the invariants.          *)
(***************************************************************************)
(* Positions of s that hold a member of V, and members of R that are in V. *)
At(s, V) == {i \in DOMAIN s : s[i] \in V}
Occurs(s, V) == Cardinality(At(s, V))
Members(R, V) == Cardinality({x \in R : x \in V})

(* The positions of a sequence are finitely many. *)
LEMMA AtFinite ==
  ASSUME NEW T, NEW s \in Seq(T), NEW V
  PROVE  IsFiniteSet(At(s, V)) /\ Occurs(s, V) \in Nat
<1>1. DOMAIN s = 1..Len(s) /\ Len(s) \in Nat
  OBVIOUS
<1>2. IsFiniteSet(DOMAIN s)
  BY <1>1, FS_Interval
<1>3. At(s, V) \in SUBSET DOMAIN s
  BY DEF At
<1>4. IsFiniteSet(At(s, V))
  BY <1>2, <1>3, FS_Subset
<1>5. QED
  BY <1>4, FS_CardinalityType DEF Occurs

(* An empty sequence holds nothing. *)
LEMMA OccursEmpty ==
  ASSUME NEW V PROVE Occurs(<<>>, V) = 0
<1>1. At(<<>>, V) = {}
  BY DEF At
<1>2. QED
  BY <1>1, FS_EmptySet DEF Occurs

(* Appending counts the new element. *)
LEMMA OccursAppend ==
  ASSUME NEW T, NEW s \in Seq(T), NEW x \in T, NEW V
  PROVE  Occurs(Append(s, x), V) = Occurs(s, V) + (IF x \in V THEN 1 ELSE 0)
<1> DEFINE n == Len(s) + 1
           a == Append(s, x)
<1>1. /\ DOMAIN s = 1..Len(s) /\ Len(s) \in Nat
      /\ DOMAIN a = 1..n
      /\ a[n] = x
      /\ \A i \in 1..Len(s) : a[i] = s[i]
  OBVIOUS
<1>2. At(a, V) = IF x \in V THEN At(s, V) \cup {n} ELSE At(s, V)
  <2>1. ASSUME NEW i \in 1..n
        PROVE  i \in DOMAIN s \/ i = n
    BY <1>1
  <2>2. QED
    BY <1>1, <2>1 DEF At
<1>3. n \notin At(s, V)
  BY <1>1 DEF At
<1>4. IsFiniteSet(At(s, V)) /\ Occurs(s, V) \in Nat
  BY AtFinite
<1>5. Cardinality(At(s, V) \cup {n}) = Cardinality(At(s, V)) + 1
  BY <1>3, <1>4, FS_AddElement
<1> HIDE DEF n, a
<1>6. CASE x \in V
  BY <1>2, <1>5, <1>6 DEF Occurs, a
<1>7. CASE x \notin V
  BY <1>2, <1>4, <1>7 DEF Occurs, a
<1>8. QED
  BY <1>6, <1>7

(* Losing the head discounts it. *)
LEMMA OccursTail ==
  ASSUME NEW T, NEW s \in Seq(T), s # <<>>, NEW V
  PROVE  Occurs(Tail(s), V) = Occurs(s, V) - (IF Head(s) \in V THEN 1 ELSE 0)
<1> DEFINE t == Tail(s)
           f == [i \in At(t, V) |-> i + 1]
<1>1. /\ Len(s) \in Nat \ {0} /\ DOMAIN s = 1..Len(s)
      /\ t \in Seq(T) /\ DOMAIN t = 1..(Len(s) - 1)
      /\ \A i \in 1..(Len(s) - 1) : t[i] = s[i + 1]
      /\ Head(s) = s[1]
  OBVIOUS
<1>2. f \in Bijection(At(t, V), At(s, V) \ {1})
  <2>1. f \in [At(t, V) -> At(s, V) \ {1}]
    BY <1>1 DEF At
  <2>2. \A i, j \in At(t, V) : f[i] = f[j] => i = j
    BY <1>1 DEF At
  <2>3. \A k \in At(s, V) \ {1} : \E i \in At(t, V) : f[i] = k
    <3>1. SUFFICES ASSUME NEW k \in At(s, V) \ {1}
                   PROVE  k - 1 \in At(t, V) /\ f[k - 1] = k
      OBVIOUS
    <3>2. k \in 2..Len(s) /\ s[k] \in V
      BY <1>1 DEF At
    <3>3. k - 1 \in At(t, V)
      BY <1>1, <3>2 DEF At
    <3>4. QED
      BY <3>2, <3>3
  <2>4. QED
    BY <2>1, <2>2, <2>3 DEF Bijection, Injection, Surjection, IsInjective
<1>3. IsFiniteSet(At(t, V)) /\ IsFiniteSet(At(s, V)) /\ Occurs(s, V) \in Nat
  BY <1>1, AtFinite
<1>4. Cardinality(At(s, V) \ {1}) = Occurs(t, V)
  BY <1>2, <1>3, FS_Bijection DEF ExistsBijection, Occurs
<1>5. 1 \in At(s, V) <=> Head(s) \in V
  BY <1>1 DEF At
<1>6. Cardinality(At(s, V) \ {1}) =
        IF 1 \in At(s, V) THEN Cardinality(At(s, V)) - 1 ELSE Cardinality(At(s, V))
  BY <1>3, FS_RemoveElement
<1> HIDE DEF t, f
<1>7. CASE Head(s) \in V
  BY <1>4, <1>5, <1>6, <1>7 DEF Occurs, t
<1>8. CASE Head(s) \notin V
  BY <1>3, <1>4, <1>5, <1>6, <1>8 DEF Occurs, t
<1>9. QED
  BY <1>7, <1>8

(* A member of a finite set that goes, or comes, is one fewer or one more. *)
LEMMA MembersChange ==
  ASSUME NEW R, IsFiniteSet(R), NEW x, NEW V
  PROVE  /\ Members(R, V) \in Nat
         /\ Members(R \ {x}, V) =
              Members(R, V) - (IF x \in R /\ x \in V THEN 1 ELSE 0)
         /\ Members(R \cup {x}, V) =
              Members(R, V) + (IF x \notin R /\ x \in V THEN 1 ELSE 0)
<1> DEFINE M == {y \in R : y \in V}
<1>1. IsFiniteSet(M) /\ Cardinality(M) \in Nat
  BY FS_Subset, FS_CardinalityType
<1>2. {y \in R \ {x} : y \in V} = M \ {x}
  OBVIOUS
<1>3. {y \in R \cup {x} : y \in V} = IF x \in V THEN M \cup {x} ELSE M
  OBVIOUS
<1>4. x \in M <=> x \in R /\ x \in V
  OBVIOUS
<1>5. Members(R, V) = Cardinality(M)
      /\ Members(R \ {x}, V) = Cardinality(M \ {x})
      /\ Members(R \cup {x}, V) = Cardinality(IF x \in V THEN M \cup {x} ELSE M)
  BY <1>2, <1>3 DEF Members
<1> HIDE DEF M
<1>6. Cardinality(M \ {x}) = IF x \in M THEN Cardinality(M) - 1 ELSE Cardinality(M)
  BY <1>1, FS_RemoveElement
<1>7. Cardinality(M \cup {x}) = IF x \in M THEN Cardinality(M) ELSE Cardinality(M) + 1
  BY <1>1, FS_AddElement
<1>8. CASE x \in V
  BY <1>1, <1>4, <1>5, <1>6, <1>7, <1>8
<1>9. CASE x \notin V
  BY <1>1, <1>4, <1>5, <1>6, <1>9
<1>10. QED
  BY <1>8, <1>9

(* Nothing is counted exactly when nothing is there. *)
LEMMA MembersNone ==
  ASSUME NEW R, IsFiniteSet(R), NEW V
  PROVE  Members(R, V) = 0 <=> \A x \in R : x \notin V
<1>1. IsFiniteSet({x \in R : x \in V})
  BY FS_Subset
<1>2. QED
  BY <1>1, FS_EmptySet DEF Members

-----------------------------------------------------------------------------
(* Operations that belong to a connection. *)
WorkOps == DataOps \cup {"opClose"}

(* The number of operations of kind K, hook calls and results of c. *)
OpsIn(R, c, K) == Cardinality({o \in R : o.id = c /\ o.op \in K})
IdsIn(s, c) == Cardinality({i \in DOMAIN s : s[i].id = c})
CallsIn(H, c) == Cardinality({h \in H : h.id = c})

Expect(b) == IF b THEN 1 ELSE 0

(* Charged once, or rejected and then swept. *)
Final(b) ==
  \/ \E x \in Buckets : b = <<x>>
  \/ IdleTicks > 0 /\ b = <<"rejected", "idle">>

(* Nothing is prepared or harvested while the worker waits. *)
WaitsIdle == phase = "wait" => batch = {} /\ sq = {} /\ drained = <<>>

(* A harvested operation is not in flight. *)
Apart == \A o \in batch : o.op \in WorkOps => o \notin sq \cup kops

(* Operations and hook calls belong to connections that were admitted. *)
OpsIssued == \A o \in InRing : o.op \in WorkOps => o.id \in 1..nextID
HooksIssued == \A c \in Ids : c > nextID => HookCalls(c) = 0

(* An open connection: what it waits for and what it is charged to. *)
Open(c) ==
  /\ conn[c].clientFD # NoFD
  /\ conn[c].relayStarted \/ ~(conn[c].clientReadDone \/ conn[c].upstreamReadDone)
  /\ OpsOf(c, PreRelayOps) + HookCalls(c) = Expect(~conn[c].relayStarted)
  /\ OpsOf(c, C2UOps) = Expect(conn[c].relayStarted /\ ~conn[c].clientReadDone)
  /\ OpsOf(c, U2COps) = Expect(conn[c].relayStarted /\ ~conn[c].upstreamReadDone)
  /\ OpsOf(c, {"opClose"}) = 0
  /\ OpsOf(c, {"opRejectSend"}) = Expect(conn[c].counted)
  /\ charge[c] = IF conn[c].counted THEN <<"rejected">> ELSE <<>>

(* A connection that is being torn down: it is charged, or it relayed both *)
(* directions to their end and will be charged to Completed.               *)
Torn(c) ==
  IF conn[c].counted
    THEN Final(charge[c])
    ELSE charge[c] = <<>> /\ conn[c].relayStarted /\ OpsOf(c, DataOps) = 0

Entry(c) == IF conn[c].closing THEN Torn(c) ELSE Open(c)

Entries == \A c \in conns : Entry(c)

(* Nothing is charged to a connection to come, one bucket to a gone one. *)
Charges ==
  \A c \in Ids : /\ c > nextID => charge[c] = <<>>
                 /\ c <= nextID /\ c \notin conns => Final(charge[c])

(* Only the idle sweep ends a connection while its hook is called. *)
SweptAway(c) == IdleTicks > 0 /\ Swept(c)

HooksLive == \A c \in Ids : HookCalls(c) > 0 => Usable(c) \/ SweptAway(c)

(* The connection whose job does not fit into the channel is open. *)
BlockedLive == phase = "blocked" => Usable(blockedOn)

Work ==
  /\ WaitsIdle /\ Apart /\ OpsIssued /\ HooksIssued
  /\ Entries /\ Charges /\ LiveCount
  /\ HooksLive /\ BlockedLive

-----------------------------------------------------------------------------
(* Counting operations and hook calls.                                     *)

(* There are finitely many operations and hook calls. *)
LEMMA FiniteKinds == IsFiniteSet(Ops) /\ IsFiniteSet(HookCall)
<1>1. ASSUME NEW A, IsFiniteSet(A), NEW B, IsFiniteSet(B), NEW C, IsFiniteSet(C)
      PROVE  IsFiniteSet([id : A, op : B, fd : C])
  <2> DEFINE T == [id : A, op : B, fd : C]
             f == [t \in (A \X B) \X C |-> [id |-> t[1][1], op |-> t[1][2], fd |-> t[2]]]
  <2>1. IsFiniteSet((A \X B) \X C)
    BY <1>1, FS_Product
  <2>2. f \in Surjection((A \X B) \X C, T)
    <3>1. f \in [(A \X B) \X C -> T]
      OBVIOUS
    <3>2. ASSUME NEW r \in T PROVE \E t \in (A \X B) \X C : f[t] = r
      <4>1. <<<<r.id, r.op>>, r.fd>> \in (A \X B) \X C
        OBVIOUS
      <4>2. f[<<<<r.id, r.op>>, r.fd>>] = r
        BY <4>1
      <4>3. QED
        BY <4>1, <4>2
    <3>3. QED
      BY <3>1, <3>2 DEF Surjection
  <2>3. QED
    BY <2>1, <2>2, FS_Surjection
<1>2. ASSUME NEW A, IsFiniteSet(A), NEW B, IsFiniteSet(B)
      PROVE  IsFiniteSet([id : A, peer : B])
  <2> DEFINE T == [id : A, peer : B]
             f == [t \in A \X B |-> [id |-> t[1], peer |-> t[2]]]
  <2>1. IsFiniteSet(A \X B)
    BY <1>2, FS_Product
  <2>2. f \in Surjection(A \X B, T)
    <3>1. f \in [A \X B -> T]
      OBVIOUS
    <3>2. ASSUME NEW r \in T PROVE \E t \in A \X B : f[t] = r
      <4>1. <<r.id, r.peer>> \in A \X B
        OBVIOUS
      <4>2. f[<<r.id, r.peer>>] = r
        BY <4>1
      <4>3. QED
        BY <4>1, <4>2
    <3>3. QED
      BY <3>1, <3>2 DEF Surjection
  <2>3. QED
    BY <2>1, <2>2, FS_Surjection
<1>3. IsFiniteSet(0..MaxId) /\ IsFiniteSet(0..MaxFD) /\ IsFiniteSet(1..MaxId)
  BY FS_Interval
<1>4. IsFiniteSet(OpTypes) /\ IsFiniteSet({"own", "other", "none"})
  <2>1. \A x, y, z, u : IsFiniteSet({x, y, z, u})
    <3>1. TAKE x, y, z, u
    <3>2. IsFiniteSet({x} \cup {y}) /\ IsFiniteSet({z} \cup {u})
      BY FS_Singleton, FS_Union
    <3>3. IsFiniteSet(({x} \cup {y}) \cup ({z} \cup {u}))
      BY <3>2, FS_Union
    <3>4. ({x} \cup {y}) \cup ({z} \cup {u}) = {x, y, z, u}
      OBVIOUS
    <3>5. QED
      BY <3>3, <3>4
  <2>2. OpTypes = ({"opRecvReq", "opReplyClient", "opReplyMore", "opSendUp"}
                     \cup {"opRejectSend", "opC2URecv", "opC2USend", "opU2CRecv"})
                  \cup ({"opU2CSend", "opAccept", "opEventfd", "opClose"}
                     \cup {"opTimeout", "opTimeout", "opTimeout", "opTimeout"})
    BY DEF OpTypes, DataOps, PreRelayOps, C2UOps, U2COps
  <2>3. IsFiniteSet(OpTypes)
    BY <2>1, <2>2, FS_Union
  <2>4. {"own", "other", "none"} = {"own", "other", "none", "none"}
    OBVIOUS
  <2>5. QED
    BY <2>1, <2>3, <2>4
<1>5. QED
  BY <1>1, <1>2, <1>3, <1>4 DEF Ops, HookCall, Ids

(* A connection has none, or exactly one, operation of a kind. *)
LEMMA OpsNone ==
  ASSUME NEW R \in SUBSET Ops, NEW c, NEW K
  PROVE  /\ OpsIn(R, c, K) \in Nat
         /\ OpsIn(R, c, K) = 0 <=> \A o \in R : o.id = c => o.op \notin K
<1> DEFINE M == {o \in R : o.id = c /\ o.op \in K}
<1>1. IsFiniteSet(M)
  BY FiniteKinds, FS_Subset
<1>2. Cardinality(M) \in Nat /\ (Cardinality(M) = 0 <=> M = {})
  BY <1>1, FS_CardinalityType, FS_EmptySet
<1>3. QED
  BY <1>2 DEF OpsIn

(* One, when every operation of the kind is the same. *)
LEMMA OpsSole ==
  ASSUME NEW R \in SUBSET Ops, NEW c, NEW K, NEW o \in R, o.id = c, o.op \in K
  PROVE  OpsIn(R, c, K) = 1 <=> \A p \in R : p.id = c /\ p.op \in K => p = o
<1> DEFINE M == {p \in R : p.id = c /\ p.op \in K}
<1>1. IsFiniteSet(M)
  BY FiniteKinds, FS_Subset
<1>2. Cardinality(M) = 1 <=> \E x : M = {x}
  BY <1>1, FS_Singleton
<1>3. (\E x : M = {x}) <=> \A p \in R : p.id = c /\ p.op \in K => p = o
  <2>1. o \in M
    OBVIOUS
  <2>2. ASSUME NEW x, M = {x} PROVE \A p \in R : p.id = c /\ p.op \in K => p = o
    BY <2>1, <2>2
  <2>3. ASSUME \A p \in R : p.id = c /\ p.op \in K => p = o PROVE M = {o}
    BY <2>1, <2>3
  <2>4. QED
    BY <2>2, <2>3
<1>4. QED
  BY <1>2, <1>3 DEF OpsIn

(* The count of a sole operation. *)
LEMMA OpsOne ==
  ASSUME NEW R \in SUBSET Ops, NEW c, NEW K, NEW o \in R, o.id = c, o.op \in K,
         \A p \in R : p.id = c /\ p.op \in K => p = o
  PROVE  OpsIn(R, c, K) = 1
  BY OpsSole

(* More kinds, at least as many operations. *)
LEMMA OpsMore ==
  ASSUME NEW R \in SUBSET Ops, NEW c, NEW K, NEW L, K \subseteq L
  PROVE  OpsIn(R, c, K) <= OpsIn(R, c, L)
<1>1. {o \in R : o.id = c /\ o.op \in K} \subseteq {o \in R : o.id = c /\ o.op \in L}
  OBVIOUS
<1>2. IsFiniteSet({o \in R : o.id = c /\ o.op \in L})
  BY FiniteKinds, FS_Subset
<1>3. QED
  BY <1>1, <1>2, FS_Subset DEF OpsIn

(* Queues of jobs and results, by the id of their elements. *)
LEMMA IdsChange ==
  ASSUME NEW T, NEW s \in Seq(T), NEW c
  PROVE  /\ IdsIn(s, c) \in Nat
         /\ IdsIn(<<>>, c) = 0
         /\ \A x \in T : IdsIn(Append(s, x), c) = IdsIn(s, c) + Expect(x.id = c)
         /\ s # <<>> => IdsIn(Tail(s), c) = IdsIn(s, c) - Expect(Head(s).id = c)
         /\ IdsIn(s, c) = 0 <=> \A i \in DOMAIN s : s[i].id # c
<1> DEFINE V == {x \in T : x.id = c}
<1>1. ASSUME NEW t \in Seq(T) PROVE IdsIn(t, c) = Occurs(t, V)
  <2>1. {i \in DOMAIN t : t[i].id = c} = At(t, V)
    BY DEF At
  <2>2. QED
    BY <2>1 DEF IdsIn, Occurs
<1>2. IdsIn(s, c) \in Nat
  BY <1>1, AtFinite, ZenonT(30)
<1>3. IdsIn(<<>>, c) = 0
  <2>1. {i \in DOMAIN <<>> : <<>>[i].id = c} = {}
    OBVIOUS
  <2>2. QED
    BY <2>1, FS_EmptySet DEF IdsIn
<1>4. ASSUME NEW x \in T
      PROVE  IdsIn(Append(s, x), c) = IdsIn(s, c) + Expect(x.id = c)
  <2>1. Append(s, x) \in Seq(T)
    OBVIOUS
  <2>2. x \in V <=> x.id = c
    OBVIOUS
  <2> HIDE DEF V
  <2>3. IdsIn(Append(s, x), c) = Occurs(Append(s, x), V) /\ IdsIn(s, c) = Occurs(s, V)
    BY <1>1, <2>1
  <2>4. Occurs(Append(s, x), V) = Occurs(s, V) + (IF x \in V THEN 1 ELSE 0)
    BY OccursAppend
  <2>5. QED
    BY <2>2, <2>3, <2>4 DEF Expect
<1>5. ASSUME s # <<>>
      PROVE  IdsIn(Tail(s), c) = IdsIn(s, c) - Expect(Head(s).id = c)
  <2>1. Tail(s) \in Seq(T) /\ Head(s) \in T
    BY <1>5
  <2>2. Head(s) \in V <=> Head(s).id = c
    BY <2>1
  <2> HIDE DEF V
  <2>3. QED
    BY <1>1, <1>5, <2>1, <2>2, OccursTail DEF Expect
<1>6. IdsIn(s, c) = 0 <=> \A i \in DOMAIN s : s[i].id # c
  <2>1. {i \in DOMAIN s : s[i].id = c} = At(s, V)
    BY DEF At
  <2>2. IsFiniteSet(At(s, V))
    BY AtFinite
  <2>3. IdsIn(s, c) = 0 <=> At(s, V) = {}
    BY <2>1, <2>2, FS_EmptySet DEF IdsIn
  <2>4. QED
    BY <2>1, <2>3
<1>7. QED
  BY <1>2, <1>3, <1>4, <1>5, <1>6

(* Running hooks, by their id. *)
LEMMA CallsChange ==
  ASSUME NEW H \in SUBSET HookCall, NEW c, NEW h \in HookCall
  PROVE  /\ CallsIn(H, c) \in Nat
         /\ CallsIn(H \cup {h}, c) = CallsIn(H, c) + Expect(h \notin H /\ h.id = c)
         /\ CallsIn(H \ {h}, c) = CallsIn(H, c) - Expect(h \in H /\ h.id = c)
         /\ CallsIn(H, c) = 0 <=> \A x \in H : x.id # c
<1> DEFINE V == {x \in HookCall : x.id = c}
<1>1. ASSUME NEW G \in SUBSET HookCall PROVE CallsIn(G, c) = Members(G, V)
  <2>1. {x \in G : x.id = c} = {x \in G : x \in V}
    OBVIOUS
  <2>2. QED
    BY <2>1 DEF CallsIn, Members
<1>2. IsFiniteSet(H)
  BY FiniteKinds, FS_Subset
<1>3. h \in V <=> h.id = c
  OBVIOUS
<1>4. \A x \in H : x \in V <=> x.id = c
  OBVIOUS
<1>5. H \cup {h} \in SUBSET HookCall /\ H \ {h} \in SUBSET HookCall
  OBVIOUS
<1> HIDE DEF V
<1>6. /\ CallsIn(H, c) = Members(H, V)
      /\ CallsIn(H \cup {h}, c) = Members(H \cup {h}, V)
      /\ CallsIn(H \ {h}, c) = Members(H \ {h}, V)
  BY <1>1, <1>5
<1>7. /\ Members(H, V) \in Nat
      /\ Members(H \ {h}, V) = Members(H, V) - (IF h \in H /\ h \in V THEN 1 ELSE 0)
      /\ Members(H \cup {h}, V) = Members(H, V) + (IF h \notin H /\ h \in V THEN 1 ELSE 0)
  BY <1>2, MembersChange
<1>8. CallsIn(H, c) = 0 <=> \A x \in H : x.id # c
  BY <1>2, <1>4, <1>6, MembersNone
<1>9. QED
  BY <1>3, <1>6, <1>7, <1>8 DEF Expect

(* A hook starts, *)
LEMMA CallsAdd ==
  ASSUME NEW H \in SUBSET HookCall, NEW c, NEW h \in HookCall
  PROVE  /\ h.id # c \/ h \in H => CallsIn(H \cup {h}, c) = CallsIn(H, c)
         /\ h.id = c /\ h \notin H => CallsIn(H \cup {h}, c) = CallsIn(H, c) + 1
<1>1. CallsIn(H, c) \in Nat
      /\ CallsIn(H \cup {h}, c) = CallsIn(H, c) + Expect(h \notin H /\ h.id = c)
  BY CallsChange
<1>2. QED
  BY <1>1 DEF Expect

(* a hook returns, *)
LEMMA CallsRemove ==
  ASSUME NEW H \in SUBSET HookCall, NEW c, NEW h \in H
  PROVE  CallsIn(H \ {h}, c) = CallsIn(H, c) - (IF h.id = c THEN 1 ELSE 0)
<1>1. h \in HookCall
  OBVIOUS
<1>2. CallsIn(H \ {h}, c) = CallsIn(H, c) - Expect(h \in H /\ h.id = c)
  BY <1>1, CallsChange
<1>3. QED
  BY <1>2 DEF Expect

(* and a connection has no hook in progress. *)
LEMMA CallsNone ==
  ASSUME NEW H \in SUBSET HookCall, NEW c, CallsIn(H, c) = 0, NEW h \in H
  PROVE  h.id # c
<1>1. h \in HookCall
  OBVIOUS
<1>2. QED
  BY <1>1, CallsChange

(* The queues that make up HookCalls. *)
LEMMA HookSum ==
  ASSUME NEW c
  PROVE  /\ HookCalls(c) = IdsIn(jobs, c) + CallsIn(running, c) + IdsIn(ready, c)
                             + IdsIn(drained, c) + Expect(blockedOn = c)
         /\ HookCalls(c)' = IdsIn(jobs', c) + CallsIn(running', c) + IdsIn(ready', c)
                              + IdsIn(drained', c) + Expect(blockedOn' = c)
  BY DEF HookCalls, IdsIn, CallsIn, Expect

(* They are numbers. *)
LEMMA HookNat ==
  ASSUME Inv, NEW c
  PROVE  /\ IdsIn(jobs, c) \in Nat /\ CallsIn(running, c) \in Nat
         /\ IdsIn(ready, c) \in Nat /\ IdsIn(drained, c) \in Nat
         /\ HookCalls(c) \in Nat
<1>1. /\ jobs \in Seq(Job) /\ ready \in Seq(Result) /\ drained \in Seq(Result)
      /\ running \in SUBSET HookCall
  BY DEF Inv, TypeOK
<1>2. IdsIn(jobs, c) \in Nat /\ IdsIn(ready, c) \in Nat /\ IdsIn(drained, c) \in Nat
  BY <1>1, IdsChange
<1>3. CallsIn(running, c) \in Nat
  <2>1. IsFiniteSet({h \in running : h.id = c})
    BY <1>1, FiniteKinds, FS_Subset
  <2>2. QED
    BY <2>1, FS_CardinalityType DEF CallsIn
<1>4. QED
  BY <1>2, <1>3, HookSum DEF Expect

(* The same after the step. *)
LEMMA HookNatNext ==
  ASSUME Inv', NEW c PROVE HookCalls(c)' \in Nat
<1>1. /\ jobs' \in Seq(Job) /\ ready' \in Seq(Result) /\ drained' \in Seq(Result)
      /\ running' \in SUBSET HookCall
  BY DEF Inv, TypeOK
<1>2. IdsIn(jobs', c) \in Nat /\ IdsIn(ready', c) \in Nat /\ IdsIn(drained', c) \in Nat
  BY <1>1, IdsChange
<1>3. CallsIn(running', c) \in Nat
  <2>1. IsFiniteSet({h \in running' : h.id = c})
    BY <1>1, FiniteKinds, FS_Subset
  <2>2. QED
    BY <2>1, FS_CardinalityType DEF CallsIn
<1>4. QED
  BY <1>2, <1>3, HookSum DEF Expect

(* The operations of a connection, as OpsIn sees them. *)
LEMMA RingOps ==
  ASSUME Inv
  PROVE  /\ InRing \in SUBSET Ops
         /\ \A c, K : OpsOf(c, K) = OpsIn(InRing, c, K)
  BY DEF Inv, TypeOK, InRing, OpsOf, OpsIn

(* The same after the step. *)
LEMMA RingOpsNext ==
  ASSUME Inv'
  PROVE  /\ InRing' \in SUBSET Ops
         /\ \A c, K : OpsOf(c, K)' = OpsIn(InRing', c, K)
  BY DEF Inv, TypeOK, InRing, OpsOf, OpsIn

-----------------------------------------------------------------------------
(* What an open connection has, by what it is waiting for.                 *)

(* Before the relay phase a completion is all that it has. *)
LEMMA PreRelaySole ==
  ASSUME Inv, Work, NEW o \in batch, Usable(o.id), o.op \in PreRelayOps
  PROVE  /\ ~conn[o.id].relayStarted
         /\ ~conn[o.id].clientReadDone /\ ~conn[o.id].upstreamReadDone
         /\ HookCalls(o.id) = 0
         /\ \A p \in InRing : p.id = o.id /\ p.op \in WorkOps => p = o
         /\ conn[o.id].counted <=> o.op = "opRejectSend"
<1> DEFINE c == o.id
<1>1. o \in InRing /\ InRing \in SUBSET Ops
  BY RingOps DEF InRing
<1>2. Open(c)
  BY DEF Work, Entries, Entry, Usable
<1> DEFINE n(K) == OpsIn(InRing, c, K)
<1>3. \A K : OpsOf(c, K) = n(K) /\ n(K) \in Nat
  BY <1>1, RingOps, OpsNone
<1>4. n(PreRelayOps) # 0
  BY <1>1, OpsNone
<1>5. HookCalls(c) \in Nat
  BY HookNat
<1>6. conn[c].relayStarted \in BOOLEAN
  BY UsableConn DEF Conn
<1>7. ~conn[c].relayStarted /\ n(PreRelayOps) = 1 /\ HookCalls(c) = 0
  <2>1. n(PreRelayOps) + HookCalls(c) = Expect(~conn[c].relayStarted)
    BY <1>2, <1>3 DEF Open
  <2> HIDE DEF n
  <2>2. QED
    BY <1>3, <1>4, <1>5, <1>6, <2>1 DEF Expect
<1>8. n(C2UOps) = 0 /\ n(U2COps) = 0 /\ n({"opClose"}) = 0
  BY <1>2, <1>3, <1>7 DEF Open, Expect
<1>9. \A p \in InRing : p.id = c /\ p.op \in PreRelayOps => p = o
  BY <1>1, <1>7, OpsSole
<1>10. \A p \in InRing : p.id = c => p.op \notin C2UOps /\ p.op \notin U2COps
                                      /\ p.op \notin {"opClose"}
  BY <1>1, <1>8, OpsNone
<1>11. \A p \in InRing : p.id = c /\ p.op \in WorkOps => p = o
  BY <1>9, <1>10 DEF WorkOps, DataOps
<1>12. conn[c].counted <=> o.op = "opRejectSend"
  <2>1. n({"opRejectSend"}) = Expect(conn[c].counted)
    BY <1>2, <1>3 DEF Open
  <2>2. n({"opRejectSend"}) = 0 <=> o.op # "opRejectSend"
    BY <1>1, <1>11, OpsNone DEF WorkOps, DataOps, PreRelayOps
  <2>3. QED
    BY <2>1, <2>2 DEF Expect
<1>13. QED
  BY <1>2, <1>7, <1>11, <1>12 DEF Open

(* While its hook call is queued, running or returned it has nothing else. *)
LEMMA HookSole ==
  ASSUME Inv, Work, NEW c, Usable(c), HookCalls(c) > 0
  PROVE  /\ ~conn[c].relayStarted
         /\ ~conn[c].clientReadDone /\ ~conn[c].upstreamReadDone
         /\ HookCalls(c) = 1
         /\ \A p \in InRing : p.id = c => p.op \notin WorkOps
         /\ ~conn[c].counted /\ charge[c] = <<>>
<1>1. InRing \in SUBSET Ops
  BY RingOps
<1>2. Open(c)
  BY DEF Work, Entries, Entry, Usable
<1> DEFINE n(K) == OpsIn(InRing, c, K)
<1>3. \A K : OpsOf(c, K) = n(K) /\ n(K) \in Nat
  BY <1>1, RingOps, OpsNone
<1>4. HookCalls(c) \in Nat
  BY HookNat
<1>5. conn[c].relayStarted \in BOOLEAN
  BY UsableConn DEF Conn
<1>6. ~conn[c].relayStarted /\ n(PreRelayOps) = 0 /\ HookCalls(c) = 1
  <2>1. n(PreRelayOps) + HookCalls(c) = Expect(~conn[c].relayStarted)
    BY <1>2, <1>3 DEF Open
  <2>2. n(PreRelayOps) \in Nat
    BY <1>3
  <2> HIDE DEF n
  <2>3. QED
    BY <1>4, <1>5, <2>1, <2>2 DEF Expect
<1>7. n(C2UOps) = 0 /\ n(U2COps) = 0 /\ n({"opClose"}) = 0
  BY <1>2, <1>3, <1>6 DEF Open, Expect
<1>8. \A p \in InRing : p.id = c => /\ p.op \notin PreRelayOps /\ p.op \notin C2UOps
                                    /\ p.op \notin U2COps /\ p.op \notin {"opClose"}
  BY <1>1, <1>6, <1>7, OpsNone
<1>9. \A p \in InRing : p.id = c => p.op \notin WorkOps
  BY <1>8 DEF WorkOps, DataOps
<1>10. ~conn[c].counted
  <2>1. n({"opRejectSend"}) = 0
    BY <1>1, <1>9, OpsNone DEF WorkOps, DataOps, PreRelayOps
  <2>2. QED
    BY <1>2, <1>3, <2>1 DEF Open, Expect
<1>11. QED
  BY <1>2, <1>6, <1>9, <1>10 DEF Open

(* In the relay phase it is the only operation of its direction. *)
LEMMA RelaySole ==
  ASSUME Inv, Work, NEW o \in batch, Usable(o.id), o.op \in C2UOps \cup U2COps
  PROVE  /\ conn[o.id].relayStarted
         /\ o.op \in C2UOps => ~conn[o.id].clientReadDone
         /\ o.op \in U2COps => ~conn[o.id].upstreamReadDone
         /\ HookCalls(o.id) = 0
         /\ ~conn[o.id].counted /\ charge[o.id] = <<>>
         /\ \A p \in InRing : p.id = o.id =>
              /\ p.op \notin PreRelayOps /\ p.op # "opClose"
              /\ p.op \in C2UOps /\ o.op \in C2UOps => p = o
              /\ p.op \in U2COps /\ o.op \in U2COps => p = o
              /\ conn[o.id].clientReadDone => p.op \notin C2UOps
              /\ conn[o.id].upstreamReadDone => p.op \notin U2COps
<1> DEFINE c == o.id
<1>1. o \in InRing /\ InRing \in SUBSET Ops
  BY RingOps DEF InRing
<1>2. Open(c)
  BY DEF Work, Entries, Entry, Usable
<1> DEFINE n(K) == OpsIn(InRing, c, K)
<1>3. \A K : OpsOf(c, K) = n(K) /\ n(K) \in Nat
  BY <1>1, RingOps, OpsNone
<1>4. n(C2UOps) # 0 \/ n(U2COps) # 0
  BY <1>1, OpsNone
<1>5. conn[c].relayStarted
  BY <1>2, <1>3, <1>4 DEF Open, Expect
<1>6. n(PreRelayOps) = 0 /\ HookCalls(c) = 0
  <2>1. n(PreRelayOps) + HookCalls(c) = 0
    BY <1>2, <1>3, <1>5 DEF Open, Expect
  <2>2. n(PreRelayOps) \in Nat /\ HookCalls(c) \in Nat
    BY <1>3, HookNat
  <2> HIDE DEF n
  <2>3. QED
    BY <2>1, <2>2
<1>7. n({"opClose"}) = 0
  BY <1>2, <1>3 DEF Open
<1>8. \A p \in InRing : p.id = c => p.op \notin PreRelayOps /\ p.op \notin {"opClose"}
  BY <1>1, <1>6, <1>7, OpsNone
<1>9. ~conn[c].counted /\ charge[c] = <<>>
  <2>1. n({"opRejectSend"}) = 0
    BY <1>1, <1>8, OpsNone DEF PreRelayOps
  <2>2. QED
    BY <1>2, <1>3, <2>1 DEF Open, Expect
<1>10. ASSUME o.op \in C2UOps
       PROVE  /\ ~conn[c].clientReadDone
              /\ \A p \in InRing : p.id = c /\ p.op \in C2UOps => p = o
  <2>1. n(C2UOps) # 0
    BY <1>1, <1>10, OpsNone
  <2>2. n(C2UOps) = 1 /\ ~conn[c].clientReadDone
    BY <1>2, <1>3, <2>1 DEF Open, Expect
  <2>3. QED
    BY <1>1, <1>10, <2>2, OpsSole
<1>11. ASSUME o.op \in U2COps
       PROVE  /\ ~conn[c].upstreamReadDone
              /\ \A p \in InRing : p.id = c /\ p.op \in U2COps => p = o
  <2>1. n(U2COps) # 0
    BY <1>1, <1>11, OpsNone
  <2>2. n(U2COps) = 1 /\ ~conn[c].upstreamReadDone
    BY <1>2, <1>3, <2>1 DEF Open, Expect
  <2>3. QED
    BY <1>1, <1>11, <2>2, OpsSole
<1>12. /\ conn[c].clientReadDone => n(C2UOps) = 0
       /\ conn[c].upstreamReadDone => n(U2COps) = 0
  BY <1>2, <1>3 DEF Open, Expect
<1>13. \A p \in InRing : p.id = c =>
         /\ conn[c].clientReadDone => p.op \notin C2UOps
         /\ conn[c].upstreamReadDone => p.op \notin U2COps
  BY <1>1, <1>12, OpsNone
<1>14. QED
  BY <1>5, <1>6, <1>8, <1>9, <1>10, <1>11, <1>13

-----------------------------------------------------------------------------
(* Steps that touch one connection.                                        *)

(* Nothing but c is touched: the others keep their entry, their operations *)
(* and their hook calls.                                                   *)
Spares(c) ==
  /\ \A d \in Ids \ {c} :
       /\ d \in conns' <=> d \in conns
       /\ conn'[d] = conn[d]
       /\ charge'[d] = charge[d]
       /\ HookCalls(d)' <= HookCalls(d)
       /\ Usable(d) => HookCalls(d)' = HookCalls(d)
  /\ \A o \in InRing \cup InRing' :
       o.op \in WorkOps /\ o.id # c => (o \in InRing' <=> o \in InRing)

Touches(c) == nextID' = nextID /\ Spares(c)

(* A connection whose operations stay has as many as before. *)
LEMMA SameOps ==
  ASSUME Inv, Inv', NEW d, NEW K, K \subseteq WorkOps,
         \A o \in InRing \cup InRing' :
           o.op \in WorkOps /\ o.id = d => (o \in InRing' <=> o \in InRing)
  PROVE  OpsOf(d, K)' = OpsOf(d, K)
<1>1. {o \in InRing' : o.id = d /\ o.op \in K} = {o \in InRing : o.id = d /\ o.op \in K}
  OBVIOUS
<1>2. QED
  BY <1>1 DEF OpsOf

(* The kinds that are counted are operations of connections. *)
LEMMA KindsAreWork ==
  /\ PreRelayOps \subseteq WorkOps /\ C2UOps \subseteq WorkOps
  /\ U2COps \subseteq WorkOps /\ DataOps \subseteq WorkOps
  /\ {"opClose"} \subseteq WorkOps /\ {"opRejectSend"} \subseteq WorkOps
  BY DEF WorkOps, DataOps, PreRelayOps

(* The entry of a connection that the step does not touch. *)
LEMMA UntouchedEntry ==
  ASSUME Inv, Inv', Work, NEW c, Spares(c), NEW d \in conns, d # c
  PROVE  Entry(d)'
<1>1. d \in Ids
  BY ConnsAreIds
<1>2. conn'[d] = conn[d] /\ charge'[d] = charge[d]
      /\ (Usable(d) => HookCalls(d)' = HookCalls(d))
  BY <1>1 DEF Spares
<1>3. \A K : K \subseteq WorkOps => OpsOf(d, K)' = OpsOf(d, K)
  BY SameOps DEF Spares
<1>4. Entry(d)
  BY DEF Work, Entries
<1>5. CASE conn[d].closing
  <2>1. Torn(d) /\ OpsOf(d, DataOps)' = OpsOf(d, DataOps)
    BY <1>3, <1>4, <1>5, KindsAreWork DEF Entry
  <2>2. QED
    BY <1>2, <1>5, <2>1 DEF Entry, Torn
<1>6. CASE ~conn[d].closing
  <2>1. Open(d) /\ HookCalls(d)' = HookCalls(d)
    BY <1>2, <1>4, <1>6 DEF Entry, Usable
  <2>2. /\ OpsOf(d, PreRelayOps)' = OpsOf(d, PreRelayOps)
        /\ OpsOf(d, C2UOps)' = OpsOf(d, C2UOps)
        /\ OpsOf(d, U2COps)' = OpsOf(d, U2COps)
        /\ OpsOf(d, {"opClose"})' = OpsOf(d, {"opClose"})
        /\ OpsOf(d, {"opRejectSend"})' = OpsOf(d, {"opRejectSend"})
    BY <1>3, KindsAreWork
  <2>3. QED
    BY <1>2, <1>6, <2>1, <2>2 DEF Entry, Open
<1>7. QED
  BY <1>5, <1>6

(* Entries, charges and hooks after a step that touches only c. *)
LEMMA TouchedWork ==
  ASSUME Inv, Inv', Work, NEW c \in 0..nextID, Touches(c),
         c \in conns' => Entry(c)',
         c \in Ids /\ c \notin conns' => Final(charge'[c]),
         c \in Ids /\ HookCalls(c)' > 0 => Usable(c)' \/ SweptAway(c)'
  PROVE  Entries' /\ Charges' /\ HooksLive' /\ HooksIssued'
<1>1. Entries'
  <2>1. SUFFICES ASSUME NEW d \in conns' PROVE Entry(d)'
    BY DEF Entries
  <2>2. d \in Ids
    BY DEF Inv, TypeOK, Ids
  <2>3. CASE d = c
    BY <2>3
  <2>4. CASE d # c
    <3>1. d \in conns
      BY <2>2, <2>4 DEF Touches, Spares
    <3>2. QED
      BY <2>4, <3>1, UntouchedEntry DEF Touches
  <2>5. QED
    BY <2>3, <2>4
<1>2. Charges'
  <2>1. SUFFICES ASSUME NEW d \in Ids
                 PROVE  /\ d > nextID => charge'[d] = <<>>
                        /\ d <= nextID /\ d \notin conns' => Final(charge'[d])
    BY DEF Charges, Touches, Spares, Final
  <2>2. CASE d = c
    BY <2>2 DEF Inv, TypeOK
  <2>3. CASE d # c
    BY <2>3 DEF Touches, Spares, Work, Charges
  <2>4. QED
    BY <2>2, <2>3
<1>3. HooksLive'
  <2>1. SUFFICES ASSUME NEW d \in Ids, HookCalls(d)' > 0
                 PROVE  Usable(d)' \/ SweptAway(d)'
    BY DEF HooksLive
  <2>2. CASE d = c
    BY <2>1, <2>2
  <2>3. CASE d # c
    <3>1. d \in Ids \ {c}
      BY <2>3
    <3>2. HookCalls(d)' <= HookCalls(d)
      BY <3>1 DEF Touches, Spares
    <3>3. HookCalls(d) \in Nat /\ HookCalls(d)' \in Nat
      <4>1. HookCalls(d) \in Nat
        BY HookNat
      <4>2. HookCalls(d)' \in Nat
        BY HookNatNext
      <4>3. QED
        BY <4>1, <4>2
    <3>4. Usable(d) \/ SweptAway(d)
      BY <2>1, <3>2, <3>3 DEF Work, HooksLive
    <3>5. QED
      BY <3>1, <3>4 DEF Usable, SweptAway, Swept, Touches, Spares
  <2>4. QED
    BY <2>2, <2>3
<1>4. HooksIssued'
  <2>1. SUFFICES ASSUME NEW d \in Ids, d > nextID PROVE HookCalls(d)' = 0
    BY DEF HooksIssued, Touches, Spares
  <2>2. d \in Ids \ {c}
    BY <2>1 DEF Inv, TypeOK
  <2>3. HookCalls(d)' <= HookCalls(d) /\ HookCalls(d) = 0
    BY <2>1, <2>2 DEF Touches, Spares, Work, HooksIssued
  <2>4. HookCalls(d)' \in Nat
    BY HookNatNext
  <2>5. QED
    BY <2>3, <2>4
<1>5. QED
  BY <1>1, <1>2, <1>3, <1>4

(* live after a step that opens and closes nothing, *)
LEMMA LiveKept ==
  ASSUME LiveCount, conns' = conns, live' = live,
         \A d \in conns : conn'[d].closing = conn[d].closing
  PROVE  LiveCount'
<1>1. {d \in conns' : ~conn'[d].closing} = {d \in conns : ~conn[d].closing}
  OBVIOUS
<1>2. QED
  BY <1>1 DEF LiveCount

(* and after one that starts the teardown of c. *)
LEMMA LiveFalls ==
  ASSUME Inv, LiveCount, NEW c, Usable(c), conns' = conns, live' = live - 1,
         conn'[c].closing,
         \A d \in conns \ {c} : conn'[d].closing = conn[d].closing
  PROVE  LiveCount'
<1> DEFINE U == {d \in conns : ~conn[d].closing}
<1>1. c \in U
  BY DEF Usable
<1>2. {d \in conns' : ~conn'[d].closing} = U \ {c}
  OBVIOUS
<1>3. IsFiniteSet(U)
  BY ConnsFinite, FS_Subset
<1>4. Cardinality(U \ {c}) = Cardinality(U) - 1
  BY <1>1, <1>3, FS_RemoveElement
<1>5. live = Cardinality(U)
  BY DEF LiveCount
<1> HIDE DEF U
<1>6. QED
  BY <1>2, <1>4, <1>5 DEF LiveCount

-----------------------------------------------------------------------------
(* Handlers: a step of the ring thread on behalf of connection c that      *)
(* takes the completions X from the batch.                                 *)

OnBehalf(c, X) ==
  /\ phase = "batch" /\ phase' # "wait"
  /\ X \subseteq batch /\ batch' = batch \ X /\ kops' = kops
  /\ \A o \in X : o.id = c /\ o.op \in WorkOps
  /\ nextID' = nextID
  /\ \A d \in Ids \ {c} : HookCalls(d)' = HookCalls(d)

(* It prepares the operations P and leaves the other connections alone. *)
Prepares(c, P) ==
  /\ sq' = sq \cup P
  /\ conns' = conns
  /\ \A p \in P : p.id = c /\ p.op \in WorkOps /\ p \notin batch'
  /\ \A d \in Ids \ {c} : conn'[d] = conn[d] /\ charge'[d] = charge[d]

(* The ring after such a step. *)
LEMMA HandlerRing ==
  ASSUME Inv, Inv', Work, NEW c \in conns, NEW X, NEW P, OnBehalf(c, X), Prepares(c, P)
  PROVE  /\ InRing' = (InRing \ X) \cup P
         /\ WaitsIdle' /\ Apart' /\ OpsIssued' /\ Touches(c)
<1>1. \A o \in X : o \notin sq \cup kops
  BY DEF OnBehalf, Work, Apart
<1>2. InRing' = (InRing \ X) \cup P
  BY <1>1 DEF OnBehalf, Prepares, InRing
<1>3. WaitsIdle'
  BY DEF OnBehalf, WaitsIdle
<1>4. Apart'
  BY DEF OnBehalf, Prepares, Apart, Work
<1>5. c \in 1..nextID
  BY DEF Inv, TypeOK
<1>6. OpsIssued'
  BY <1>2, <1>5 DEF OnBehalf, Prepares, OpsIssued, Work
<1>7. Touches(c)
  <2>1. \A d \in Ids \ {c} : /\ HookCalls(d)' <= HookCalls(d)
                             /\ HookCalls(d)' = HookCalls(d)
    BY HookNat DEF OnBehalf
  <2>2. \A o \in InRing \cup InRing' :
          o.op \in WorkOps /\ o.id # c => (o \in InRing' <=> o \in InRing)
    BY <1>2 DEF OnBehalf, Prepares
  <2>3. QED
    BY <2>1, <2>2 DEF OnBehalf, Prepares, Touches, Spares
<1>8. QED
  BY <1>2, <1>3, <1>4, <1>6, <1>7

(* A handler that keeps the connection open and in order keeps Work, *)
LEMMA KeepWork ==
  ASSUME Inv, Inv', Work, NEW c, Usable(c), NEW X, NEW P,
         OnBehalf(c, X), Prepares(c, P), live' = live,
         ~conn'[c].closing, Open(c)',
         phase' = "blocked" => blockedOn' = c
  PROVE  Work'
<1>1. c \in conns /\ c \in Ids /\ c \in 0..nextID
  BY UsableConn DEF Inv, TypeOK, Usable
<1>2. WaitsIdle' /\ Apart' /\ OpsIssued' /\ Touches(c)
  BY <1>1, HandlerRing
<1>3. Usable(c)' /\ Entry(c)'
  BY <1>1 DEF Usable, Entry, Prepares
<1>4. Entries' /\ Charges' /\ HooksLive' /\ HooksIssued'
  BY <1>1, <1>2, <1>3, TouchedWork DEF Prepares
<1>5. \A d \in conns : conn'[d].closing = conn[d].closing
  <2>1. conn[c].closing = FALSE /\ conn'[c].closing = FALSE
    <3>1. conn[c] \in Conn /\ conn'[c] \in Conn
      BY <1>1 DEF Inv, TypeOK
    <3>2. QED
      BY <3>1 DEF Usable, Conn
  <2>2. QED
    BY <2>1, ConnsAreIds DEF Prepares
<1>6. LiveCount'
  BY <1>5, LiveKept DEF Work, Prepares
<1>7. BlockedLive'
  BY <1>3 DEF BlockedLive
<1>8. QED
  BY <1>2, <1>4, <1>6, <1>7 DEF Work

(* and so does one that tears it down, when the connection is charged by   *)
(* now or has nothing in flight, and its hook is not called.               *)
LEMMA CloseWork ==
  ASSUME Inv, Inv', Work, NEW c, Usable(c), NEW X, OnBehalf(c, X),
         phase' = "batch",
         NEW r \in Conn, r.clientFD = conn[c].clientFD,
         NEW B, closeConn(c, r, B), HookCalls(c)' = 0,
         \/ r.counted /\ Final(charge[c] \o B)
         \/ /\ ~r.counted /\ r.relayStarted /\ charge[c] \o B = <<>>
            /\ \A p \in InRing \ X : p.id = c => p.op \notin DataOps
  PROVE  Work'
<1> DEFINE P == CloseOps(c, r)
<1>1. c \in conns /\ c \in Ids /\ c \in 0..nextID
  BY UsableConn DEF Inv, TypeOK, Usable
<1>2. Open(c)
  BY <1>1 DEF Usable, Work, Entries, Entry
<1>3. Op(c, "opClose", r.clientFD) \in P
  BY <1>2 DEF Open, CloseOps
<1>4. \A p \in P : p.id = c /\ p.op = "opClose"
  BY <1>1, CloseOpsType DEF CloseOps, Op
<1>5. \A p \in InRing : p.id = c => p.op # "opClose"
  <2>1. OpsIn(InRing, c, {"opClose"}) = 0
    BY <1>2, RingOps DEF Open
  <2>2. QED
    BY <2>1, RingOps, OpsNone
<1> HIDE DEF P
<1>6. Prepares(c, P)
  <2>1. conns' = conns /\ sq' = sq \cup P
    BY <1>3 DEF closeConn, P
  <2>2. \A p \in P : p \notin batch'
    BY <1>4, <1>5 DEF OnBehalf, InRing
  <2>3. \A d \in Ids \ {c} : conn'[d] = conn[d] /\ charge'[d] = charge[d]
    BY DEF closeConn, Inv, TypeOK
  <2>4. QED
    BY <1>4, <2>1, <2>2, <2>3 DEF Prepares, WorkOps
<1>7. /\ InRing' = (InRing \ X) \cup P
      /\ WaitsIdle' /\ Apart' /\ OpsIssued' /\ Touches(c)
  BY <1>1, <1>6, HandlerRing
<1>8. conn'[c] = Closing(r) /\ charge'[c] = charge[c] \o B
  BY <1>1 DEF closeConn, Inv, TypeOK
<1>9. /\ conn'[c].closing /\ conn'[c].counted = r.counted
      /\ conn'[c].relayStarted = r.relayStarted
  BY <1>8 DEF Closing, Conn
<1>10. Entry(c)'
  <2>1. CASE r.counted /\ Final(charge[c] \o B)
    BY <1>8, <1>9, <2>1 DEF Entry, Torn, Final
  <2>2. CASE /\ ~r.counted /\ r.relayStarted /\ charge[c] \o B = <<>>
             /\ \A p \in InRing \ X : p.id = c => p.op \notin DataOps
    <3>1. \A p \in InRing' : p.id = c => p.op \notin DataOps
      BY <1>4, <1>7, <2>2 DEF DataOps, PreRelayOps, C2UOps, U2COps
    <3>2. OpsOf(c, DataOps)' = 0
      BY <3>1, RingOpsNext, OpsNone
    <3>3. QED
      BY <1>8, <1>9, <2>2, <3>2 DEF Entry, Torn
  <2>3. QED
    BY <2>1, <2>2
<1>11. Entries' /\ Charges' /\ HooksLive' /\ HooksIssued'
  BY <1>1, <1>6, <1>7, <1>10, TouchedWork DEF Prepares
<1>12. LiveCount'
  <2>1. \A d \in conns \ {c} : conn'[d].closing = conn[d].closing
    BY <1>6, ConnsAreIds DEF Prepares
  <2>2. QED
    BY <1>6, <1>9, <2>1, LiveFalls DEF Work, Prepares, closeConn
<1>13. QED
  BY <1>7, <1>11, <1>12 DEF Work, BlockedLive

-----------------------------------------------------------------------------
(* The entry of an open connection, from what it has.                      *)

(* One pre-relay operation in the ring. *)
LEMMA OpenInRing ==
  ASSUME Inv', NEW c, NEW p \in InRing', p.id = c, p.op \in PreRelayOps,
         \A q \in InRing' : q.id = c /\ q.op \in WorkOps => q = p,
         HookCalls(c)' = 0,
         conn'[c] \in Conn, conn'[c].clientFD # NoFD, ~conn'[c].relayStarted,
         ~conn'[c].clientReadDone, ~conn'[c].upstreamReadDone,
         conn'[c].counted <=> p.op = "opRejectSend",
         charge'[c] = IF conn'[c].counted THEN <<"rejected">> ELSE <<>>
  PROVE  Open(c)'
<1>1. InRing' \in SUBSET Ops /\ \A K : OpsOf(c, K)' = OpsIn(InRing', c, K)
  BY RingOpsNext
<1>2. \A q \in InRing' : q.id = c => /\ q.op \notin C2UOps /\ q.op \notin U2COps
                                     /\ q.op \notin {"opClose"}
  BY DEF WorkOps, DataOps, PreRelayOps, C2UOps, U2COps
<1>3. /\ OpsOf(c, C2UOps)' = 0 /\ OpsOf(c, U2COps)' = 0
      /\ OpsOf(c, {"opClose"})' = 0
  BY <1>1, <1>2, OpsNone
<1>4. OpsOf(c, PreRelayOps)' = 1
  <2>1. \A q \in InRing' : q.id = c /\ q.op \in PreRelayOps => q = p
    BY KindsAreWork
  <2>2. QED
    BY <1>1, <2>1, OpsOne
<1>5. OpsOf(c, {"opRejectSend"})' = Expect(conn'[c].counted)
  <2>1. CASE p.op = "opRejectSend"
    <3>1. OpsIn(InRing', c, {"opRejectSend"}) = 1
      BY <1>1, <2>1, OpsSole, KindsAreWork
    <3>2. QED
      BY <1>1, <2>1, <3>1 DEF Expect
  <2>2. CASE p.op # "opRejectSend"
    <3>1. OpsIn(InRing', c, {"opRejectSend"}) = 0
      BY <1>1, <2>2, OpsNone, KindsAreWork
    <3>2. QED
      BY <1>1, <2>2, <3>1 DEF Expect
  <2>3. QED
    BY <2>1, <2>2
<1>6. QED
  BY <1>3, <1>4, <1>5 DEF Open, Expect, Conn

(* A hook call and nothing in the ring. *)
LEMMA OpenInHook ==
  ASSUME Inv', NEW c,
         \A q \in InRing' : q.id = c => q.op \notin WorkOps,
         HookCalls(c)' = 1,
         conn'[c] \in Conn, conn'[c].clientFD # NoFD, ~conn'[c].relayStarted,
         ~conn'[c].clientReadDone, ~conn'[c].upstreamReadDone,
         ~conn'[c].counted, charge'[c] = <<>>
  PROVE  Open(c)'
<1>1. InRing' \in SUBSET Ops /\ \A K : OpsOf(c, K)' = OpsIn(InRing', c, K)
  BY RingOpsNext
<1>2. ASSUME NEW K, K \subseteq WorkOps PROVE OpsOf(c, K)' = 0
  BY <1>1, <1>2, OpsNone
<1>3. /\ OpsOf(c, C2UOps)' = 0 /\ OpsOf(c, U2COps)' = 0
      /\ OpsOf(c, {"opClose"})' = 0 /\ OpsOf(c, PreRelayOps)' = 0
      /\ OpsOf(c, {"opRejectSend"})' = 0
  BY <1>2, KindsAreWork
<1>4. QED
  BY <1>3 DEF Open, Expect, Conn

(* Relaying: one operation for each direction that has not ended. *)
LEMMA OpenRelaying ==
  ASSUME Inv', NEW c,
         \A q \in InRing' : q.id = c => q.op \notin PreRelayOps /\ q.op # "opClose",
         OpsOf(c, C2UOps)' = Expect(~conn'[c].clientReadDone),
         OpsOf(c, U2COps)' = Expect(~conn'[c].upstreamReadDone),
         HookCalls(c)' = 0,
         conn'[c] \in Conn, conn'[c].clientFD # NoFD, conn'[c].relayStarted,
         ~conn'[c].counted, charge'[c] = <<>>
  PROVE  Open(c)'
<1>1. InRing' \in SUBSET Ops /\ \A K : OpsOf(c, K)' = OpsIn(InRing', c, K)
  BY RingOpsNext
<1>2. OpsOf(c, PreRelayOps)' = 0 /\ OpsOf(c, {"opClose"})' = 0
  BY <1>1, OpsNone, SMTT(30)
<1>3. OpsOf(c, {"opRejectSend"})' = 0
  <2>1. \A q \in InRing' : q.id = c => q.op \notin {"opRejectSend"}
    BY DEF PreRelayOps
  <2>2. QED
    BY <1>1, <2>1, OpsNone
<1>4. QED
  BY <1>2, <1>3 DEF Open, Expect, Conn

-----------------------------------------------------------------------------
(* The closures of runWorker, as steps on behalf of a connection.          *)

(* A data handler works on behalf of its connection. *)
LEMMA DataHandler ==
  ASSUME Inv, NEW o \in batch, Harvest(o), Elsewhere, o.op \in DataOps
  PROVE  /\ OnBehalf(o.id, {o}) /\ phase' = "batch"
         /\ \A d : HookCalls(d)' = HookCalls(d)
<1>1. \A d : HookCalls(d)' = HookCalls(d)
  BY DEF Elsewhere, hookVars, HookCalls
<1>2. QED
  BY <1>1 DEF Harvest, Elsewhere, ringVars, OnBehalf, WorkOps

(* Applying a result works on behalf of the connection whose hook returned *)
(* it, and takes its hook call away.                                       *)
LEMMA ApplyHandler ==
  ASSUME Inv, Applying, NEW c, c = Head(drained).id
  PROVE  /\ OnBehalf(c, {}) /\ phase' = "batch"
         /\ HookCalls(c) > 0 /\ HookCalls(c)' = HookCalls(c) - 1
         /\ \A d : d # c => HookCalls(d)' = HookCalls(d)
         /\ batch' = batch /\ kops' = kops
<1>1. drained \in Seq(Result) /\ drained # <<>> /\ drained' = Tail(drained)
  BY DEF Applying, Inv, TypeOK
<1>2. UNCHANGED <<jobs, running, ready, blockedOn, phase, kops, nextID, batch>>
  BY DEF Applying, ringVars, hookVars
<1>3. \A d : IdsIn(drained', d) = IdsIn(drained, d) - Expect(c = d)
  BY <1>1, IdsChange
<1>4. IdsIn(drained, c) # 0
  <2>1. 1 \in DOMAIN drained /\ drained[1].id = c
    BY <1>1
  <2>2. QED
    BY <1>1, <2>1, IdsChange
<1>5. ASSUME NEW d
      PROVE  HookCalls(d)' = HookCalls(d) - Expect(c = d) /\ HookCalls(d) \in Nat
  BY <1>2, <1>3, HookSum, HookNat DEF Expect
<1>6. HookCalls(c) > 0
  <2>1. /\ IdsIn(jobs, c) \in Nat /\ CallsIn(running, c) \in Nat
        /\ IdsIn(ready, c) \in Nat /\ IdsIn(drained, c) \in Nat
    BY HookNat
  <2>2. QED
    BY <1>4, <2>1, HookSum DEF Expect
<1>7. \A d : d # c => HookCalls(d)' = HookCalls(d)
  BY <1>5 DEF Expect
<1>8. HookCalls(c)' = HookCalls(c) - 1
  BY <1>5 DEF Expect
<1>9. OnBehalf(c, {}) /\ phase' = "batch"
  BY <1>2, <1>7 DEF OnBehalf, Applying
<1>10. QED
  BY <1>2, <1>6, <1>7, <1>8, <1>9

(* Proceed prepares its operations. *)
LEMMA ProceedPrepares ==
  ASSUME Inv, NEW c \in conns, NEW r, NEW P, Proceed(c, r, P),
         \A p \in P : p.id = c /\ p.op \in WorkOps /\ p \notin batch'
  PROVE  Prepares(c, P) /\ conn'[c] = r /\ charge'[c] = charge[c] /\ live' = live
<1>1. c \in Ids
  BY ConnsAreIds
<1>2. QED
  BY <1>1 DEF Proceed, Prepares, Inv, TypeOK

(* The struct a handler continues with differs in age and upstream only. *)
Continues(c, r) ==
  /\ r \in Conn /\ r.clientFD = conn[c].clientFD /\ ~r.closing
  /\ r.relayStarted = conn[c].relayStarted /\ r.counted = conn[c].counted
  /\ r.clientReadDone = conn[c].clientReadDone
  /\ r.upstreamReadDone = conn[c].upstreamReadDone

(* Before the relay phase nothing is left of c once its completion or its  *)
(* result has been taken.                                                  *)
Cleared(c, X) ==
  /\ \A q \in InRing \ X : q.id = c => q.op \notin WorkOps
  /\ HookCalls(c)' = 0
  /\ ~conn[c].relayStarted /\ ~conn[c].clientReadDone /\ ~conn[c].upstreamReadDone

(* The struct as it is, or refreshed, or with its upstream. *)
LEMMA ContinuesWith ==
  ASSUME Inv, NEW c, Usable(c)
  PROVE  /\ Continues(c, conn[c]) /\ Continues(c, Refreshed(c))
         /\ \A f \in 0..MaxFD : Continues(c, [Refreshed(c) EXCEPT !.upstreamFD = f])
<1>1. conn[c] \in Conn /\ Refreshed(c) \in Conn
  BY UsableConn
<1>2. Continues(c, conn[c]) /\ Continues(c, Refreshed(c))
  BY <1>1 DEF Continues, Refreshed, Usable, Conn
<1>3. ASSUME NEW f \in 0..MaxFD PROVE Continues(c, [Refreshed(c) EXCEPT !.upstreamFD = f])
  <2>1. [Refreshed(c) EXCEPT !.upstreamFD = f] \in Conn
    BY <1>1, ConnFields
  <2>2. QED
    BY <1>1, <2>1 DEF Continues, Refreshed, Usable, Conn
<1>4. QED
  BY <1>2, <1>3

(* A pre-relay completion clears its connection, *)
LEMMA PreRelayCleared ==
  ASSUME Inv, Work, NEW o \in batch, Usable(o.id), o.op \in PreRelayOps,
         HookCalls(o.id)' = HookCalls(o.id)
  PROVE  Cleared(o.id, {o})
  BY PreRelaySole DEF Cleared

(* and so does a result. *)
LEMMA ResultCleared ==
  ASSUME Inv, Work, Applying, NEW c, c = Head(drained).id, Usable(c)
  PROVE  Cleared(c, {}) /\ ~conn[c].counted /\ charge[c] = <<>>
<1>1. HookCalls(c) > 0 /\ HookCalls(c)' = HookCalls(c) - 1
  BY ApplyHandler
<1>2. HookCalls(c) = 1
  BY <1>1, HookSole
<1>3. QED
  BY <1>1, <1>2, HookSole DEF Cleared

(* Going on with one pre-relay operation. *)
LEMMA ProceedPreRelay ==
  ASSUME Inv, Inv', Work, NEW c, Usable(c), NEW X, OnBehalf(c, X),
         phase' = "batch", Cleared(c, X), NEW r, Continues(c, r),
         NEW p, p.id = c, p.op \in PreRelayOps, Proceed(c, r, {p}),
         conn[c].counted <=> p.op = "opRejectSend"
  PROVE  Work'
<1>1. c \in conns /\ c \in Ids /\ Open(c)
  BY UsableConn DEF Usable, Work, Entries, Entry
<1>2. p.op \in WorkOps /\ p \notin batch'
  BY KindsAreWork DEF OnBehalf, Cleared, InRing
<1>3. Prepares(c, {p}) /\ conn'[c] = r /\ charge'[c] = charge[c] /\ live' = live
  BY <1>1, <1>2, ProceedPrepares
<1>4. InRing' = (InRing \ X) \cup {p}
  BY <1>1, <1>3, HandlerRing
<1>5. \A q \in InRing' : q.id = c /\ q.op \in WorkOps => q = p
  BY <1>4 DEF Cleared
<1>6. Open(c)'
  BY <1>1, <1>3, <1>4, <1>5, OpenInRing DEF Cleared, Continues, Open
<1>7. QED
  BY <1>3, <1>6, KeepWork DEF Continues

(* Starting the relay. *)
LEMMA DuplexWork ==
  ASSUME Inv, Inv', Work, NEW c, Usable(c), NEW X, OnBehalf(c, X),
         phase' = "batch", Cleared(c, X), NEW r, Continues(c, r),
         ~conn[c].counted, startDuplex(c, r)
  PROVE  Work'
<1> DEFINE a == Op(c, "opC2URecv", r.clientFD)
           b == Op(c, "opU2CRecv", r.upstreamFD)
           s == [r EXCEPT !.relayStarted = TRUE]
<1>1. c \in conns /\ c \in Ids /\ Open(c)
  BY UsableConn DEF Usable, Work, Entries, Entry
<1>2. /\ a.id = c /\ b.id = c /\ a.op \in WorkOps /\ b.op \in WorkOps
      /\ a.op = "opC2URecv" /\ b.op = "opU2CRecv"
  BY DEF Op, WorkOps, DataOps, C2UOps, U2COps
<1>3. /\ s \in Conn /\ s.clientFD = conn[c].clientFD /\ s.relayStarted
      /\ s.counted = conn[c].counted /\ ~s.closing
      /\ ~s.clientReadDone /\ ~s.upstreamReadDone
  <2>1. r \in Conn
    BY DEF Continues
  <2>2. s \in Conn
    BY <2>1, ConnFields
  <2>3. QED
    BY <2>1, <2>2 DEF Continues, Cleared, Conn
<1>4. Proceed(c, s, {a, b})
  BY DEF startDuplex
<1> HIDE DEF a, b, s
<1>5. a \notin batch' /\ b \notin batch'
  BY <1>2 DEF OnBehalf, Cleared, InRing
<1>6. /\ Prepares(c, {a, b}) /\ conn'[c] = s /\ charge'[c] = charge[c]
      /\ live' = live
  BY <1>1, <1>2, <1>4, <1>5, ProceedPrepares
<1>7. InRing' = (InRing \ X) \cup {a, b}
  BY <1>1, <1>6, HandlerRing
<1>8. \A q \in InRing' : q.id = c /\ q.op \in WorkOps => q = a \/ q = b
  BY <1>7 DEF Cleared
<1>9. \A q \in InRing' : q.id = c => q.op \notin PreRelayOps /\ q.op # "opClose"
  BY <1>2, <1>8 DEF WorkOps, DataOps, PreRelayOps
<1>10. OpsOf(c, C2UOps)' = 1 /\ OpsOf(c, U2COps)' = 1
  <2>1. a \in InRing' /\ b \in InRing' /\ a.op \in C2UOps /\ b.op \in U2COps
    BY <1>2, <1>7 DEF C2UOps, U2COps
  <2>2. /\ \A q \in InRing' : q.id = c /\ q.op \in C2UOps => q = a
        /\ \A q \in InRing' : q.id = c /\ q.op \in U2COps => q = b
    BY <1>2, <1>8 DEF WorkOps, DataOps, C2UOps, U2COps
  <2>3. QED
    BY <1>2, <2>1, <2>2, RingOpsNext, OpsOne
<1>11. Open(c)'
  BY <1>1, <1>3, <1>6, <1>9, <1>10, OpenRelaying DEF Cleared, Expect, Open
<1>12. QED
  BY <1>3, <1>6, <1>11, KeepWork

(* fail charges an uncharged connection to Errors. *)
LEMMA FailWork ==
  ASSUME Inv, Inv', Work, NEW c, Usable(c), NEW X, OnBehalf(c, X),
         phase' = "batch", HookCalls(c)' = 0, NEW r, Continues(c, r), fail(c, r)
  PROVE  Work'
<1> DEFINE s == [r EXCEPT !.counted = TRUE]
           B == IF r.counted THEN <<>> ELSE <<"error">>
<1>1. Open(c)
  BY DEF Usable, Work, Entries, Entry
<1>2. s \in Conn /\ s.clientFD = conn[c].clientFD /\ s.counted
  <2>1. r \in Conn
    BY DEF Continues
  <2>2. s \in Conn
    BY <2>1, ConnFields
  <2>3. QED
    BY <2>1, <2>2 DEF Continues, Conn
<1>3. Final(charge[c] \o B)
  <2>1. CASE r.counted
    <3>1. charge[c] \o B = <<"rejected">>
      BY <1>1, <2>1 DEF Open, Continues
    <3>2. QED
      BY <3>1 DEF Final, Buckets
  <2>2. CASE ~r.counted
    <3>1. charge[c] \o B = <<"error">>
      BY <1>1, <2>2 DEF Open, Continues
    <3>2. QED
      BY <3>1 DEF Final, Buckets
  <2>3. QED
    BY <2>1, <2>2
<1>4. closeConn(c, s, B)
  BY DEF fail
<1> HIDE DEF s, B
<1>5. QED
  BY <1>2, <1>3, <1>4, CloseWork

(* forwardInit starts the relay or sends the rest of the request first. *)
LEMMA ForwardWork ==
  ASSUME Inv, Inv', Work, NEW c, Usable(c), NEW X, OnBehalf(c, X),
         phase' = "batch", Cleared(c, X), NEW r, Continues(c, r),
         ~conn[c].counted, forwardInit(c, r)
  PROVE  Work'
<1> DEFINE p == Op(c, "opSendUp", r.upstreamFD)
<1>1. p.id = c /\ p.op \in PreRelayOps /\ p.op # "opRejectSend"
  BY DEF Op, PreRelayOps
<1>2. CASE startDuplex(c, r)
  BY <1>2, DuplexWork
<1>3. CASE Proceed(c, r, {p})
  BY <1>1, <1>3, ProceedPreRelay
<1>4. QED
  BY <1>2, <1>3 DEF forwardInit

-----------------------------------------------------------------------------
(* The handlers of the relay phase.                                        *)

(* The client's direction goes on with one operation, or has ended. *)
LEMMA ClientSideKeeps ==
  ASSUME Inv, Inv', Work, NEW o \in batch, Usable(o.id), o.op \in C2UOps,
         OnBehalf(o.id, {o}), phase' = "batch", HookCalls(o.id)' = HookCalls(o.id),
         NEW r \in Conn, r.clientFD = conn[o.id].clientFD, ~r.closing,
         r.relayStarted, ~r.counted, r.upstreamReadDone = conn[o.id].upstreamReadDone,
         \/ /\ ~r.clientReadDone
            /\ \E p : p.id = o.id /\ p.op \in C2UOps /\ Proceed(o.id, r, {p})
         \/ r.clientReadDone /\ Proceed(o.id, r, {})
  PROVE  Work'
<1> DEFINE c == o.id
<1>1. c \in conns /\ c \in Ids /\ Open(c)
  BY UsableConn DEF Usable, Work, Entries, Entry
<1>2. PICK P : /\ Proceed(c, r, P)
               /\ \A p \in P : p.id = c /\ p.op \in C2UOps
               /\ \/ ~r.clientReadDone /\ \E p : P = {p}
                  \/ r.clientReadDone /\ P = {}
  OBVIOUS
<1>3. \A q \in InRing \ {o} : q.id = c => /\ q.op \notin C2UOps
                                          /\ q.op \notin PreRelayOps /\ q.op # "opClose"
  BY RelaySole
<1>4. \A p \in P : p.op \in WorkOps /\ p \notin batch'
  BY <1>2, <1>3, KindsAreWork DEF OnBehalf, InRing
<1>5. Prepares(c, P) /\ conn'[c] = r /\ charge'[c] = charge[c] /\ live' = live
  BY <1>1, <1>2, <1>4, ProceedPrepares
<1>6. InRing' = (InRing \ {o}) \cup P
  BY <1>1, <1>5, HandlerRing
<1>7. OpsOf(c, C2UOps)' = Expect(~r.clientReadDone)
  <2>1. CASE ~r.clientReadDone
    <3>1. PICK p : P = {p}
      BY <1>2, <2>1
    <3>2. p \in InRing' /\ p.id = c /\ p.op \in C2UOps
          /\ \A q \in InRing' : q.id = c /\ q.op \in C2UOps => q = p
      BY <1>2, <1>3, <1>6, <3>1
    <3>3. OpsIn(InRing', c, C2UOps) = 1
      BY <3>2, RingOpsNext, OpsOne
    <3>4. QED
      BY <2>1, <3>3, RingOpsNext DEF Expect
  <2>2. CASE r.clientReadDone
    <3>1. \A q \in InRing' : q.id = c => q.op \notin C2UOps
      BY <1>2, <1>3, <1>6, <2>2
    <3>2. OpsIn(InRing', c, C2UOps) = 0
      BY <3>1, RingOpsNext, OpsNone
    <3>3. QED
      BY <2>2, <3>2, RingOpsNext DEF Expect
  <2>3. QED
    BY <2>1, <2>2
<1>8. OpsOf(c, U2COps)' = Expect(~r.upstreamReadDone)
  <2>1. {q \in InRing' : q.id = c /\ q.op \in U2COps}
          = {q \in InRing : q.id = c /\ q.op \in U2COps}
    BY <1>2, <1>6 DEF C2UOps, U2COps
  <2>2. OpsOf(c, U2COps)' = OpsOf(c, U2COps)
    BY <2>1 DEF OpsOf
  <2>3. OpsOf(c, U2COps) = Expect(~conn[c].upstreamReadDone)
    BY <1>1, RelaySole DEF Open, Expect
  <2>4. QED
    BY <2>2, <2>3
<1>9. \A q \in InRing' : q.id = c => q.op \notin PreRelayOps /\ q.op # "opClose"
  BY <1>2, <1>3, <1>6 DEF PreRelayOps, C2UOps, U2COps
<1>10. HookCalls(c)' = 0 /\ charge'[c] = <<>>
  BY <1>5, RelaySole
<1>11. Open(c)'
  BY <1>1, <1>5, <1>7, <1>8, <1>9, <1>10, OpenRelaying DEF Open
<1>12. QED
  BY <1>5, <1>11, KeepWork

(* The upstream's direction goes on with one operation, or has ended. *)
LEMMA UpstreamSideKeeps ==
  ASSUME Inv, Inv', Work, NEW o \in batch, Usable(o.id), o.op \in U2COps,
         OnBehalf(o.id, {o}), phase' = "batch", HookCalls(o.id)' = HookCalls(o.id),
         NEW r \in Conn, r.clientFD = conn[o.id].clientFD, ~r.closing,
         r.relayStarted, ~r.counted, r.clientReadDone = conn[o.id].clientReadDone,
         \/ /\ ~r.upstreamReadDone
            /\ \E p : p.id = o.id /\ p.op \in U2COps /\ Proceed(o.id, r, {p})
         \/ r.upstreamReadDone /\ Proceed(o.id, r, {})
  PROVE  Work'
<1> DEFINE c == o.id
<1>1. c \in conns /\ c \in Ids /\ Open(c)
  BY UsableConn DEF Usable, Work, Entries, Entry
<1>2. PICK P : /\ Proceed(c, r, P)
               /\ \A p \in P : p.id = c /\ p.op \in U2COps
               /\ \/ ~r.upstreamReadDone /\ \E p : P = {p}
                  \/ r.upstreamReadDone /\ P = {}
  OBVIOUS
<1>3. \A q \in InRing \ {o} : q.id = c => /\ q.op \notin U2COps
                                          /\ q.op \notin PreRelayOps /\ q.op # "opClose"
  BY RelaySole
<1>4. \A p \in P : p.op \in WorkOps /\ p \notin batch'
  BY <1>2, <1>3, KindsAreWork DEF OnBehalf, InRing
<1>5. Prepares(c, P) /\ conn'[c] = r /\ charge'[c] = charge[c] /\ live' = live
  BY <1>1, <1>2, <1>4, ProceedPrepares
<1>6. InRing' = (InRing \ {o}) \cup P
  BY <1>1, <1>5, HandlerRing
<1>7. OpsOf(c, U2COps)' = Expect(~r.upstreamReadDone)
  <2>1. CASE ~r.upstreamReadDone
    <3>1. PICK p : P = {p}
      BY <1>2, <2>1
    <3>2. p \in InRing' /\ p.id = c /\ p.op \in U2COps
          /\ \A q \in InRing' : q.id = c /\ q.op \in U2COps => q = p
      BY <1>2, <1>3, <1>6, <3>1
    <3>3. OpsIn(InRing', c, U2COps) = 1
      BY <3>2, RingOpsNext, OpsOne
    <3>4. QED
      BY <2>1, <3>3, RingOpsNext DEF Expect
  <2>2. CASE r.upstreamReadDone
    <3>1. \A q \in InRing' : q.id = c => q.op \notin U2COps
      BY <1>2, <1>3, <1>6, <2>2
    <3>2. OpsIn(InRing', c, U2COps) = 0
      BY <3>1, RingOpsNext, OpsNone
    <3>3. QED
      BY <2>2, <3>2, RingOpsNext DEF Expect
  <2>3. QED
    BY <2>1, <2>2
<1>8. OpsOf(c, C2UOps)' = Expect(~r.clientReadDone)
  <2>1. {q \in InRing' : q.id = c /\ q.op \in C2UOps}
          = {q \in InRing : q.id = c /\ q.op \in C2UOps}
    BY <1>2, <1>6 DEF C2UOps, U2COps
  <2>2. OpsOf(c, C2UOps)' = OpsOf(c, C2UOps)
    BY <2>1 DEF OpsOf
  <2>3. OpsOf(c, C2UOps) = Expect(~conn[c].clientReadDone)
    BY <1>1, RelaySole DEF Open, Expect
  <2>4. QED
    BY <2>2, <2>3
<1>9. \A q \in InRing' : q.id = c => q.op \notin PreRelayOps /\ q.op # "opClose"
  BY <1>2, <1>3, <1>6 DEF PreRelayOps, C2UOps, U2COps
<1>10. HookCalls(c)' = 0 /\ charge'[c] = <<>>
  BY <1>5, RelaySole
<1>11. Open(c)'
  BY <1>1, <1>5, <1>7, <1>8, <1>9, <1>10, OpenRelaying DEF Open
<1>12. QED
  BY <1>5, <1>11, KeepWork

(* Both directions have ended: the connection closes with nothing in       *)
(* flight.                                                                 *)
LEMMA RelayEnds ==
  ASSUME Inv, Inv', Work, NEW o \in batch, Usable(o.id), o.op \in C2UOps \cup U2COps,
         OnBehalf(o.id, {o}), phase' = "batch", HookCalls(o.id)' = HookCalls(o.id),
         o.op \in C2UOps => conn[o.id].upstreamReadDone,
         o.op \in U2COps => conn[o.id].clientReadDone,
         NEW r \in Conn, r.clientFD = conn[o.id].clientFD,
         r.relayStarted = conn[o.id].relayStarted, r.counted = conn[o.id].counted,
         closeConn(o.id, r, <<>>)
  PROVE  Work'
<1>1. /\ HookCalls(o.id)' = 0 /\ ~r.counted /\ r.relayStarted /\ charge[o.id] = <<>>
  BY RelaySole
<1>2. \A p \in InRing \ {o} : p.id = o.id => p.op \notin DataOps
  BY RelaySole DEF DataOps
<1>3. charge[o.id] \o <<>> = <<>>
  BY <1>1
<1>4. QED
  BY <1>1, <1>2, <1>3, CloseWork

(* Every handler of the relay phase. *)
LEMMA RelayWork ==
  ASSUME Inv, Inv', Work, NEW o \in batch, Relay(o) PROVE Work'
<1> DEFINE c == o.id
<1>0. Harvest(o) /\ Usable(c) /\ Elsewhere /\ o.op \in C2UOps \cup U2COps
  BY DEF Relay, OnC2URecv, OnC2UEnd, OnC2USend, OnU2CRecv, OnU2CEnd,
         OnU2CSend, OnSuccess, OnData, C2UOps, U2COps
<1>1. OnBehalf(c, {o}) /\ phase' = "batch" /\ HookCalls(c)' = HookCalls(c)
  BY <1>0, DataHandler DEF DataOps
<1>2. /\ conn[c] \in Conn /\ Refreshed(c) \in Conn
      /\ Continues(c, conn[c]) /\ Continues(c, Refreshed(c))
  BY <1>0, UsableConn, ContinuesWith
<1>3. conn[c].relayStarted /\ ~conn[c].counted
      /\ (o.op \in C2UOps => ~conn[c].clientReadDone)
      /\ (o.op \in U2COps => ~conn[c].upstreamReadDone)
  BY <1>0, RelaySole
<1> DEFINE rc == [conn[c] EXCEPT !.clientReadDone = TRUE]
           ru == [conn[c] EXCEPT !.upstreamReadDone = TRUE]
<1>4. rc \in Conn /\ ru \in Conn
  BY <1>2, ConnFields
<1>5. /\ rc.clientFD = conn[c].clientFD /\ ~rc.closing /\ rc.clientReadDone
      /\ rc.relayStarted /\ ~rc.counted
      /\ rc.upstreamReadDone = conn[c].upstreamReadDone
      /\ rc.relayStarted = conn[c].relayStarted /\ rc.counted = conn[c].counted
      /\ ru.clientFD = conn[c].clientFD /\ ~ru.closing /\ ru.upstreamReadDone
      /\ ru.relayStarted /\ ~ru.counted
      /\ ru.clientReadDone = conn[c].clientReadDone
      /\ ru.relayStarted = conn[c].relayStarted /\ ru.counted = conn[c].counted
  BY <1>2, <1>3 DEF Conn, Continues
<1>6. /\ Refreshed(c).clientFD = conn[c].clientFD /\ ~Refreshed(c).closing
      /\ Refreshed(c).relayStarted /\ ~Refreshed(c).counted /\ ~conn[c].closing
      /\ Refreshed(c).clientReadDone = conn[c].clientReadDone
      /\ Refreshed(c).upstreamReadDone = conn[c].upstreamReadDone
  BY <1>2, <1>3 DEF Continues
<1> HIDE DEF rc, ru
<1>7. CASE OnC2URecv(o)
  <2>1. o.op \in C2UOps
        /\ Proceed(c, Refreshed(c), {Op(c, "opC2USend", conn[c].upstreamFD)})
    BY <1>7 DEF OnC2URecv, OnSuccess, OnData, C2UOps
  <2>2. \E p : p.id = c /\ p.op \in C2UOps /\ Proceed(c, Refreshed(c), {p})
    BY <2>1 DEF C2UOps, Op
  <2>3. QED
    BY <1>0, <1>1, <1>2, <1>3, <1>6, <2>1, <2>2, ClientSideKeeps
<1>8. CASE OnC2USend(o)
  <2>1. o.op \in C2UOps
        /\ Proceed(c, conn[c], {Op(c, "opC2URecv", conn[c].clientFD)})
    BY <1>3, <1>8 DEF OnC2USend, OnSuccess, OnData, C2UOps
  <2>2. \E p : p.id = c /\ p.op \in C2UOps /\ Proceed(c, conn[c], {p})
    BY <2>1 DEF C2UOps, Op
  <2>3. QED
    BY <1>0, <1>1, <1>2, <1>3, <1>6, <2>1, <2>2, ClientSideKeeps
<1>9. CASE OnC2UEnd(o)
  <2>1. o.op \in C2UOps /\ IF rc.upstreamReadDone THEN closeConn(c, rc, <<>>)
                                                  ELSE Proceed(c, rc, {})
    BY <1>9 DEF OnC2UEnd, OnSuccess, OnData, C2UOps, rc
  <2>2. o.op \notin U2COps
    BY <2>1 DEF C2UOps, U2COps
  <2>3. CASE rc.upstreamReadDone
    BY <1>0, <1>1, <1>4, <1>5, <2>1, <2>2, <2>3, RelayEnds
  <2>4. CASE ~rc.upstreamReadDone
    BY <1>0, <1>1, <1>4, <1>5, <2>1, <2>4, ClientSideKeeps
  <2>5. QED
    BY <2>3, <2>4
<1>10. CASE OnU2CRecv(o)
  <2>1. o.op \in U2COps
        /\ Proceed(c, Refreshed(c), {Op(c, "opU2CSend", conn[c].clientFD)})
    BY <1>10 DEF OnU2CRecv, OnSuccess, OnData, U2COps
  <2>2. \E p : p.id = c /\ p.op \in U2COps /\ Proceed(c, Refreshed(c), {p})
    BY <2>1 DEF U2COps, Op
  <2>3. QED
    BY <1>0, <1>1, <1>2, <1>3, <1>6, <2>1, <2>2, UpstreamSideKeeps
<1>11. CASE OnU2CSend(o)
  <2>1. o.op \in U2COps
        /\ Proceed(c, conn[c], {Op(c, "opU2CRecv", conn[c].upstreamFD)})
    BY <1>3, <1>11 DEF OnU2CSend, OnSuccess, OnData, U2COps
  <2>2. \E p : p.id = c /\ p.op \in U2COps /\ Proceed(c, conn[c], {p})
    BY <2>1 DEF U2COps, Op
  <2>3. QED
    BY <1>0, <1>1, <1>2, <1>3, <1>6, <2>1, <2>2, UpstreamSideKeeps
<1>12. CASE OnU2CEnd(o)
  <2>1. o.op \in U2COps /\ IF ru.clientReadDone THEN closeConn(c, ru, <<>>)
                                                ELSE Proceed(c, ru, {})
    BY <1>12 DEF OnU2CEnd, OnSuccess, OnData, U2COps, ru
  <2>2. o.op \notin C2UOps
    BY <2>1 DEF C2UOps, U2COps
  <2>3. CASE ru.clientReadDone
    BY <1>0, <1>1, <1>4, <1>5, <2>1, <2>2, <2>3, RelayEnds
  <2>4. CASE ~ru.clientReadDone
    BY <1>0, <1>1, <1>4, <1>5, <2>1, <2>4, UpstreamSideKeeps
  <2>5. QED
    BY <2>3, <2>4
<1>13. QED
  BY <1>7, <1>8, <1>9, <1>10, <1>11, <1>12 DEF Relay

-----------------------------------------------------------------------------
(* The handlers of the handshake, and failures and short sends.            *)

(* A complete request becomes one hook call, queued or blocked. *)
LEMMA RecvReqWork ==
  ASSUME Inv, Inv', Work, NEW o \in batch, OnRecvReq(o) PROVE Work'
<1> DEFINE c == o.id
           j == [id |-> c, fd |-> conn[c].clientFD]
<1>0. /\ Harvest(o) /\ Usable(c) /\ o.op = "opRecvReq"
      /\ Proceed(c, Refreshed(c), {})
  BY DEF OnRecvReq, OnData
<1>1. o.op \in PreRelayOps /\ o.op \in WorkOps
  BY <1>0 DEF PreRelayOps, WorkOps, DataOps
<1>2. /\ c \in conns /\ c \in Ids /\ conn[c] \in Conn /\ Continues(c, Refreshed(c))
      /\ Open(c)
  BY <1>0, UsableConn, ContinuesWith DEF Usable, Work, Entries, Entry
<1>3. j \in Job
  BY <1>2 DEF Job, Conn
<1>4. ASSUME NEW d \in Ids
      PROVE  HookCalls(d)' = HookCalls(d) + Expect(d = c)
  <2>1. UNCHANGED <<running, ready, drained>>
    BY DEF OnRecvReq
  <2>2. /\ IdsIn(jobs, d) \in Nat /\ CallsIn(running, d) \in Nat
        /\ IdsIn(ready, d) \in Nat /\ IdsIn(drained, d) \in Nat
    BY HookNat
  <2>3. blockedOn = 0 /\ d # 0 /\ jobs \in Seq(Job)
    BY <1>0 DEF Harvest, Inv, TypeOK, Ids
  <2>4. CASE Len(jobs) < JobsCap
    <3>1. jobs' = Append(jobs, j) /\ blockedOn' = blockedOn
      BY <2>4 DEF OnRecvReq
    <3>2. IdsIn(jobs', d) = IdsIn(jobs, d) + Expect(j.id = d)
      BY <1>3, <2>3, <3>1, IdsChange
    <3>3. j.id = d <=> d = c
      OBVIOUS
    <3>4. IdsIn(jobs', d) = IdsIn(jobs, d) + Expect(d = c)
      BY <3>2, <3>3 DEF Expect
    <3>5. QED
      BY <2>1, <2>2, <3>1, <3>4, HookSum DEF Expect
  <2>5. CASE ~(Len(jobs) < JobsCap)
    <3>1. jobs' = jobs /\ blockedOn' = c
      BY <2>5 DEF OnRecvReq
    <3>2. QED
      BY <2>1, <2>2, <2>3, <3>1, HookSum DEF Expect
  <2>6. QED
    BY <2>4, <2>5
<1>5. HookCalls(c)' = 1 /\ \A d \in Ids \ {c} : HookCalls(d)' = HookCalls(d)
  <2>1. HookCalls(c) = 0
    BY <1>0, <1>1, PreRelaySole
  <2>2. \A d \in Ids : HookCalls(d) \in Nat
    BY HookNat
  <2>3. QED
    BY <1>2, <1>4, <2>1, <2>2 DEF Expect
<1>6. /\ phase' \in {"batch", "blocked"} /\ (phase' = "blocked" => blockedOn' = c)
      /\ kops' = kops /\ nextID' = nextID
  BY <1>0 DEF OnRecvReq, Harvest
<1>7. OnBehalf(c, {o})
  BY <1>0, <1>1, <1>5, <1>6 DEF OnBehalf, Harvest
<1>8. /\ Prepares(c, {}) /\ conn'[c] = Refreshed(c) /\ charge'[c] = charge[c]
      /\ live' = live
  BY <1>0, <1>2, ProceedPrepares
<1>9. InRing' = InRing \ {o}
  BY <1>2, <1>7, <1>8, HandlerRing
<1>10. /\ \A q \in InRing' : q.id = c => q.op \notin WorkOps
       /\ ~conn[c].relayStarted /\ ~conn[c].clientReadDone
       /\ ~conn[c].upstreamReadDone /\ ~conn[c].counted
  BY <1>0, <1>1, <1>9, PreRelaySole
<1>11. Open(c)'
  BY <1>2, <1>5, <1>8, <1>10, OpenInHook DEF Continues, Open
<1>12. QED
  BY <1>0, <1>2, <1>6, <1>7, <1>8, <1>11, KeepWork DEF Continues

(* Every handler of the handshake. *)
LEMMA HandshakeWork ==
  ASSUME Inv, Inv', Work, NEW o \in batch, Handshake(o) PROVE Work'
<1> DEFINE c == o.id
<1>1. CASE OnRecvReq(o)
  BY <1>1, RecvReqWork
<1>2. ASSUME \/ OnReplyClient(o) \/ OnReplyMore(o) \/ OnRejectSend(o) \/ OnSendUp(o)
      PROVE  /\ OnBehalf(c, {o}) /\ phase' = "batch" /\ Usable(c)
             /\ Cleared(c, {o}) /\ HookCalls(c)' = 0
             /\ Continues(c, conn[c]) /\ conn[c] \in Conn
             /\ o.op \in PreRelayOps
             /\ conn[c].counted <=> o.op = "opRejectSend"
  <2>1. Harvest(o) /\ Elsewhere /\ Usable(c) /\ o.op \in PreRelayOps /\ o.op \in DataOps
    BY <1>2 DEF OnReplyClient, OnReplyMore, OnRejectSend, OnSendUp, OnSuccess, OnData,
                PreRelayOps, DataOps
  <2>2. OnBehalf(c, {o}) /\ phase' = "batch" /\ HookCalls(c)' = HookCalls(c)
    BY <2>1, DataHandler
  <2>3. QED
    BY <2>1, <2>2, PreRelayCleared, PreRelaySole, ContinuesWith DEF Cleared, Continues
<1>3. CASE OnReplyClient(o)
  <2>1. ~conn[c].counted /\ forwardInit(c, conn[c])
    BY <1>2, <1>3 DEF OnReplyClient, OnSuccess, OnData
  <2>2. QED
    BY <1>2, <1>3, <2>1, ForwardWork
<1>4. CASE OnReplyMore(o)
  <2> DEFINE p == Op(c, "opRecvReq", conn[c].clientFD)
  <2>1. ~conn[c].counted /\ Proceed(c, conn[c], {p})
    BY <1>2, <1>4 DEF OnReplyMore, OnSuccess, OnData
  <2>2. p.id = c /\ p.op \in PreRelayOps /\ p.op # "opRejectSend"
    BY DEF Op, PreRelayOps
  <2> HIDE DEF p
  <2>3. QED
    BY <1>2, <1>4, <2>1, <2>2, ProceedPreRelay
<1>5. CASE OnRejectSend(o)
  <2>1. conn[c].counted /\ closeConn(c, conn[c], <<>>)
    BY <1>2, <1>5 DEF OnRejectSend, OnData
  <2>2. Open(c)
    BY <1>2, <1>5 DEF Usable, Work, Entries, Entry
  <2>3. charge[c] \o <<>> = <<"rejected">>
    BY <2>1, <2>2 DEF Open
  <2>4. Final(charge[c] \o <<>>)
    BY <2>3 DEF Final, Buckets
  <2>5. QED
    BY <1>2, <1>5, <2>1, <2>4, CloseWork
<1>6. CASE OnSendUp(o)
  <2>1. ~conn[c].counted /\ startDuplex(c, conn[c])
    BY <1>2, <1>6 DEF OnSendUp, OnSuccess, OnData
  <2>2. QED
    BY <1>2, <1>6, <2>1, DuplexWork
<1>7. QED
  BY <1>1, <1>3, <1>4, <1>5, <1>6 DEF Handshake

(* A failed operation ends its connection. *)
LEMMA FailureWork ==
  ASSUME Inv, Inv', Work, NEW o \in batch, OnFailure(o) PROVE Work'
<1>1. /\ Harvest(o) /\ Elsewhere /\ Usable(o.id) /\ o.op \in DataOps
      /\ fail(o.id, conn[o.id])
  BY DEF OnFailure, OnData
<1>2. OnBehalf(o.id, {o}) /\ phase' = "batch" /\ HookCalls(o.id)' = HookCalls(o.id)
  BY <1>1, DataHandler
<1>3. HookCalls(o.id) = 0
  BY <1>1, PreRelaySole, RelaySole DEF DataOps
<1>4. QED
  BY <1>1, <1>2, <1>3, FailWork, ContinuesWith

(* A short send is prepared again. *)
LEMMA PartialSendWork ==
  ASSUME Inv, Inv', Work, NEW o \in batch, OnPartialSend(o) PROVE Work'
<1> DEFINE c == o.id
<1>1. /\ Harvest(o) /\ Elsewhere /\ Usable(c) /\ o.op \in SendOps /\ o.op \in DataOps
      /\ Proceed(c, conn[c], {o})
  BY DEF OnPartialSend, OnSuccess, OnData, SendOps, DataOps, PreRelayOps, C2UOps, U2COps
<1>2. OnBehalf(c, {o}) /\ phase' = "batch" /\ HookCalls(c)' = HookCalls(c)
  BY <1>1, DataHandler
<1>3. Continues(c, conn[c])
  BY <1>1, ContinuesWith
<1>4. CASE o.op \in PreRelayOps
  BY <1>1, <1>2, <1>3, <1>4, PreRelayCleared, PreRelaySole, ProceedPreRelay
<1>5. CASE o.op \in C2UOps
  <2>1. ~conn[c].clientReadDone /\ conn[c].relayStarted /\ ~conn[c].counted
    BY <1>1, <1>5, RelaySole
  <2>2. QED
    BY <1>1, <1>2, <1>3, <1>5, <2>1, ClientSideKeeps DEF Continues
<1>6. CASE o.op \in U2COps
  <2>1. ~conn[c].upstreamReadDone /\ conn[c].relayStarted /\ ~conn[c].counted
    BY <1>1, <1>6, RelaySole
  <2>2. QED
    BY <1>1, <1>2, <1>3, <1>6, <2>1, UpstreamSideKeeps DEF Continues
<1>7. QED
  BY <1>1, <1>4, <1>5, <1>6 DEF DataOps

(* A completion for a connection that is closing or gone is dropped. *)
LEMMA StaleWork ==
  ASSUME Inv, Inv', Work, NEW o \in batch, Stale(o) PROVE Work'
<1> DEFINE c == o.id
<1>1. /\ Harvest(o) /\ Elsewhere /\ o.op \in DataOps /\ ~Usable(c)
      /\ UNCHANGED <<conns, conn, sq, live, charge>>
  BY DEF Stale, tableVars
<1>2. OnBehalf(c, {o}) /\ phase' = "batch" /\ \A d : HookCalls(d)' = HookCalls(d)
  BY <1>1, DataHandler
<1>3. o \notin sq \cup kops
  BY <1>1, KindsAreWork DEF Work, Apart
<1>4. InRing' = InRing \ {o}
  BY <1>1, <1>2, <1>3 DEF OnBehalf, InRing
<1>5. c \in 0..nextID
  BY <1>1, KindsAreWork DEF Work, OpsIssued, InRing
<1>6. Touches(c)
  <2>1. \A d : HookCalls(d)' <= HookCalls(d)
    BY <1>2, HookNat
  <2>2. QED
    BY <1>1, <1>2, <1>4, <2>1 DEF Touches, Spares, OnBehalf
<1>7. WaitsIdle' /\ Apart' /\ OpsIssued'
  BY <1>1, <1>2, <1>4 DEF OnBehalf, WaitsIdle, Apart, OpsIssued, Work
<1>8. c \in conns' => Entry(c)'
  <2>1. SUFFICES ASSUME c \in conns PROVE Entry(c)'
    BY <1>1
  <2>2. conn[c].closing /\ Torn(c)
    BY <1>1, <2>1 DEF Usable, Work, Entries, Entry
  <2>3. OpsOf(c, DataOps) = 0 => OpsOf(c, DataOps)' = 0
    BY <1>4, RingOps, RingOpsNext, OpsNone
  <2>4. QED
    BY <1>1, <2>2, <2>3 DEF Entry, Torn, Final
<1>9. Entries' /\ Charges' /\ HooksLive' /\ HooksIssued'
  <2>1. c \in Ids /\ c \notin conns' => Final(charge'[c])
    BY <1>1, <1>5 DEF Work, Charges
  <2>2. c \in Ids /\ HookCalls(c)' > 0 => Usable(c)' \/ SweptAway(c)'
    BY <1>1, <1>2 DEF Work, HooksLive, Usable, SweptAway, Swept
  <2>3. QED
    BY <1>5, <1>6, <1>8, <2>1, <2>2, TouchedWork
<1>10. LiveCount'
  BY <1>1, LiveKept DEF Work
<1>11. QED
  BY <1>2, <1>7, <1>9, <1>10 DEF Work, BlockedLive

-----------------------------------------------------------------------------
(* Steps that leave the table alone and keep the work of connections.      *)

(* They keep Work. *)
LEMMA QuietWork ==
  ASSUME Inv, Inv', Work, UNCHANGED <<conns, conn, live, charge, nextID>>,
         \A o \in InRing \cup InRing' : o.op \in WorkOps => (o \in InRing' <=> o \in InRing),
         \A d \in Ids : /\ HookCalls(d)' <= HookCalls(d)
                        /\ Usable(d) => HookCalls(d)' = HookCalls(d),
         WaitsIdle', Apart', BlockedLive'
  PROVE  Work'
<1>1. Touches(0)
  BY DEF Touches, Spares
<1>2. 0 \in 0..nextID /\ 0 \notin Ids /\ 0 \notin conns'
  BY ConnsAreIds DEF Inv, TypeOK, Ids
<1>3. Entries' /\ Charges' /\ HooksLive' /\ HooksIssued'
  BY <1>1, <1>2, TouchedWork
<1>4. OpsIssued'
  BY DEF Work, OpsIssued
<1>5. LiveCount'
  BY LiveKept DEF Work
<1>6. QED
  BY <1>3, <1>4, <1>5 DEF Work

(* The hook calls of a step that leaves the hook pipeline alone. *)
LEMMA SameHooks ==
  ASSUME Inv, UNCHANGED <<jobs, running, ready, drained, blockedOn>>
  PROVE  \A d \in Ids : /\ HookCalls(d)' <= HookCalls(d)
                        /\ HookCalls(d)' = HookCalls(d)
<1>1. \A d : HookCalls(d)' = HookCalls(d)
  BY DEF HookCalls
<1>2. QED
  BY <1>1, HookNat

(* A result of a connection that is closing or gone is dropped. *)
LEMMA ApplyLateWork ==
  ASSUME Inv, Inv', Work, ApplyLate PROVE Work'
<1>1. PICK c : c = Head(drained).id
  OBVIOUS
<1>2. /\ HookCalls(c)' = HookCalls(c) - 1 /\ phase = "batch" /\ phase' = "batch"
      /\ \A d : d # c => HookCalls(d)' = HookCalls(d)
      /\ UNCHANGED <<batch, kops, conns, conn, sq, live, charge, nextID>>
  BY <1>1, ApplyHandler DEF ApplyLate, Applying, tableVars, ringVars
<1>3. ~Usable(c)
  BY <1>1 DEF ApplyLate
<1>4. InRing' = InRing
  BY <1>2 DEF InRing
<1>5. \A d \in Ids : /\ HookCalls(d)' <= HookCalls(d)
                     /\ Usable(d) => HookCalls(d)' = HookCalls(d)
  BY <1>2, <1>3, HookNat
<1>6. WaitsIdle' /\ Apart' /\ BlockedLive'
  BY <1>2 DEF WaitsIdle, Apart, BlockedLive, Work
<1>7. QED
  BY <1>2, <1>4, <1>5, <1>6, QuietWork

(* The decisions of hooks. *)
LEMMA ApplyWork ==
  ASSUME Inv, Inv', Work, ApplyResult PROVE Work'
<1>1. CASE ApplyLate
  BY <1>1, ApplyLateWork
<1>2. ASSUME ApplyReject \/ ApplyMore \/ ApplyRelay PROVE Work'
  <2>1. Applying /\ Usable(Head(drained).id)
    BY <1>2 DEF ApplyReject, ApplyMore, ApplyRelay, ApplyTo
  <2>2. PICK c : c = Head(drained).id
    OBVIOUS
  <2>3. PICK f : f = Head(drained).fd
    OBVIOUS
  <2>4. PICK b : b = Head(drained).reply
    OBVIOUS
  <2>5. Head(drained) \in Result
    BY <2>1 DEF Applying, Inv, TypeOK
  <2>6. f \in 0..MaxFD
    BY <2>3, <2>5 DEF Result
  <2>7. /\ Usable(c) /\ OnBehalf(c, {}) /\ phase' = "batch"
        /\ batch' = batch /\ kops' = kops
        /\ Cleared(c, {}) /\ ~conn[c].counted /\ charge[c] = <<>> /\ HookCalls(c)' = 0
    BY <2>1, <2>2, ApplyHandler, ResultCleared DEF Cleared
  <2>8. c \in conns /\ c \in Ids /\ conn[c] \in Conn /\ Refreshed(c) \in Conn /\ Open(c)
    BY <2>7, UsableConn DEF Usable, Work, Entries, Entry
  <2>9. Continues(c, Refreshed(c))
        /\ Continues(c, [Refreshed(c) EXCEPT !.upstreamFD = f])
    BY <2>6, <2>7, ContinuesWith
  <2>10. CASE ApplyReject
    <3> DEFINE cc == [Refreshed(c) EXCEPT !.counted = TRUE]
               p == Op(c, "opRejectSend", cc.clientFD)
    <3>1. cc \in Conn
      BY <2>8, ConnFields
    <3>2. /\ cc.clientFD = conn[c].clientFD /\ cc.counted /\ ~cc.closing
          /\ ~cc.relayStarted /\ ~cc.clientReadDone /\ ~cc.upstreamReadDone
      BY <2>7, <2>8, <2>9, <3>1 DEF Conn, Continues, Cleared
    <3>3. CASE b
      <4>1. /\ conn' = [conn EXCEPT ![c] = cc]
            /\ sq' = sq \cup {p}
            /\ charge' = [charge EXCEPT ![c] = Append(@, "rejected")]
            /\ conns' = conns /\ live' = live
        BY <2>2, <2>4, <2>10, <3>3 DEF ApplyReject
      <4>2. p.id = c /\ p.op = "opRejectSend"
        BY DEF Op
      <4> HIDE DEF cc, p
      <4>3. p.op \in WorkOps /\ p.op \in PreRelayOps
        BY <4>2 DEF PreRelayOps, WorkOps, DataOps
      <4>4. conn'[c] = cc /\ charge'[c] = <<"rejected">>
            /\ \A d \in Ids \ {c} : conn'[d] = conn[d] /\ charge'[d] = charge[d]
        BY <2>7, <2>8, <4>1 DEF Inv, TypeOK
      <4>5. p \notin batch'
        BY <2>7, <4>2, <4>3 DEF Cleared, InRing
      <4>6. Prepares(c, {p})
        BY <4>1, <4>2, <4>3, <4>4, <4>5 DEF Prepares
      <4>7. InRing' = (InRing \ {}) \cup {p}
        BY <2>7, <2>8, <4>6, HandlerRing
      <4>8. \A q \in InRing' : q.id = c /\ q.op \in WorkOps => q = p
        BY <2>7, <4>7 DEF Cleared
      <4>9. Open(c)'
        BY <2>7, <2>8, <3>1, <3>2, <4>2, <4>3, <4>4, <4>7, <4>8, OpenInRing DEF Open
      <4>10. QED
        BY <2>7, <3>2, <4>1, <4>4, <4>6, <4>9, KeepWork
    <3>4. CASE ~b
      <4>1. closeConn(c, cc, <<"rejected">>)
        BY <2>2, <2>4, <2>10, <3>4 DEF ApplyReject
      <4>2. Final(charge[c] \o <<"rejected">>)
        <5>1. charge[c] \o <<"rejected">> = <<"rejected">>
          BY <2>7
        <5>2. QED
          BY <5>1 DEF Final, Buckets
      <4> HIDE DEF cc
      <4>3. QED
        BY <2>7, <3>1, <3>2, <4>1, <4>2, CloseWork
    <3>5. QED
      BY <3>3, <3>4
  <2>11. CASE ApplyMore
    <3> DEFINE k == IF b THEN "opReplyMore" ELSE "opRecvReq"
               p == Op(c, k, Refreshed(c).clientFD)
    <3>1. fail(c, Refreshed(c)) \/ Proceed(c, Refreshed(c), {p})
      BY <2>2, <2>4, <2>11 DEF ApplyMore
    <3>2. p.id = c /\ p.op \in PreRelayOps /\ p.op # "opRejectSend"
      BY DEF Op, PreRelayOps
    <3> HIDE DEF p
    <3>3. QED
      BY <2>7, <2>9, <3>1, <3>2, FailWork, ProceedPreRelay
  <2>12. CASE ApplyRelay
    <3> DEFINE cc == [Refreshed(c) EXCEPT !.upstreamFD = f]
               p == Op(c, "opReplyClient", cc.clientFD)
    <3>1. Proceed(c, cc, {p}) \/ forwardInit(c, cc)
      BY <2>2, <2>3, <2>12 DEF ApplyRelay
    <3>2. p.id = c /\ p.op \in PreRelayOps /\ p.op # "opRejectSend"
      BY DEF Op, PreRelayOps
    <3> HIDE DEF p, cc
    <3>3. QED
      BY <2>7, <2>9, <3>1, <3>2, ForwardWork, ProceedPreRelay DEF cc
  <2>13. QED
    BY <1>2, <2>10, <2>11, <2>12
<1>3. QED
  BY <1>1, <1>2 DEF ApplyResult

(* Draining the bridge turns ready results into drained ones. *)
LEMMA EventfdWork ==
  ASSUME Inv, Inv', Work, NEW o \in batch, OnEventfd(o) PROVE Work'
<1>1. /\ drained = <<>> /\ drained' = ready /\ ready' = <<>>
      /\ UNCHANGED <<jobs, running, blockedOn, phase, kops, nextID, conns, conn,
                     live, charge>>
      /\ phase = "batch" /\ batch' = batch \ {o} /\ o.op = "opEventfd"
      /\ sq' = sq \cup {EventfdOp}
  BY DEF OnEventfd, Harvest, ringVars
<1>2. \A d \in Ids : HookCalls(d)' <= HookCalls(d) /\ HookCalls(d)' = HookCalls(d)
  <2>1. \A d : IdsIn(<<>>, d) = 0
    BY IdsChange DEF Inv, TypeOK
  <2>2. ASSUME NEW d \in Ids PROVE HookCalls(d)' = HookCalls(d) /\ HookCalls(d) \in Nat
    BY <1>1, <2>1, HookSum, HookNat
  <2>3. QED
    BY <2>2
<1>3. EventfdOp.op \notin WorkOps /\ o.op \notin WorkOps
  BY <1>1 DEF EventfdOp, Op, WorkOps, DataOps, PreRelayOps, C2UOps, U2COps
<1>4. \A p \in InRing \cup InRing' : p.op \in WorkOps => (p \in InRing' <=> p \in InRing)
  BY <1>1, <1>3 DEF InRing
<1>5. Apart' /\ WaitsIdle' /\ BlockedLive'
  BY <1>1, <1>3 DEF Apart, WaitsIdle, BlockedLive, Work
<1>6. QED
  BY <1>1, <1>2, <1>4, <1>5, QuietWork

(* A hook goroutine moves a job on, and then its result. *)
LEMMA HookCallsKept ==
  ASSUME Inv, Inv', Work, Hook, NEW d \in Ids
  PROVE  /\ HookCalls(d)' <= HookCalls(d)
         /\ Usable(d) => HookCalls(d)' = HookCalls(d)
<1>1. UNCHANGED <<phase, nextID, kops, conns, conn, sq, live, charge, batch,
                  drained, blockedOn>>
  BY DEF Hook, HookTake, HookReturn, ringVars, tableVars
<1>2. /\ HookCalls(d)' <= HookCalls(d)
      /\ Usable(d) => HookCalls(d)' = HookCalls(d)
  <2>1. /\ IdsIn(jobs, d) \in Nat /\ CallsIn(running, d) \in Nat
        /\ IdsIn(ready, d) \in Nat /\ IdsIn(drained, d) \in Nat
        /\ HookCalls(d) \in Nat
    BY HookNat
  <2>2. PICK e : e = IdsIn(drained, d) + Expect(blockedOn = d)
    OBVIOUS
  <2>3. e \in Nat
    BY <2>1, <2>2 DEF Expect
  <2>4. /\ HookCalls(d) = IdsIn(jobs, d) + CallsIn(running, d) + IdsIn(ready, d)
                             + IdsIn(drained, d) + Expect(blockedOn = d)
        /\ HookCalls(d)' = IdsIn(jobs', d) + CallsIn(running', d) + IdsIn(ready', d)
                              + IdsIn(drained, d) + Expect(blockedOn = d)
    BY <1>1, HookSum
  <2>5. /\ IdsIn(jobs', d) \in Nat /\ CallsIn(running', d) \in Nat
        /\ IdsIn(ready', d) \in Nat
    <3>1. jobs' \in Seq(Job) /\ ready' \in Seq(Result) /\ running' \in SUBSET HookCall
      BY DEF Inv, TypeOK
    <3>2. IdsIn(jobs', d) \in Nat /\ IdsIn(ready', d) \in Nat
      BY <3>1, IdsChange
    <3>3. IsFiniteSet({h \in running' : h.id = d})
      BY <3>1, FiniteKinds, FS_Subset
    <3>4. CallsIn(running', d) \in Nat
      BY <3>3, FS_CardinalityType DEF CallsIn
    <3>5. QED
      BY <3>2, <3>4
  <2>6. /\ HookCalls(d) = IdsIn(jobs, d) + CallsIn(running, d) + IdsIn(ready, d) + e
         /\ HookCalls(d)' = IdsIn(jobs', d) + CallsIn(running', d) + IdsIn(ready', d) + e
         /\ e \in Nat
    BY <2>1, <2>2, <2>3, <2>4, <2>5 DEF Expect
  <2>7. CASE HookTake
    <3>1. /\ jobs \in Seq(Job) /\ jobs # <<>> /\ jobs' = Tail(jobs) /\ ready' = ready
          /\ running \in SUBSET HookCall
      BY <2>7 DEF HookTake, Inv, TypeOK
    <3>2. PICK h : h = [id |-> Head(jobs).id, peer |-> PeerOf(Head(jobs))]
      OBVIOUS
    <3>3. h \in HookCall /\ h.id = Head(jobs).id /\ running' = running \cup {h}
      <4>1. Head(jobs) \in Job
        BY <3>1
      <4>2. QED
        BY <2>7, <3>2, <4>1 DEF HookTake, Job, HookCall, PeerOf
    <3>4. IdsIn(jobs', d) = IdsIn(jobs, d) - Expect(h.id = d)
      BY <3>1, <3>3, IdsChange
    <3>5. CallsIn(running', d) =
            CallsIn(running, d) + (IF h \notin running /\ h.id = d THEN 1 ELSE 0)
      <4>1. CallsIn(running, d) \in Nat /\ running' = running \cup {h}
        BY <2>1, <3>3
      <4>2. CASE h.id = d /\ h \notin running
        BY <3>1, <3>3, <4>1, <4>2, CallsAdd
      <4>3. CASE ~(h.id = d /\ h \notin running)
        <5>1. CallsIn(running \cup {h}, d) = CallsIn(running, d)
          BY <3>1, <3>3, <4>3, CallsAdd
        <5>2. QED
          BY <4>1, <4>3, <5>1
      <4>4. QED
        BY <4>2, <4>3
    <3>6. HookCalls(d)' <= HookCalls(d)
      BY <2>1, <2>6, <3>1, <3>4, <3>5 DEF Expect
    <3>7. ASSUME Usable(d), h.id = d PROVE h \notin running
      <4>1. IdsIn(jobs, d) # 0
        <5>1. 1 \in DOMAIN jobs /\ jobs[1].id = d
          BY <3>1, <3>3, <3>7
        <5>2. QED
          BY <3>1, <5>1, IdsChange
      <4>2. HookCalls(d) > 0
        BY <2>1, <2>6, <4>1
      <4>3. HookCalls(d) = 1
        BY <3>7, <4>2, HookSole
      <4>4. CallsIn(running, d) = 0
        BY <2>1, <2>6, <4>1, <4>3
      <4>5. QED
        BY <3>1, <3>3, <3>7, <4>4, CallsNone
    <3>8. Usable(d) => HookCalls(d)' = HookCalls(d)
      BY <2>1, <2>6, <3>1, <3>4, <3>5, <3>7 DEF Expect
    <3>9. QED
      BY <3>6, <3>8
  <2>8. ASSUME NEW h \in running, NEW dc \in Decisions, NEW f \in 0..MaxFD,
               HookReturn(h, dc, f)
        PROVE  HookCalls(d)' = HookCalls(d)
    <3> DEFINE x == [id |-> h.id, kind |-> dc.kind, reply |-> dc.reply, fd |-> f]
    <3>1. /\ running \in SUBSET HookCall /\ ready \in Seq(Result)
          /\ running' = running \ {h} /\ ready' = Append(ready, x) /\ jobs' = jobs
      BY <2>8 DEF HookReturn, Inv, TypeOK
    <3>2. x \in Result /\ x.id = h.id /\ h \in HookCall
      BY <3>1 DEF Result, HookCall
    <3> HIDE DEF x
    <3>3. IdsIn(ready', d) = IdsIn(ready, d) + Expect(h.id = d)
      BY <3>1, <3>2, IdsChange
    <3>4. CallsIn(running', d) = CallsIn(running, d) - Expect(h.id = d)
      BY <3>1, <3>2, CallsRemove DEF Expect
    <3>5. QED
      BY <2>1, <2>6, <3>1, <3>3, <3>4 DEF Expect
  <2>9. QED
    BY <2>1, <2>7, <2>8 DEF Hook
<1>3. QED
  BY <1>2

(* The connections have the same work then. *)
LEMMA HookWork ==
  ASSUME Inv, Inv', Work, Hook PROVE Work'
<1>1. UNCHANGED <<phase, nextID, kops, conns, conn, sq, live, charge, batch,
                  drained, blockedOn>>
  BY DEF Hook, HookTake, HookReturn, ringVars, tableVars
<1>2. \A d \in Ids : /\ HookCalls(d)' <= HookCalls(d)
                     /\ Usable(d) => HookCalls(d)' = HookCalls(d)
  BY HookCallsKept
<1>3. InRing' = InRing
  BY <1>1 DEF InRing
<1>4. Apart' /\ WaitsIdle' /\ BlockedLive'
  BY <1>1 DEF Apart, WaitsIdle, BlockedLive, Usable, Work
<1>5. QED
  BY <1>1, <1>2, <1>3, <1>4, QuietWork

(* The blocked job enters the channel. *)
LEMMA UnblockWork ==
  ASSUME Inv, Inv', Work, Unblock PROVE Work'
<1>1. PICK c : c = blockedOn
  OBVIOUS
<1> DEFINE j == [id |-> c, fd |-> conn[c].clientFD]
<1>2. /\ c \in Ids /\ jobs \in Seq(Job) /\ conn[c] \in Conn /\ blockedOn' = 0
      /\ jobs' = Append(jobs, j) /\ phase' = "batch"
      /\ UNCHANGED <<nextID, kops, conns, conn, sq, live, charge, batch,
                     drained, running, ready>>
  BY <1>1 DEF Unblock, tableVars, Inv, TypeOK
<1>3. j \in Job /\ j.id = c
  BY <1>2 DEF Job, Conn
<1> HIDE DEF j
<1>4. ASSUME NEW d \in Ids
      PROVE  HookCalls(d)' <= HookCalls(d) /\ HookCalls(d)' = HookCalls(d)
  <2>1. IdsIn(jobs', d) = IdsIn(jobs, d) + Expect(j.id = d)
    BY <1>2, <1>3, IdsChange
  <2>2. d # 0
    BY DEF Ids
  <2>3. /\ IdsIn(jobs, d) \in Nat /\ CallsIn(running, d) \in Nat
        /\ IdsIn(ready, d) \in Nat /\ IdsIn(drained, d) \in Nat
    BY HookNat
  <2>4. QED
    BY <1>1, <1>2, <1>3, <2>1, <2>2, <2>3, HookSum DEF Expect
<1>5. InRing' = InRing
  BY <1>2 DEF InRing
<1>6. Apart' /\ WaitsIdle' /\ BlockedLive'
  BY <1>2 DEF Apart, WaitsIdle, BlockedLive, Work
<1>7. QED
  BY <1>2, <1>4, <1>5, <1>6, QuietWork

(* A step that changes neither table nor hooks nor the ring. *)
LEMMA IdleWork ==
  ASSUME Inv, Inv', Work,
         UNCHANGED <<conns, conn, live, charge, nextID, jobs, running, ready,
                     drained, blockedOn>>,
         \A o \in InRing \cup InRing' : o.op \in WorkOps => (o \in InRing' <=> o \in InRing),
         WaitsIdle', Apart', phase' = "blocked" => phase = "blocked"
  PROVE  Work'
<1>1. BlockedLive'
  BY DEF BlockedLive, Usable, Work
<1>2. \A d \in Ids : /\ HookCalls(d)' <= HookCalls(d)
                     /\ HookCalls(d)' = HookCalls(d)
  BY SameHooks
<1>3. QED
  BY <1>1, <1>2, QuietWork

(* Stop only sets the flag. *)
LEMMA StopWork ==
  ASSUME Inv, Inv', Work, Stop PROVE Work'
<1>1. UNCHANGED <<phase, nextID, kops, conns, conn, sq, live, charge, batch,
                  drained, blockedOn, jobs, running, ready>>
  BY DEF Stop, tableVars, hookVars
<1>2. InRing' = InRing /\ Apart' /\ WaitsIdle'
  BY <1>1 DEF InRing, Apart, WaitsIdle, Work
<1>3. QED
  BY <1>1, <1>2, IdleWork

(* Harvesting moves completions from the kernel into the empty batch. *)
LEMMA WakeWork ==
  ASSUME Inv, Inv', Work, NEW B, Wake(B) PROVE Work'
<1>1. /\ UNCHANGED <<nextID, conns, conn, sq, live, charge, drained, blockedOn,
                     jobs, running, ready>>
      /\ phase = "wait" /\ phase' = "batch" /\ B \subseteq kops
      /\ batch' = B /\ kops' = kops \ B
  BY DEF Wake, Completable, tableVars, hookVars
<1>2. batch = {} /\ sq = {}
  BY <1>1 DEF Work, WaitsIdle
<1>3. InRing' = InRing /\ Apart' /\ WaitsIdle'
  BY <1>1, <1>2 DEF InRing, Apart, WaitsIdle
<1>4. QED
  BY <1>1, <1>3, IdleWork

(* A completed accept belongs to no connection yet. *)
LEMMA KernelWork ==
  ASSUME Inv, Inv', Work, Kernel PROVE Work'
<1>1. PICK f \in 0..MaxFD : KernelAccept(f)
  BY DEF Kernel
<1> DEFINE a == Op(0, "opAccept", f)
<1>2. /\ UNCHANGED <<phase, nextID, conns, conn, sq, live, charge, batch, drained,
                     blockedOn, jobs, running, ready>>
      /\ kops' = kops \cup {a}
  BY <1>1 DEF KernelAccept, tableVars, hookVars
<1>3. a.op \notin WorkOps
  BY DEF Op, WorkOps, DataOps, PreRelayOps, C2UOps, U2COps
<1> HIDE DEF a
<1>4. \A o \in InRing \cup InRing' : o.op \in WorkOps => (o \in InRing' <=> o \in InRing)
  BY <1>2, <1>3 DEF InRing
<1>5. Apart' /\ WaitsIdle'
  BY <1>2, <1>3 DEF Apart, WaitsIdle, Work
<1>6. QED
  BY <1>2, <1>4, <1>5, IdleWork

(* Submit hands the prepared operations to the kernel, or fails. *)
LEMMA TurnWork ==
  ASSUME Inv, Inv', Work, Turn \/ SubmitFails PROVE Work'
<1>1. /\ UNCHANGED <<nextID, conns, conn, live, charge, batch, drained, blockedOn,
                     jobs, running, ready>>
      /\ batch = {} /\ drained = <<>> /\ phase' # "blocked"
      /\ kops' \cup sq' = kops \cup sq
      /\ phase' = "wait" => sq' = {}
  BY DEF Turn, SubmitFails, EndOfTurn, BatchHandled, tableVars, hookVars
<1>2. InRing' = InRing /\ Apart' /\ WaitsIdle'
  BY <1>1 DEF InRing, Apart, WaitsIdle
<1>3. QED
  BY <1>1, <1>2, IdleWork

(* The worker returns when the table is empty. *)
LEMMA ExitWork ==
  ASSUME Inv, Inv', Work, Exit PROVE Work'
<1>1. /\ UNCHANGED <<nextID, conns, conn, live, charge, batch, drained, blockedOn,
                     jobs, running, ready>>
      /\ batch = {} /\ conns = {} /\ phase' = "exited" /\ kops' = {} /\ sq' = {}
  BY DEF Exit, BatchHandled, hookVars
<1>2. InRing' = {}
  BY <1>1 DEF InRing
<1>3. WaitsIdle' /\ Apart' /\ OpsIssued' /\ BlockedLive' /\ Entries'
  BY <1>1, <1>2 DEF WaitsIdle, Apart, OpsIssued, BlockedLive, Entries
<1>4. \A d \in Ids : HookCalls(d)' = HookCalls(d)
  BY <1>1, SameHooks
<1>5. HooksIssued' /\ HooksLive'
  BY <1>1, <1>4 DEF HooksIssued, HooksLive, Usable, SweptAway, Swept, Work
<1>6. Charges' /\ LiveCount'
  BY <1>1 DEF Charges, LiveCount, Final, Work
<1>7. QED
  BY <1>3, <1>5, <1>6 DEF Work

(* A failed accept admits nothing; a client is admitted with a read of its *)
(* request in the ring.                                                    *)
LEMMA AcceptWork ==
  ASSUME Inv, Inv', Work, NEW o \in batch, OnAccept(o) PROVE Work'
<1>1. /\ UNCHANGED <<phase, kops, drained, blockedOn, jobs, running, ready, charge>>
      /\ phase = "batch" /\ batch' = batch \ {o} /\ o.op = "opAccept"
  BY DEF OnAccept, Harvest, hookVars
<1>2. o.op \notin WorkOps
  BY <1>1 DEF WorkOps, DataOps, PreRelayOps, C2UOps, U2COps
<1>3. CASE o.fd = NoFD
  <2>1. UNCHANGED <<nextID, conns, conn, sq, live>>
    BY <1>3 DEF OnAccept
  <2>2. \A p \in InRing \cup InRing' : p.op \in WorkOps => (p \in InRing' <=> p \in InRing)
    BY <1>1, <1>2, <2>1 DEF InRing
  <2>3. Apart' /\ WaitsIdle'
    BY <1>1, <2>1 DEF Apart, WaitsIdle, Work
  <2>4. QED
    BY <1>1, <2>1, <2>2, <2>3, IdleWork
<1>4. CASE o.fd # NoFD
  <2>1. Cardinality(conns) < MaxConns
    <3>1. o \in Accepted /\ o \in AcceptsDone
      BY <1>1, <1>4 DEF Accepted, AcceptsDone
    <3>2. Cardinality(AcceptsDone) # 0
      BY <3>1, FS_EmptySet DEF Inv, AcceptsCounted
    <3>3. /\ Cardinality(AcceptsDone) \in Nat /\ Cardinality(conns) \in Nat
          /\ acceptInflight \in Nat /\ MaxConns \in Nat
      BY AcceptsFinite, ConnsFinite DEF Inv, TypeOK
    <3>4. /\ Cardinality(AcceptsDone) <= acceptInflight
          /\ Cardinality(conns) + acceptInflight <= MaxConns
      BY DEF Inv, ConnCap, AcceptsCounted
    <3>5. QED
      BY <3>2, <3>3, <3>4
  <2>2. PICK n : n = nextID + 1
    OBVIOUS
  <2> DEFINE p == Op(n, "opRecvReq", o.fd)
  <2>3. /\ nextID' = n /\ conns' = conns \cup {n} /\ live' = live + 1
        /\ conn' = [conn EXCEPT ![n] = NewConn(o.fd)]
        /\ sq' = sq \cup {p}
    BY <1>4, <2>1, <2>2, ConnsFinite DEF OnAccept
  <2>4. n \in Ids /\ n \notin 1..nextID /\ n \notin conns /\ nextID \in Nat
    BY <2>2, <2>3 DEF Inv, TypeOK, Ids
  <2>5. conn'[n] = NewConn(o.fd) /\ \A d \in Ids \ {n} : conn'[d] = conn[d]
    BY <2>3, <2>4 DEF Inv, TypeOK
  <2>6. /\ conn'[n].clientFD # NoFD /\ ~conn'[n].closing /\ ~conn'[n].relayStarted
        /\ ~conn'[n].clientReadDone /\ ~conn'[n].upstreamReadDone /\ ~conn'[n].counted
        /\ conn'[n] \in Conn
    <3>1. /\ conn'[n].clientFD # NoFD /\ ~conn'[n].closing /\ ~conn'[n].relayStarted
          /\ ~conn'[n].clientReadDone /\ ~conn'[n].upstreamReadDone /\ ~conn'[n].counted
      BY <1>4, <2>5 DEF NewConn
    <3>2. conn'[n] \in Conn
      BY <2>4 DEF Inv, TypeOK
    <3>3. QED
      BY <3>1, <3>2
  <2>7. p.id = n /\ p.op = "opRecvReq" /\ p.op \in PreRelayOps /\ p.op \in WorkOps
    BY DEF Op, PreRelayOps, WorkOps, DataOps
  <2> HIDE DEF p
  <2>8. \A q \in InRing : q.op \in WorkOps => q.id # n
    BY <2>4 DEF Work, OpsIssued
  <2>9. /\ p \in InRing'
        /\ \A q \in InRing' : q.op \in WorkOps => q = p \/ q \in InRing
        /\ \A q \in InRing : q.op \in WorkOps => q \in InRing'
    BY <1>1, <1>2, <2>3 DEF InRing
  <2>10. \A q \in InRing' : q.id = n /\ q.op \in WorkOps => q = p
    BY <2>8, <2>9
  <2>11. \A d \in Ids : HookCalls(d)' <= HookCalls(d) /\ HookCalls(d)' = HookCalls(d)
    BY <1>1, SameHooks
  <2>12. HookCalls(n)' = 0
    BY <2>2, <2>4, <2>11 DEF Work, HooksIssued
  <2>13. charge'[n] = <<>>
    BY <1>1, <2>2, <2>4 DEF Work, Charges
  <2>14. Open(n)'
    BY <2>6, <2>7, <2>9, <2>10, <2>12, <2>13, OpenInRing
  <2>15. Usable(n)' /\ Entry(n)'
    BY <2>3, <2>6, <2>14 DEF Usable, Entry
  <2>16. Spares(n)
    BY <1>1, <2>3, <2>5, <2>7, <2>9, <2>11 DEF Spares
  <2>17. Entries'
    <3>1. SUFFICES ASSUME NEW d \in conns' PROVE Entry(d)'
      BY DEF Entries
    <3>2. CASE d = n
      BY <2>15, <3>2
    <3>3. CASE d # n
      BY <2>3, <2>16, <3>3, UntouchedEntry
    <3>4. QED
      BY <3>2, <3>3
  <2>18. Charges'
    BY <1>1, <2>2, <2>3, <2>4 DEF Work, Charges, Final
  <2>19. HooksIssued' /\ HooksLive'
    <3>1. HooksIssued'
      BY <2>2, <2>3, <2>4, <2>11 DEF Work, HooksIssued
    <3>2. \A d \in Ids : Usable(d) => Usable(d)'
      BY <2>3, <2>4, <2>5 DEF Usable
    <3>3. HooksLive'
      BY <1>1, <2>11, <3>2 DEF Work, HooksLive, SweptAway, Swept
    <3>4. QED
      BY <3>1, <3>3
  <2>20. WaitsIdle' /\ BlockedLive'
    BY <1>1 DEF WaitsIdle, BlockedLive
  <2>21. Apart'
    <3>1. p \notin batch'
      BY <1>1, <2>7, <2>8 DEF InRing
    <3>2. QED
      BY <1>1, <2>3, <3>1 DEF Apart, Work
  <2>22. OpsIssued'
    BY <2>2, <2>3, <2>4, <2>7, <2>9 DEF OpsIssued, Work
  <2>23. LiveCount'
    <3> DEFINE U == {d \in conns : ~conn[d].closing}
    <3>1. {d \in conns' : ~conn'[d].closing} = U \cup {n}
      BY <2>3, <2>4, <2>5, <2>6, ConnsAreIds
    <3>2. IsFiniteSet(U) /\ n \notin U
      BY <2>4, ConnsFinite, FS_Subset
    <3>3. Cardinality(U \cup {n}) = Cardinality(U) + 1
      BY <3>2, FS_AddElement
    <3>4. live = Cardinality(U)
      BY DEF Work, LiveCount
    <3> HIDE DEF U
    <3>5. QED
      BY <2>3, <3>1, <3>3, <3>4 DEF LiveCount
  <2>24. QED
    BY <2>17, <2>18, <2>19, <2>20, <2>21, <2>22, <2>23 DEF Work
<1>5. QED
  BY <1>3, <1>4

(* The completion of a close: its connection is closing or gone, and the   *)
(* last one takes it out of the table, charged by then.                    *)
LEMMA CloseOpWork ==
  ASSUME Inv, Inv', Work, NEW o \in batch, OnClose(o) PROVE Work'
<1> DEFINE c == o.id
<1>1. /\ Harvest(o) /\ Elsewhere /\ o.op = "opClose" /\ o.op \in WorkOps
      /\ sq' = sq /\ live' = live
  BY DEF OnClose, WorkOps
<1>2. /\ phase = "batch" /\ phase' = "batch" /\ batch' = batch \ {o}
      /\ UNCHANGED <<kops, nextID, drained, blockedOn, jobs, running, ready>>
  BY <1>1 DEF Harvest, Elsewhere, ringVars, hookVars
<1>3. o \in InRing /\ o \notin sq \cup kops
  BY <1>1 DEF InRing, Work, Apart
<1>4. InRing' = InRing \ {o}
  BY <1>1, <1>2, <1>3 DEF InRing
<1>5. c \in 1..nextID /\ c \in Ids /\ c \in 0..nextID
  <2>1. c \in 1..nextID
    BY <1>1, <1>3 DEF Work, OpsIssued
  <2>2. nextID \in 0..MaxId
    BY DEF Inv, TypeOK
  <2>3. QED
    BY <2>1, <2>2 DEF Ids
<1>6. ~Usable(c)
  <2>1. ASSUME Usable(c) PROVE FALSE
    <3>1. OpsIn(InRing, c, {"opClose"}) = 0
      BY <2>1, RingOps DEF Usable, Work, Entries, Entry, Open
    <3>2. QED
      BY <1>1, <1>3, <3>1, RingOps, OpsNone
  <2>2. QED
    BY <2>1
<1>7. \A d \in Ids : HookCalls(d)' <= HookCalls(d) /\ HookCalls(d)' = HookCalls(d)
  BY <1>2, SameHooks
<1>8. /\ \A d \in Ids \ {c} : /\ d \in conns' <=> d \in conns
                              /\ conn'[d] = conn[d] /\ charge'[d] = charge[d]
      /\ {d \in conns' : ~conn'[d].closing} = {d \in conns : ~conn[d].closing}
      /\ c \in conns' => Entry(c)'
      /\ c \notin conns' => Final(charge'[c])
      /\ Swept(c) => Swept(c)'
  <2>1. CASE c \notin conns
    <3>1. UNCHANGED <<conns, conn, charge>>
      BY <2>1 DEF OnClose
    <3>2. Final(charge[c])
      BY <1>5, <2>1 DEF Work, Charges
    <3>3. QED
      BY <2>1, <3>1, <3>2 DEF Final, Swept
  <2>2. CASE c \in conns
    <3>1. conn[c].closing /\ Torn(c)
      BY <1>6, <2>2 DEF Usable, Work, Entries, Entry
    <3>2. CASE conn[c].closesLeft - 1 <= 0
      <4>1. /\ conns' = conns \ {c}
            /\ conn' = [conn EXCEPT ![c] = NoConn]
            /\ charge' = [charge EXCEPT ![c] =
                 IF ~conn[c].counted /\ conn[c].relayStarted
                   THEN Append(@, "completed") ELSE @]
        BY <2>2, <3>2 DEF OnClose
      <4>2. charge'[c] = IF ~conn[c].counted /\ conn[c].relayStarted
                           THEN Append(charge[c], "completed") ELSE charge[c]
        BY <1>5, <4>1 DEF Inv, TypeOK
      <4>3. Final(charge'[c])
        <5>1. CASE conn[c].counted
          BY <3>1, <4>2, <5>1 DEF Torn, Final
        <5>2. CASE ~conn[c].counted
          <6>1. charge[c] = <<>> /\ conn[c].relayStarted
            BY <3>1, <5>2 DEF Torn
          <6>2. charge'[c] = Append(<<>>, "completed")
            BY <4>2, <5>2, <6>1
          <6>3. charge'[c] = <<"completed">>
            BY <6>2
          <6>4. QED
            BY <6>3 DEF Final, Buckets
        <5>3. QED
          BY <5>1, <5>2
      <4>4. \A d \in Ids \ {c} : /\ d \in conns' <=> d \in conns
                                 /\ conn'[d] = conn[d] /\ charge'[d] = charge[d]
        BY <4>1 DEF Inv, TypeOK
      <4>5. {d \in conns' : ~conn'[d].closing} = {d \in conns : ~conn[d].closing}
        BY <3>1, <4>1, <4>4, ConnsAreIds
      <4>6. Swept(c) => Swept(c)'
        <5>1. CASE conn[c].counted
          BY <4>2, <5>1 DEF Swept
        <5>2. CASE ~conn[c].counted
          <6>1. charge[c] = <<>> /\ DOMAIN <<>> = {}
            BY <3>1, <5>2 DEF Torn
          <6>2. QED
            BY <6>1 DEF Swept
        <5>3. QED
          BY <5>1, <5>2
      <4>7. QED
        BY <4>1, <4>3, <4>4, <4>5, <4>6
    <3>3. CASE ~(conn[c].closesLeft - 1 <= 0)
      <4>1. /\ conn' = [conn EXCEPT ![c].closesLeft = @ - 1]
            /\ conns' = conns /\ charge' = charge
        BY <2>2, <3>3 DEF OnClose
      <4>2. conn'[c] = [conn[c] EXCEPT !.closesLeft = @ - 1]
            /\ \A d \in Ids \ {c} : conn'[d] = conn[d]
        BY <1>5, <4>1 DEF Inv, TypeOK
      <4>3. conn[c] \in Conn
        BY <1>5 DEF Inv, TypeOK
      <4>4. /\ conn'[c].closing = conn[c].closing /\ conn'[c].counted = conn[c].counted
            /\ conn'[c].relayStarted = conn[c].relayStarted
        BY <4>2, <4>3 DEF Conn
      <4>5. OpsOf(c, DataOps) = 0 => OpsOf(c, DataOps)' = 0
        BY <1>4, RingOps, RingOpsNext, OpsNone
      <4>6. Entry(c)'
        BY <3>1, <4>1, <4>4, <4>5 DEF Entry, Torn, Final
      <4>7. {d \in conns' : ~conn'[d].closing} = {d \in conns : ~conn[d].closing}
        BY <4>1, <4>2, <4>4, ConnsAreIds
      <4>8. QED
        BY <2>2, <4>1, <4>2, <4>6, <4>7 DEF Swept
    <3>4. QED
      BY <3>2, <3>3
  <2>3. QED
    BY <2>1, <2>2
<1>9. Touches(c)
  BY <1>2, <1>4, <1>7, <1>8 DEF Touches, Spares
<1>10. Entries' /\ Charges' /\ HooksLive' /\ HooksIssued'
  <2>1. SweptAway(c) => SweptAway(c)'
    BY <1>8 DEF SweptAway
  <2>2. c \in Ids /\ HookCalls(c)' > 0 => Usable(c)' \/ SweptAway(c)'
    BY <1>5, <1>6, <1>7, <2>1 DEF Work, HooksLive
  <2>3. QED
    BY <1>5, <1>8, <1>9, <2>2, TouchedWork
<1>11. LiveCount'
  BY <1>1, <1>8 DEF Work, LiveCount
<1>12. WaitsIdle' /\ Apart' /\ OpsIssued' /\ BlockedLive'
  BY <1>1, <1>2, <1>4 DEF WaitsIdle, Apart, OpsIssued, BlockedLive, Work
<1>13. QED
  BY <1>10, <1>11, <1>12 DEF Work

(* Getting older changes nothing but the age, *)
LEMMA OlderFields ==
  ASSUME NEW r \in Conn
  PROVE  /\ Older(r).clientFD = r.clientFD /\ Older(r).upstreamFD = r.upstreamFD
         /\ Older(r).closing = r.closing /\ Older(r).closesLeft = r.closesLeft
         /\ Older(r).relayStarted = r.relayStarted
         /\ Older(r).counted = r.counted
         /\ Older(r).clientReadDone = r.clientReadDone
         /\ Older(r).upstreamReadDone = r.upstreamReadDone
  BY DEF Older, Conn

(* and a connection that got older is as well in order as before. *)
LEMMA OlderEntry ==
  ASSUME Inv, Inv', Work, NEW d \in conns, conn'[d] = Older(conn[d]),
         charge'[d] = charge[d], HookCalls(d)' = HookCalls(d),
         \A p \in InRing \cup InRing' :
           p.op \in WorkOps /\ p.id = d => (p \in InRing' <=> p \in InRing)
  PROVE  Entry(d)'
<1>1. d \in Ids
  BY ConnsAreIds
<1>2. conn[d] \in Conn
  BY <1>1 DEF Inv, TypeOK
<1>3. /\ conn'[d].clientFD = conn[d].clientFD /\ conn'[d].closing = conn[d].closing
      /\ conn'[d].relayStarted = conn[d].relayStarted
      /\ conn'[d].counted = conn[d].counted
      /\ conn'[d].clientReadDone = conn[d].clientReadDone
      /\ conn'[d].upstreamReadDone = conn[d].upstreamReadDone
  BY <1>2, OlderFields
<1>4. \A K : K \subseteq WorkOps => OpsOf(d, K)' = OpsOf(d, K)
  BY SameOps
<1>5. /\ OpsOf(d, PreRelayOps)' = OpsOf(d, PreRelayOps)
      /\ OpsOf(d, C2UOps)' = OpsOf(d, C2UOps)
      /\ OpsOf(d, U2COps)' = OpsOf(d, U2COps)
      /\ OpsOf(d, DataOps)' = OpsOf(d, DataOps)
      /\ OpsOf(d, {"opClose"})' = OpsOf(d, {"opClose"})
      /\ OpsOf(d, {"opRejectSend"})' = OpsOf(d, {"opRejectSend"})
  BY <1>4, KindsAreWork
<1>6. Entry(d)
  BY DEF Work, Entries
<1>7. CASE conn[d].closing
  BY <1>3, <1>5, <1>6, <1>7 DEF Entry, Torn, Final
<1>8. CASE ~conn[d].closing
  <2>1. Open(d)
    BY <1>6, <1>8 DEF Entry
  <2>2. Open(d)'
    BY <1>3, <1>5, <2>1 DEF Open
  <2>3. QED
    BY <1>3, <1>8, <2>2 DEF Entry
<1>9. QED
  BY <1>7, <1>8

(* Two buckets. *)
LEMMA AppendPair ==
  ASSUME NEW x \in Buckets, NEW y \in Buckets
  PROVE  Append(<<x>>, y) = <<x, y>>
<1> DEFINE s == Append(<<x>>, y)
<1>1. s \in Seq(Buckets) /\ <<x, y>> \in Seq(Buckets)
  OBVIOUS
<1>2. Len(s) = 2 /\ Len(<<x, y>>) = 2
  OBVIOUS
<1>3. s[1] = x /\ s[2] = y
  OBVIOUS
<1> HIDE DEF s
<1>4. s = <<x, y>>
  BY <1>1, <1>2, <1>3
<1>5. QED
  BY <1>4 DEF s

(* The sweep closes connections that wait for too long, and charges each   *)
(* of them to Idle, whatever it was charged to before.                     *)
LEMMA TimeoutWork ==
  ASSUME Inv, Inv', Work, NEW o \in batch, OnTimeout(o) PROVE Work'
<1>1. PICK S \in SUBSET conns :
        /\ \A c \in S : Usable(c) /\ IdleTicks > 0
        /\ conn' = [c \in Ids |->
             IF c \in S THEN Closing([Older(conn[c]) EXCEPT !.counted = TRUE])
             ELSE IF c \in conns THEN Older(conn[c]) ELSE conn[c]]
        /\ conns' = {c \in conns : c \in S => CloseOps(c, conn[c]) # {}}
        /\ sq' = sq \cup {TimeoutOp} \cup UNION {CloseOps(c, conn[c]) : c \in S}
        /\ live' = live - Cardinality(S)
        /\ charge' = [c \in Ids |->
             IF c \in S THEN Append(charge[c], "idle") ELSE charge[c]]
  <2> DEFINE T == IF IdleTicks > 0 /\ tick' = 0 THEN {c \in conns : Idle(c)} ELSE {}
  <2>1. T \in SUBSET conns /\ \A c \in T : Usable(c) /\ IdleTicks > 0
    BY DEF Idle
  <2>2. /\ conn' = [c \in Ids |->
             IF c \in T THEN Closing([Older(conn[c]) EXCEPT !.counted = TRUE])
             ELSE IF c \in conns THEN Older(conn[c]) ELSE conn[c]]
        /\ conns' = {c \in conns : c \in T => CloseOps(c, conn[c]) # {}}
        /\ sq' = sq \cup {TimeoutOp} \cup UNION {CloseOps(c, conn[c]) : c \in T}
        /\ live' = live - Cardinality(T)
        /\ charge' = [c \in Ids |->
             IF c \in T THEN Append(charge[c], "idle") ELSE charge[c]]
    BY DEF OnTimeout
  <2> HIDE DEF T
  <2>3. QED
    BY <2>1, <2>2
<1>2. /\ UNCHANGED <<phase, kops, nextID, drained, blockedOn, jobs, running, ready>>
      /\ phase = "batch" /\ batch' = batch \ {o} /\ o.op = "opTimeout"
  BY DEF OnTimeout, Harvest, hookVars
<1>3. \A d \in Ids : HookCalls(d)' <= HookCalls(d) /\ HookCalls(d)' = HookCalls(d)
  BY <1>2, SameHooks
<1>4. ASSUME NEW c \in S
      PROVE  /\ c \in Ids /\ c \in 1..nextID /\ Open(c) /\ conn[c] \in Conn
             /\ CloseOps(c, conn[c]) # {}
             /\ \A p \in CloseOps(c, conn[c]) :
                  p.id = c /\ p.op = "opClose" /\ p \notin InRing
  <2>1. c \in Ids /\ Usable(c) /\ c \in 1..nextID
    BY <1>1, UsableConn DEF Inv, TypeOK
  <2>2. Open(c) /\ conn[c] \in Conn
    BY <2>1 DEF Usable, Work, Entries, Entry, Inv, TypeOK
  <2>3. Op(c, "opClose", conn[c].clientFD) \in CloseOps(c, conn[c])
    BY <2>2 DEF Open, CloseOps
  <2>4. \A p \in CloseOps(c, conn[c]) : p.id = c /\ p.op = "opClose"
    BY DEF CloseOps, Op
  <2>5. \A p \in InRing : p.id = c => p.op # "opClose"
    <3>1. OpsIn(InRing, c, {"opClose"}) = 0
      BY <2>2, RingOps DEF Open
    <3>2. QED
      BY <3>1, RingOps, OpsNone
  <2>6. QED
    BY <2>1, <2>2, <2>3, <2>4, <2>5
<1>5. conns' = conns
  BY <1>1, <1>4
<1> DEFINE P == UNION {CloseOps(c, conn[c]) : c \in S}
<1>6. \A p \in P : p.id \in S /\ p.op = "opClose" /\ p \notin InRing
  BY <1>4
<1>7. sq' = sq \cup {TimeoutOp} \cup P
  BY <1>1
<1> HIDE DEF P
<1>8. o.op \notin WorkOps /\ TimeoutOp.op \notin WorkOps
  BY <1>2 DEF TimeoutOp, Op, WorkOps, DataOps, PreRelayOps, C2UOps, U2COps
<1>9. /\ \A p \in InRing' : p.op \in WorkOps => p \in InRing \/ p \in P
      /\ \A p \in InRing : p.op \in WorkOps => p \in InRing'
  BY <1>2, <1>7, <1>8 DEF InRing
<1>10. Apart' /\ WaitsIdle' /\ BlockedLive'
  <2>1. Apart'
    BY <1>2, <1>6, <1>7, <1>8 DEF Apart, Work, InRing
  <2>2. QED
    BY <1>2, <2>1 DEF WaitsIdle, BlockedLive
<1>11. OpsIssued'
  BY <1>2, <1>4, <1>6, <1>9 DEF OpsIssued, Work
<1>12. Entries'
  <2>1. SUFFICES ASSUME NEW d \in conns PROVE Entry(d)'
    BY <1>5 DEF Entries
  <2>2. d \in Ids /\ conn[d] \in Conn
    BY ConnsAreIds DEF Inv, TypeOK
  <2>3. CASE d \in S
    <3>1. conn'[d] = Closing([Older(conn[d]) EXCEPT !.counted = TRUE])
      BY <1>1, <2>2, <2>3
    <3>2. [Older(conn[d]) EXCEPT !.counted = TRUE] \in Conn
          /\ [Older(conn[d]) EXCEPT !.counted = TRUE].counted
      <4>1. Older(conn[d]) \in Conn
        BY <2>2, ConnFields
      <4>2. QED
        BY <4>1, ConnFields DEF Conn
    <3>3. conn'[d].closing /\ conn'[d].counted
      BY <3>1, <3>2 DEF Closing, Conn
    <3>4. charge'[d] = Append(charge[d], "idle")
      BY <1>1, <2>2, <2>3
    <3>5. charge[d] = <<>> \/ charge[d] = <<"rejected">>
      BY <1>4, <2>3 DEF Open
    <3>6. charge'[d] = <<"idle">> \/ charge'[d] = <<"rejected", "idle">>
      <4>1. Append(<<>>, "idle") = <<"idle">>
        OBVIOUS
      <4>2. Append(<<"rejected">>, "idle") = <<"rejected", "idle">>
        BY AppendPair DEF Buckets
      <4>3. QED
        BY <3>4, <3>5, <4>1, <4>2
    <3>7. IdleTicks > 0
      BY <1>1, <2>3
    <3>8. Final(charge'[d])
      BY <3>6, <3>7 DEF Final, Buckets
    <3>9. QED
      BY <3>3, <3>8 DEF Entry, Torn, Final
  <2>4. CASE d \notin S
    <3>1. conn'[d] = Older(conn[d]) /\ charge'[d] = charge[d]
      BY <1>1, <2>2, <2>4
    <3>2. \A p \in InRing \cup InRing' :
            p.op \in WorkOps /\ p.id = d => (p \in InRing' <=> p \in InRing)
      BY <1>6, <1>9, <2>4
    <3>3. QED
      BY <1>3, <2>2, <3>1, <3>2, OlderEntry
  <2>5. QED
    BY <2>3, <2>4
<1>13. Charges'
  <2>1. \A d \in Ids : d \notin conns => charge'[d] = charge[d]
    BY <1>1
  <2>2. ASSUME NEW d \in Ids, d > nextID PROVE d \notin conns
    <3>1. nextID \in Nat /\ conns \subseteq 1..nextID /\ d \in Nat
      BY DEF Inv, TypeOK, Ids
    <3>2. QED
      BY <2>2, <3>1
  <2>3. QED
    BY <1>2, <1>5, <2>1, <2>2 DEF Work, Charges, Final
<1>14. HooksIssued'
  BY <1>2, <1>3 DEF Work, HooksIssued
<1>15. HooksLive'
  <2>1. SUFFICES ASSUME NEW d \in Ids, HookCalls(d)' > 0
                 PROVE  Usable(d)' \/ SweptAway(d)'
    BY DEF HooksLive
  <2>2. Usable(d) \/ SweptAway(d)
    BY <1>3, <2>1 DEF Work, HooksLive
  <2>3. CASE d \in S
    <3>1. charge'[d] = Append(charge[d], "idle") /\ charge[d] \in Seq(Buckets)
      BY <1>1, <2>3 DEF Inv, TypeOK
    <3>2. IdleTicks > 0
      BY <1>1, <2>3
    <3>3. Len(charge'[d]) \in DOMAIN charge'[d] /\ charge'[d][Len(charge'[d])] = "idle"
      BY <3>1
    <3>4. QED
      BY <3>2, <3>3 DEF SweptAway, Swept
  <2>4. CASE d \notin S
    <3>1. charge'[d] = charge[d]
      BY <1>1, <2>4
    <3>2. Usable(d) => conn'[d] = Older(conn[d]) /\ conn[d] \in Conn
      BY <1>1, <2>4 DEF Usable, Inv, TypeOK
    <3>3. Usable(d) => Usable(d)'
      BY <1>5, <3>2, OlderFields DEF Usable
    <3>4. QED
      BY <2>2, <3>1, <3>3 DEF SweptAway, Swept
  <2>5. QED
    BY <2>3, <2>4
<1>16. LiveCount'
  <2> DEFINE U == {d \in conns : ~conn[d].closing}
  <2>1. S \subseteq U /\ IsFiniteSet(U)
    BY <1>1, ConnsFinite, FS_Subset DEF Usable
  <2>2. \A d \in conns : ~conn'[d].closing <=> d \in U /\ d \notin S
    <3>1. TAKE d \in conns
    <3>2. d \in Ids /\ conn[d] \in Conn
      BY ConnsAreIds DEF Inv, TypeOK
    <3>3. CASE d \in S
      <4>1. conn'[d] = Closing([Older(conn[d]) EXCEPT !.counted = TRUE])
        BY <1>1, <3>2, <3>3
      <4>2. [Older(conn[d]) EXCEPT !.counted = TRUE] \in Conn
        BY <3>2, ConnFields
      <4>3. conn'[d].closing
        BY <4>1, <4>2 DEF Closing, Conn
      <4>4. QED
        BY <3>3, <4>3
    <3>4. CASE d \notin S
      <4>1. conn'[d] = Older(conn[d])
        BY <1>1, <3>2, <3>4
      <4>2. QED
        BY <3>2, <3>4, <4>1, OlderFields
    <3>5. QED
      BY <3>3, <3>4
  <2>3. {d \in conns' : ~conn'[d].closing} = U \ S
    BY <1>5, <2>2
  <2>4. Cardinality(U \ S) = Cardinality(U) - Cardinality(U \cap S)
    BY <2>1, FS_Difference
  <2>5. U \cap S = S
    BY <2>1
  <2>6. live = Cardinality(U)
    BY DEF Work, LiveCount
  <2> HIDE DEF U
  <2>7. QED
    BY <1>1, <2>3, <2>4, <2>5, <2>6 DEF LiveCount
<1>17. QED
  BY <1>10, <1>11, <1>12, <1>13, <1>14, <1>15, <1>16 DEF Work

-----------------------------------------------------------------------------
(* The invariant.                                                          *)

(* A fresh worker has no connection and nothing to do for one. *)
LEMMA InitWork == Init => Work
<1> SUFFICES ASSUME Init PROVE Work
  OBVIOUS
<1>1. Inv
  BY InitInv
<1>2. InRing = {EventfdOp, TimeoutOp} /\ conns = {} /\ nextID = 0 /\ batch = {}
      /\ sq = {} /\ drained = <<>> /\ phase \in {"wait", "failed"}
  BY DEF Init, InRing
<1>3. EventfdOp.op \notin WorkOps /\ TimeoutOp.op \notin WorkOps
  BY DEF EventfdOp, TimeoutOp, Op, WorkOps, DataOps, PreRelayOps, C2UOps, U2COps
<1>4. ASSUME NEW c \in Ids PROVE HookCalls(c) = 0
  <2>1. /\ jobs = <<>> /\ ready = <<>> /\ running = {} /\ blockedOn # c
        /\ drained = <<>> /\ running \in SUBSET HookCall
    BY DEF Init, Ids
  <2>2. IdsIn(<<>>, c) = 0
    BY <1>1, IdsChange DEF Inv, TypeOK
  <2>3. {h \in running : h.id = c} = {}
    BY <2>1
  <2>4. CallsIn(running, c) = 0
    BY <2>3, FS_EmptySet DEF CallsIn
  <2>5. QED
    BY <2>1, <2>2, <2>4, HookSum DEF Expect
<1>5. WaitsIdle /\ Apart /\ OpsIssued /\ Entries /\ BlockedLive
  BY <1>2, <1>3 DEF WaitsIdle, Apart, OpsIssued, Entries, BlockedLive
<1>6. HooksIssued /\ HooksLive
  BY <1>4 DEF HooksIssued, HooksLive
<1>7. Charges
  BY <1>2 DEF Init, Charges, Ids
<1>8. LiveCount
  <2>1. {c \in conns : ~conn[c].closing} = {}
    BY <1>2
  <2>2. QED
    BY <2>1, FS_EmptySet DEF LiveCount, Init
<1>9. QED
  BY <1>5, <1>6, <1>7, <1>8 DEF Work

(* Every step of the kernel, the hooks, Stop and the worker keeps Work. *)
LEMMA NextWork == Inv /\ Work /\ [Next]_vars => Work'
<1> SUFFICES ASSUME Inv, Work, [Next]_vars PROVE Work'
  OBVIOUS
<1>1. Inv'
  BY NextInv
<1>2. CASE Kernel
  BY <1>1, <1>2, KernelWork
<1>3. CASE Hook
  BY <1>1, <1>3, HookWork
<1>4. CASE Stop
  BY <1>1, <1>4, StopWork
<1>5. CASE Waking
  BY <1>1, <1>5, WakeWork DEF Waking
<1>6. ASSUME NEW o \in batch, Handle(o) PROVE Work'
  BY <1>1, <1>6, AcceptWork, CloseOpWork, TimeoutWork, EventfdWork, StaleWork,
     FailureWork, PartialSendWork, HandshakeWork, RelayWork
  DEF Handle
<1>7. CASE ApplyResult \/ Unblock
  BY <1>1, <1>7, ApplyWork, UnblockWork
<1>8. CASE Turn \/ SubmitFails
  BY <1>1, <1>8, TurnWork
<1>9. CASE Exit
  BY <1>1, <1>9, ExitWork
<1>10. CASE UNCHANGED vars
  <2>1. UNCHANGED <<phase, nextID, kops, conns, conn, sq, live, charge, batch,
                    drained, blockedOn, jobs, running, ready>>
    BY <1>10 DEF vars
  <2>2. InRing' = InRing /\ Apart' /\ WaitsIdle'
    BY <2>1 DEF InRing, Apart, WaitsIdle, Work
  <2>3. QED
    BY <1>1, <2>1, <2>2, IdleWork
<1>11. QED
  BY <1>2, <1>3, <1>4, <1>5, <1>6, <1>7, <1>8, <1>9, <1>10
  DEF Next, RingThread, Terminated

(* The connection table and the work of connections, in every behaviour. *)
THEOREM WorkHolds == SafeSpec => [](Inv /\ Work)
<1>1. Init => Inv /\ Work
  BY InitInv, InitWork
<1>2. Inv /\ Work /\ [Next]_vars => (Inv /\ Work)'
  BY NextInv, NextWork
<1>3. QED
  BY <1>1, <1>2, PTL DEF SafeSpec

-----------------------------------------------------------------------------
(* What follows from it.                                                   *)

(* No connection is forgotten and no buffer has two users: an open         *)
(* connection has exactly the operations and hook calls of its state.      *)
THEOREM WorkerHasWork == SafeSpec => []EveryConnHasWork
<1>1. Inv /\ Work => EveryConnHasWork
  <2>1. SUFFICES ASSUME Inv, Work, NEW c \in conns, Usable(c)
        PROVE  /\ OpsOf(c, PreRelayOps) + HookCalls(c)
                    = (IF ~conn[c].relayStarted THEN 1 ELSE 0)
               /\ OpsOf(c, C2UOps)
                    = (IF conn[c].relayStarted /\ ~conn[c].clientReadDone THEN 1 ELSE 0)
               /\ OpsOf(c, U2COps)
                    = (IF conn[c].relayStarted /\ ~conn[c].upstreamReadDone THEN 1 ELSE 0)
    BY DEF EveryConnHasWork
  <2>2. Open(c)
    BY <2>1 DEF Work, Entries, Entry, Usable
  <2>3. QED
    BY <2>2 DEF Open, Expect
<1>2. QED
  BY <1>1, WorkHolds, PTL

(* The Stats identity: every accepted connection is charged to one         *)
(* terminal bucket by the time it is gone, or to Rejected and then Idle.   *)
THEOREM WorkerStats == SafeSpec => []StatsPartition
<1>1. Inv /\ Work => StatsPartition
  <2>1. SUFFICES ASSUME Inv, Work, NEW c \in 1..nextID
        PROVE  /\ \/ Len(charge[c]) <= 1
                  \/ IdleTicks > 0 /\ charge[c] = <<"rejected", "idle">>
               /\ c \notin conns => charge[c] # <<>>
    BY DEF StatsPartition
  <2>2. c \in Ids /\ c <= nextID
    BY <2>1 DEF Inv, TypeOK, Ids
  <2>3. Final(charge[c]) \/ charge[c] = <<>> \/ charge[c] = <<"rejected">>
    <3>1. CASE c \notin conns
      BY <2>1, <2>2, <3>1 DEF Work, Charges
    <3>2. CASE c \in conns
      BY <2>1, <3>2 DEF Work, Entries, Entry, Torn, Open
    <3>3. QED
      BY <3>1, <3>2
  <2>4. c \notin conns => Final(charge[c])
    BY <2>1, <2>2 DEF Work, Charges
  <2>5. \A x : Len(<<x>>) = 1 /\ <<x>> # <<>>
    OBVIOUS
  <2>6. Len(<<>>) = 0 /\ <<"rejected", "idle">> # <<>>
    OBVIOUS
  <2>7. CASE Final(charge[c])
    <3>1. CASE \E x \in Buckets : charge[c] = <<x>>
      BY <2>5, <3>1
    <3>2. CASE IdleTicks > 0 /\ charge[c] = <<"rejected", "idle">>
      BY <2>6, <3>2
    <3>3. QED
      BY <2>7, <3>1, <3>2 DEF Final
  <2>8. CASE charge[c] = <<>> \/ charge[c] = <<"rejected">>
    <3>1. ASSUME charge[c] = <<>> PROVE Len(charge[c]) <= 1
      BY <2>6, <3>1
    <3>2. ASSUME charge[c] = <<"rejected">> PROVE Len(charge[c]) <= 1
      BY <2>5, <3>2
    <3>3. Len(charge[c]) <= 1
      BY <2>8, <3>1, <3>2
    <3>4. CASE c \notin conns
      BY <2>4, <2>7, <3>4
    <3>5. QED
      BY <3>3, <3>4
  <2>9. QED
    BY <2>3, <2>7, <2>8
<1>2. QED
  BY <1>1, WorkHolds, PTL

(* counters.live is the number of open connections. *)
THEOREM WorkerLive == SafeSpec => []LiveCount
<1>1. Work => LiveCount
  BY DEF Work
<1>2. QED
  BY <1>1, WorkHolds, PTL

(* A connection on its way to Completed has nothing in flight. *)
THEOREM WorkerCompleted == SafeSpec => []CompletedIsClean
<1>1. Work => CompletedIsClean
  BY DEF Work, Entries, Entry, Torn, CompletedIsClean
<1>2. QED
  BY <1>1, WorkHolds, PTL

-----------------------------------------------------------------------------
(* The channel of jobs.                                                    *)

(* A connection that is open has at most one job in the channel. *)
LEMMA OneJob ==
  ASSUME Inv, Work, NEW i \in DOMAIN jobs, NEW j \in DOMAIN jobs,
         jobs[i].id = jobs[j].id, Usable(jobs[i].id)
  PROVE  i = j
<1> DEFINE c == jobs[i].id
           M == {k \in DOMAIN jobs : jobs[k].id = c}
<1>1. jobs \in Seq(Job)
  BY DEF Inv, TypeOK
<1>2. IsFiniteSet(M) /\ i \in M /\ j \in M
  <2>1. IsFiniteSet(1..Len(jobs)) /\ DOMAIN jobs = 1..Len(jobs)
    BY <1>1, FS_Interval
  <2>2. QED
    BY <2>1, FS_Subset
<1>3. Cardinality(M) <= 1
  <2>1. /\ IdsIn(jobs, c) \in Nat /\ CallsIn(running, c) \in Nat
        /\ IdsIn(ready, c) \in Nat /\ IdsIn(drained, c) \in Nat
        /\ HookCalls(c) \in Nat
    BY HookNat
  <2>2. HookCalls(c) <= 1
    BY <2>1, HookSole
  <2>3. HookCalls(c) = IdsIn(jobs, c) + CallsIn(running, c) + IdsIn(ready, c)
                         + IdsIn(drained, c) + Expect(blockedOn = c)
    BY HookSum
  <2>4. IdsIn(jobs, c) <= 1
    BY <2>1, <2>2, <2>3 DEF Expect
  <2>5. QED
    BY <2>4 DEF IdsIn
<1>4. ASSUME i # j PROVE FALSE
  <2>1. IsFiniteSet({i}) /\ Cardinality({i}) = 1
    BY FS_Singleton
  <2>2. IsFiniteSet(M \ {i}) /\ Cardinality(M \ {i}) = Cardinality(M) - 1
    BY <1>2, FS_RemoveElement
  <2>3. j \in M \ {i}
    BY <1>2, <1>4
  <2>4. Cardinality(M \ {i}) # 0 /\ Cardinality(M \ {i}) \in Nat /\ Cardinality(M) \in Nat
    BY <1>2, <2>2, <2>3, FS_EmptySet, FS_CardinalityType
  <2>5. QED
    BY <1>3, <2>2, <2>4
<1>5. QED
  BY <1>4

(* Jobs of open connections leave room in the table for one that has none. *)
LEMMA JobsFit ==
  ASSUME Inv, Work, NEW b, Usable(b), IdsIn(jobs, b) = 0,
         \A i \in DOMAIN jobs : Usable(jobs[i].id)
  PROVE  Len(jobs) < MaxConns
<1> DEFINE D == DOMAIN jobs
           f == [i \in D |-> jobs[i].id]
           T == conns \ {b}
<1>1. jobs \in Seq(Job) /\ b \in conns
  BY DEF Inv, TypeOK, Usable
<1>2. D = 1..Len(jobs) /\ Len(jobs) \in Nat
  BY <1>1
<1>3. \A i \in D : jobs[i].id # b
  BY <1>1, IdsChange
<1>4. f \in Injection(D, T)
  <2>1. f \in [D -> T]
    BY <1>3 DEF Usable
  <2>2. \A i, j \in D : f[i] = f[j] => i = j
    BY OneJob
  <2>3. QED
    BY <2>1, <2>2 DEF Injection, IsInjective
<1>5. IsFiniteSet(T) /\ Cardinality(T) = Cardinality(conns) - 1
  BY <1>1, ConnsFinite, FS_RemoveElement
<1>6. Cardinality(D) <= Cardinality(T)
  BY <1>4, <1>5, FS_Injection
<1>7. Cardinality(D) = Len(jobs)
  <2>1. Cardinality(1..Len(jobs)) = IF 1 > Len(jobs) THEN 0 ELSE Len(jobs) - 1 + 1
    BY <1>2, FS_Interval
  <2>2. QED
    BY <1>2, <2>1
<1>8. Cardinality(conns) <= MaxConns /\ Cardinality(conns) \in Nat
  BY ConnsFinite DEF Inv, TypeOK, ConnCap
<1> HIDE DEF D, T
<1>9. QED
  BY <1>2, <1>5, <1>6, <1>7, <1>8

(* While the send on jobs is blocked and the channel is full, it holds the *)
(* job of a connection that was torn down.                                 *)
THEOREM WorkerBlockedByGone == SafeSpec => []BlockedOnlyByGone
<1>1. Inv /\ Work => BlockedOnlyByGone
  <2>1. SUFFICES ASSUME Inv, Work, phase = "blocked", Len(jobs) = JobsCap,
                        JobsCap >= MaxConns,
                        \A i \in DOMAIN jobs : Usable(jobs[i].id)
                 PROVE  FALSE
    BY DEF BlockedOnlyByGone
  <2>2. Usable(blockedOn)
    BY <2>1 DEF Work, BlockedLive
  <2>3. PICK b : b = blockedOn
    OBVIOUS
  <2>4. /\ IdsIn(jobs, b) \in Nat /\ CallsIn(running, b) \in Nat
        /\ IdsIn(ready, b) \in Nat /\ IdsIn(drained, b) \in Nat
        /\ HookCalls(b) \in Nat
    BY <2>1, HookNat
  <2>5. HookCalls(b) = IdsIn(jobs, b) + CallsIn(running, b) + IdsIn(ready, b)
                         + IdsIn(drained, b) + 1
    BY <2>3, HookSum DEF Expect
  <2>6. HookCalls(b) > 0
    BY <2>4, <2>5
  <2>7. HookCalls(b) = 1
    BY <2>1, <2>2, <2>3, <2>6, HookSole
  <2>8. IdsIn(jobs, b) = 0
    BY <2>4, <2>5, <2>7
  <2>9. Len(jobs) < MaxConns
    BY <2>1, <2>2, <2>3, <2>8, JobsFit
  <2>10. QED
    BY <2>1, <2>9
<1>2. QED
  BY <1>1, WorkHolds, PTL

(* Without an idle timeout, and with a channel at least as large as the    *)
(* table, the send on jobs never blocks: a slow hook parks its connection, *)
(* never the ring.                                                         *)
THEOREM WorkerNeverBlocks ==
  ASSUME IdleTicks = 0, JobsCap >= MaxConns
  PROVE  SafeSpec => []RingNeverBlocked
<1>1. Init => RingNeverBlocked
  BY DEF Init, RingNeverBlocked
<1>2. Inv /\ Work /\ RingNeverBlocked /\ [Next]_vars => RingNeverBlocked'
  <2>1. SUFFICES ASSUME Inv, Work, phase # "blocked", [Next]_vars, phase' = "blocked"
                 PROVE  FALSE
    BY DEF RingNeverBlocked
  <2>2. PICK o \in batch : OnRecvReq(o)
    <3>1. ASSUME NEW o \in batch, Handle(o) PROVE OnRecvReq(o)
      BY <2>1, <3>1
      DEF Handle, Handshake, Relay, OnAccept, OnClose, OnTimeout, OnEventfd, Stale,
          OnFailure, OnPartialSend, OnReplyClient, OnReplyMore, OnRejectSend, OnSendUp,
          OnC2URecv, OnC2UEnd, OnC2USend, OnU2CRecv, OnU2CEnd, OnU2CSend, OnSuccess,
          OnData, Elsewhere, ringVars
    <3>2. ASSUME \/ Kernel \/ Hook \/ Stop \/ Waking \/ ApplyResult \/ Unblock
                 \/ Turn \/ Exit \/ SubmitFails \/ Terminated \/ UNCHANGED vars
          PROVE  FALSE
      BY <2>1, <3>2
      DEF Kernel, KernelAccept, Hook, HookTake, HookReturn, Stop, Waking, Wake,
          ApplyResult, ApplyLate, ApplyReject, ApplyMore, ApplyRelay, ApplyTo, Applying,
          Unblock, Turn, Exit, SubmitFails, Terminated, ringVars, vars
    <3>3. QED
      BY <2>1, <3>1, <3>2 DEF Next, RingThread
  <2>3. /\ Harvest(o) /\ Usable(o.id) /\ o.op \in PreRelayOps /\ Len(jobs) >= JobsCap
    BY <2>1, <2>2 DEF OnRecvReq, OnData, PreRelayOps, Inv, TypeOK
  <2>4. HookCalls(o.id) = 0
    BY <2>1, <2>3, PreRelaySole
  <2>5. PICK c : c = o.id
    OBVIOUS
  <2>6. /\ IdsIn(jobs, c) \in Nat /\ CallsIn(running, c) \in Nat
        /\ IdsIn(ready, c) \in Nat /\ IdsIn(drained, c) \in Nat
    BY <2>1, HookNat
  <2>7. IdsIn(jobs, c) = 0
    BY <2>4, <2>5, <2>6, HookSum DEF Expect
  <2>8. \A i \in DOMAIN jobs : Usable(jobs[i].id)
    <3>1. TAKE i \in DOMAIN jobs
    <3>2. jobs \in Seq(Job)
      BY <2>1 DEF Inv, TypeOK
    <3>3. PICK d : d = jobs[i].id
      OBVIOUS
    <3>4. d \in Ids
      <4>1. jobs[i] \in Job
        BY <3>2
      <4>2. QED
        BY <3>3, <4>1 DEF Job
    <3>5. IdsIn(jobs, d) # 0
      BY <3>2, <3>3, IdsChange
    <3>6. /\ IdsIn(jobs, d) \in Nat /\ CallsIn(running, d) \in Nat
          /\ IdsIn(ready, d) \in Nat /\ IdsIn(drained, d) \in Nat
      BY <2>1, HookNat
    <3>7. HookCalls(d) > 0
      <4>1. HookCalls(d) = IdsIn(jobs, d) + CallsIn(running, d) + IdsIn(ready, d)
                             + IdsIn(drained, d) + Expect(blockedOn = d)
        BY HookSum
      <4>2. QED
        BY <3>5, <3>6, <4>1 DEF Expect
    <3>8. QED
      BY <2>1, <3>3, <3>4, <3>7 DEF Work, HooksLive, SweptAway
  <2>9. Len(jobs) < MaxConns
    BY <2>1, <2>3, <2>5, <2>7, <2>8, JobsFit
  <2>10. Len(jobs) \in Nat
    BY <2>1 DEF Inv, TypeOK
  <2>11. QED
    BY <2>3, <2>9, <2>10
<1>3. QED
  BY <1>1, <1>2, WorkHolds, PTL DEF SafeSpec

-----------------------------------------------------------------------------
(* What a step prepares.                                                   *)

(* A new operation, other than a close, is for an open connection. *)
PostsForOpen ==
  \A o \in sq' \ sq : o.op \in DataOps => o.id \in conns' /\ ~conn'[o.id].closing

(* Keeping a connection that is not closing, *)
LEMMA ProceedPosts ==
  ASSUME Inv, NEW c \in conns, NEW r, ~r.closing, NEW P, \A p \in P : p.id = c,
         Proceed(c, r, P)
  PROVE  PostsForOpen
<1>1. conn'[c] = r
  BY ConnsAreIds DEF Proceed, Inv, TypeOK
<1>2. QED
  BY <1>1 DEF Proceed, PostsForOpen

(* closeConn and fail, *)
LEMMA ClosePosts ==
  ASSUME NEW c, NEW r, (\E B : closeConn(c, r, B)) \/ fail(c, r)
  PROVE  PostsForOpen
<1>1. PICK s, B : closeConn(c, s, B)
  BY DEF fail
<1>2. \A o \in CloseOps(c, s) : o.op \notin DataOps
  BY DEF CloseOps, Op, DataOps, PreRelayOps, C2UOps, U2COps
<1>3. QED
  BY <1>1, <1>2 DEF closeConn, PostsForOpen

(* startDuplex and forwardInit. *)
LEMMA ForwardPosts ==
  ASSUME Inv, NEW c \in conns, NEW r \in Conn, ~r.closing,
         startDuplex(c, r) \/ forwardInit(c, r)
  PROVE  PostsForOpen
<1>1. ~[r EXCEPT !.relayStarted = TRUE].closing
  BY DEF Conn
<1>2. CASE startDuplex(c, r)
  <2> DEFINE P == {Op(c, "opC2URecv", r.clientFD), Op(c, "opU2CRecv", r.upstreamFD)}
             s == [r EXCEPT !.relayStarted = TRUE]
  <2>1. Proceed(c, s, P)
    BY <1>2 DEF startDuplex
  <2>2. \A p \in P : p.id = c
    BY DEF Op
  <2> HIDE DEF P
  <2>3. QED
    BY <1>1, <2>1, <2>2, ProceedPosts
<1>3. CASE Proceed(c, r, {Op(c, "opSendUp", r.upstreamFD)})
  <2>1. Op(c, "opSendUp", r.upstreamFD).id = c
    BY DEF Op
  <2>2. QED
    BY <1>3, <2>1, ProceedPosts
<1>4. QED
  BY <1>2, <1>3 DEF forwardInit

(* The handlers of the relay phase. *)
LEMMA RelayPosts ==
  ASSUME Inv, NEW o \in batch, Relay(o) PROVE PostsForOpen
<1> DEFINE c == o.id
<1>1. Usable(c)
  BY DEF Relay, OnC2URecv, OnC2UEnd, OnC2USend, OnU2CRecv, OnU2CEnd, OnU2CSend,
         OnSuccess, OnData
<1>2. c \in conns /\ conn[c] \in Conn /\ Refreshed(c) \in Conn
  BY <1>1, UsableConn
<1>3. ~conn[c].closing /\ ~Refreshed(c).closing
      /\ ~[conn[c] EXCEPT !.clientReadDone = TRUE].closing
      /\ ~[conn[c] EXCEPT !.upstreamReadDone = TRUE].closing
  BY <1>1, <1>2 DEF Usable, Refreshed, Conn
<1>4. \A k, f : Op(c, k, f).id = c
  BY DEF Op
<1>5. CASE OnC2URecv(o)
  BY <1>2, <1>3, <1>4, <1>5, ProceedPosts DEF OnC2URecv
<1>6. CASE OnC2UEnd(o)
  <2> DEFINE r == [conn[c] EXCEPT !.clientReadDone = TRUE]
  <2>1. closeConn(c, r, <<>>) \/ Proceed(c, r, {})
    BY <1>6 DEF OnC2UEnd
  <2>2. ~r.closing
    BY <1>3
  <2> HIDE DEF r
  <2>3. CASE closeConn(c, r, <<>>)
    BY <2>3, ClosePosts
  <2>4. CASE Proceed(c, r, {})
    BY <1>2, <2>2, <2>4, ProceedPosts
  <2>5. QED
    BY <2>1, <2>3, <2>4
<1>7. CASE OnC2USend(o)
  <2> DEFINE P == IF conn[c].clientReadDone THEN {}
                  ELSE {Op(c, "opC2URecv", conn[c].clientFD)}
  <2>1. Proceed(c, conn[c], P) /\ \A p \in P : p.id = c
    BY <1>4, <1>7 DEF OnC2USend
  <2> HIDE DEF P
  <2>2. QED
    BY <1>2, <1>3, <2>1, ProceedPosts
<1>8. CASE OnU2CRecv(o)
  BY <1>2, <1>3, <1>4, <1>8, ProceedPosts DEF OnU2CRecv
<1>9. CASE OnU2CEnd(o)
  <2> DEFINE r == [conn[c] EXCEPT !.upstreamReadDone = TRUE]
  <2>1. closeConn(c, r, <<>>) \/ Proceed(c, r, {})
    BY <1>9 DEF OnU2CEnd
  <2>2. ~r.closing
    BY <1>3
  <2> HIDE DEF r
  <2>3. CASE closeConn(c, r, <<>>)
    BY <2>3, ClosePosts
  <2>4. CASE Proceed(c, r, {})
    BY <1>2, <2>2, <2>4, ProceedPosts
  <2>5. QED
    BY <2>1, <2>3, <2>4
<1>10. CASE OnU2CSend(o)
  <2> DEFINE P == IF conn[c].upstreamReadDone THEN {}
                  ELSE {Op(c, "opU2CRecv", conn[c].upstreamFD)}
  <2>1. Proceed(c, conn[c], P) /\ \A p \in P : p.id = c
    BY <1>4, <1>10 DEF OnU2CSend
  <2> HIDE DEF P
  <2>2. QED
    BY <1>2, <1>3, <2>1, ProceedPosts
<1>11. QED
  BY <1>5, <1>6, <1>7, <1>8, <1>9, <1>10 DEF Relay

(* The handlers before the relay phase. *)
LEMMA HandshakePosts ==
  ASSUME Inv, NEW o \in batch, Handshake(o) \/ OnFailure(o) \/ OnPartialSend(o)
  PROVE  PostsForOpen
<1> DEFINE c == o.id
<1>1. Usable(c)
  BY DEF Handshake, OnRecvReq, OnReplyClient, OnReplyMore, OnRejectSend, OnSendUp,
         OnFailure, OnPartialSend, OnSuccess, OnData
<1>2. c \in conns /\ conn[c] \in Conn /\ Refreshed(c) \in Conn
  BY <1>1, UsableConn
<1>3. ~conn[c].closing /\ ~Refreshed(c).closing
  BY <1>1, <1>2 DEF Usable, Refreshed, Conn
<1>4. \A k, f : Op(c, k, f).id = c
  BY DEF Op
<1>5. CASE OnRecvReq(o)
  BY <1>2, <1>3, <1>5, ProceedPosts DEF OnRecvReq
<1>6. CASE OnReplyClient(o) \/ OnSendUp(o)
  BY <1>2, <1>3, <1>6, ForwardPosts DEF OnReplyClient, OnSendUp
<1>7. CASE OnReplyMore(o)
  <2> DEFINE p == Op(c, "opRecvReq", conn[c].clientFD)
  <2>1. Proceed(c, conn[c], {p}) /\ p.id = c
    BY <1>4, <1>7 DEF OnReplyMore
  <2> HIDE DEF p
  <2>2. QED
    BY <1>2, <1>3, <2>1, ProceedPosts
<1>8. CASE OnRejectSend(o) \/ OnFailure(o)
  BY <1>8, ClosePosts DEF OnRejectSend, OnFailure
<1>9. CASE OnPartialSend(o)
  BY <1>2, <1>3, <1>9, ProceedPosts DEF OnPartialSend
<1>10. QED
  BY <1>5, <1>6, <1>7, <1>8, <1>9 DEF Handshake

(* The decisions of hooks. *)
LEMMA ApplyPosts ==
  ASSUME Inv, ApplyResult PROVE PostsForOpen
<1> DEFINE c == Head(drained).id
           f == Head(drained).fd
<1>1. CASE ApplyLate
  BY <1>1 DEF ApplyLate, tableVars, PostsForOpen
<1>2. ASSUME ApplyReject \/ ApplyMore \/ ApplyRelay PROVE PostsForOpen
  <2>1. Applying /\ Usable(c)
    BY <1>2 DEF ApplyReject, ApplyMore, ApplyRelay, ApplyTo
  <2>2. c \in conns /\ c \in Ids /\ conn[c] \in Conn /\ Refreshed(c) \in Conn
    BY <2>1, UsableConn
  <2>3. f \in 0..MaxFD
    <3>1. Head(drained) \in Result
      BY <2>1 DEF Applying, Inv, TypeOK
    <3>2. QED
      BY <3>1 DEF Result
  <2>4. /\ ~Refreshed(c).closing
        /\ ~[Refreshed(c) EXCEPT !.counted = TRUE].closing
        /\ ~[Refreshed(c) EXCEPT !.upstreamFD = f].closing
    BY <2>1, <2>2 DEF Usable, Refreshed, Conn
  <2>5. [Refreshed(c) EXCEPT !.upstreamFD = f] \in Conn
    BY <2>2, <2>3, ConnFields
  <2>6. \A k, g : Op(c, k, g).id = c
    BY DEF Op
  <2>7. CASE ApplyReject
    <3> DEFINE cc == [Refreshed(c) EXCEPT !.counted = TRUE]
    <3>1. \/ closeConn(c, cc, <<"rejected">>)
          \/ /\ conn' = [conn EXCEPT ![c] = cc] /\ conns' = conns
             /\ sq' = sq \cup {Op(c, "opRejectSend", cc.clientFD)}
      BY <2>7 DEF ApplyReject
    <3>2. ASSUME conn' = [conn EXCEPT ![c] = cc], conns' = conns,
                 sq' = sq \cup {Op(c, "opRejectSend", cc.clientFD)}
          PROVE  PostsForOpen
      <4>1. conn'[c] = cc
        BY <2>2, <3>2 DEF Inv, TypeOK
      <4>2. ~conn'[c].closing /\ c \in conns'
        BY <2>2, <2>4, <3>2, <4>1
      <4>3. \A o \in sq' \ sq : o.id = c
        BY <2>6, <3>2
      <4>4. QED
        BY <4>2, <4>3 DEF PostsForOpen
    <3>3. QED
      BY <3>1, <3>2, ClosePosts
  <2>8. CASE ApplyMore
    <3> DEFINE k == IF Head(drained).reply THEN "opReplyMore" ELSE "opRecvReq"
    <3>1. \/ fail(c, Refreshed(c))
          \/ Proceed(c, Refreshed(c), {Op(c, k, Refreshed(c).clientFD)})
      BY <2>8 DEF ApplyMore
    <3>2. QED
      BY <2>2, <2>4, <2>6, <3>1, ProceedPosts, ClosePosts
  <2>9. CASE ApplyRelay
    <3> DEFINE cc == [Refreshed(c) EXCEPT !.upstreamFD = f]
    <3>1. \/ Proceed(c, cc, {Op(c, "opReplyClient", cc.clientFD)})
          \/ forwardInit(c, cc)
      BY <2>9 DEF ApplyRelay
    <3>2. cc \in Conn /\ ~cc.closing
      BY <2>4, <2>5
    <3> HIDE DEF cc
    <3>3. QED
      BY <2>2, <2>6, <3>1, <3>2, ProceedPosts, ForwardPosts
  <2>10. QED
    BY <1>2, <2>7, <2>8, <2>9
<1>3. QED
  BY <1>1, <1>2 DEF ApplyResult

(* The handlers that belong to no connection, or to one that is closing. *)
LEMMA OtherPosts ==
  ASSUME Inv, NEW o \in batch,
         OnAccept(o) \/ OnClose(o) \/ OnTimeout(o) \/ OnEventfd(o) \/ Stale(o)
  PROVE  PostsForOpen
<1>1. \A c, f : Op(c, "opClose", f).op \notin DataOps
  BY DEF Op, DataOps, PreRelayOps, C2UOps, U2COps
<1>2. TimeoutOp.op \notin DataOps /\ EventfdOp.op \notin DataOps
  BY DEF TimeoutOp, EventfdOp, Op, DataOps, PreRelayOps, C2UOps, U2COps
<1>3. CASE OnAccept(o)
  <2> DEFINE n == nextID + 1
             p == Op(n, "opRecvReq", o.fd)
  <2>1. \/ sq' = sq \/ sq' = sq \cup {Op(0, "opClose", o.fd)}
        \/ /\ conns' = conns \cup {n} /\ nextID' = n
           /\ conn' = [conn EXCEPT ![n] = NewConn(o.fd)]
           /\ sq' = sq \cup {p}
    BY <1>3 DEF OnAccept
  <2>2. ASSUME conns' = conns \cup {n}, nextID' = n,
               conn' = [conn EXCEPT ![n] = NewConn(o.fd)], sq' = sq \cup {p}
        PROVE  PostsForOpen
    <3>1. n \in Ids
      <4>1. Inv'
        BY <1>3, AcceptInv
      <4>2. nextID' \in 0..MaxId /\ nextID \in Nat
        BY <4>1 DEF Inv, TypeOK
      <4>3. QED
        BY <2>2, <4>2 DEF Ids
    <3>2. conn'[n] = NewConn(o.fd) /\ ~NewConn(o.fd).closing
      BY <2>2, <3>1 DEF Inv, TypeOK, NewConn
    <3>3. p.id = n
      BY DEF Op
    <3> HIDE DEF p
    <3>4. QED
      BY <2>2, <3>2, <3>3 DEF PostsForOpen
  <2>3. QED
    BY <1>1, <2>1, <2>2 DEF PostsForOpen
<1>4. CASE OnTimeout(o)
  <2>1. \A c, r : \A p \in CloseOps(c, r) : p.op \notin DataOps
    BY <1>1 DEF CloseOps
  <2>2. PICK S : sq' = sq \cup {TimeoutOp} \cup UNION {CloseOps(c, conn[c]) : c \in S}
    BY <1>4 DEF OnTimeout
  <2>3. QED
    BY <1>2, <2>1, <2>2 DEF PostsForOpen
<1>5. CASE OnClose(o) \/ Stale(o) \/ OnEventfd(o)
  BY <1>2, <1>5 DEF OnClose, Stale, OnEventfd, tableVars, PostsForOpen
<1>6. QED
  BY <1>3, <1>4, <1>5

(* A step never prepares an operation for a connection that is closing or  *)
(* gone, other than the closes of its own teardown.                        *)
THEOREM WorkerNoPost == SafeSpec => NoPostAfterClose
<1>1. Inv /\ [Next]_vars => [PostsForOpen]_vars
  <2>1. SUFFICES ASSUME Inv, Next PROVE PostsForOpen
    OBVIOUS
  <2>2. CASE Kernel \/ Hook \/ Stop \/ Waking
    BY <2>2 DEF Kernel, KernelAccept, Hook, HookTake, HookReturn, Stop, Waking, Wake,
                tableVars, PostsForOpen
  <2>3. ASSUME NEW o \in batch, Handle(o) PROVE PostsForOpen
    BY <2>1, <2>3, RelayPosts, HandshakePosts, OtherPosts DEF Handle
  <2>4. CASE ApplyResult
    BY <2>1, <2>4, ApplyPosts
  <2>5. CASE Unblock \/ Turn \/ Exit \/ SubmitFails \/ Terminated
    BY <2>5 DEF Unblock, Turn, Exit, SubmitFails, Terminated, tableVars, vars, PostsForOpen
  <2>6. QED
    BY <2>1, <2>2, <2>3, <2>4, <2>5 DEF Next, RingThread
<1>2. QED
  BY <1>1, InvHolds, PTL DEF SafeSpec, NoPostAfterClose, PostsForOpen

-----------------------------------------------------------------------------
(* The addresses that hooks are told.                                      *)

(* A step opens no connection that was closing or gone. *)
StaysClosed == \A c \in 1..nextID : ~Usable(c) => ~Usable(c)'

(* The closures change their own connection only. *)
LEMMA ClosureCloses ==
  ASSUME Inv, NEW c, Usable(c), NEW r,
         \/ \E P : Proceed(c, r, P)
         \/ \E B : closeConn(c, r, B)
         \/ fail(c, r) \/ forwardInit(c, r)
  PROVE  StaysClosed
<1>1. conns' \subseteq conns /\ \E s : conn' = [conn EXCEPT ![c] = s]
  BY DEF Proceed, closeConn, fail, forwardInit, startDuplex
<1>2. \A d \in Ids \ {c} : conn'[d] = conn[d]
  BY <1>1 DEF Inv, TypeOK
<1>3. QED
  BY <1>1, <1>2, ConnsAreIds DEF StaysClosed, Usable

(* The handlers of data and the results of hooks. *)
LEMMA DataCloses ==
  ASSUME Inv, NEW o \in batch,
         Handshake(o) \/ Relay(o) \/ OnFailure(o) \/ OnPartialSend(o)
  PROVE  StaysClosed
<1> DEFINE c == o.id
<1>1. Usable(c)
  BY DEF Handshake, OnRecvReq, OnReplyClient, OnReplyMore, OnRejectSend, OnSendUp,
         OnFailure, OnPartialSend, Relay, OnC2URecv, OnC2UEnd, OnC2USend, OnU2CRecv,
         OnU2CEnd, OnU2CSend, OnSuccess, OnData
<1>2. \E r : \/ \E P : Proceed(c, r, P)
             \/ \E B : closeConn(c, r, B)
             \/ fail(c, r) \/ forwardInit(c, r)
  <2>1. CASE Handshake(o) \/ OnFailure(o) \/ OnPartialSend(o)
    BY <2>1 DEF Handshake, OnRecvReq, OnReplyClient, OnReplyMore, OnRejectSend,
                OnSendUp, OnFailure, OnPartialSend, forwardInit
  <2>2. CASE Relay(o)
    BY <2>2 DEF Relay, OnC2URecv, OnC2UEnd, OnC2USend, OnU2CRecv, OnU2CEnd, OnU2CSend
  <2>3. QED
    BY <2>1, <2>2
<1>3. QED
  BY <1>1, <1>2, ClosureCloses

LEMMA ResultCloses ==
  ASSUME Inv, ApplyResult PROVE StaysClosed
<1> DEFINE c == Head(drained).id
<1>1. CASE ApplyLate
  BY <1>1 DEF ApplyLate, tableVars, StaysClosed, Usable
<1>2. CASE ApplyReject
  <2>1. Usable(c)
    BY <1>2 DEF ApplyReject, ApplyTo
  <2>2. \/ \E r, B : closeConn(c, r, B)
        \/ conns' = conns /\ \E r : conn' = [conn EXCEPT ![c] = r]
    BY <1>2 DEF ApplyReject
  <2>3. ASSUME conns' = conns, \E r : conn' = [conn EXCEPT ![c] = r]
        PROVE  StaysClosed
    <3>1. \A d \in Ids \ {c} : conn'[d] = conn[d]
      BY <2>3 DEF Inv, TypeOK
    <3>2. QED
      BY <2>1, <2>3, <3>1, ConnsAreIds DEF StaysClosed, Usable
  <2>4. QED
    BY <2>1, <2>2, <2>3, ClosureCloses
<1>3. CASE ApplyMore \/ ApplyRelay
  <2>1. Usable(c)
    BY <1>3 DEF ApplyMore, ApplyRelay, ApplyTo
  <2>2. \E r : (\E P : Proceed(c, r, P)) \/ fail(c, r) \/ forwardInit(c, r)
    BY <1>3 DEF ApplyMore, ApplyRelay
  <2>3. QED
    BY <2>1, <2>2, ClosureCloses
<1>4. QED
  BY <1>1, <1>2, <1>3 DEF ApplyResult

(* The handlers that belong to no connection, or to one that is closing. *)
LEMMA OtherCloses ==
  ASSUME Inv, NEW o \in batch,
         OnAccept(o) \/ OnClose(o) \/ OnTimeout(o) \/ OnEventfd(o) \/ Stale(o)
  PROVE  StaysClosed
<1>1. CASE OnAccept(o)
  <2>1. \/ conns' = conns /\ conn' = conn
        \/ /\ conns' = conns \cup {nextID + 1}
           /\ conn' = [conn EXCEPT ![nextID + 1] = NewConn(o.fd)]
    BY <1>1 DEF OnAccept
  <2>2. ASSUME NEW c \in 1..nextID, conns' = conns \cup {nextID + 1},
               conn' = [conn EXCEPT ![nextID + 1] = NewConn(o.fd)], ~Usable(c)
        PROVE  ~Usable(c)'
    <3>1. c # nextID + 1 /\ c \in Ids
      BY DEF Inv, TypeOK, Ids
    <3>2. conn'[c] = conn[c]
      BY <2>2, <3>1 DEF Inv, TypeOK
    <3>3. QED
      BY <2>2, <3>1, <3>2 DEF Usable
  <2>3. QED
    BY <2>1, <2>2 DEF StaysClosed, Usable
<1>2. CASE OnClose(o)
  <2> DEFINE c == o.id
  <2>1. CASE c \notin conns
    BY <1>2, <2>1 DEF OnClose, StaysClosed, Usable
  <2>2. CASE c \in conns
    <3>1. c \in Ids /\ conn[c] \in Conn
      BY <2>2, ConnsAreIds DEF Inv, TypeOK
    <3>2. \/ conns' = conns \ {c} /\ conn' = [conn EXCEPT ![c] = NoConn]
          \/ conns' = conns /\ conn' = [conn EXCEPT ![c].closesLeft = @ - 1]
      BY <1>2, <2>2 DEF OnClose
    <3>3. \A d \in Ids \ {c} : conn'[d] = conn[d]
      BY <3>2 DEF Inv, TypeOK
    <3>4. c \in conns' => conn'[c].closing = conn[c].closing
      <4>1. SUFFICES ASSUME c \in conns' PROVE conn'[c].closing = conn[c].closing
        OBVIOUS
      <4>2. conn' = [conn EXCEPT ![c].closesLeft = @ - 1]
        BY <3>2, <4>1
      <4>3. conn'[c] = [conn[c] EXCEPT !.closesLeft = @ - 1]
        BY <3>1, <4>2 DEF Inv, TypeOK
      <4>4. QED
        BY <3>1, <4>3 DEF Conn
    <3>5. QED
      BY <3>2, <3>3, <3>4, ConnsAreIds DEF StaysClosed, Usable
  <2>3. QED
    BY <2>1, <2>2
<1>3. CASE OnTimeout(o)
  <2>1. SUFFICES ASSUME NEW c \in 1..nextID, ~Usable(c), c \in conns
                 PROVE  conn'[c].closing
    BY <1>3 DEF OnTimeout, StaysClosed, Usable
  <2>2. c \in Ids /\ conn[c] \in Conn /\ conn[c].closing /\ ~Idle(c)
    BY <2>1, ConnsAreIds DEF Inv, TypeOK, Usable, Idle
  <2>3. conn'[c] = Older(conn[c])
    BY <1>3, <2>1, <2>2 DEF OnTimeout
  <2>4. QED
    BY <2>2, <2>3, OlderFields
<1>4. CASE OnEventfd(o) \/ Stale(o)
  BY <1>4 DEF OnEventfd, Stale, tableVars, StaysClosed, Usable
<1>5. QED
  BY <1>1, <1>2, <1>3, <1>4

LEMMA NextCloses == Inv /\ [Next]_vars => StaysClosed
<1> SUFFICES ASSUME Inv, [Next]_vars PROVE StaysClosed
  OBVIOUS
<1>1. ASSUME NEW o \in batch, Handle(o) PROVE StaysClosed
  BY <1>1, DataCloses, OtherCloses DEF Handle
<1>2. CASE ApplyResult
  BY <1>2, ResultCloses
<1>3. ASSUME \/ Kernel \/ Hook \/ Stop \/ Waking \/ Unblock \/ Turn \/ Exit
             \/ SubmitFails \/ Terminated \/ UNCHANGED vars
      PROVE  StaysClosed
  BY <1>3 DEF Kernel, KernelAccept, Hook, HookTake, HookReturn, Stop, Waking, Wake,
              Unblock, Turn, Exit, SubmitFails, Terminated, tableVars, vars,
              StaysClosed, Usable
<1>4. QED
  BY <1>1, <1>2, <1>3 DEF Next, RingThread

(* A hook that was told a wrong address works for a connection that is     *)
(* closing or gone.                                                        *)
PeersOfOpen == \A h \in running : h.peer = "own" \/ ~Usable(h.id)

(* A running hook call is one of the calls of its connection. *)
LEMMA RunningCalls ==
  ASSUME Inv, NEW h \in running
  PROVE  h.id \in Ids /\ HookCalls(h.id) > 0
<1>1. PICK c : c = h.id
  OBVIOUS
<1>2. c \in Ids /\ running \in SUBSET HookCall
  BY <1>1 DEF Inv, TypeOK, HookCall
<1>3. /\ IdsIn(jobs, c) \in Nat /\ CallsIn(running, c) \in Nat
      /\ IdsIn(ready, c) \in Nat /\ IdsIn(drained, c) \in Nat
  BY HookNat
<1>4. CallsIn(running, c) # 0
  BY <1>1, <1>2, CallsNone
<1>5. HookCalls(c) = IdsIn(jobs, c) + CallsIn(running, c) + IdsIn(ready, c)
                       + IdsIn(drained, c) + Expect(blockedOn = c)
  BY HookSum
<1>6. HookCalls(c) > 0
  BY <1>3, <1>4, <1>5 DEF Expect
<1>7. QED
  BY <1>1, <1>2, <1>6

LEMMA NextPeers == Inv /\ Work /\ PeersOfOpen /\ [Next]_vars => PeersOfOpen'
<1> SUFFICES ASSUME Inv, Work, PeersOfOpen, [Next]_vars, NEW h \in running'
             PROVE  h.peer = "own" \/ ~Usable(h.id)'
  BY DEF PeersOfOpen
<1>1. StaysClosed
  BY NextCloses
<1>2. CASE h \in running
  <2>1. h.id \in Ids /\ HookCalls(h.id) > 0
    BY <1>2, RunningCalls
  <2>2. h.id \in 1..nextID
    BY <2>1 DEF Work, HooksIssued, Inv, TypeOK, Ids
  <2>3. QED
    BY <1>1, <1>2, <2>2 DEF PeersOfOpen, StaysClosed
<1>3. CASE h \notin running
  <2>1. HookTake
    BY <1>3
    DEF Next, RingThread, Kernel, KernelAccept, Hook, HookReturn, Stop, Waking, Wake,
        Handle, Handshake, Relay, OnAccept, OnClose, OnTimeout, OnEventfd, Stale,
        OnFailure, OnPartialSend, OnRecvReq, OnReplyClient, OnReplyMore, OnRejectSend,
        OnSendUp, OnC2URecv, OnC2UEnd, OnC2USend, OnU2CRecv, OnU2CEnd, OnU2CSend,
        OnSuccess, Elsewhere, ApplyResult, ApplyLate, ApplyReject, ApplyMore,
        ApplyRelay, ApplyTo, Applying, Unblock, Turn, Exit, SubmitFails, Terminated,
        hookVars, vars
  <2>2. h.id = Head(jobs).id /\ h.peer = PeerOf(Head(jobs))
    BY <1>3, <2>1 DEF HookTake
  <2>3. Usable(h.id)' = Usable(h.id)
    BY <2>1 DEF HookTake, tableVars, Usable
  <2>4. QED
    BY <2>2, <2>3 DEF PeerOf, Usable
<1>4. QED
  BY <1>2, <1>3

(* A hook is told the address of its own client, unless the idle sweep     *)
(* tore the connection down while its job was queued: for any number of    *)
(* hooks and connections and however descriptor numbers are reused.        *)
THEOREM WorkerPeers == SafeSpec => []PeerIsOwn
<1>1. Init => PeersOfOpen
  BY DEF Init, PeersOfOpen
<1>2. Inv /\ Work /\ PeersOfOpen => PeerIsOwn
  <2>1. SUFFICES ASSUME Inv, Work, PeersOfOpen, NEW h \in running, h.peer # "own"
                 PROVE  Swept(h.id)
    BY DEF PeerIsOwn
  <2>2. ~Usable(h.id) /\ h.id \in Ids /\ HookCalls(h.id) > 0
    BY <2>1, RunningCalls DEF PeersOfOpen
  <2>3. QED
    BY <2>1, <2>2 DEF Work, HooksLive, SweptAway
<1>3. QED
  BY <1>1, <1>2, NextPeers, WorkHolds, PTL DEF SafeSpec

-----------------------------------------------------------------------------
(* Third part: descriptors and the accounting of closes. *)

(* Operations that a connection has while it has no upstream yet. *)
AskOps == {"opRecvReq", "opReplyMore", "opRejectSend"}

Asks(c) == HookCalls(c) > 0 \/ \E o \in InRing : o.id = c /\ o.op \in AskOps

(* A connection that may still adopt an upstream has none. *)
OneUpstream == \A c \in conns : Usable(c) /\ Asks(c) => conn[c].upstreamFD = NoFD

(* A prepared close is for a descriptor of a connection that is closing. *)
ClosesOwned ==
  \A o \in sq : o.op = "opClose" =>
    /\ o.id \in conns /\ conn[o.id].closing
    /\ o.fd # NoFD /\ o.fd \in {conn[o.id].clientFD, conn[o.id].upstreamFD}

(* closesLeft counts the closes in the ring. *)
Closes ==
  \A c \in conns : conn[c].closing =>
    conn[c].closesLeft = OpsOf(c, {"opClose"}) /\ conn[c].closesLeft > 0

(* Holders of f that are not connections. *)
FdsIn(s, f) == Cardinality({i \in DOMAIN s : s[i].fd = f})
Waiting(f) ==
  Cardinality({o \in AcceptsDone : o.fd = f})
    + Cardinality({o \in sq : o.op = "opClose" /\ o.id = 0 /\ o.fd = f})
    + FdsIn(ready, f) + FdsIn(drained, f)

Owned == \A f \in FDs : Holders(f) = Expect(f \in openFDs)

Fds == Running => Owned /\ Closes /\ ClosesOwned /\ OneUpstream

-----------------------------------------------------------------------------
(* Counting holders.                                                       *)

(* Results, by the descriptor they carry. *)
LEMMA FdsChange ==
  ASSUME NEW s \in Seq(Result), NEW f
  PROVE  /\ FdsIn(s, f) \in Nat
         /\ FdsIn(<<>>, f) = 0
         /\ \A x \in Result : FdsIn(Append(s, x), f) = FdsIn(s, f) + Expect(x.fd = f)
         /\ s # <<>> => FdsIn(Tail(s), f) = FdsIn(s, f) - Expect(Head(s).fd = f)
<1> DEFINE V == {x \in Result : x.fd = f}
<1>1. ASSUME NEW t \in Seq(Result) PROVE FdsIn(t, f) = Occurs(t, V)
  <2>1. {i \in DOMAIN t : t[i].fd = f} = At(t, V)
    BY DEF At
  <2>2. QED
    BY <2>1 DEF FdsIn, Occurs
<1>2. FdsIn(s, f) \in Nat
  BY <1>1, AtFinite
<1>3. FdsIn(<<>>, f) = 0
  <2>1. {i \in DOMAIN <<>> : <<>>[i].fd = f} = {}
    OBVIOUS
  <2>2. QED
    BY <2>1, FS_EmptySet DEF FdsIn
<1>4. ASSUME NEW x \in Result
      PROVE  FdsIn(Append(s, x), f) = FdsIn(s, f) + Expect(x.fd = f)
  <2>1. Append(s, x) \in Seq(Result)
    OBVIOUS
  <2>2. x \in V <=> x.fd = f
    OBVIOUS
  <2> HIDE DEF V
  <2>3. FdsIn(Append(s, x), f) = Occurs(Append(s, x), V) /\ FdsIn(s, f) = Occurs(s, V)
    BY <1>1, <2>1
  <2>4. Occurs(Append(s, x), V) = Occurs(s, V) + (IF x \in V THEN 1 ELSE 0)
    BY OccursAppend
  <2>5. QED
    BY <2>2, <2>3, <2>4 DEF Expect
<1>5. ASSUME s # <<>>
      PROVE  FdsIn(Tail(s), f) = FdsIn(s, f) - Expect(Head(s).fd = f)
  <2>1. Tail(s) \in Seq(Result) /\ Head(s) \in Result
    BY <1>5
  <2>2. Head(s) \in V <=> Head(s).fd = f
    BY <2>1
  <2> HIDE DEF V
  <2>3. QED
    BY <1>1, <1>5, <2>1, <2>2, OccursTail DEF Expect
<1>6. QED
  BY <1>2, <1>3, <1>4, <1>5

(* No close belongs to no connection: the shed branch is dead. *)
LEMMA NoShed ==
  ASSUME Inv, Work, NEW f
  PROVE  Cardinality({o \in sq : o.op = "opClose" /\ o.id = 0 /\ o.fd = f}) = 0
<1>1. {o \in sq : o.op = "opClose" /\ o.id = 0 /\ o.fd = f} = {}
  <2>1. SUFFICES ASSUME NEW o \in sq, o.op = "opClose", o.id = 0 PROVE FALSE
    OBVIOUS
  <2>2. o \in InRing /\ o.op \in WorkOps
    BY <2>1 DEF InRing, WorkOps
  <2>3. o.id \in 1..nextID /\ nextID \in Nat
    BY <2>2 DEF Work, OpsIssued, Inv, TypeOK
  <2>4. QED
    BY <2>1, <2>3
<1>2. QED
  BY <1>1, FS_EmptySet

(* The holders of f are connections, completed accepts and results. *)
LEMMA HoldersAre ==
  ASSUME Inv, Work, NEW f
  PROVE  /\ IsFiniteSet(HeldByConns(f)) /\ Cardinality(HeldByConns(f)) \in Nat
         /\ FdsIn(ready, f) \in Nat /\ FdsIn(drained, f) \in Nat
         /\ Cardinality({o \in AcceptsDone : o.fd = f}) \in Nat
         /\ Waiting(f) = Cardinality({o \in AcceptsDone : o.fd = f})
                           + FdsIn(ready, f) + FdsIn(drained, f)
         /\ Waiting(f) \in Nat
         /\ Holders(f) = Cardinality(HeldByConns(f)) + Waiting(f)
<1>1. ready \in Seq(Result) /\ drained \in Seq(Result) /\ IsFiniteSet(AcceptsDone)
  BY DEF Inv, TypeOK, AcceptsCounted
<1>2. FdsIn(ready, f) \in Nat /\ FdsIn(drained, f) \in Nat
  BY <1>1, FdsChange
<1>3. IsFiniteSet(HeldByConns(f)) /\ Cardinality(HeldByConns(f)) \in Nat
  <2>1. IsFiniteSet({"clientFD"} \cup {"upstreamFD"})
    BY FS_Singleton, FS_Union
  <2>2. {"clientFD"} \cup {"upstreamFD"} = {"clientFD", "upstreamFD"}
    OBVIOUS
  <2>3. IsFiniteSet(conns \X {"clientFD", "upstreamFD"})
    BY <2>1, <2>2, ConnsFinite, FS_Product
  <2>4. HeldByConns(f) \in SUBSET (conns \X {"clientFD", "upstreamFD"})
    BY DEF HeldByConns
  <2>5. QED
    BY <2>3, <2>4, FS_Subset, FS_CardinalityType
<1>4. Cardinality({o \in AcceptsDone : o.fd = f}) \in Nat
  <2>1. IsFiniteSet({o \in AcceptsDone : o.fd = f})
    BY <1>1, FS_Subset
  <2>2. QED
    BY <2>1, FS_CardinalityType
<1>5. Cardinality({o \in sq : o.op = "opClose" /\ o.id = 0 /\ o.fd = f}) = 0
  BY NoShed
<1>6. Waiting(f) = Cardinality({o \in AcceptsDone : o.fd = f})
                     + FdsIn(ready, f) + FdsIn(drained, f)
  BY <1>2, <1>4, <1>5 DEF Waiting
<1>7. Holders(f) = Cardinality(HeldByConns(f)) + Waiting(f)
  BY <1>2, <1>3, <1>4, <1>5 DEF Holders, Waiting, FdsIn
<1>8. QED
  BY <1>2, <1>3, <1>4, <1>6, <1>7

(* The same after the step. *)
LEMMA HoldersAreNext ==
  ASSUME Inv', Work', NEW f
  PROVE  /\ IsFiniteSet(HeldByConns(f)') /\ Cardinality(HeldByConns(f)') \in Nat
         /\ Waiting(f)' = Cardinality({o \in AcceptsDone' : o.fd = f})
                            + FdsIn(ready', f) + FdsIn(drained', f)
         /\ Waiting(f)' \in Nat
         /\ Holders(f)' = Cardinality(HeldByConns(f)') + Waiting(f)'
<1>1. /\ ready' \in Seq(Result) /\ drained' \in Seq(Result)
      /\ IsFiniteSet(AcceptsDone') /\ conns' \subseteq 1..nextID' /\ nextID' \in Nat
  BY DEF Inv, TypeOK, AcceptsCounted
<1>2. FdsIn(ready', f) \in Nat /\ FdsIn(drained', f) \in Nat
  BY <1>1, FdsChange
<1>3. IsFiniteSet(HeldByConns(f)') /\ Cardinality(HeldByConns(f)') \in Nat
  <2>1. IsFiniteSet({"clientFD"} \cup {"upstreamFD"})
    BY FS_Singleton, FS_Union
  <2>2. {"clientFD"} \cup {"upstreamFD"} = {"clientFD", "upstreamFD"}
    OBVIOUS
  <2>3. IsFiniteSet(1..nextID')
    BY <1>1, FS_Interval
  <2>4. IsFiniteSet(conns')
    BY <1>1, <2>3, FS_Subset
  <2>5. IsFiniteSet(conns' \X {"clientFD", "upstreamFD"})
    BY <2>1, <2>2, <2>4, FS_Product
  <2>6. HeldByConns(f)' \in SUBSET (conns' \X {"clientFD", "upstreamFD"})
    BY DEF HeldByConns
  <2>7. QED
    BY <2>5, <2>6, FS_Subset, FS_CardinalityType
<1>4. Cardinality({o \in AcceptsDone' : o.fd = f}) \in Nat
  <2>1. IsFiniteSet({o \in AcceptsDone' : o.fd = f})
    BY <1>1, FS_Subset
  <2>2. QED
    BY <2>1, FS_CardinalityType
<1>5. Cardinality({o \in sq' : o.op = "opClose" /\ o.id = 0 /\ o.fd = f}) = 0
  <2>1. SUFFICES ASSUME NEW o \in sq', o.op = "opClose", o.id = 0 PROVE FALSE
    <3>1. {o \in sq' : o.op = "opClose" /\ o.id = 0 /\ o.fd = f} = {}
      BY <2>1
    <3>2. QED
      BY <3>1, FS_EmptySet
  <2>2. o \in InRing' /\ o.op \in WorkOps
    BY <2>1 DEF InRing, WorkOps
  <2>3. o.id \in 1..nextID' /\ nextID' \in Nat
    BY <2>2 DEF Work, OpsIssued, Inv, TypeOK
  <2>4. QED
    BY <2>1, <2>3
<1>6. Waiting(f)' = Cardinality({o \in AcceptsDone' : o.fd = f})
                      + FdsIn(ready', f) + FdsIn(drained', f)
  BY <1>2, <1>4, <1>5 DEF Waiting, FdsIn
<1>7. Holders(f)' = Cardinality(HeldByConns(f)') + Waiting(f)'
  BY <1>2, <1>3, <1>4, <1>5 DEF Holders, Waiting, FdsIn
<1>8. QED
  BY <1>2, <1>3, <1>4, <1>6, <1>7

(* A descriptor that a connection holds. *)
Holds(h, f) ==
  /\ h[1] \in conns
  /\ \/ h[2] = "clientFD" /\ conn[h[1]].clientFD = f
     \/ h[2] = "upstreamFD" /\ conn[h[1]].upstreamFD = f
  /\ conn[h[1]].closing => Op(h[1], "opClose", f) \in sq

(* The members of HeldByConns. *)
LEMMA HeldIs ==
  ASSUME NEW f, NEW c, NEW x
  PROVE  <<c, x>> \in HeldByConns(f) <=> Holds(<<c, x>>, f)
  BY DEF HeldByConns, Holds

(* The two descriptors of an open connection differ. *)
LEMMA TwoFds ==
  ASSUME Inv, Work, Owned, NEW c, Usable(c)
  PROVE  conn[c].clientFD # conn[c].upstreamFD
<1>1. Open(c) /\ c \in conns /\ conn[c].clientFD \in 0..MaxFD
  BY UsableConn DEF Work, Entries, Entry, Usable
<1>2. SUFFICES ASSUME conn[c].clientFD = conn[c].upstreamFD PROVE FALSE
  OBVIOUS
<1>3. PICK f : f = conn[c].clientFD
  OBVIOUS
<1>4. f \in FDs
  BY <1>1, <1>3 DEF Open, FDs, NoFD
<1> DEFINE H == HeldByConns(f)
           a == <<c, "clientFD">>
           b == <<c, "upstreamFD">>
<1>5. a \in H /\ b \in H /\ a # b
  BY <1>1, <1>2, <1>3, HeldIs DEF Holds, Usable
<1>6. IsFiniteSet(H) /\ Cardinality(H) \in Nat /\ Waiting(f) \in Nat
      /\ Holders(f) = Cardinality(H) + Waiting(f)
  BY HoldersAre
<1>7. Holders(f) <= 1
  BY <1>4 DEF Owned, Expect
<1>8. IsFiniteSet(H \ {a}) /\ Cardinality(H \ {a}) = Cardinality(H) - 1
  BY <1>5, <1>6, FS_RemoveElement
<1>9. Cardinality(H \ {a}) # 0 /\ Cardinality(H \ {a}) \in Nat
  BY <1>5, <1>8, FS_EmptySet, FS_CardinalityType
<1> HIDE DEF H
<1>10. QED
  BY <1>6, <1>7, <1>8, <1>9

-----------------------------------------------------------------------------
(* Steps that change no descriptor of a connection.                        *)

(* What the other holders gain or lose is opened or closed. *)
Balanced ==
  \A f \in FDs : Waiting(f)' = Waiting(f) + Expect(f \in openFDs') - Expect(f \in openFDs)

(* The connections hold what they held. *)
SameHeld == \A f \in FDs : HeldByConns(f)' = HeldByConns(f)

(* Descriptors pass from one holder to another, or are opened or closed. *)
Moves ==
  \A f \in FDs : Cardinality(HeldByConns(f)') + Waiting(f)'
                   = Cardinality(HeldByConns(f)) + Waiting(f)
                       + Expect(f \in openFDs') - Expect(f \in openFDs)

(* Ownership is kept then, *)
LEMMA OwnedMoves ==
  ASSUME Inv, Inv', Work, Work', Owned, Moves
  PROVE  Owned'
<1>1. SUFFICES ASSUME NEW f \in FDs PROVE Holders(f)' = Expect(f \in openFDs')
  BY DEF Owned, Expect
<1>2. /\ Holders(f) = Cardinality(HeldByConns(f)) + Waiting(f)
      /\ Cardinality(HeldByConns(f)) \in Nat /\ Waiting(f) \in Nat
  BY HoldersAre
<1>3. Holders(f)' = Cardinality(HeldByConns(f)') + Waiting(f)'
  BY HoldersAreNext
<1>4. Cardinality(HeldByConns(f)') + Waiting(f)'
        = Cardinality(HeldByConns(f)) + Waiting(f)
            + Expect(f \in openFDs') - Expect(f \in openFDs)
  BY DEF Moves
<1>5. Holders(f) = Expect(f \in openFDs)
  BY DEF Owned
<1>6. Expect(f \in openFDs) \in {0, 1} /\ Expect(f \in openFDs') \in {0, 1}
  BY DEF Expect
<1>7. QED
  BY <1>2, <1>3, <1>4, <1>5, <1>6

(* and when the connections have nothing to do with it. *)
LEMMA OwnedKept ==
  ASSUME Inv, Inv', Work, Work', Owned, SameHeld, Balanced
  PROVE  Owned'
<1>1. ASSUME NEW f \in FDs
      PROVE  Cardinality(HeldByConns(f)') + Waiting(f)'
               = Cardinality(HeldByConns(f)) + Waiting(f)
                   + Expect(f \in openFDs') - Expect(f \in openFDs)
  <2>1. HeldByConns(f)' = HeldByConns(f)
    BY DEF SameHeld
  <2>2. Waiting(f)' = Waiting(f) + Expect(f \in openFDs') - Expect(f \in openFDs)
    BY DEF Balanced
  <2>3. Cardinality(HeldByConns(f)) \in Nat /\ Waiting(f) \in Nat
    BY HoldersAre
  <2>4. QED
    BY <2>1, <2>2, <2>3 DEF Expect
<1>2. QED
  BY <1>1, OwnedMoves DEF Moves

(* The accepts that wait are those that waited. *)
LEMMA SameBalance ==
  ASSUME Inv, Inv', Work, Work', AcceptsDone' = AcceptsDone, ready' = ready,
         drained' = drained, openFDs' = openFDs
  PROVE  Balanced
<1>1. SUFFICES ASSUME NEW f \in FDs
      PROVE Waiting(f)' = Waiting(f) + Expect(f \in openFDs') - Expect(f \in openFDs)
  BY DEF Balanced
<1>2. /\ Waiting(f) = Cardinality({o \in AcceptsDone : o.fd = f})
                        + FdsIn(ready, f) + FdsIn(drained, f)
      /\ Waiting(f) \in Nat
  BY HoldersAre
<1>3. Waiting(f)' = Cardinality({o \in AcceptsDone' : o.fd = f})
                      + FdsIn(ready', f) + FdsIn(drained', f)
  BY HoldersAreNext
<1>4. Waiting(f)' = Waiting(f)
  BY <1>2, <1>3
<1>5. QED
  BY <1>2, <1>4 DEF Expect

(* A completion other than an accept takes no descriptor away. *)
LEMMA HarvestBalance ==
  ASSUME Inv, Inv', Work, Work', NEW o, batch' = batch \ {o}, kops' = kops,
         o.op # "opAccept", UNCHANGED <<ready, drained, openFDs>>
  PROVE  Balanced
<1>1. AcceptsDone' = AcceptsDone
  BY DEF AcceptsDone
<1>2. QED
  BY <1>1, SameBalance

(* A result that is applied holds its upstream no longer. *)
LEMMA TakenResult ==
  ASSUME Inv, Inv', Work, Work', Applying, NEW f \in FDs
  PROVE  Waiting(f)' = Waiting(f) - Expect(Head(drained).fd = f)
<1>2. /\ drained \in Seq(Result) /\ drained # <<>> /\ drained' = Tail(drained)
      /\ UNCHANGED <<ready, kops, batch>>
  BY DEF Applying, hookVars, ringVars, Inv, TypeOK
<1>3. PICK g : g = Head(drained).fd
  OBVIOUS
<1>4. AcceptsDone' = AcceptsDone
  BY <1>2 DEF AcceptsDone
<1>5. FdsIn(drained', f) = FdsIn(drained, f) - Expect(g = f)
  BY <1>2, <1>3, FdsChange
<1>6. /\ Waiting(f) = Cardinality({o \in AcceptsDone : o.fd = f})
                        + FdsIn(ready, f) + FdsIn(drained, f)
      /\ FdsIn(ready, f) \in Nat /\ FdsIn(drained, f) \in Nat
      /\ Cardinality({o \in AcceptsDone : o.fd = f}) \in Nat
  BY HoldersAre
<1>7. Waiting(f)' = Cardinality({o \in AcceptsDone' : o.fd = f})
                      + FdsIn(ready', f) + FdsIn(drained', f)
  BY HoldersAreNext
<1>8. PICK n : n = Cardinality({o \in AcceptsDone : o.fd = f})
  OBVIOUS
<1>9. Cardinality({o \in AcceptsDone' : o.fd = f}) = n
  BY <1>4, <1>8
<1>10. QED
  BY <1>2, <1>3, <1>5, <1>6, <1>7, <1>8, <1>9 DEF Expect

(* The upstream of a result that is not adopted is closed. *)
LEMMA DropBalance ==
  ASSUME Inv, Inv', Work, Work', Owned, Applying,
         openFDs' = openFDs \ {Head(drained).fd}
  PROVE  Balanced
<1>1. SUFFICES ASSUME NEW f \in FDs
      PROVE Waiting(f)' = Waiting(f) + Expect(f \in openFDs') - Expect(f \in openFDs)
  BY DEF Balanced
<1>2. PICK g : g = Head(drained).fd
  OBVIOUS
<1>3. /\ Holders(f) = Cardinality(HeldByConns(f)) + Waiting(f)
      /\ Cardinality(HeldByConns(f)) \in Nat /\ Waiting(f) \in Nat
  BY HoldersAre
<1>4. Waiting(f)' \in Nat
  BY HoldersAreNext
<1>5. Waiting(f)' = Waiting(f) - Expect(g = f)
  BY <1>2, TakenResult
<1>6. CASE g # f
  BY <1>2, <1>3, <1>5, <1>6 DEF Expect
<1>7. CASE g = f
  <2>1. Waiting(f)' = Waiting(f) - 1
    BY <1>5, <1>7 DEF Expect
  <2>2. Holders(f) # 0
    BY <1>3, <1>4, <2>1
  <2>3. f \in openFDs /\ f \notin openFDs'
    BY <1>2, <1>7, <2>2 DEF Owned, Expect
  <2>4. QED
    BY <1>3, <2>1, <2>3 DEF Expect
<1>8. QED
  BY <1>6, <1>7

(* The number of closes of a teardown. *)
LEMMA CloseOpsCount ==
  ASSUME NEW c, NEW r \in Conn, r.clientFD # NoFD, r.clientFD # r.upstreamFD
  PROVE  /\ Cardinality(CloseOps(c, r)) = Closing(r).closesLeft
         /\ Closing(r).closesLeft > 0
<1> DEFINE a == Op(c, "opClose", r.clientFD)
           b == Op(c, "opClose", r.upstreamFD)
<1>1. Closing(r).closesLeft = 1 + (IF r.upstreamFD # NoFD THEN 1 ELSE 0)
  BY DEF Closing, Conn
<1>2. CASE r.upstreamFD = NoFD
  <2>1. CloseOps(c, r) = {a}
    BY <1>2 DEF CloseOps
  <2> HIDE DEF a
  <2>2. Cardinality({a}) = 1
    BY FS_Singleton
  <2>3. QED
    BY <1>1, <1>2, <2>1, <2>2
<1>3. CASE r.upstreamFD # NoFD
  <2>1. CloseOps(c, r) = {a} \cup {b}
    BY <1>3 DEF CloseOps
  <2>2. a # b
    BY DEF Op
  <2> HIDE DEF a, b
  <2>3. IsFiniteSet({a}) /\ Cardinality({a}) = 1 /\ b \notin {a}
    BY <2>2, FS_Singleton
  <2>4. Cardinality({a} \cup {b}) = Cardinality({a}) + 1
    BY <2>3, FS_AddElement
  <2>5. QED
    BY <1>1, <1>3, <2>1, <2>3, <2>4
<1>4. QED
  BY <1>2, <1>3

(* A step that tears down the connections in S and prepares Q besides. *)
Teardown(S, Q) ==
  /\ conns' = conns
  /\ \A c \in S : Usable(c)
  /\ \A d \in conns : /\ conn'[d].clientFD = conn[d].clientFD
                      /\ conn'[d].upstreamFD = conn[d].upstreamFD
  /\ \A d \in S : /\ conn'[d].closing
                  /\ conn'[d].closesLeft = Closing(conn[d]).closesLeft
  /\ \A d \in conns \ S : /\ conn'[d].closing = conn[d].closing
                          /\ conn'[d].closesLeft = conn[d].closesLeft
  /\ sq' = sq \cup Q \cup UNION {CloseOps(c, conn[c]) : c \in S}
  /\ \A q \in Q : q.op # "opClose"
  /\ \A p : p.op = "opClose" => (p \in kops' \cup batch' <=> p \in kops \cup batch)

(* Its closes are counted and owned, and the connections hold what they held. *)
LEMMA TeardownFds ==
  ASSUME Inv, Inv', Work, Owned, Closes, ClosesOwned,
         NEW S \in SUBSET conns, NEW Q, Teardown(S, Q)
  PROVE  SameHeld /\ Closes' /\ ClosesOwned'
<1> DEFINE P == UNION {CloseOps(c, conn[c]) : c \in S}
<1>1. ASSUME NEW d \in conns PROVE d \in Ids /\ conn[d] \in Conn
  <2>1. d \in Ids
    BY <1>1, ConnsAreIds
  <2>2. QED
    BY <2>1 DEF Inv, TypeOK
<1>2. \A p : p \in P <=> \E c \in S : p \in CloseOps(c, conn[c])
  OBVIOUS
<1>3. ASSUME NEW c \in S
      PROVE  /\ Open(c) /\ conn[c].clientFD # NoFD
             /\ conn[c].clientFD # conn[c].upstreamFD
             /\ \A p \in InRing : p.id = c => p.op # "opClose"
  <2>1. Usable(c)
    BY DEF Teardown
  <2>2. Open(c)
    BY <2>1 DEF Work, Entries, Entry, Usable
  <2>3. conn[c].clientFD # conn[c].upstreamFD
    BY <2>1, TwoFds
  <2>4. OpsIn(InRing, c, {"opClose"}) = 0
    BY <2>2, RingOps DEF Open
  <2>5. \A p \in InRing : p.id = c => p.op # "opClose"
    BY <2>4, RingOps, OpsNone
  <2>6. QED
    BY <2>2, <2>3, <2>5 DEF Open
<1>4. ASSUME NEW c \in S, NEW p \in CloseOps(c, conn[c])
      PROVE  /\ p.id = c /\ p.op = "opClose" /\ p.fd # NoFD
             /\ p.fd \in {conn[c].clientFD, conn[c].upstreamFD}
  BY DEF CloseOps, Op
<1>5. sq' = sq \cup Q \cup P /\ \A q \in Q : q.op # "opClose"
  BY DEF Teardown
<1>6. \A p : p.op = "opClose" => (p \in InRing' <=> p \in InRing \/ p \in P)
  BY <1>5 DEF Teardown, InRing
<1>7. \A p : p.op = "opClose" => (p \in sq' <=> p \in sq \/ p \in P)
  BY <1>5
<1> HIDE DEF P
<1>8. ClosesOwned'
  <2>1. SUFFICES ASSUME NEW p \in sq', p.op = "opClose"
        PROVE  /\ p.id \in conns' /\ conn'[p.id].closing
               /\ p.fd # NoFD /\ p.fd \in {conn'[p.id].clientFD, conn'[p.id].upstreamFD}
    BY DEF ClosesOwned
  <2>2. CASE p \in sq
    <3>1. /\ p.id \in conns /\ conn[p.id].closing /\ p.fd # NoFD
          /\ p.fd \in {conn[p.id].clientFD, conn[p.id].upstreamFD}
      BY <2>1, <2>2 DEF ClosesOwned
    <3>2. p.id \notin S
      BY <3>1 DEF Teardown, Usable
    <3>3. QED
      BY <3>1, <3>2 DEF Teardown
  <2>3. CASE p \in P
    <3>1. PICK c \in S : p \in CloseOps(c, conn[c])
      BY <1>2, <2>3
    <3>2. QED
      BY <1>4, <3>1 DEF Teardown
  <2>4. QED
    BY <1>7, <2>1, <2>2, <2>3
<1>9. Closes'
  <2>1. SUFFICES ASSUME NEW d \in conns, conn'[d].closing
        PROVE  /\ conn'[d].closesLeft = OpsOf(d, {"opClose"})'
               /\ conn'[d].closesLeft > 0
    BY DEF Closes, Teardown
  <2>2. CASE d \in S
    <3>1. {o \in InRing' : o.id = d /\ o.op \in {"opClose"}} = CloseOps(d, conn[d])
      <4>1. ASSUME NEW o \in InRing', o.id = d, o.op = "opClose"
            PROVE  o \in CloseOps(d, conn[d])
        <5>1. o \in P
          BY <1>3, <1>6, <2>2, <4>1
        <5>2. PICK c \in S : o \in CloseOps(c, conn[c])
          BY <1>2, <5>1
        <5>3. QED
          BY <1>4, <4>1, <5>2
      <4>2. ASSUME NEW o \in CloseOps(d, conn[d])
            PROVE  o \in InRing' /\ o.id = d /\ o.op = "opClose"
        <5>1. o.id = d /\ o.op = "opClose" /\ o \in P
          BY <1>2, <1>4, <2>2
        <5>2. QED
          BY <1>6, <5>1
      <4>3. QED
        BY <4>1, <4>2
    <3>2. OpsOf(d, {"opClose"})' = Cardinality(CloseOps(d, conn[d]))
      BY <3>1 DEF OpsOf
    <3>3. conn[d] \in Conn
      BY <1>1
    <3>4. /\ Cardinality(CloseOps(d, conn[d])) = Closing(conn[d]).closesLeft
          /\ Closing(conn[d]).closesLeft > 0
      BY <1>3, <2>2, <3>3, CloseOpsCount
    <3>5. conn'[d].closesLeft = Closing(conn[d]).closesLeft
      BY <2>2 DEF Teardown
    <3>6. QED
      BY <3>2, <3>4, <3>5
  <2>3. CASE d \notin S
    <3>1. \A o : o.op = "opClose" /\ o.id = d => (o \in InRing' <=> o \in InRing)
      BY <1>2, <1>4, <1>6, <2>3
    <3>2. {o \in InRing' : o.id = d /\ o.op \in {"opClose"}}
            = {o \in InRing : o.id = d /\ o.op \in {"opClose"}}
      BY <3>1
    <3>3. OpsOf(d, {"opClose"})' = OpsOf(d, {"opClose"})
      BY <3>2 DEF OpsOf
    <3>4. conn[d].closing /\ conn'[d].closesLeft = conn[d].closesLeft
      BY <2>1, <2>3 DEF Teardown
    <3>5. QED
      BY <3>3, <3>4 DEF Closes
  <2>4. QED
    BY <2>2, <2>3
<1>10. SameHeld
  <2>1. SUFFICES ASSUME NEW f \in FDs PROVE HeldByConns(f)' = HeldByConns(f)
    BY DEF SameHeld
  <2>2. f # NoFD
    BY DEF FDs, NoFD
  <2>3. ASSUME NEW d \in conns, conn[d].clientFD = f \/ conn[d].upstreamFD = f
        PROVE  (conn'[d].closing => Op(d, "opClose", f) \in sq')
                 <=> (conn[d].closing => Op(d, "opClose", f) \in sq)
    <3> DEFINE p == Op(d, "opClose", f)
    <3>1. p.op = "opClose" /\ p.id = d
      BY DEF Op
    <3>2. CASE d \in S
      <4>1. p \in CloseOps(d, conn[d])
        BY <2>2, <2>3 DEF CloseOps
      <4>2. p \in sq' /\ conn'[d].closing /\ ~conn[d].closing
        BY <1>2, <1>7, <3>1, <3>2, <4>1 DEF Teardown, Usable
      <4>3. QED
        BY <4>2
    <3>3. CASE d \notin S
      <4>1. p \notin P
        BY <1>2, <1>4, <3>1, <3>3
      <4>2. p \in sq' <=> p \in sq
        BY <1>7, <3>1, <4>1
      <4>3. conn'[d].closing = conn[d].closing
        BY <3>3 DEF Teardown
      <4> HIDE DEF p
      <4>4. QED
        BY <4>2, <4>3 DEF p
    <3>4. QED
      BY <3>2, <3>3
  <2>4. ASSUME NEW h \in conns \X {"clientFD", "upstreamFD"}
        PROVE  /\ conn'[h[1]][h[2]] = conn[h[1]][h[2]]
               /\ conn[h[1]][h[2]] = f =>
                    ((conn'[h[1]].closing => Op(h[1], "opClose", f) \in sq')
                       <=> (conn[h[1]].closing => Op(h[1], "opClose", f) \in sq))
    <3>1. h[1] \in conns /\ (h[2] = "clientFD" \/ h[2] = "upstreamFD")
      BY <2>4
    <3>2. /\ conn'[h[1]].clientFD = conn[h[1]].clientFD
          /\ conn'[h[1]].upstreamFD = conn[h[1]].upstreamFD
      BY <3>1 DEF Teardown
    <3>3. QED
      BY <2>3, <3>1, <3>2
  <2>5. conns' = conns
    BY DEF Teardown
  <2>6. QED
    BY <2>4, <2>5 DEF HeldByConns
<1>11. QED
  BY <1>8, <1>9, <1>10

-----------------------------------------------------------------------------
(* Handlers on behalf of a connection.                                     *)

(* The struct r has the descriptors of c. *)
SameFds(c, r) ==
  /\ r \in Conn /\ r.clientFD = conn[c].clientFD /\ r.upstreamFD = conn[c].upstreamFD
  /\ r.closesLeft = conn[c].closesLeft

(* Handlers that set a flag or refresh the age keep the descriptors. *)
LEMMA SameFdsWith ==
  ASSUME Inv, NEW c, Usable(c)
  PROVE  /\ SameFds(c, conn[c]) /\ SameFds(c, Refreshed(c))
         /\ ~conn[c].closing /\ ~Refreshed(c).closing
         /\ \A r : SameFds(c, r) /\ ~r.closing =>
              /\ SameFds(c, [r EXCEPT !.counted = TRUE])
              /\ SameFds(c, [r EXCEPT !.relayStarted = TRUE])
              /\ SameFds(c, [r EXCEPT !.clientReadDone = TRUE])
              /\ SameFds(c, [r EXCEPT !.upstreamReadDone = TRUE])
              /\ ~[r EXCEPT !.counted = TRUE].closing
              /\ ~[r EXCEPT !.relayStarted = TRUE].closing
              /\ ~[r EXCEPT !.clientReadDone = TRUE].closing
              /\ ~[r EXCEPT !.upstreamReadDone = TRUE].closing
<1>1. conn[c] \in Conn /\ Refreshed(c) \in Conn
  BY UsableConn
<1>2. /\ SameFds(c, conn[c]) /\ SameFds(c, Refreshed(c))
      /\ ~conn[c].closing /\ ~Refreshed(c).closing
  BY <1>1 DEF SameFds, Refreshed, Usable, Conn
<1>3. ASSUME NEW r, SameFds(c, r), ~r.closing
      PROVE  /\ SameFds(c, [r EXCEPT !.counted = TRUE])
             /\ SameFds(c, [r EXCEPT !.relayStarted = TRUE])
             /\ SameFds(c, [r EXCEPT !.clientReadDone = TRUE])
             /\ SameFds(c, [r EXCEPT !.upstreamReadDone = TRUE])
             /\ ~[r EXCEPT !.counted = TRUE].closing
             /\ ~[r EXCEPT !.relayStarted = TRUE].closing
             /\ ~[r EXCEPT !.clientReadDone = TRUE].closing
             /\ ~[r EXCEPT !.upstreamReadDone = TRUE].closing
  <2>1. r \in Conn
    BY <1>3 DEF SameFds
  <2>2. /\ [r EXCEPT !.counted = TRUE] \in Conn
        /\ [r EXCEPT !.relayStarted = TRUE] \in Conn
        /\ [r EXCEPT !.clientReadDone = TRUE] \in Conn
        /\ [r EXCEPT !.upstreamReadDone = TRUE] \in Conn
    BY <2>1, ConnFields
  <2>3. QED
    BY <1>3, <2>1, <2>2 DEF SameFds, Conn
<1>4. QED
  BY <1>2, <1>3

(* A step on behalf of c that takes the data operations X. *)
Takes(c, X) == OnBehalf(c, X) /\ \A x \in X : x.op \in DataOps

(* Data operations of c, and those of a connection that does not ask. *)
Posts(c, P) == \A p \in P : p.id = c /\ p.op \in DataOps
Quiet(P) == \A p \in P : p.op \notin AskOps

(* c goes on with the struct r. *)
Goes(c, r, P) == conns' = conns /\ conn' = [conn EXCEPT ![c] = r] /\ sq' = sq \cup P

(* A step of the loop body, and what Fds says then. *)
LEMMA FdsThen ==
  ASSUME Fds, phase = "batch"
  PROVE  Owned /\ Closes /\ ClosesOwned /\ OneUpstream
  BY DEF Fds, Running

(* Going on with a connection. *)
LEMMA ProceedFds ==
  ASSUME Inv, Inv', Work, Work', Fds, NEW c, Usable(c), NEW X, Takes(c, X), Balanced,
         NEW r, SameFds(c, r), ~r.closing,
         NEW P, Posts(c, P), Goes(c, r, P),
         Asks(c) \/ (HookCalls(c)' <= HookCalls(c) /\ Quiet(P))
  PROVE  Fds'
<1>0. /\ OnBehalf(c, X) /\ \A x \in X : x.op \in DataOps
      /\ \A p \in P : p.id = c /\ p.op \in DataOps
      /\ conns' = conns /\ conn' = [conn EXCEPT ![c] = r] /\ sq' = sq \cup P
  BY DEF Takes, Posts, Goes
<1>1. c \in conns /\ c \in Ids /\ ~conn[c].closing
  BY UsableConn DEF Usable
<1>2. conn'[c] = r /\ \A d \in Ids \ {c} : conn'[d] = conn[d]
  BY <1>0, <1>1 DEF Inv, TypeOK
<1>3. Owned /\ Closes /\ ClosesOwned /\ OneUpstream
  BY <1>0, FdsThen DEF OnBehalf
<1>4. "opClose" \notin DataOps
  BY DEF DataOps, PreRelayOps, C2UOps, U2COps
<1>5. Teardown({}, P)
  <2>1. \A d \in conns : /\ conn'[d].clientFD = conn[d].clientFD
                         /\ conn'[d].upstreamFD = conn[d].upstreamFD
                         /\ conn'[d].closesLeft = conn[d].closesLeft
    BY <1>1, <1>2, ConnsAreIds DEF SameFds
  <2>2. \A d \in conns : conn'[d].closing = conn[d].closing
    <3>1. conn[c].closing = FALSE /\ r.closing = FALSE
      <4>1. conn[c] \in Conn /\ r \in Conn
        BY UsableConn DEF SameFds
      <4>2. QED
        BY <1>1, <4>1 DEF Conn
    <3>2. QED
      BY <1>2, <3>1, ConnsAreIds
  <2>3. sq' = sq \cup P \cup UNION {CloseOps(e, conn[e]) : e \in {}}
    BY <1>0
  <2>4. \A p : p.op = "opClose" => (p \in kops' \cup batch' <=> p \in kops \cup batch)
    BY <1>0, <1>4 DEF OnBehalf
  <2>5. \A q \in P : q.op # "opClose"
    BY <1>0, <1>4
  <2>6. QED
    BY <1>0, <2>1, <2>2, <2>3, <2>4, <2>5 DEF Teardown
<1>6. SameHeld /\ Closes' /\ ClosesOwned'
  BY <1>3, <1>5, TeardownFds
<1>7. Owned'
  BY <1>3, <1>6, OwnedKept
<1>8. OneUpstream'
  <2>1. SUFFICES ASSUME NEW d \in conns, Usable(d)', Asks(d)'
                 PROVE  conn'[d].upstreamFD = NoFD
    BY <1>0 DEF OneUpstream
  <2>2. d \in Ids
    BY ConnsAreIds
  <2>3. Usable(d)
    BY <1>1, <1>2, <2>1, <2>2 DEF Usable
  <2>4. InRing' \subseteq InRing \cup P
    BY <1>0 DEF OnBehalf, InRing
  <2>5. HookCalls(d) \in Nat /\ HookCalls(d)' \in Nat
    BY HookNat, HookNatNext
  <2>6. Asks(d)
    <3>1. CASE d = c
      <4>1. CASE Asks(c)
        BY <3>1, <4>1
      <4>2. CASE HookCalls(c)' <= HookCalls(c) /\ Quiet(P)
        BY <2>1, <2>4, <2>5, <3>1, <4>2 DEF Asks, Quiet
      <4>3. QED
        BY <4>1, <4>2
    <3>2. CASE d # c
      <4>1. HookCalls(d)' = HookCalls(d)
        BY <1>0, <2>2, <3>2 DEF OnBehalf
      <4>2. QED
        BY <1>0, <2>1, <2>4, <3>2, <4>1 DEF Asks
    <3>3. QED
      BY <3>1, <3>2
  <2>7. conn[d].upstreamFD = NoFD
    BY <1>3, <2>3, <2>6 DEF OneUpstream
  <2>8. QED
    BY <1>2, <2>2, <2>7 DEF SameFds
<1>9. QED
  BY <1>6, <1>7, <1>8 DEF Fds

(* Closing it. *)
LEMMA CloseFds ==
  ASSUME Inv, Inv', Work, Work', Fds, NEW c, Usable(c), NEW X, Takes(c, X), Balanced,
         NEW r, SameFds(c, r), NEW B, closeConn(c, r, B)
  PROVE  Fds'
<1>0. OnBehalf(c, X) /\ \A x \in X : x.op \in DataOps
  BY DEF Takes
<1>1. c \in conns /\ c \in Ids /\ conn[c] \in Conn /\ r \in Conn
  BY UsableConn DEF SameFds
<1>2. Open(c)
  BY <1>1 DEF Work, Entries, Entry, Usable
<1>3. Owned /\ Closes /\ ClosesOwned /\ OneUpstream
  BY <1>0, FdsThen DEF OnBehalf
<1>4. CloseOps(c, r) = CloseOps(c, conn[c]) /\ CloseOps(c, r) # {}
  <2>1. Op(c, "opClose", r.clientFD) \in CloseOps(c, r)
    BY <1>2 DEF Open, SameFds, CloseOps
  <2>2. QED
    BY <2>1 DEF CloseOps, SameFds
<1>5. conns' = conns /\ conn'[c] = Closing(r) /\ \A d \in Ids \ {c} : conn'[d] = conn[d]
  BY <1>1, <1>4 DEF closeConn, Inv, TypeOK
<1>6. /\ Closing(r).clientFD = r.clientFD /\ Closing(r).upstreamFD = r.upstreamFD
      /\ Closing(r).closing /\ Closing(r).closesLeft = Closing(conn[c]).closesLeft
  BY <1>1 DEF Closing, SameFds, Conn
<1>7. "opClose" \notin DataOps
  BY DEF DataOps, PreRelayOps, C2UOps, U2COps
<1>8. Teardown({c}, {})
  <2>1. sq' = sq \cup {} \cup UNION {CloseOps(e, conn[e]) : e \in {c}}
    BY <1>4 DEF closeConn
  <2>2. \A p : p.op = "opClose" => (p \in kops' \cup batch' <=> p \in kops \cup batch)
    BY <1>0, <1>7 DEF OnBehalf
  <2>3. \A d \in conns : /\ conn'[d].clientFD = conn[d].clientFD
                         /\ conn'[d].upstreamFD = conn[d].upstreamFD
    BY <1>5, <1>6, ConnsAreIds DEF SameFds
  <2>4. \A d \in conns \ {c} : /\ conn'[d].closing = conn[d].closing
                               /\ conn'[d].closesLeft = conn[d].closesLeft
    BY <1>5, ConnsAreIds
  <2>5. QED
    BY <1>5, <1>6, <2>1, <2>2, <2>3, <2>4 DEF Teardown
<1>9. SameHeld /\ Closes' /\ ClosesOwned'
  BY <1>1, <1>3, <1>8, TeardownFds
<1>10. Owned'
  BY <1>3, <1>9, OwnedKept
<1>11. OneUpstream'
  <2>1. SUFFICES ASSUME NEW d \in conns, Usable(d)', Asks(d)'
                 PROVE  conn'[d].upstreamFD = NoFD
    BY <1>5 DEF OneUpstream
  <2>2. d \in Ids /\ d # c
    BY <1>5, <1>6, <2>1, ConnsAreIds DEF Usable
  <2>3. conn'[d] = conn[d] /\ Usable(d)
    BY <1>5, <2>1, <2>2 DEF Usable
  <2>4. HookCalls(d)' = HookCalls(d)
    BY <1>0, <2>2 DEF OnBehalf
  <2>5. \A o \in InRing' : o.id = d => o \in InRing
    <3>1. \A o \in CloseOps(c, r) : o.id = c
      BY DEF CloseOps, Op
    <3>2. QED
      BY <1>0, <2>2, <3>1 DEF OnBehalf, InRing, closeConn
  <2>6. Asks(d)
    BY <2>1, <2>4, <2>5 DEF Asks
  <2>7. QED
    BY <1>3, <2>3, <2>6 DEF OneUpstream
<1>12. QED
  BY <1>9, <1>10, <1>11 DEF Fds

(* fail closes it. *)
LEMMA FailFds ==
  ASSUME Inv, Inv', Work, Work', Fds, NEW c, Usable(c), NEW X, Takes(c, X), Balanced,
         NEW r, SameFds(c, r), ~r.closing, fail(c, r)
  PROVE  Fds'
<1>1. SameFds(c, [r EXCEPT !.counted = TRUE])
  BY SameFdsWith
<1>2. PICK B : closeConn(c, [r EXCEPT !.counted = TRUE], B)
  BY DEF fail
<1>3. QED
  BY <1>1, <1>2, CloseFds

(* startDuplex and forwardInit, once c is not asking any more. *)
LEMMA ForwardFds ==
  ASSUME Inv, Inv', Work, Work', Fds, NEW c, Usable(c), NEW X, Takes(c, X), Balanced,
         HookCalls(c)' <= HookCalls(c),
         NEW r, SameFds(c, r), ~r.closing, startDuplex(c, r) \/ forwardInit(c, r)
  PROVE  Fds'
<1>1. CASE startDuplex(c, r)
  <2>1. PICK P : P = {Op(c, "opC2URecv", r.clientFD), Op(c, "opU2CRecv", r.upstreamFD)}
    OBVIOUS
  <2>2. PICK s : s = [r EXCEPT !.relayStarted = TRUE]
    OBVIOUS
  <2>3. Goes(c, s, P)
    BY <1>1, <2>1, <2>2 DEF startDuplex, Proceed, Goes
  <2>4. Posts(c, P) /\ Quiet(P)
    BY <2>1 DEF Op, DataOps, C2UOps, U2COps, AskOps, Posts, Quiet
  <2>5. SameFds(c, s) /\ ~s.closing
    BY <2>2, SameFdsWith
  <2>6. QED
    BY <2>3, <2>4, <2>5, ProceedFds
<1>2. CASE Proceed(c, r, {Op(c, "opSendUp", r.upstreamFD)})
  <2>1. PICK P : P = {Op(c, "opSendUp", r.upstreamFD)}
    OBVIOUS
  <2>2. Goes(c, r, P)
    BY <1>2, <2>1 DEF Proceed, Goes
  <2>3. Posts(c, P) /\ Quiet(P)
    BY <2>1 DEF Op, DataOps, PreRelayOps, AskOps, Posts, Quiet
  <2>4. QED
    BY <2>2, <2>3, ProceedFds
<1>3. QED
  BY <1>1, <1>2 DEF forwardInit

(* What the handlers of completed reads and sends have in common. *)
LEMMA DataFds ==
  ASSUME Inv, Inv', Work, Work', NEW o \in batch, Harvest(o), Elsewhere, o.op \in DataOps
  PROVE  /\ Takes(o.id, {o}) /\ Balanced
         /\ HookCalls(o.id)' <= HookCalls(o.id)
         /\ o.op \in AskOps => Asks(o.id)
<1>1. OnBehalf(o.id, {o}) /\ HookCalls(o.id)' = HookCalls(o.id)
  BY DataHandler
<1>2. o.op # "opAccept"
  BY DEF DataOps, PreRelayOps, C2UOps, U2COps
<1>3. Balanced
  BY <1>2, HarvestBalance DEF Harvest, Elsewhere, ringVars, hookVars
<1>4. HookCalls(o.id) \in Nat
  BY HookNat
<1>5. QED
  BY <1>1, <1>3, <1>4 DEF Asks, InRing, Takes

(* The relay phase. *)
LEMMA RelayFds ==
  ASSUME Inv, Inv', Work, Work', Fds, NEW o \in batch, Relay(o) PROVE Fds'
<1>1. PICK c : c = o.id
  OBVIOUS
<1>2. Harvest(o) /\ Usable(c) /\ Elsewhere /\ o.op \in DataOps
  BY <1>1 DEF Relay, OnC2URecv, OnC2UEnd, OnC2USend, OnU2CRecv, OnU2CEnd,
         OnU2CSend, OnSuccess, OnData, DataOps, C2UOps, U2COps
<1>3. Takes(c, {o}) /\ Balanced /\ HookCalls(c)' <= HookCalls(c)
  BY <1>1, <1>2, DataFds
<1>4. PICK rc : rc = [conn[c] EXCEPT !.clientReadDone = TRUE]
  OBVIOUS
<1>5. PICK ru : ru = [conn[c] EXCEPT !.upstreamReadDone = TRUE]
  OBVIOUS
<1>6. /\ SameFds(c, conn[c]) /\ SameFds(c, Refreshed(c)) /\ SameFds(c, rc)
      /\ SameFds(c, ru) /\ ~conn[c].closing /\ ~Refreshed(c).closing
      /\ ~rc.closing /\ ~ru.closing
  BY <1>2, <1>4, <1>5, SameFdsWith
<1>7. /\ \A k \in C2UOps \cup U2COps : \A f : Posts(c, {Op(c, k, f)}) /\ Quiet({Op(c, k, f)})
      /\ Posts(c, {}) /\ Quiet({})
  BY DEF Op, DataOps, C2UOps, U2COps, AskOps, Posts, Quiet
<1>8. \/ \E r, B : SameFds(c, r) /\ closeConn(c, r, B)
      \/ \E r, P : /\ SameFds(c, r) /\ ~r.closing /\ Proceed(c, r, P)
                   /\ Posts(c, P) /\ Quiet(P)
  <2>1. CASE OnC2URecv(o)
    BY <1>1, <1>6, <1>7, <2>1 DEF OnC2URecv, C2UOps
  <2>2. CASE OnC2UEnd(o)
    <3>1. closeConn(c, rc, <<>>) \/ Proceed(c, rc, {})
      BY <1>1, <1>4, <2>2 DEF OnC2UEnd
    <3>2. QED
      BY <1>6, <1>7, <3>1
  <2>3. CASE OnC2USend(o)
    <3>1. PICK P : P = IF conn[c].clientReadDone THEN {}
                       ELSE {Op(c, "opC2URecv", conn[c].clientFD)}
      OBVIOUS
    <3>2. Proceed(c, conn[c], P)
      BY <1>1, <2>3, <3>1 DEF OnC2USend
    <3>3. Posts(c, P) /\ Quiet(P)
      BY <1>7, <3>1 DEF C2UOps
    <3>4. QED
      BY <1>6, <3>2, <3>3
  <2>4. CASE OnU2CRecv(o)
    BY <1>1, <1>6, <1>7, <2>4 DEF OnU2CRecv, U2COps
  <2>5. CASE OnU2CEnd(o)
    <3>1. closeConn(c, ru, <<>>) \/ Proceed(c, ru, {})
      BY <1>1, <1>5, <2>5 DEF OnU2CEnd
    <3>2. QED
      BY <1>6, <1>7, <3>1
  <2>6. CASE OnU2CSend(o)
    <3>1. PICK P : P = IF conn[c].upstreamReadDone THEN {}
                       ELSE {Op(c, "opU2CRecv", conn[c].upstreamFD)}
      OBVIOUS
    <3>2. Proceed(c, conn[c], P)
      BY <1>1, <2>6, <3>1 DEF OnU2CSend
    <3>3. Posts(c, P) /\ Quiet(P)
      BY <1>7, <3>1 DEF U2COps
    <3>4. QED
      BY <1>6, <3>2, <3>3
  <2>7. QED
    BY <2>1, <2>2, <2>3, <2>4, <2>5, <2>6 DEF Relay
<1>9. ASSUME NEW r, NEW P, SameFds(c, r), ~r.closing, Proceed(c, r, P),
             Posts(c, P), Quiet(P)
      PROVE  Fds'
  <2>1. Goes(c, r, P)
    BY <1>9 DEF Proceed, Goes
  <2>2. QED
    BY <1>2, <1>3, <1>9, <2>1, ProceedFds
<1>10. QED
  BY <1>2, <1>3, <1>8, <1>9, CloseFds

(* A request goes to its hook. *)
LEMMA RecvReqFds ==
  ASSUME Inv, Inv', Work, Work', Fds, NEW o \in batch, OnRecvReq(o) PROVE Fds'
<1>1. PICK c : c = o.id
  OBVIOUS
<1>2. /\ Harvest(o) /\ Usable(c) /\ o.op = "opRecvReq" /\ Proceed(c, Refreshed(c), {})
      /\ UNCHANGED <<kops, ready, drained, openFDs, running, nextID>>
  BY <1>1 DEF OnRecvReq, OnData
<1>3. o.op \in DataOps /\ o.op \in WorkOps /\ o.op \in AskOps /\ o.op # "opAccept"
  BY <1>2 DEF DataOps, PreRelayOps, WorkOps, AskOps
<1>4. Balanced
  BY <1>2, <1>3, HarvestBalance DEF Harvest
<1>5. Asks(c)
  BY <1>1, <1>3 DEF Asks, InRing
<1>6. OnBehalf(c, {o})
  <2>1. phase = "batch" /\ phase' # "wait" /\ batch' = batch \ {o}
    BY <1>2 DEF Harvest, OnRecvReq
  <2>2. ASSUME NEW d \in Ids \ {c} PROVE HookCalls(d)' = HookCalls(d)
    <3> DEFINE j == [id |-> c, fd |-> conn[c].clientFD]
    <3>1. jobs \in Seq(Job) /\ blockedOn = 0 /\ d # 0
      BY <2>1 DEF Inv, TypeOK, Ids
    <3>2. j \in Job /\ j.id # d
      BY <1>2, UsableConn DEF Job
    <3>3. IdsIn(jobs', d) = IdsIn(jobs, d) /\ (blockedOn' = d <=> blockedOn = d)
      <4>1. CASE Len(jobs) < JobsCap
        <5>1. jobs' = Append(jobs, j) /\ blockedOn' = blockedOn
          BY <1>1, <4>1 DEF OnRecvReq
        <5> HIDE DEF j
        <5>2. IdsIn(jobs', d) = IdsIn(jobs, d) + Expect(j.id = d)
          BY <3>1, <3>2, <5>1, IdsChange
        <5>3. IdsIn(jobs, d) \in Nat
          BY HookNat
        <5>4. QED
          BY <3>2, <5>1, <5>2, <5>3 DEF Expect
      <4>2. CASE ~(Len(jobs) < JobsCap)
        BY <1>1, <3>1, <4>2 DEF OnRecvReq
      <4>3. QED
        BY <4>1, <4>2
    <3>4. QED
      BY <1>2, <3>3, HookSum DEF Expect
  <2>3. QED
    BY <1>1, <1>2, <1>3, <2>1, <2>2 DEF OnBehalf
<1>7. SameFds(c, Refreshed(c)) /\ ~Refreshed(c).closing
  BY <1>2, SameFdsWith
<1>8. Goes(c, Refreshed(c), {}) /\ Posts(c, {}) /\ Takes(c, {o})
  BY <1>2, <1>3, <1>6 DEF Proceed, Goes, Posts, Takes
<1>9. QED
  BY <1>2, <1>4, <1>5, <1>7, <1>8, ProceedFds

(* Before the relay phase, failures and short sends. *)
LEMMA HandshakeFds ==
  ASSUME Inv, Inv', Work, Work', Fds, NEW o \in batch,
         Handshake(o) \/ OnFailure(o) \/ OnPartialSend(o)
  PROVE  Fds'
<1>1. CASE OnRecvReq(o)
  BY <1>1, RecvReqFds
<1>2. ASSUME \/ OnReplyClient(o) \/ OnReplyMore(o) \/ OnRejectSend(o) \/ OnSendUp(o)
             \/ OnFailure(o) \/ OnPartialSend(o)
      PROVE  Fds'
  <2>1. PICK c : c = o.id
    OBVIOUS
  <2>2. Harvest(o) /\ Usable(c) /\ Elsewhere /\ o.op \in DataOps
    BY <1>2, <2>1 DEF OnReplyClient, OnReplyMore, OnRejectSend, OnSendUp, OnFailure,
      OnPartialSend, OnSuccess, OnData, SendOps, DataOps, PreRelayOps, C2UOps, U2COps
  <2>3. /\ Takes(c, {o}) /\ Balanced /\ HookCalls(c)' <= HookCalls(c)
        /\ o.op \in AskOps => Asks(c)
    BY <2>1, <2>2, DataFds
  <2>4. SameFds(c, conn[c]) /\ ~conn[c].closing
    BY <2>2, SameFdsWith
  <2>5. CASE OnReplyClient(o) \/ OnSendUp(o)
    BY <2>1, <2>2, <2>3, <2>4, <2>5, ForwardFds DEF OnReplyClient, OnSendUp
  <2>6. CASE OnReplyMore(o)
    <3>1. PICK P : P = {Op(c, "opRecvReq", conn[c].clientFD)}
      OBVIOUS
    <3>2. Goes(c, conn[c], P)
      BY <2>1, <2>6, <3>1 DEF OnReplyMore, Proceed, Goes
    <3>3. Posts(c, P)
      BY <3>1 DEF Op, DataOps, PreRelayOps, Posts
    <3>4. Asks(c)
      BY <2>3, <2>6 DEF OnReplyMore, OnSuccess, OnData, AskOps
    <3>5. QED
      BY <2>2, <2>3, <2>4, <3>2, <3>3, <3>4, ProceedFds
  <2>7. CASE OnRejectSend(o)
    BY <2>1, <2>2, <2>3, <2>4, <2>7, CloseFds DEF OnRejectSend
  <2>8. CASE OnFailure(o)
    BY <2>1, <2>2, <2>3, <2>4, <2>8, FailFds DEF OnFailure
  <2>9. CASE OnPartialSend(o)
    <3>1. Goes(c, conn[c], {o})
      BY <2>1, <2>9 DEF OnPartialSend, Proceed, Goes
    <3>2. Posts(c, {o})
      BY <2>1, <2>2 DEF Posts
    <3>3. Asks(c) \/ Quiet({o})
      BY <2>3 DEF Quiet
    <3>4. QED
      BY <2>2, <2>3, <2>4, <3>1, <3>2, <3>3, ProceedFds
  <2>10. QED
    BY <1>2, <2>5, <2>6, <2>7, <2>8, <2>9
<1>3. QED
  BY <1>1, <1>2 DEF Handshake

(* Teardowns and steps that leave the connections alone. *)
LEMMA KeptFds ==
  ASSUME Inv, Inv', Work, Work', Fds, Running, Balanced,
         NEW S \in SUBSET conns, NEW Q, Teardown(S, Q),
         \A d \in conns : Usable(d) /\ Asks(d)' => Asks(d)
  PROVE  Fds'
<1>1. Owned /\ Closes /\ ClosesOwned /\ OneUpstream
  BY DEF Fds
<1>2. SameHeld /\ Closes' /\ ClosesOwned'
  BY <1>1, TeardownFds
<1>3. Owned'
  BY <1>1, <1>2, OwnedKept
<1>4. OneUpstream'
  <2>1. SUFFICES ASSUME NEW d \in conns, Usable(d)', Asks(d)'
                 PROVE  conn'[d].upstreamFD = NoFD
    BY DEF OneUpstream, Teardown
  <2>2. d \notin S
    BY <2>1 DEF Teardown, Usable
  <2>3. Usable(d)
    BY <2>1, <2>2 DEF Teardown, Usable
  <2>4. conn[d].upstreamFD = NoFD
    BY <1>1, <2>1, <2>3 DEF OneUpstream
  <2>5. QED
    BY <2>4 DEF Teardown
<1>5. QED
  BY <1>2, <1>3, <1>4 DEF Fds

(* The table is the same, and the closes in the ring are. *)
Still(Q) ==
  /\ UNCHANGED <<conns, conn>>
  /\ sq' = sq \cup Q
  /\ \A q \in Q : q.op # "opClose" /\ q.op \notin AskOps
  /\ \A p : p.op \in AskOps \cup {"opClose"} =>
              (p \in kops' \cup batch' => p \in kops \cup batch)
  /\ \A p : p.op = "opClose" => (p \in kops \cup batch => p \in kops' \cup batch')
  /\ \A d \in Ids : Usable(d) => HookCalls(d)' <= HookCalls(d)

(* Then the descriptors are. *)
LEMMA StillFds ==
  ASSUME Inv, Inv', Work, Work', Fds, Running, Balanced, NEW Q, Still(Q)
  PROVE  Fds'
<1>1. Teardown({}, Q)
  <2>1. sq' = sq \cup Q \cup UNION {CloseOps(c, conn[c]) : c \in {}}
    BY DEF Still
  <2>2. QED
    BY <2>1 DEF Teardown, Still
<1>2. ASSUME NEW d \in conns, Usable(d), Asks(d)' PROVE Asks(d)
  <2>1. d \in Ids
    BY ConnsAreIds
  <2>2. HookCalls(d)' <= HookCalls(d) /\ HookCalls(d) \in Nat /\ HookCalls(d)' \in Nat
    BY <1>2, <2>1, HookNat, HookNatNext DEF Still
  <2>3. \A o \in InRing' : o.op \in AskOps => o \in InRing
    BY DEF InRing, Still
  <2>4. QED
    BY <1>2, <2>2, <2>3 DEF Asks
<1>3. QED
  BY <1>1, <1>2, KeptFds

(* A completion for a connection that is closing or gone. *)
LEMMA StaleFds ==
  ASSUME Inv, Inv', Work, Work', Fds, NEW o \in batch, Stale(o) PROVE Fds'
<1>1. /\ Harvest(o) /\ Elsewhere /\ o.op \in DataOps
      /\ UNCHANGED <<conns, conn, sq>>
  BY DEF Stale, tableVars
<1>2. Balanced /\ \A d : HookCalls(d)' = HookCalls(d)
  BY <1>1, DataFds, DataHandler
<1>3. Running /\ batch' = batch \ {o} /\ kops' = kops /\ o.op # "opClose"
  BY <1>1 DEF Harvest, Elsewhere, ringVars, Running, DataOps, PreRelayOps, C2UOps, U2COps
<1>4. \A d \in Ids : Usable(d) => HookCalls(d)' <= HookCalls(d)
  BY <1>2, HookNat
<1>5. Still({})
  BY <1>1, <1>3, <1>4 DEF Still
<1>6. QED
  BY <1>2, <1>3, <1>5, StillFds

(* The read of the eventfd: the results are drained. *)
LEMMA EventfdFds ==
  ASSUME Inv, Inv', Work, Work', Fds, NEW o \in batch, OnEventfd(o) PROVE Fds'
<1>1. /\ drained = <<>> /\ drained' = ready /\ ready' = <<>>
      /\ UNCHANGED <<jobs, running, blockedOn, phase, kops, conns, conn, openFDs>>
      /\ phase = "batch" /\ batch' = batch \ {o} /\ o.op = "opEventfd"
      /\ sq' = sq \cup {EventfdOp}
  BY DEF OnEventfd, Harvest, ringVars
<1>2. AcceptsDone' = AcceptsDone
  BY <1>1 DEF AcceptsDone
<1>3. Balanced
  <2>1. SUFFICES ASSUME NEW f \in FDs
        PROVE Waiting(f)' = Waiting(f) + Expect(f \in openFDs') - Expect(f \in openFDs)
    BY DEF Balanced
  <2>2. PICK n : n = Cardinality({p \in AcceptsDone : p.fd = f})
    OBVIOUS
  <2>3. /\ Waiting(f) = n + FdsIn(ready, f) + FdsIn(drained, f)
        /\ n \in Nat /\ FdsIn(ready, f) \in Nat /\ FdsIn(drained, f) \in Nat
        /\ Waiting(f) \in Nat
    BY <2>2, HoldersAre
  <2>4. Waiting(f)' = n + FdsIn(ready', f) + FdsIn(drained', f)
    BY <1>2, <2>2, HoldersAreNext
  <2>5. FdsIn(<<>>, f) = 0
    BY FdsChange DEF Inv, TypeOK
  <2>6. Waiting(f)' = Waiting(f)
    BY <1>1, <2>3, <2>4, <2>5
  <2>7. QED
    BY <1>1, <2>3, <2>6 DEF Expect
<1>4. \A d \in Ids : Usable(d) => HookCalls(d)' <= HookCalls(d)
  <2>1. \A d : IdsIn(<<>>, d) = 0
    BY IdsChange DEF Inv, TypeOK
  <2>2. ASSUME NEW d \in Ids PROVE HookCalls(d)' = HookCalls(d) /\ HookCalls(d) \in Nat
    BY <1>1, <2>1, HookSum, HookNat
  <2>3. QED
    BY <2>2
<1>5. EventfdOp.op = "opEventfd" /\ "opEventfd" \notin AskOps
  BY DEF EventfdOp, Op, AskOps
<1>6. Running
  BY <1>1 DEF Running
<1>7. Still({EventfdOp})
  BY <1>1, <1>4, <1>5 DEF Still
<1>8. QED
  BY <1>3, <1>6, <1>7, StillFds

(* The sweep tears down the idle connections. *)
LEMMA TimeoutFds ==
  ASSUME Inv, Inv', Work, Work', Fds, NEW o \in batch, OnTimeout(o) PROVE Fds'
<1>1. PICK S \in SUBSET conns :
        /\ \A c \in S : Usable(c)
        /\ conn' = [c \in Ids |->
             IF c \in S THEN Closing([Older(conn[c]) EXCEPT !.counted = TRUE])
             ELSE IF c \in conns THEN Older(conn[c]) ELSE conn[c]]
        /\ conns' = {c \in conns : c \in S => CloseOps(c, conn[c]) # {}}
        /\ sq' = sq \cup {TimeoutOp} \cup UNION {CloseOps(c, conn[c]) : c \in S}
  <2> DEFINE T == IF IdleTicks > 0 /\ tick' = 0 THEN {c \in conns : Idle(c)} ELSE {}
  <2>1. T \in SUBSET conns /\ \A c \in T : Usable(c)
    BY DEF Idle
  <2>2. /\ conn' = [c \in Ids |->
             IF c \in T THEN Closing([Older(conn[c]) EXCEPT !.counted = TRUE])
             ELSE IF c \in conns THEN Older(conn[c]) ELSE conn[c]]
        /\ conns' = {c \in conns : c \in T => CloseOps(c, conn[c]) # {}}
        /\ sq' = sq \cup {TimeoutOp} \cup UNION {CloseOps(c, conn[c]) : c \in T}
    BY DEF OnTimeout
  <2> HIDE DEF T
  <2>3. QED
    BY <2>1, <2>2
<1>2. /\ UNCHANGED <<phase, kops, drained, blockedOn, jobs, running, ready, openFDs>>
      /\ phase = "batch" /\ batch' = batch \ {o} /\ o.op = "opTimeout"
  BY DEF OnTimeout, Harvest, hookVars
<1>3. Balanced
  BY <1>2, HarvestBalance
<1>4. ASSUME NEW d \in conns PROVE d \in Ids /\ conn[d] \in Conn
  <2>1. d \in Ids
    BY ConnsAreIds
  <2>2. QED
    BY <2>1 DEF Inv, TypeOK
<1>5. conns' = conns
  <2>1. ASSUME NEW c \in S PROVE CloseOps(c, conn[c]) # {}
    <3>1. Open(c)
      BY <1>1 DEF Usable, Work, Entries, Entry
    <3>2. Op(c, "opClose", conn[c].clientFD) \in CloseOps(c, conn[c])
      BY <3>1 DEF Open, CloseOps
    <3>3. QED
      BY <3>2
  <2>2. QED
    BY <1>1, <2>1
<1>6. ASSUME NEW d \in S
      PROVE  /\ conn'[d].closing
             /\ conn'[d].closesLeft = Closing(conn[d]).closesLeft
             /\ conn'[d].clientFD = conn[d].clientFD
             /\ conn'[d].upstreamFD = conn[d].upstreamFD
  <2>1. PICK r : r = Older(conn[d])
    OBVIOUS
  <2>2. r \in Conn /\ conn[d] \in Conn /\ d \in Ids
    BY <1>4, <2>1, ConnFields
  <2>3. r.clientFD = conn[d].clientFD /\ r.upstreamFD = conn[d].upstreamFD
    BY <2>1, <2>2, OlderFields
  <2>4. conn'[d] = Closing([r EXCEPT !.counted = TRUE])
    BY <1>1, <2>1, <2>2
  <2>5. QED
    BY <2>2, <2>3, <2>4 DEF Closing, Conn
<1>7. ASSUME NEW d \in conns \ S
      PROVE  /\ conn'[d].closing = conn[d].closing
             /\ conn'[d].closesLeft = conn[d].closesLeft
             /\ conn'[d].clientFD = conn[d].clientFD
             /\ conn'[d].upstreamFD = conn[d].upstreamFD
  <2>1. conn[d] \in Conn /\ d \in Ids
    BY <1>4
  <2>2. conn'[d] = Older(conn[d])
    BY <1>1, <2>1
  <2>3. QED
    BY <2>1, <2>2, OlderFields
<1>8. TimeoutOp.op # "opClose" /\ TimeoutOp.op \notin AskOps
  BY DEF TimeoutOp, Op, AskOps
<1>9. \A p : p.op = "opClose" => (p \in kops' \cup batch' <=> p \in kops \cup batch)
  BY <1>2
<1>10. \A q \in {TimeoutOp} : q.op # "opClose"
  BY <1>8
<1>11. Teardown(S, {TimeoutOp})
  BY <1>1, <1>5, <1>6, <1>7, <1>9, <1>10 DEF Teardown
<1>12. ASSUME NEW d \in conns, Usable(d), Asks(d)' PROVE Asks(d)
  <2>1. HookCalls(d)' = HookCalls(d)
    BY <1>2, <1>4, SameHooks
  <2>2. \A p \in InRing' : p.op \in AskOps => p \in InRing
    <3>1. \A c \in S : \A p \in CloseOps(c, conn[c]) : p.op \notin AskOps
      BY DEF CloseOps, Op, AskOps
    <3>2. QED
      BY <1>1, <1>2, <1>8, <3>1 DEF InRing
  <2>3. QED
    BY <1>12, <2>1, <2>2 DEF Asks
<1>13. Running
  BY <1>2 DEF Running
<1>14. QED
  BY <1>3, <1>11, <1>12, <1>13, KeptFds

(* A close completes: the last one takes the connection out of the table,  *)
(* which holds nothing by then.                                            *)
LEMMA CloseOpFds ==
  ASSUME Inv, Inv', Work, Work', Fds, NEW o \in batch, OnClose(o) PROVE Fds'
<1>1. PICK c : c = o.id
  OBVIOUS
<1>2. /\ phase = "batch" /\ phase' = "batch" /\ batch' = batch \ {o} /\ o.op = "opClose"
      /\ UNCHANGED <<sq, kops, drained, blockedOn, jobs, running, ready, openFDs>>
  BY DEF OnClose, Harvest, Elsewhere, ringVars, hookVars
<1>3. Owned /\ Closes /\ ClosesOwned /\ OneUpstream
  BY <1>2, FdsThen
<1>4. o \in InRing /\ o \notin sq \cup kops /\ o.op \in WorkOps
  BY <1>2 DEF InRing, Work, Apart, WorkOps
<1>5. InRing' = InRing \ {o}
  BY <1>2, <1>4 DEF InRing
<1>6. c \in Ids
  <2>1. c \in 1..nextID /\ nextID \in 0..MaxId
    BY <1>1, <1>4 DEF Work, OpsIssued, Inv, TypeOK
  <2>2. c \in 1..MaxId
    BY <2>1, ConstantsAssumption
  <2>3. QED
    BY <2>2 DEF Ids
<1>7. ~Usable(c)
  <2>1. ASSUME Usable(c) PROVE FALSE
    <3>1. OpsIn(InRing, c, {"opClose"}) = 0
      BY <2>1, RingOps DEF Usable, Work, Entries, Entry, Open
    <3>2. QED
      BY <1>1, <1>2, <1>4, <3>1, RingOps, OpsNone
  <2>2. QED
    BY <2>1
<1>8. Balanced
  BY <1>2, HarvestBalance
<1>9. PICK n : n = OpsOf(c, {"opClose"})
  OBVIOUS
<1>10. n \in Nat /\ n > 0 /\ OpsOf(c, {"opClose"})' = n - 1
  <2> DEFINE M == {p \in InRing : p.id = c /\ p.op \in {"opClose"}}
  <2>1. o \in M
    BY <1>1, <1>2, <1>4
  <2>2. {p \in InRing' : p.id = c /\ p.op \in {"opClose"}} = M \ {o}
    BY <1>5
  <2>3. IsFiniteSet(M)
    BY RingOps, FiniteKinds, FS_Subset
  <2>4. n = Cardinality(M) /\ OpsOf(c, {"opClose"})' = Cardinality(M \ {o})
    BY <1>9, <2>2 DEF OpsOf
  <2> HIDE DEF M
  <2>5. Cardinality(M) \in Nat /\ Cardinality(M \ {o}) \in Nat
    BY <2>3, FS_RemoveElement, FS_CardinalityType
  <2>6. Cardinality(M \ {o}) = Cardinality(M) - 1
    BY <2>1, <2>3, FS_RemoveElement
  <2>7. QED
    BY <2>4, <2>5, <2>6
<1>11. ASSUME NEW d, d # c PROVE OpsOf(d, {"opClose"})' = OpsOf(d, {"opClose"})
  <2>1. {p \in InRing' : p.id = d /\ p.op \in {"opClose"}}
          = {p \in InRing : p.id = d /\ p.op \in {"opClose"}}
    BY <1>1, <1>5, <1>11
  <2>2. QED
    BY <2>1 DEF OpsOf
<1>12. n = 1 => \A p \in sq : p.op = "opClose" => p.id # c
  <2>1. SUFFICES ASSUME n = 1, NEW p \in sq, p.op = "opClose", p.id = c PROVE FALSE
    OBVIOUS
  <2>2. OpsIn(InRing, c, {"opClose"}) = 1 /\ p \in InRing /\ InRing \in SUBSET Ops
    BY <1>9, <2>1, RingOps DEF InRing
  <2>3. o.id = c /\ o.op \in {"opClose"} /\ p.op \in {"opClose"} /\ o \in InRing
    BY <1>1, <1>2, <1>4, <2>1
  <2>4. \A q \in InRing : q.id = c /\ q.op \in {"opClose"} => q = o
    BY <2>2, <2>3, OpsSole
  <2>5. p = o
    BY <2>1, <2>2, <2>3, <2>4
  <2>6. QED
    BY <1>4, <2>5
<1>13. \/ conns' = conns /\ conn' = conn /\ c \notin conns
       \/ /\ c \in conns /\ conns' = conns \ {c} /\ n = 1
          /\ conn' = [conn EXCEPT ![c] = NoConn]
       \/ /\ c \in conns /\ conns' = conns /\ n > 1
          /\ conn' = [conn EXCEPT ![c].closesLeft = @ - 1]
  <2>1. ASSUME c \in conns PROVE conn[c].closesLeft = n
    BY <1>3, <1>7, <1>9, <2>1 DEF Closes, Usable
  <2>2. CASE c \notin conns
    BY <1>1, <2>2 DEF OnClose
  <2>3. CASE c \in conns /\ conn[c].closesLeft - 1 <= 0
    <3>1. /\ conns' = conns \ {c} /\ conn' = [conn EXCEPT ![c] = NoConn]
      BY <1>1, <2>3 DEF OnClose
    <3>2. n = 1
      BY <1>10, <2>1, <2>3
    <3>3. QED
      BY <2>3, <3>1, <3>2
  <2>4. CASE c \in conns /\ ~(conn[c].closesLeft - 1 <= 0)
    <3>1. conns' = conns /\ conn' = [conn EXCEPT ![c].closesLeft = @ - 1]
      BY <1>1, <2>4 DEF OnClose
    <3>2. n > 1
      BY <1>10, <2>1, <2>4
    <3>3. QED
      BY <2>4, <3>1, <3>2
  <2>5. QED
    BY <2>2, <2>3, <2>4
<1>14. \A d \in Ids \ {c} : conn'[d] = conn[d] /\ (d \in conns' <=> d \in conns)
  BY <1>6, <1>13 DEF Inv, TypeOK
<1>15. c \in conns => conn[c].closing
  BY <1>7 DEF Usable
<1>16. ASSUME c \in conns'
       PROVE  /\ c \in conns /\ n > 1 /\ conn'[c].closesLeft = n - 1
              /\ conn'[c].clientFD = conn[c].clientFD
              /\ conn'[c].upstreamFD = conn[c].upstreamFD
              /\ conn'[c].closing = conn[c].closing
  <2>1. c \in conns /\ n > 1 /\ conn' = [conn EXCEPT ![c].closesLeft = @ - 1]
    BY <1>13, <1>16
  <2>2. conn'[c] = [conn[c] EXCEPT !.closesLeft = @ - 1] /\ conn[c] \in Conn
    BY <1>6, <2>1 DEF Inv, TypeOK
  <2>3. conn[c].closesLeft = n
    BY <1>3, <1>9, <1>15, <2>1 DEF Closes
  <2>4. QED
    BY <2>1, <2>2, <2>3 DEF Conn
<1>17. conns' \subseteq conns /\ conns \subseteq Ids
  BY <1>13, ConnsAreIds
<1>18. Closes'
  <2>1. SUFFICES ASSUME NEW d \in conns', conn'[d].closing
        PROVE  /\ conn'[d].closesLeft = OpsOf(d, {"opClose"})'
               /\ conn'[d].closesLeft > 0
    BY DEF Closes
  <2>2. CASE d = c
    BY <1>10, <1>16, <2>1, <2>2
  <2>3. CASE d # c
    BY <1>3, <1>11, <1>14, <1>17, <2>1, <2>3 DEF Closes
  <2>4. QED
    BY <2>2, <2>3
<1>19. c \in conns /\ c \notin conns' => \A p \in sq : p.op = "opClose" => p.id # c
  BY <1>12, <1>13
<1>20. ClosesOwned'
  <2>1. SUFFICES ASSUME NEW p \in sq, p.op = "opClose"
        PROVE  /\ p.id \in conns' /\ conn'[p.id].closing
               /\ p.fd # NoFD /\ p.fd \in {conn'[p.id].clientFD, conn'[p.id].upstreamFD}
    BY <1>2 DEF ClosesOwned
  <2>2. /\ p.id \in conns /\ conn[p.id].closing
        /\ p.fd # NoFD /\ p.fd \in {conn[p.id].clientFD, conn[p.id].upstreamFD}
    BY <1>3, <2>1 DEF ClosesOwned
  <2>3. CASE p.id = c
    BY <1>16, <1>19, <2>1, <2>2, <2>3
  <2>4. CASE p.id # c
    BY <1>14, <1>17, <2>2, <2>4
  <2>5. QED
    BY <2>3, <2>4
<1>21. SameHeld
  <2>1. SUFFICES ASSUME NEW f \in FDs PROVE HeldByConns(f)' = HeldByConns(f)
    BY DEF SameHeld
  <2>2. ASSUME NEW h \in HeldByConns(f) PROVE h \in HeldByConns(f)'
    <3>1. /\ h \in conns \X {"clientFD", "upstreamFD"} /\ conn[h[1]][h[2]] = f
          /\ conn[h[1]].closing => Op(h[1], "opClose", f) \in sq
      BY <2>2 DEF HeldByConns
    <3>2. h[1] \in conns'
      <4>1. CASE h[1] = c
        <5>1. Op(c, "opClose", f) \in sq
          BY <1>15, <3>1, <4>1
        <5>2. Op(c, "opClose", f).op = "opClose" /\ Op(c, "opClose", f).id = c
          BY DEF Op
        <5>3. QED
          BY <1>19, <3>1, <4>1, <5>1, <5>2
      <4>2. CASE h[1] # c
        BY <1>14, <1>17, <3>1, <4>2
      <4>3. QED
        BY <4>1, <4>2
    <3>3. /\ conn'[h[1]].clientFD = conn[h[1]].clientFD
          /\ conn'[h[1]].upstreamFD = conn[h[1]].upstreamFD
          /\ conn'[h[1]].closing = conn[h[1]].closing
      BY <1>14, <1>16, <1>17, <3>2
    <3>4. QED
      BY <1>2, <3>1, <3>2, <3>3 DEF HeldByConns
  <2>3. ASSUME NEW h \in HeldByConns(f)' PROVE h \in HeldByConns(f)
    <3>1. /\ h \in conns' \X {"clientFD", "upstreamFD"} /\ conn'[h[1]][h[2]] = f
          /\ conn'[h[1]].closing => Op(h[1], "opClose", f) \in sq'
      BY <2>3 DEF HeldByConns
    <3>2. /\ conn'[h[1]].clientFD = conn[h[1]].clientFD
          /\ conn'[h[1]].upstreamFD = conn[h[1]].upstreamFD
          /\ conn'[h[1]].closing = conn[h[1]].closing
      BY <1>14, <1>16, <1>17, <3>1
    <3>3. QED
      BY <1>2, <1>17, <3>1, <3>2 DEF HeldByConns
  <2>4. QED
    BY <2>2, <2>3
<1>22. Owned'
  BY <1>3, <1>8, <1>21, OwnedKept
<1>23. OneUpstream'
  <2>1. SUFFICES ASSUME NEW d \in conns', Usable(d)', Asks(d)'
                 PROVE  conn'[d].upstreamFD = NoFD
    BY DEF OneUpstream
  <2>2. d # c
    BY <1>15, <1>16, <2>1 DEF Usable
  <2>3. conn'[d] = conn[d] /\ d \in conns /\ Usable(d) /\ d \in Ids
    BY <1>14, <1>17, <2>1, <2>2 DEF Usable
  <2>4. HookCalls(d)' = HookCalls(d)
    BY <1>2, <2>3, SameHooks
  <2>5. Asks(d)
    BY <1>5, <2>1, <2>4 DEF Asks
  <2>6. QED
    BY <1>3, <2>3, <2>5 DEF OneUpstream
<1>24. QED
  BY <1>18, <1>20, <1>22, <1>23 DEF Fds

(* A result is applied: the upstream it brings is closed, or it becomes    *)
(* the one upstream of its connection.                                     *)
LEMMA RelayResultFds ==
  ASSUME Inv, Inv', Work, Work', Fds, ApplyRelay PROVE Fds'
<1>1. Applying /\ Usable(Head(drained).id) /\ openFDs' = openFDs
  BY DEF ApplyRelay, ApplyTo
<1>2. PICK c : c = Head(drained).id
  OBVIOUS
<1>3. PICK g : g = Head(drained).fd
  OBVIOUS
<1>4. g \in 0..MaxFD
  <2>1. Head(drained) \in Result
    BY <1>1 DEF Applying, Inv, TypeOK
  <2>2. QED
    BY <1>3, <2>1 DEF Result
<1>5. /\ Usable(c) /\ OnBehalf(c, {}) /\ phase = "batch" /\ batch' = batch /\ kops' = kops
      /\ HookCalls(c) > 0 /\ Cleared(c, {})
  BY <1>1, <1>2, ApplyHandler, ResultCleared DEF OnBehalf
<1>6. c \in conns /\ c \in Ids /\ conn[c] \in Conn /\ Refreshed(c) \in Conn
      /\ conn[c].closing = FALSE
  <2>1. c \in conns /\ c \in Ids /\ conn[c] \in Conn /\ Refreshed(c) \in Conn
    BY <1>5, UsableConn
  <2>2. conn[c].closing \in BOOLEAN
    BY <2>1 DEF Conn
  <2>3. QED
    BY <1>5, <2>1, <2>2 DEF Usable
<1>7. Owned /\ Closes /\ ClosesOwned /\ OneUpstream
  BY <1>5, FdsThen
<1>8. conn[c].upstreamFD = NoFD
  BY <1>5, <1>6, <1>7 DEF OneUpstream, Asks
<1>9. PICK cc : cc = [Refreshed(c) EXCEPT !.upstreamFD = g]
  OBVIOUS
<1>10. cc \in Conn
  BY <1>4, <1>6, <1>9, ConnFields
<1>11. /\ cc.clientFD = conn[c].clientFD /\ cc.upstreamFD = g /\ cc.closing = FALSE
  BY <1>6, <1>9 DEF Refreshed, Conn
<1>12. PICK r, P : /\ r \in Conn /\ r.clientFD = conn[c].clientFD
                   /\ r.upstreamFD = g /\ r.closing = FALSE
                   /\ Goes(c, r, P) /\ Posts(c, P) /\ Quiet(P)
  <2>1. Proceed(c, cc, {Op(c, "opReplyClient", cc.clientFD)}) \/ forwardInit(c, cc)
    BY <1>2, <1>3, <1>9 DEF ApplyRelay
  <2>2. CASE Proceed(c, cc, {Op(c, "opReplyClient", cc.clientFD)})
    <3>1. PICK P : P = {Op(c, "opReplyClient", cc.clientFD)}
      OBVIOUS
    <3>2. Goes(c, cc, P)
      BY <2>2, <3>1 DEF Proceed, Goes
    <3>3. Posts(c, P) /\ Quiet(P)
      BY <3>1 DEF Op, DataOps, PreRelayOps, AskOps, Posts, Quiet
    <3>4. QED
      BY <1>10, <1>11, <3>2, <3>3
  <2>3. CASE Proceed(c, cc, {Op(c, "opSendUp", cc.upstreamFD)})
    <3>1. PICK P : P = {Op(c, "opSendUp", cc.upstreamFD)}
      OBVIOUS
    <3>2. Goes(c, cc, P)
      BY <2>3, <3>1 DEF Proceed, Goes
    <3>3. Posts(c, P) /\ Quiet(P)
      BY <3>1 DEF Op, DataOps, PreRelayOps, AskOps, Posts, Quiet
    <3>4. QED
      BY <1>10, <1>11, <3>2, <3>3
  <2>4. CASE startDuplex(c, cc)
    <3>1. PICK P : P = {Op(c, "opC2URecv", cc.clientFD), Op(c, "opU2CRecv", cc.upstreamFD)}
      OBVIOUS
    <3>2. PICK s : s = [cc EXCEPT !.relayStarted = TRUE]
      OBVIOUS
    <3>3. Goes(c, s, P)
      BY <2>4, <3>1, <3>2 DEF startDuplex, Proceed, Goes
    <3>4. Posts(c, P) /\ Quiet(P)
      BY <3>1 DEF Op, DataOps, C2UOps, U2COps, AskOps, Posts, Quiet
    <3>5. s \in Conn
      BY <1>10, <3>2, ConnFields
    <3>6. s.clientFD = conn[c].clientFD /\ s.upstreamFD = g /\ s.closing = FALSE
      BY <1>10, <1>11, <3>2 DEF Conn
    <3>7. QED
      BY <3>3, <3>4, <3>5, <3>6
  <2>5. QED
    BY <2>1, <2>2, <2>3, <2>4 DEF forwardInit
<1>13. conns' = conns /\ sq' = sq \cup P /\ conn' = [conn EXCEPT ![c] = r]
       /\ \A p \in P : p.id = c /\ p.op # "opClose" /\ p.op \notin AskOps /\ p.op \in DataOps
  <2>1. "opClose" \notin DataOps
    BY DEF DataOps, PreRelayOps, C2UOps, U2COps
  <2>2. QED
    BY <1>12, <2>1 DEF Goes, Posts, Quiet
<1>14. conn'[c] = r /\ \A d \in Ids \ {c} : conn'[d] = conn[d]
  BY <1>6, <1>13 DEF Inv, TypeOK
<1>15. /\ \A p : p.op = "opClose" => (p \in sq' <=> p \in sq)
       /\ \A p : p.op = "opClose" => (p \in InRing' <=> p \in InRing)
       /\ \A p \in InRing' : p.op \in AskOps => p \in InRing
  BY <1>5, <1>13 DEF InRing
<1>16. conns \subseteq Ids
  BY ConnsAreIds
<1>17. ClosesOwned'
  <2>1. SUFFICES ASSUME NEW p \in sq', p.op = "opClose"
        PROVE  /\ p.id \in conns' /\ conn'[p.id].closing
               /\ p.fd # NoFD /\ p.fd \in {conn'[p.id].clientFD, conn'[p.id].upstreamFD}
    BY DEF ClosesOwned
  <2>2. /\ p.id \in conns /\ conn[p.id].closing
        /\ p.fd # NoFD /\ p.fd \in {conn[p.id].clientFD, conn[p.id].upstreamFD}
    BY <1>7, <1>15, <2>1 DEF ClosesOwned
  <2>3. p.id # c
    BY <1>6, <2>2
  <2>4. QED
    BY <1>13, <1>14, <1>16, <2>2, <2>3
<1>18. Closes'
  <2>1. SUFFICES ASSUME NEW d \in conns, conn'[d].closing
        PROVE  /\ conn'[d].closesLeft = OpsOf(d, {"opClose"})'
               /\ conn'[d].closesLeft > 0
    BY <1>13 DEF Closes
  <2>2. d # c /\ conn'[d] = conn[d]
    BY <1>12, <1>14, <1>16, <2>1
  <2>3. {o \in InRing' : o.id = d /\ o.op \in {"opClose"}}
          = {o \in InRing : o.id = d /\ o.op \in {"opClose"}}
    BY <1>15
  <2>4. OpsOf(d, {"opClose"})' = OpsOf(d, {"opClose"})
    BY <2>3 DEF OpsOf
  <2>5. QED
    BY <1>7, <2>1, <2>2, <2>4 DEF Closes
<1>19. OneUpstream'
  <2>1. SUFFICES ASSUME NEW d \in conns, Usable(d)', Asks(d)'
                 PROVE  conn'[d].upstreamFD = NoFD
    BY <1>13 DEF OneUpstream
  <2>2. d # c
    <3>1. HookCalls(c)' = 0 /\ \A q \in InRing : q.id = c => q.op \notin WorkOps
      BY <1>5 DEF Cleared
    <3>2. \A q \in InRing' : q.id = c => q.op \notin AskOps
      BY <1>15, <3>1 DEF AskOps, WorkOps, DataOps, PreRelayOps
    <3>3. QED
      BY <2>1, <3>1, <3>2 DEF Asks
  <2>3. d \in Ids /\ conn'[d] = conn[d] /\ Usable(d)
    BY <1>13, <1>14, <1>16, <2>1, <2>2 DEF Usable
  <2>4. HookCalls(d)' = HookCalls(d)
    BY <1>5, <2>2, <2>3 DEF OnBehalf
  <2>5. Asks(d)
    BY <1>15, <2>1, <2>4 DEF Asks
  <2>6. QED
    BY <1>7, <2>3, <2>5 DEF OneUpstream
<1>20. ASSUME NEW f \in FDs
       PROVE  Cardinality(HeldByConns(f)') + Waiting(f)'
                = Cardinality(HeldByConns(f)) + Waiting(f)
                    + Expect(f \in openFDs') - Expect(f \in openFDs)
  <2>1. Waiting(f)' = Waiting(f) - Expect(g = f)
    BY <1>1, <1>3, TakenResult
  <2>2. /\ IsFiniteSet(HeldByConns(f)) /\ Cardinality(HeldByConns(f)) \in Nat
        /\ Waiting(f) \in Nat
    BY HoldersAre
  <2>3. f # NoFD
    BY DEF FDs, NoFD
  <2>4. ASSUME NEW h \in conns \X {"clientFD", "upstreamFD"}, h # <<c, "upstreamFD">>
        PROVE  h \in HeldByConns(f)' <=> h \in HeldByConns(f)
    <3>1. h[1] \in conns /\ (h[2] = "clientFD" \/ h[2] = "upstreamFD")
      BY <2>4
    <3>2. h = <<h[1], h[2]>>
      BY <2>4
    <3>3. CASE h[1] # c
      <4>1. conn'[h[1]] = conn[h[1]]
        BY <1>14, <1>16, <3>1, <3>3
      <4>2. Op(h[1], "opClose", f) \in sq' <=> Op(h[1], "opClose", f) \in sq
        BY <1>15 DEF Op
      <4>3. QED
        BY <1>13, <2>4, <4>1, <4>2 DEF HeldByConns
    <3>4. CASE h[1] = c
      <4>1. h[2] = "clientFD"
        BY <2>4, <3>1, <3>2, <3>4
      <4>2. conn'[c].clientFD = conn[c].clientFD /\ conn'[c].closing = conn[c].closing
            /\ conn'[c].closing = FALSE
        BY <1>6, <1>12, <1>14
      <4>3. QED
        BY <1>13, <2>4, <3>4, <4>1, <4>2 DEF HeldByConns
    <3>5. QED
      BY <3>3, <3>4
  <2>5. PICK a : a = <<c, "upstreamFD">>
    OBVIOUS
  <2>6. a \notin HeldByConns(f)
    BY <1>8, <2>3, <2>5 DEF HeldByConns
  <2>7. a \in HeldByConns(f)' <=> g = f
    <3>1. conn'[c].upstreamFD = g /\ conn'[c].closing = FALSE
      BY <1>12, <1>14
    <3>2. QED
      BY <1>6, <1>13, <2>5, <3>1 DEF HeldByConns
  <2>8. /\ HeldByConns(f) \subseteq conns \X {"clientFD", "upstreamFD"}
        /\ HeldByConns(f)' \subseteq conns \X {"clientFD", "upstreamFD"}
    BY <1>13 DEF HeldByConns
  <2>9. CASE g # f
    <3>1. HeldByConns(f)' = HeldByConns(f)
      BY <2>4, <2>5, <2>6, <2>7, <2>8, <2>9
    <3>2. QED
      BY <1>1, <2>1, <2>2, <2>9, <3>1 DEF Expect
  <2>10. CASE g = f
    <3>1. HeldByConns(f)' = HeldByConns(f) \cup {a}
      BY <2>4, <2>5, <2>6, <2>7, <2>8, <2>10
    <3>2. Cardinality(HeldByConns(f)') = Cardinality(HeldByConns(f)) + 1
      BY <2>2, <2>6, <3>1, FS_AddElement
    <3>3. QED
      BY <1>1, <2>1, <2>2, <2>10, <3>2 DEF Expect
  <2>11. QED
    BY <2>9, <2>10
<1>21. Owned'
  BY <1>7, <1>20, OwnedMoves DEF Moves
<1>22. QED
  BY <1>17, <1>18, <1>19, <1>21 DEF Fds

(* The results that bring no upstream to stay. *)
LEMMA ApplyFds ==
  ASSUME Inv, Inv', Work, Work', Fds, ApplyResult PROVE Fds'
<1>1. CASE ApplyRelay
  BY <1>1, RelayResultFds
<1>2. ASSUME ApplyLate \/ ApplyReject \/ ApplyMore PROVE Fds'
  <2>1. Applying /\ openFDs' = openFDs \ {Head(drained).fd} /\ phase = "batch"
    BY <1>2 DEF ApplyLate, ApplyReject, ApplyMore, ApplyTo, Applying
  <2>2. Owned
    BY <2>1, FdsThen
  <2>3. Balanced
    BY <2>1, <2>2, DropBalance
  <2>4. PICK c : c = Head(drained).id
    OBVIOUS
  <2>5. /\ OnBehalf(c, {}) /\ batch' = batch /\ kops' = kops
        /\ HookCalls(c) > 0 /\ HookCalls(c)' = HookCalls(c) - 1
        /\ \A d : d # c => HookCalls(d)' = HookCalls(d)
    BY <2>1, <2>4, ApplyHandler
  <2>6. Takes(c, {}) /\ Asks(c) /\ Running
    BY <2>1, <2>5 DEF Takes, Asks, Running
  <2>7. CASE ApplyLate
    <3>1. UNCHANGED <<conns, conn, sq>>
      BY <2>7 DEF ApplyLate, tableVars
    <3>2. \A d \in Ids : HookCalls(d)' <= HookCalls(d)
      BY <2>5, HookNat
    <3>3. Still({})
      BY <2>5, <3>1, <3>2 DEF Still
    <3>4. QED
      BY <2>3, <2>6, <3>3, StillFds
  <2>8. ASSUME ApplyReject \/ ApplyMore PROVE Fds'
    <3>1. Usable(c)
      BY <2>4, <2>8 DEF ApplyReject, ApplyMore, ApplyTo
    <3>2. PICK b : b = Head(drained).reply
      OBVIOUS
    <3>3. PICK cc : cc = [Refreshed(c) EXCEPT !.counted = TRUE]
      OBVIOUS
    <3>4. SameFds(c, Refreshed(c)) /\ ~Refreshed(c).closing /\ SameFds(c, cc) /\ ~cc.closing
      BY <3>1, <3>3, SameFdsWith
    <3>5. CASE ApplyReject /\ b
      <4>1. PICK P : P = {Op(c, "opRejectSend", cc.clientFD)}
        OBVIOUS
      <4>2. Goes(c, cc, P)
        BY <2>4, <3>2, <3>3, <3>5, <4>1 DEF ApplyReject, Goes
      <4>3. Posts(c, P)
        BY <4>1 DEF Op, DataOps, PreRelayOps, Posts
      <4>4. QED
        BY <2>3, <2>6, <3>1, <3>4, <4>2, <4>3, ProceedFds
    <3>6. CASE ApplyReject /\ ~b
      <4>1. closeConn(c, cc, <<"rejected">>)
        BY <2>4, <3>2, <3>3, <3>6 DEF ApplyReject
      <4>2. QED
        BY <2>3, <2>6, <3>1, <3>4, <4>1, CloseFds
    <3>7. CASE ApplyMore
      <4>1. PICK P : P = {Op(c, IF b THEN "opReplyMore" ELSE "opRecvReq",
                             Refreshed(c).clientFD)}
        OBVIOUS
      <4>2. fail(c, Refreshed(c)) \/ Proceed(c, Refreshed(c), P)
        BY <2>4, <3>2, <3>7, <4>1 DEF ApplyMore
      <4>3. Posts(c, P)
        BY <4>1 DEF Op, DataOps, PreRelayOps, Posts
      <4>4. CASE fail(c, Refreshed(c))
        BY <2>3, <2>6, <3>1, <3>4, <4>4, FailFds
      <4>5. CASE Proceed(c, Refreshed(c), P)
        <5>1. Goes(c, Refreshed(c), P)
          BY <4>5 DEF Proceed, Goes
        <5>2. QED
          BY <2>3, <2>6, <3>1, <3>4, <4>3, <5>1, ProceedFds
      <4>6. QED
        BY <4>2, <4>4, <4>5
    <3>8. QED
      BY <2>8, <3>5, <3>6, <3>7
  <2>9. QED
    BY <1>2, <2>7, <2>8
<1>3. QED
  BY <1>1, <1>2 DEF ApplyResult

-----------------------------------------------------------------------------
(* Descriptors that are opened, handed over and closed.                    *)

(* A completed accept becomes a connection. *)
LEMMA AcceptFds ==
  ASSUME Inv, Inv', Work, Work', Fds, NEW o \in batch, OnAccept(o) PROVE Fds'
<1>1. /\ UNCHANGED <<phase, kops, drained, blockedOn, jobs, running, ready, openFDs>>
      /\ phase = "batch" /\ batch' = batch \ {o} /\ o.op = "opAccept"
  BY DEF OnAccept, Harvest, hookVars
<1>2. Owned /\ Closes /\ ClosesOwned /\ OneUpstream /\ Running
  BY <1>1, FdsThen DEF Running
<1>3. \A d \in Ids : HookCalls(d)' = HookCalls(d) /\ HookCalls(d)' <= HookCalls(d)
  BY <1>1, SameHooks
<1>4. /\ o \in AcceptsDone /\ o \notin kops /\ AcceptsDone' = AcceptsDone \ {o}
      /\ IsFiniteSet(AcceptsDone)
  <2>1. o \notin kops /\ IsFiniteSet(AcceptsDone)
    BY <1>1 DEF Inv, AcceptsCounted
  <2>2. QED
    BY <1>1, <2>1 DEF AcceptsDone
<1>5. ASSUME NEW f \in FDs
      PROVE  Waiting(f)' = Waiting(f) - Expect(o.fd = f)
  <2> DEFINE A == {p \in AcceptsDone : p.fd = f}
             B == {p \in AcceptsDone' : p.fd = f}
  <2>1. /\ Waiting(f) = Cardinality(A) + FdsIn(ready, f) + FdsIn(drained, f)
        /\ Cardinality(A) \in Nat /\ FdsIn(ready, f) \in Nat /\ FdsIn(drained, f) \in Nat
    BY HoldersAre
  <2>2. Waiting(f)' = Cardinality(B) + FdsIn(ready, f) + FdsIn(drained, f)
    BY <1>1, HoldersAreNext
  <2>3. IsFiniteSet(A)
    BY <1>4, FS_Subset
  <2>4. CASE o.fd = f
    <3>1. o \in A /\ B = A \ {o}
      BY <1>4, <2>4
    <3> HIDE DEF A, B
    <3>2. Cardinality(B) = Cardinality(A) - 1
      BY <2>3, <3>1, FS_RemoveElement
    <3>3. QED
      BY <2>1, <2>2, <2>4, <3>2 DEF Expect
  <2>5. CASE o.fd # f
    <3>1. B = A
      BY <1>4, <2>5
    <3> HIDE DEF A, B
    <3>2. QED
      BY <2>1, <2>2, <2>5, <3>1 DEF Expect
  <2>6. QED
    BY <2>4, <2>5
<1>6. CASE o.fd = NoFD
  <2>1. UNCHANGED <<conns, conn, sq>>
    BY <1>6 DEF OnAccept
  <2>2. ASSUME NEW f \in FDs
        PROVE Waiting(f)' = Waiting(f) + Expect(f \in openFDs') - Expect(f \in openFDs)
    <3>1. o.fd # f
      BY <1>6 DEF FDs, NoFD
    <3>2. Waiting(f) \in Nat
      BY HoldersAre
    <3>3. QED
      BY <1>1, <1>5, <3>1, <3>2 DEF Expect
  <2>3. Still({})
    <3>1. "opAccept" \notin AskOps
      BY DEF AskOps
    <3>2. QED
      BY <1>1, <1>3, <2>1, <3>1 DEF Still
  <2>4. QED
    BY <1>2, <2>2, <2>3, StillFds DEF Balanced
<1>7. CASE o.fd # NoFD
  <2>1. Cardinality(conns) < MaxConns
    <3>1. Cardinality(AcceptsDone) # 0
      BY <1>4, FS_EmptySet
    <3>2. /\ Cardinality(AcceptsDone) \in Nat /\ Cardinality(conns) \in Nat
          /\ acceptInflight \in Nat /\ MaxConns \in Nat
      BY AcceptsFinite, ConnsFinite, ConstantsAssumption DEF Inv, TypeOK
    <3>3. /\ Cardinality(AcceptsDone) <= acceptInflight
          /\ Cardinality(conns) + acceptInflight <= MaxConns
      BY DEF Inv, ConnCap, AcceptsCounted
    <3>4. QED
      BY <3>1, <3>2, <3>3
  <2>2. PICK n : n = nextID + 1
    OBVIOUS
  <2>3. PICK p : p = Op(n, "opRecvReq", o.fd)
    OBVIOUS
  <2>4. /\ nextID' = n /\ conns' = conns \cup {n}
        /\ conn' = [conn EXCEPT ![n] = NewConn(o.fd)]
        /\ sq' = sq \cup {p}
    BY <1>7, <2>1, <2>2, <2>3, ConnsFinite, ConstantsAssumption DEF OnAccept
  <2>5. n \in Ids /\ n \notin conns /\ conns \subseteq Ids
    BY <2>2, <2>4, ConnsAreIds, ConstantsAssumption DEF Inv, TypeOK, Ids
  <2>6. conn'[n] = NewConn(o.fd) /\ \A d \in Ids \ {n} : conn'[d] = conn[d]
    BY <2>4, <2>5 DEF Inv, TypeOK
  <2>7. /\ conn'[n].clientFD = o.fd /\ conn'[n].upstreamFD = NoFD
        /\ conn'[n].closing = FALSE
    BY <2>6 DEF NewConn
  <2>8. p.op = "opRecvReq" /\ p.id = n
    BY <2>3 DEF Op
  <2>9. /\ \A q : q.op = "opClose" => (q \in sq' <=> q \in sq)
        /\ \A q : q.op = "opClose" => (q \in InRing' <=> q \in InRing)
        /\ \A q \in InRing' : q.id # n => q \in InRing
    BY <1>1, <2>4, <2>8 DEF InRing
  <2>10. ClosesOwned'
    <3>1. SUFFICES ASSUME NEW q \in sq', q.op = "opClose"
          PROVE  /\ q.id \in conns' /\ conn'[q.id].closing
                 /\ q.fd # NoFD /\ q.fd \in {conn'[q.id].clientFD, conn'[q.id].upstreamFD}
      BY DEF ClosesOwned
    <3>2. /\ q.id \in conns /\ conn[q.id].closing
          /\ q.fd # NoFD /\ q.fd \in {conn[q.id].clientFD, conn[q.id].upstreamFD}
      BY <1>2, <2>9, <3>1 DEF ClosesOwned
    <3>3. QED
      BY <2>4, <2>5, <2>6, <3>2
  <2>11. Closes'
    <3>1. SUFFICES ASSUME NEW d \in conns', conn'[d].closing
          PROVE  /\ conn'[d].closesLeft = OpsOf(d, {"opClose"})'
                 /\ conn'[d].closesLeft > 0
      BY DEF Closes
    <3>2. d \in conns /\ conn'[d] = conn[d]
      BY <2>4, <2>5, <2>6, <2>7, <3>1
    <3>3. {q \in InRing' : q.id = d /\ q.op \in {"opClose"}}
            = {q \in InRing : q.id = d /\ q.op \in {"opClose"}}
      BY <2>9
    <3>4. OpsOf(d, {"opClose"})' = OpsOf(d, {"opClose"})
      BY <3>3 DEF OpsOf
    <3>5. QED
      BY <1>2, <3>1, <3>2, <3>4 DEF Closes
  <2>12. OneUpstream'
    <3>1. SUFFICES ASSUME NEW d \in conns', d # n, Usable(d)', Asks(d)'
                   PROVE  conn'[d].upstreamFD = NoFD
      BY <2>7 DEF OneUpstream
    <3>2. d \in conns /\ d \in Ids /\ conn'[d] = conn[d]
      BY <2>4, <2>5, <2>6, <3>1
    <3>3. Usable(d) /\ Asks(d)
      BY <1>3, <2>9, <3>1, <3>2 DEF Usable, Asks
    <3>4. QED
      BY <1>2, <3>2, <3>3 DEF OneUpstream
  <2>13. ASSUME NEW f \in FDs
         PROVE  Cardinality(HeldByConns(f)') + Waiting(f)'
                  = Cardinality(HeldByConns(f)) + Waiting(f)
                      + Expect(f \in openFDs') - Expect(f \in openFDs)
    <3>1. Waiting(f)' = Waiting(f) - Expect(o.fd = f)
      BY <1>5
    <3>2. /\ IsFiniteSet(HeldByConns(f)) /\ Cardinality(HeldByConns(f)) \in Nat
          /\ Waiting(f) \in Nat
      BY HoldersAre
    <3>3. f # NoFD
      BY DEF FDs, NoFD
    <3>4. ASSUME NEW h \in conns \X {"clientFD", "upstreamFD"}
          PROVE  h \in HeldByConns(f)' <=> h \in HeldByConns(f)
      <4>1. h[1] \in conns /\ h[1] \in conns' /\ conn'[h[1]] = conn[h[1]]
        BY <2>4, <2>5, <2>6
      <4>2. h \in conns' \X {"clientFD", "upstreamFD"}
        BY <2>4
      <4>3. Op(h[1], "opClose", f) \in sq' <=> Op(h[1], "opClose", f) \in sq
        BY <2>9 DEF Op
      <4>4. QED
        BY <4>1, <4>2, <4>3 DEF HeldByConns
    <3>5. PICK a : a = <<n, "clientFD">>
      OBVIOUS
    <3>6. a \notin HeldByConns(f)
      BY <2>5, <3>5 DEF HeldByConns
    <3>7. a \in HeldByConns(f)' <=> o.fd = f
      BY <2>4, <2>7, <3>5 DEF HeldByConns
    <3>8. <<n, "upstreamFD">> \notin HeldByConns(f)'
      BY <2>7, <3>3 DEF HeldByConns
    <3>9. /\ HeldByConns(f) \subseteq conns \X {"clientFD", "upstreamFD"}
          /\ HeldByConns(f)' \subseteq (conns \X {"clientFD", "upstreamFD"})
                                          \cup {a, <<n, "upstreamFD">>}
      BY <2>4, <3>5 DEF HeldByConns
    <3>10. CASE o.fd # f
      <4>1. HeldByConns(f)' = HeldByConns(f)
        BY <3>4, <3>6, <3>7, <3>8, <3>9, <3>10
      <4>2. QED
        BY <1>1, <3>1, <3>2, <3>10, <4>1 DEF Expect
    <3>11. CASE o.fd = f
      <4>1. HeldByConns(f)' = HeldByConns(f) \cup {a}
        BY <3>4, <3>6, <3>7, <3>8, <3>9, <3>11
      <4>2. Cardinality(HeldByConns(f)') = Cardinality(HeldByConns(f)) + 1
        BY <3>2, <3>6, <4>1, FS_AddElement
      <4>3. QED
        BY <1>1, <3>1, <3>2, <3>11, <4>2 DEF Expect
    <3>12. QED
      BY <3>10, <3>11
  <2>14. Owned'
    BY <1>2, <2>13, OwnedMoves DEF Moves
  <2>15. QED
    BY <2>10, <2>11, <2>12, <2>14 DEF Fds
<1>8. QED
  BY <1>6, <1>7

(* The kernel opens the lowest free descriptor for an accepted client. *)
LEMMA KernelFds ==
  ASSUME Inv, Inv', Work, Work', Fds, Kernel PROVE Fds'
<1>1. PICK g \in 0..MaxFD : KernelAccept(g)
  BY DEF Kernel
<1>2. PICK a : a = Op(0, "opAccept", g)
  OBVIOUS
<1>3. /\ UNCHANGED <<conns, conn, sq, batch, drained, blockedOn, jobs, running, ready>>
      /\ kops' = kops \cup {a} /\ a \notin kops \cup batch
      /\ Running /\ openFDs' = openFDs \cup ({g} \ {NoFD})
      /\ g # NoFD => g \notin openFDs
  BY <1>1, <1>2 DEF KernelAccept, tableVars, hookVars, LowestFree, FreeFDs
<1>4. a.op = "opAccept" /\ a.fd = g /\ "opAccept" \notin AskOps
  BY <1>2 DEF Op, AskOps
<1>5. AcceptsDone' = AcceptsDone \cup {a} /\ a \notin AcceptsDone /\ IsFiniteSet(AcceptsDone)
  BY <1>3, <1>4 DEF AcceptsDone, Inv, AcceptsCounted
<1>6. ASSUME NEW f \in FDs
      PROVE  Waiting(f)' = Waiting(f) + Expect(f \in openFDs') - Expect(f \in openFDs)
  <2> DEFINE A == {p \in AcceptsDone : p.fd = f}
             B == {p \in AcceptsDone' : p.fd = f}
  <2>1. /\ Waiting(f) = Cardinality(A) + FdsIn(ready, f) + FdsIn(drained, f)
        /\ Cardinality(A) \in Nat /\ FdsIn(ready, f) \in Nat /\ FdsIn(drained, f) \in Nat
    BY HoldersAre
  <2>2. Waiting(f)' = Cardinality(B) + FdsIn(ready, f) + FdsIn(drained, f)
    BY <1>3, HoldersAreNext
  <2>3. IsFiniteSet(A)
    BY <1>5, FS_Subset
  <2>4. f # NoFD
    BY DEF FDs, NoFD
  <2>5. CASE g = f
    <3>1. a \notin A /\ B = A \cup {a}
      BY <1>4, <1>5, <2>5
    <3> HIDE DEF A, B
    <3>2. Cardinality(B) = Cardinality(A) + 1
      BY <2>3, <3>1, FS_AddElement
    <3>3. f \in openFDs' /\ f \notin openFDs
      BY <1>3, <2>4, <2>5
    <3>4. QED
      BY <2>1, <2>2, <3>2, <3>3 DEF Expect
  <2>6. CASE g # f
    <3>1. B = A
      BY <1>4, <1>5, <2>6
    <3> HIDE DEF A, B
    <3>2. f \in openFDs' <=> f \in openFDs
      BY <1>3, <2>6
    <3>3. QED
      BY <2>1, <2>2, <3>1, <3>2 DEF Expect
  <2>7. QED
    BY <2>5, <2>6
<1>7. \A d \in Ids : HookCalls(d)' <= HookCalls(d)
  BY <1>3, SameHooks
<1>8. Still({})
  BY <1>3, <1>4, <1>7 DEF Still
<1>9. QED
  BY <1>3, <1>6, <1>8, StillFds DEF Balanced

(* A hook opens one for its upstream and hands it over with the result. *)
LEMMA HookFds ==
  ASSUME Inv, Inv', Work, Work', Fds, Running, Hook PROVE Fds'
<1>1. UNCHANGED <<conns, conn, sq, kops, batch, drained>>
  BY DEF Hook, HookTake, HookReturn, ringVars, tableVars
<1>2. \A d \in Ids : HookCalls(d)' <= HookCalls(d)
  BY HookCallsKept
<1>3. Still({})
  BY <1>1, <1>2 DEF Still
<1>4. AcceptsDone' = AcceptsDone
  BY <1>1 DEF AcceptsDone
<1>5. Balanced
  <2>1. CASE HookTake
    BY <1>1, <1>4, <2>1, SameBalance DEF HookTake
  <2>2. ASSUME NEW h \in running, NEW dc \in Decisions, NEW g \in 0..MaxFD,
               HookReturn(h, dc, g)
        PROVE  Balanced
    <3>1. PICK x : x = [id |-> h.id, kind |-> dc.kind, reply |-> dc.reply, fd |-> g]
      OBVIOUS
    <3>2. /\ ready \in Seq(Result) /\ ready' = Append(ready, x)
          /\ openFDs' = openFDs \cup ({g} \ {NoFD})
          /\ running \in SUBSET HookCall
      BY <2>2, <3>1 DEF HookReturn, Inv, TypeOK
    <3>3. g # NoFD => g \notin openFDs
      BY <2>2 DEF HookReturn, LowestFree, FreeFDs
    <3>4. x \in Result /\ x.fd = g
      <4>1. h \in HookCall
        BY <3>2
      <4>2. dc \in [kind : Kinds, dials : BOOLEAN, reply : BOOLEAN]
        BY ConstantsAssumption
      <4>3. QED
        BY <3>1, <4>1, <4>2 DEF Result, HookCall
    <3>5. ASSUME NEW f \in FDs
          PROVE  Waiting(f)' = Waiting(f) + Expect(f \in openFDs') - Expect(f \in openFDs)
      <4>1. PICK n : n = Cardinality({p \in AcceptsDone : p.fd = f})
        OBVIOUS
      <4>2. /\ Waiting(f) = n + FdsIn(ready, f) + FdsIn(drained, f)
            /\ n \in Nat /\ FdsIn(ready, f) \in Nat /\ FdsIn(drained, f) \in Nat
        BY <4>1, HoldersAre
      <4>3. Waiting(f)' = n + FdsIn(ready', f) + FdsIn(drained, f)
        BY <1>1, <1>4, <4>1, HoldersAreNext
      <4>4. FdsIn(ready', f) = FdsIn(ready, f) + Expect(g = f)
        BY <3>2, <3>4, FdsChange
      <4>5. f # NoFD
        BY DEF FDs, NoFD
      <4>6. Expect(f \in openFDs') - Expect(f \in openFDs) = Expect(g = f)
        BY <3>2, <3>3, <4>5 DEF Expect
      <4>7. Expect(g = f) \in {0, 1} /\ Expect(f \in openFDs') \in {0, 1}
            /\ Expect(f \in openFDs) \in {0, 1}
        BY DEF Expect
      <4>8. QED
        BY <4>2, <4>3, <4>4, <4>6, <4>7
    <3>6. QED
      BY <3>5 DEF Balanced
  <2>3. QED
    BY <2>1, <2>2 DEF Hook
<1>6. QED
  BY <1>3, <1>5, StillFds

(* The blocked job enters the channel. *)
LEMMA UnblockFds ==
  ASSUME Inv, Inv', Work, Work', Fds, Unblock PROVE Fds'
<1>1. PICK c : c = blockedOn
  OBVIOUS
<1>2. PICK j : j = [id |-> c, fd |-> conn[c].clientFD]
  OBVIOUS
<1>3. /\ phase = "blocked" /\ c \in Ids /\ jobs' = Append(jobs, j) /\ blockedOn' = 0
      /\ UNCHANGED <<conns, conn, sq, kops, batch, drained, running, ready, openFDs>>
      /\ jobs \in Seq(Job)
  BY <1>1, <1>2 DEF Unblock, tableVars, Inv, TypeOK
<1>4. j \in Job /\ j.id = c
  <2>1. conn[c] \in Conn
    BY <1>3 DEF Inv, TypeOK
  <2>2. QED
    BY <1>2, <1>3, <2>1, ConnFields DEF Job
<1>5. ASSUME NEW d \in Ids PROVE HookCalls(d)' <= HookCalls(d)
  <2>1. IdsIn(jobs', d) = IdsIn(jobs, d) + Expect(c = d)
    BY <1>3, <1>4, IdsChange
  <2>2. /\ IdsIn(jobs, d) \in Nat /\ CallsIn(running, d) \in Nat
        /\ IdsIn(ready, d) \in Nat /\ IdsIn(drained, d) \in Nat
    BY HookNat
  <2>3. d # 0
    BY DEF Ids
  <2>4. /\ HookCalls(d) = IdsIn(jobs, d) + CallsIn(running, d) + IdsIn(ready, d)
                             + IdsIn(drained, d) + Expect(c = d)
        /\ HookCalls(d)' = IdsIn(jobs', d) + CallsIn(running, d) + IdsIn(ready, d)
                              + IdsIn(drained, d) + Expect(0 = d)
    BY <1>1, <1>3, HookSum
  <2>5. QED
    BY <2>1, <2>2, <2>3, <2>4 DEF Expect
<1>6. Still({}) /\ Running
  BY <1>3, <1>5 DEF Still, Running
<1>7. Balanced
  <2>1. AcceptsDone' = AcceptsDone
    BY <1>3 DEF AcceptsDone
  <2>2. QED
    BY <1>3, <2>1, SameBalance
<1>8. QED
  BY <1>6, <1>7, StillFds

(* Stop, a harvest and stuttering open and close nothing. *)
LEMMA IdleFds ==
  ASSUME Inv, Inv', Work, Work', Fds, Running,
         UNCHANGED <<conns, conn, sq, drained, blockedOn, jobs, running, ready, openFDs>>,
         kops' \cup batch' = kops \cup batch
  PROVE  Fds'
<1>1. \A d \in Ids : HookCalls(d)' <= HookCalls(d)
  BY SameHooks
<1>2. Still({})
  BY <1>1 DEF Still
<1>3. AcceptsDone' = AcceptsDone
  BY DEF AcceptsDone
<1>4. Balanced
  BY <1>3, SameBalance
<1>5. QED
  BY <1>2, <1>4, StillFds

(* Submit: the prepared closes take effect, each on a descriptor that only *)
(* its own connection holds.                                               *)
LEMMA TurnFds ==
  ASSUME Inv, Inv', Work, Work', Fds, Turn PROVE Fds'
<1>1. /\ phase = "batch" /\ sq' = {} /\ kops' = kops \cup sq
      /\ UNCHANGED <<conns, conn, batch, drained, blockedOn, jobs, running, ready>>
      /\ openFDs' = openFDs \ {o.fd : o \in {p \in sq : p.op = "opClose"}}
  BY DEF Turn, EndOfTurn, BatchHandled, hookVars
<1>2. Owned /\ Closes /\ ClosesOwned /\ OneUpstream
  BY <1>1, FdsThen
<1>3. InRing' = InRing
  BY <1>1 DEF InRing
<1>4. Closes'
  <2>1. \A d : OpsOf(d, {"opClose"})' = OpsOf(d, {"opClose"})
    BY <1>3 DEF OpsOf
  <2>2. QED
    BY <1>1, <1>2, <2>1 DEF Closes
<1>5. ClosesOwned'
  BY <1>1 DEF ClosesOwned
<1>6. OneUpstream'
  <2>1. ASSUME NEW d \in conns PROVE Asks(d)' <=> Asks(d)
    <3>1. HookCalls(d)' = HookCalls(d)
      BY <1>1, SameHooks, ConnsAreIds
    <3>2. QED
      BY <1>3, <3>1 DEF Asks
  <2>2. QED
    BY <1>1, <1>2, <2>1 DEF OneUpstream, Usable
<1>7. AcceptsDone' = AcceptsDone
  BY <1>1 DEF AcceptsDone, Inv, AcceptsCounted
<1>8. ASSUME NEW f \in FDs PROVE Waiting(f)' = Waiting(f) /\ Waiting(f) \in Nat
  <2>1. /\ Waiting(f) = Cardinality({p \in AcceptsDone : p.fd = f})
                          + FdsIn(ready, f) + FdsIn(drained, f)
        /\ Waiting(f) \in Nat
    BY HoldersAre
  <2>2. Waiting(f)' = Cardinality({p \in AcceptsDone' : p.fd = f})
                        + FdsIn(ready', f) + FdsIn(drained', f)
    BY HoldersAreNext
  <2>3. QED
    BY <1>1, <1>7, <2>1, <2>2
<1>9. ASSUME NEW f \in FDs
      PROVE  Cardinality(HeldByConns(f)') + Waiting(f)'
               = Cardinality(HeldByConns(f)) + Waiting(f)
                   + Expect(f \in openFDs') - Expect(f \in openFDs)
  <2>1. Waiting(f)' = Waiting(f) /\ Waiting(f) \in Nat
    BY <1>8
  <2>2. /\ IsFiniteSet(HeldByConns(f)) /\ Cardinality(HeldByConns(f)) \in Nat
        /\ Holders(f) = Cardinality(HeldByConns(f)) + Waiting(f)
    BY HoldersAre
  <2>3. HeldByConns(f)' \subseteq HeldByConns(f)
    BY <1>1 DEF HeldByConns
  <2>4. CASE \A p \in sq : p.op = "opClose" => p.fd # f
    <3>1. \A c : Op(c, "opClose", f) \notin sq
      BY <2>4 DEF Op
    <3>2. HeldByConns(f)' = HeldByConns(f)
      BY <1>1, <3>1 DEF HeldByConns
    <3>3. f \in openFDs' <=> f \in openFDs
      BY <1>1, <2>4
    <3>4. QED
      BY <2>1, <2>2, <3>2, <3>3 DEF Expect
  <2>5. ASSUME NEW p \in sq, p.op = "opClose", p.fd = f
        PROVE  Cardinality(HeldByConns(f)') + Waiting(f)'
                 = Cardinality(HeldByConns(f)) + Waiting(f)
                     + Expect(f \in openFDs') - Expect(f \in openFDs)
    <3>1. PICK c : c = p.id
      OBVIOUS
    <3>2. c \in conns /\ conn[c].closing /\ f \in {conn[c].clientFD, conn[c].upstreamFD}
      BY <1>2, <2>5, <3>1 DEF ClosesOwned
    <3>3. p = Op(c, "opClose", f)
      <4>1. p \in Ops
        BY DEF Inv, TypeOK
      <4>2. QED
        BY <2>5, <3>1, <4>1 DEF Ops, Op
    <3>4. PICK x \in {"clientFD", "upstreamFD"} : conn[c][x] = f
      BY <3>2
    <3>5. PICK h : h = <<c, x>>
      OBVIOUS
    <3>6. h \in HeldByConns(f) /\ h \notin HeldByConns(f)'
      BY <1>1, <3>2, <3>3, <3>4, <3>5 DEF HeldByConns
    <3>7. Cardinality(HeldByConns(f)) # 0
      BY <2>2, <3>6, FS_EmptySet
    <3>8. Holders(f) = Expect(f \in openFDs)
      BY <1>2 DEF Owned
    <3>9. Cardinality(HeldByConns(f)) = 1 /\ f \in openFDs
      BY <2>1, <2>2, <3>7, <3>8 DEF Expect
    <3>10. HeldByConns(f)' = {}
      <4>1. PICK y : HeldByConns(f) = {y}
        BY <2>2, <3>9, FS_Singleton
      <4>2. QED
        BY <2>3, <3>6, <4>1
    <3>11. Cardinality(HeldByConns(f)') = 0
      BY <3>10, FS_EmptySet
    <3>12. f \notin openFDs'
      BY <1>1, <2>5
    <3>13. QED
      BY <2>1, <3>9, <3>11, <3>12 DEF Expect
  <2>6. QED
    BY <2>4, <2>5
<1>10. Owned'
  BY <1>2, <1>9, OwnedMoves DEF Moves
<1>11. QED
  BY <1>4, <1>5, <1>6, <1>10 DEF Fds

-----------------------------------------------------------------------------
(* The invariant, and what follows from it.                                *)

(* Nothing is open at first. *)
LEMMA InitFds == Init => Fds
<1> SUFFICES ASSUME Init PROVE Fds
  OBVIOUS
<1>1. /\ conns = {} /\ sq = {} /\ openFDs = {} /\ ready = <<>> /\ drained = <<>>
      /\ kops = {EventfdOp, TimeoutOp} /\ batch = {}
  BY DEF Init
<1>2. Inv /\ Work
  BY InitInv, InitWork
<1>3. Closes /\ ClosesOwned /\ OneUpstream
  BY <1>1 DEF Closes, ClosesOwned, OneUpstream
<1>4. ASSUME NEW f \in FDs PROVE Holders(f) = Expect(f \in openFDs)
  <2>1. HeldByConns(f) = {}
    BY <1>1 DEF HeldByConns
  <2>2. {o \in AcceptsDone : o.fd = f} = {}
    BY <1>1 DEF AcceptsDone, EventfdOp, TimeoutOp, Op
  <2>3. FdsIn(<<>>, f) = 0
    BY <1>2, FdsChange DEF Inv, TypeOK
  <2>4. /\ Holders(f) = Cardinality(HeldByConns(f)) + Waiting(f)
        /\ Waiting(f) = Cardinality({o \in AcceptsDone : o.fd = f})
                          + FdsIn(ready, f) + FdsIn(drained, f)
    BY <1>2, HoldersAre
  <2>5. Cardinality({}) = 0
    BY FS_EmptySet
  <2>6. FdsIn(ready, f) = 0 /\ FdsIn(drained, f) = 0
    BY <1>1, <2>3
  <2>7. Cardinality(HeldByConns(f)) = 0
        /\ Cardinality({o \in AcceptsDone : o.fd = f}) = 0
    BY <2>1, <2>2, <2>5
  <2>8. Holders(f) = 0 /\ f \notin openFDs
    BY <1>1, <2>4, <2>6, <2>7
  <2>9. QED
    BY <2>8 DEF Expect
<1>5. QED
  BY <1>3, <1>4 DEF Fds, Owned

(* Every step keeps it. *)
LEMMA NextFds == Inv /\ Work /\ Fds /\ [Next]_vars => Fds'
<1> SUFFICES ASSUME Inv, Work, Fds, [Next]_vars PROVE Fds'
  OBVIOUS
<1>1. Inv' /\ Work'
  BY NextInv, NextWork
<1>2. CASE Kernel
  BY <1>1, <1>2, KernelFds
<1>3. CASE Hook
  <2>1. CASE Running
    BY <1>1, <1>3, <2>1, HookFds
  <2>2. CASE ~Running
    BY <1>3, <2>2 DEF Hook, HookTake, HookReturn, ringVars, Running, Fds
  <2>3. QED
    BY <2>1, <2>2
<1>4. CASE Stop \/ UNCHANGED vars
  <2>1. UNCHANGED <<phase, conns, conn, sq, drained, blockedOn, jobs, running, ready,
                    openFDs, kops, batch>>
    BY <1>4 DEF Stop, vars, tableVars, hookVars
  <2>2. CASE Running
    BY <1>1, <2>1, <2>2, IdleFds
  <2>3. CASE ~Running
    BY <2>1, <2>3 DEF Running, Fds
  <2>4. QED
    BY <2>2, <2>3
<1>5. CASE Waking
  <2>1. PICK B : Wake(B)
    BY <1>5 DEF Waking
  <2>2. /\ UNCHANGED <<conns, conn, sq, drained, blockedOn, jobs, running, ready, openFDs>>
        /\ phase = "wait" /\ B \subseteq kops /\ batch' = B /\ kops' = kops \ B
    BY <2>1 DEF Wake, Completable, tableVars, hookVars
  <2>3. batch = {} /\ Running
    BY <2>2 DEF Work, WaitsIdle, Running
  <2>4. kops' \cup batch' = kops \cup batch
    BY <2>2, <2>3
  <2>5. QED
    BY <1>1, <2>2, <2>3, <2>4, IdleFds
<1>6. ASSUME NEW o \in batch, Handle(o) PROVE Fds'
  BY <1>1, <1>6, AcceptFds, CloseOpFds, TimeoutFds, EventfdFds, StaleFds,
     HandshakeFds, RelayFds
  DEF Handle
<1>7. CASE ApplyResult \/ Unblock \/ Turn
  BY <1>1, <1>7, ApplyFds, UnblockFds, TurnFds
<1>8. CASE SubmitFails \/ Exit
  BY <1>8 DEF SubmitFails, Exit, Fds, Running
<1>9. QED
  BY <1>2, <1>3, <1>4, <1>5, <1>6, <1>7, <1>8 DEF Next, RingThread, Terminated

(* The descriptors, in every behaviour of the worker. *)
THEOREM FdsHold == SafeSpec => [](Inv /\ Work /\ Fds)
<1>1. Init => Inv /\ Work /\ Fds
  BY InitInv, InitWork, InitFds
<1>2. Inv /\ Work /\ Fds /\ [Next]_vars => (Inv /\ Work /\ Fds)'
  BY NextInv, NextWork, NextFds
<1>3. QED
  BY <1>1, <1>2, PTL DEF SafeSpec

(* No leak and no double close: while the worker runs, every open          *)
(* descriptor has exactly one party that will close it (a connection with  *)
(* its close to come, a completed accept, a result on its way), and none   *)
(* holds a descriptor that is not open.                                    *)
THEOREM WorkerDescriptors == SafeSpec => []DescriptorsOwned
<1>1. Fds => DescriptorsOwned
  BY DEF Fds, Owned, DescriptorsOwned, Expect
<1>2. QED
  BY <1>1, FdsHold, PTL

(* closesLeft is the number of closes in the ring, and there is one as     *)
(* long as the connection is in the table.                                 *)
LEMMA ClosesExact ==
  ASSUME Inv, Work, Fds PROVE ClosesAccounted
<1>1. SUFFICES ASSUME Running, NEW c \in conns
      PROVE  IF conn[c].closing
               THEN conn[c].closesLeft = ClosesPending(c) /\ ClosesPending(c) > 0
               ELSE ClosesPending(c) = 0
  BY DEF ClosesAccounted
<1>2. ClosesPending(c) = OpsOf(c, {"opClose"})
  <2>1. {o \in InRing : o.op = "opClose" /\ o.id = c}
          = {o \in InRing : o.id = c /\ o.op \in {"opClose"}}
    OBVIOUS
  <2>2. QED
    BY <2>1 DEF ClosesPending, OpsOf
<1>3. CASE conn[c].closing
  BY <1>1, <1>2, <1>3 DEF Fds, Closes
<1>4. CASE ~conn[c].closing
  BY <1>2, <1>4 DEF Work, Entries, Entry, Open
<1>5. QED
  BY <1>3, <1>4

(* Teardown is accounted for, whichever handler, late result or sweep      *)
(* starts it: live counts the connections that are not closing, and a      *)
(* closing one leaves the table with the last of the closes it submitted.  *)
THEOREM WorkerTeardown == SafeSpec => []TeardownAccounted
<1>1. Inv /\ Work /\ Fds => TeardownAccounted
  BY ClosesExact DEF TeardownAccounted, Work
<1>2. QED
  BY <1>1, FdsHold, PTL

=============================================================================
