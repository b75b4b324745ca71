------------------------------- MODULE Stream --------------------------------
(***************************************************************************)
(* The bytes of one connection: what src/flashrelay/worker.go does with    *)
(* the request buffer, the replies and the two relay buffers between       *)
(* opAccept and the end of the connection.  Worker.tla is about which      *)
(* operations are in flight; this module is about what they carry.         *)
(*                                                                         *)
(* A byte is its position in its stream: the client's and the upstream's   *)
(* bytes are 1, 2, 3, ...; the bytes of the hook's replies are -1, -2, ... *)
(* in the order in which the hook returned them.  The kernel moves any     *)
(* positive number of bytes that fits, or fails, or reports the end of the *)
(* stream.  Idle sweeps look like failures here.                           *)
(*                                                                         *)
(* Seeded faults are wrong variants of the definition after them, used by  *)
(* nothing but the check that the properties notice them.                  *)
(***************************************************************************)
EXTENDS Integers, Sequences

CONSTANTS
  InitialReqLen,     \* Config.InitialReqLen
  MaxReqLen,         \* Config.MaxReqLen
  BufSize,           \* Config.BufSize
  ReplyMax,          \* bound: bytes of one reply
  RepliesMax,        \* bound: bytes of all replies
  StreamMax          \* bound: bytes each peer sends

ASSUME StreamAssumption ==
  /\ InitialReqLen \in Nat \ {0}
  /\ MaxReqLen \in Nat /\ MaxReqLen >= InitialReqLen
  /\ BufSize \in Nat \ {0}
  /\ ReplyMax \in Nat /\ RepliesMax \in Nat /\ StreamMax \in Nat

Dirs == {"c2u", "u2c"}

VARIABLES
  st,          \* the connection's operation before the relay phase, "hook"
               \* while the hook has it, "relay", or "closed"
  req,         \* reqBuf
  reqN,        \* bytes of reqBuf that are filled
  initSent,    \* bytes of the request consumed or sent upstream
  reply,       \* replyBuf[replyOff:replyEnd]
  buf,         \* c2uBuf[c2uOff:c2uEnd] and u2cBuf[u2cOff:u2cEnd]
  op,          \* the operation each direction has in flight
  readDone,    \* clientReadDone and upstreamReadDone
  got,         \* bytes received from the client and from the upstream
  out,         \* bytes the upstream and the client have received
  shut,        \* SHUT_WR issued to the upstream and to the client
  counted,     \* counters.bytesC2U and bytesU2C
  consumed,    \* history: the part of the request that is not forwarded
  replied      \* history: bytes of replies the hook returned

reqVars == <<req, reqN, initSent, consumed>>
relayVars == <<buf, op, readDone, shut>>
vars == <<st, reqVars, reply, relayVars, got, out, counted, replied>>

Both(v) == [d \in Dirs |-> v]

Init ==
  /\ st = "recvReq"
  /\ req = [n \in 1..InitialReqLen |-> 0]
  /\ reqN = 0 /\ initSent = 0 /\ consumed = 0
  /\ reply = <<>> /\ replied = 0
  /\ buf = Both(<<>>)
  /\ op = Both("none")
  /\ readDone = Both(FALSE)
  /\ got = Both(0)
  /\ out = Both(<<>>)
  /\ shut = Both(FALSE)
  /\ counted = Both(0)

-----------------------------------------------------------------------------
(* Before the relay phase.                                                 *)

(* opRecvReq: the read into reqBuf[reqN:] brought k bytes. *)
RecvReq(k) ==
  /\ st = "recvReq"
  /\ k \in 1..(Len(req) - reqN) /\ got["c2u"] + k <= StreamMax
  /\ req' = [n \in 1..Len(req) |->
       IF n \in (reqN + 1)..(reqN + k) THEN got["c2u"] + n - reqN ELSE req[n]]
  /\ reqN' = reqN + k
  /\ got' = [got EXCEPT !["c2u"] = @ + k]
  /\ st' = "hook"
  /\ UNCHANGED <<initSent, consumed, reply, relayVars, out, counted, replied>>

(* The next m reply bytes. *)
NextReply(m) == [n \in 1..m |-> -(replied + n)]

(* The hook's decision comes with a reply of m bytes. *)
HookReplies(m) ==
  /\ st = "hook"
  /\ replied + m <= RepliesMax
  /\ reply' = NextReply(m)
  /\ replied' = replied + m

HookReject(m) ==
  /\ HookReplies(m)
  /\ st' = IF m > 0 THEN "rejectSend" ELSE "closed"
  /\ UNCHANGED <<reqVars, relayVars, got, out, counted>>

(* Seeded faults: growing forgets the bytes the hook has seen, or ignores  *)
(* MaxReqLen.                                                              *)
growReqBlank == [n \in 1..(2 * Len(req)) |-> 0]
growReqUnbounded ==
  [n \in 1..(2 * Len(req)) |-> IF n <= reqN THEN req[n] ELSE 0]

(* growReq: the buffer doubles up to MaxReqLen and keeps its bytes. *)
growReq ==
  [n \in 1..(IF 2 * Len(req) > MaxReqLen THEN MaxReqLen ELSE 2 * Len(req)) |->
     IF n <= reqN THEN req[n] ELSE 0]

(* A full buffer at MaxReqLen ends the connection, the hook's reply unsent. *)
ReqFull == reqN >= Len(req) /\ Len(req) >= MaxReqLen

HookMore(m) ==
  /\ HookReplies(m)
  /\ ~ReqFull
  /\ req' = IF reqN < Len(req) THEN req ELSE growReq
  /\ st' = IF m > 0 THEN "replyMore" ELSE "recvReq"
  /\ UNCHANGED <<reqN, initSent, consumed, relayVars, got, out, counted>>

HookTooMuch ==
  /\ st = "hook"
  /\ ReqFull
  /\ st' = "closed"
  /\ UNCHANGED <<reqVars, reply, relayVars, got, out, counted, replied>>

(* startDuplex: both directions start with a read. *)
startDuplex ==
  /\ st' = "relay"
  /\ op' = Both("recv")
  /\ UNCHANGED <<buf, readDone, shut>>

forwardInit(sent) ==
  IF sent >= reqN THEN startDuplex
                  ELSE st' = "sendUp" /\ UNCHANGED relayVars

(* Seeded fault: Consumed is taken as it is. *)
ClampNot(n) == n

(* Consumed is clamped to the request. *)
Clamp(n) == IF n < 0 THEN 0 ELSE IF n > reqN THEN reqN ELSE n

HookRelay(n, m) ==
  /\ HookReplies(m)
  /\ initSent' = Clamp(n)
  /\ consumed' = Clamp(n)
  /\ IF m > 0 THEN st' = "replyClient" /\ UNCHANGED relayVars
              ELSE forwardInit(Clamp(n))
  /\ UNCHANGED <<req, reqN, got, out, counted>>

(* A reply operation sent k bytes: opReplyMore, opReplyClient and          *)
(* opRejectSend send the rest, or go on.                                   *)
Replying == {"replyMore", "replyClient", "rejectSend"}

ReplySent(k) ==
  /\ st \in Replying
  /\ k \in 1..Len(reply)
  /\ out' = [out EXCEPT !["u2c"] = @ \o SubSeq(reply, 1, k)]
  /\ reply' = SubSeq(reply, k + 1, Len(reply))
  /\ IF reply' # <<>> THEN UNCHANGED <<st, relayVars>>
     ELSE \/ st = "replyMore" /\ st' = "recvReq" /\ UNCHANGED relayVars
          \/ st = "replyClient" /\ forwardInit(initSent)
          \/ st = "rejectSend" /\ st' = "closed" /\ UNCHANGED relayVars
  /\ UNCHANGED <<reqVars, got, counted, replied>>

(* Seeded fault: forwarded request bytes are not counted. *)
SendUpUncounted(k) ==
  /\ st = "sendUp"
  /\ k \in 1..(reqN - initSent)
  /\ out' = [out EXCEPT !["c2u"] = @ \o [n \in 1..k |-> req[initSent + n]]]
  /\ initSent' = initSent + k
  /\ IF initSent' < reqN THEN UNCHANGED <<st, relayVars>> ELSE startDuplex
  /\ UNCHANGED <<req, reqN, consumed, reply, got, replied, counted>>

(* opSendUp: k bytes of the rest of the request were forwarded. *)
SendUp(k) ==
  /\ st = "sendUp"
  /\ k \in 1..(reqN - initSent)
  /\ out' = [out EXCEPT !["c2u"] = @ \o [n \in 1..k |-> req[initSent + n]]]
  /\ initSent' = initSent + k
  /\ counted' = [counted EXCEPT !["c2u"] = @ + k]
  /\ IF initSent' < reqN THEN UNCHANGED <<st, relayVars>> ELSE startDuplex
  /\ UNCHANGED <<req, reqN, consumed, reply, got, replied>>

-----------------------------------------------------------------------------
(* The relay phase, for either direction d.                                *)

Other(d) == IF d = "c2u" THEN "u2c" ELSE "c2u"

Recv(d, k) ==
  /\ st = "relay" /\ op[d] = "recv"
  /\ k \in 1..BufSize /\ got[d] + k <= StreamMax
  /\ buf' = [buf EXCEPT ![d] = [n \in 1..k |-> got[d] + n]]
  /\ got' = [got EXCEPT ![d] = @ + k]
  /\ counted' = [counted EXCEPT ![d] = @ + k]
  /\ op' = [op EXCEPT ![d] = "send"]
  /\ UNCHANGED <<st, reqVars, reply, readDone, out, shut, replied>>

(* Seeded faults: the rest of a short send is dropped, or never sent.      *)
SendDropsRest(d, k) ==
  /\ st = "relay" /\ op[d] = "send"
  /\ k \in 1..Len(buf[d])
  /\ out' = [out EXCEPT ![d] = @ \o SubSeq(buf[d], 1, k)]
  /\ buf' = [buf EXCEPT ![d] = <<>>]
  /\ op' = [op EXCEPT ![d] = "recv"]
  /\ UNCHANGED <<st, reqVars, reply, readDone, got, shut, counted, replied>>

SendStalls(d, k) ==
  /\ st = "relay" /\ op[d] = "send"
  /\ k \in 1..Len(buf[d])
  /\ out' = [out EXCEPT ![d] = @ \o SubSeq(buf[d], 1, k)]
  /\ buf' = [buf EXCEPT ![d] = SubSeq(@, k + 1, Len(@))]
  /\ op' = [op EXCEPT ![d] = IF k < Len(buf[d]) THEN "none" ELSE "recv"]
  /\ UNCHANGED <<st, reqVars, reply, readDone, got, shut, counted, replied>>

(* A send moved k bytes; the rest is sent again before the next read. *)
Send(d, k) ==
  /\ st = "relay" /\ op[d] = "send"
  /\ k \in 1..Len(buf[d])
  /\ out' = [out EXCEPT ![d] = @ \o SubSeq(buf[d], 1, k)]
  /\ buf' = [buf EXCEPT ![d] = SubSeq(@, k + 1, Len(@))]
  /\ op' = [op EXCEPT ![d] = IF k < Len(buf[d]) THEN "send"
                             ELSE IF readDone[d] THEN "none" ELSE "recv"]
  /\ UNCHANGED <<st, reqVars, reply, readDone, got, shut, counted, replied>>

(* End of stream: the other side's write half is shut down, and the        *)
(* connection closes when both directions have ended.                      *)
End(d) ==
  /\ st = "relay" /\ op[d] = "recv"
  /\ shut' = [shut EXCEPT ![d] = TRUE]
  /\ readDone' = [readDone EXCEPT ![d] = TRUE]
  /\ op' = [op EXCEPT ![d] = "none"]
  /\ st' = IF readDone[Other(d)] THEN "closed" ELSE "relay"
  /\ UNCHANGED <<reqVars, reply, buf, got, out, counted, replied>>

(* Any operation may fail, and an idle connection may be swept. *)
Failed ==
  /\ st # "closed"
  /\ st' = "closed"
  /\ UNCHANGED <<reqVars, reply, relayVars, got, out, counted, replied>>

-----------------------------------------------------------------------------
HookDecides ==
  \E m \in 0..ReplyMax :
    HookReject(m) \/ HookMore(m) \/ \E n \in -1..(MaxReqLen + 1) : HookRelay(n, m)

Sends(d) == \E k \in 1..BufSize : Send(d, k)

Relaying == \E d \in Dirs : Sends(d) \/ End(d) \/ \E k \in 1..BufSize : Recv(d, k)

Next ==
  \/ \E k \in 1..MaxReqLen : RecvReq(k) \/ SendUp(k)
  \/ HookDecides \/ HookTooMuch
  \/ \E k \in 1..ReplyMax : ReplySent(k)
  \/ Relaying
  \/ Failed

SafeSpec == Init /\ [][Next]_vars

(* A peer that reads lets a send go on. *)
Spec == SafeSpec /\ \A d \in Dirs : WF_vars(Sends(d))

-----------------------------------------------------------------------------
(* Types of the connection's state; a part of BuffersFit. *)
TypeOK ==
  /\ st \in {"recvReq", "hook", "sendUp", "relay", "closed"} \cup Replying
  /\ req \in Seq(Nat) /\ reqN \in 0..Len(req) /\ initSent \in 0..reqN
  /\ reply \in Seq(Int) /\ replied \in Nat
  /\ buf \in [Dirs -> Seq(Nat)]
  /\ op \in [Dirs -> {"none", "recv", "send"}]
  /\ readDone \in [Dirs -> BOOLEAN] /\ shut \in [Dirs -> BOOLEAN]
  /\ got \in [Dirs -> Nat] /\ counted \in [Dirs -> Nat]
  /\ out \in [Dirs -> Seq(Int)]
  /\ consumed \in Nat

(* The request buffer is bounded by MaxReqLen, and no operation is ever    *)
(* prepared with an empty buffer (the Prep helpers take the address of the *)
(* buffer's first byte): whatever the hook asks for, a read of the request *)
(* has room, a send has something to send.                                 *)
BuffersFit ==
  /\ TypeOK
  /\ Len(req) <= MaxReqLen
  /\ st \in {"recvReq", "replyMore"} => reqN < Len(req)
  /\ st = "sendUp" => initSent < reqN
  /\ st \in Replying => reply # <<>>
  /\ \A d \in Dirs : st = "relay" /\ op[d] = "send" => buf[d] # <<>>

(* The hook always sees the whole request received so far, in order, over  *)
(* any number of More rounds and growths of the buffer.                    *)
HookSeesRequest == st = "hook" => \A n \in 1..reqN : req[n] = n

(* The upstream receives the client's bytes after the consumed part, each  *)
(* once and in order, with no gap between the request and the relay phase. *)
UpstreamGets ==
  /\ consumed + Len(out["c2u"]) <= got["c2u"]
  /\ \A n \in DOMAIN out["c2u"] : out["c2u"][n] = consumed + n

(* The client receives the replies in order, then the upstream's bytes,    *)
(* each once and in order.                                                 *)
ClientGets ==
  \A n \in DOMAIN out["u2c"] :
    out["u2c"][n] = IF n <= replied THEN -n ELSE n - replied

(* A peer is told of the end of the stream only after it has received all  *)
(* that was read from the other side.                                      *)
EndComesLast ==
  /\ shut["c2u"] => consumed + Len(out["c2u"]) = got["c2u"]
  /\ shut["u2c"] => Len(out["u2c"]) = replied + got["u2c"]

(* Stats.BytesC2U and BytesU2C count the bytes relayed: those delivered    *)
(* plus those still in the relay buffer.                                   *)
BytesCounted ==
  /\ counted["c2u"] = Len(out["c2u"]) + Len(buf["c2u"])
  /\ counted["u2c"] + replied - Len(reply) = Len(out["u2c"]) + Len(buf["u2c"])

(* Nothing is lost, repeated, reordered or cut off on the way to the hook  *)
(* and to either peer, and all of it is counted, through short sends, More *)
(* rounds, the hand-over from the request to the relay and half-closes in  *)
(* either order.                                                           *)
StreamsIntact ==
  HookSeesRequest /\ UpstreamGets /\ ClientGets /\ EndComesLast /\ BytesCounted

(* Bytes that were read in the relay phase arrive, unless the connection   *)
(* fails.                                                                  *)
RelayedBytesArrive ==
  \A d \in Dirs : (st = "relay" /\ buf[d] # <<>>) ~> (buf[d] = <<>> \/ st = "closed")
=============================================================================
