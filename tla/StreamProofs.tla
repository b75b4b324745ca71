---------------------------- MODULE StreamProofs -----------------------------
(***************************************************************************)
(* The bytes of a connection of Stream.tla stay intact, for every size of  *)
(* the buffers, of the replies and of the streams.                         *)
(*                                                                         *)
(* The argument is one position per direction.  Base(d) is the position    *)
(* before the first byte that direction d delivers: the consumed part of   *)
(* the request, or, below zero, the replies that come first.  What has     *)
(* been delivered and what is in the relay buffer lie behind it without a  *)
(* gap, and in the relay phase they reach to the last byte received.       *)
(***************************************************************************)
EXTENDS Stream, SequenceTheorems, TLAPS

Early == {"recvReq", "hook", "sendUp"} \cup Replying

Base(d) == IF d = "c2u" THEN consumed ELSE -replied

(* The byte at place n of what direction d has delivered. *)
ByteAt(d, n) == IF Base(d) + n > 0 THEN Base(d) + n ELSE -n

(* The request: its bytes are the client's first ones, and its buffer has  *)
(* room whenever a read of it is due.                                      *)
Request ==
  /\ Len(req) \in 1..MaxReqLen
  /\ consumed <= initSent
  /\ \A n \in 1..reqN : req[n] = n
  /\ st \in {"recvReq", "replyMore"} => reqN < Len(req)
  /\ st = "sendUp" => initSent < reqN

(* The reply that is being sent is the last part of the replies. *)
Replies ==
  /\ Len(reply) <= replied
  /\ \A n \in 1..Len(reply) : reply[n] = -(replied - Len(reply) + n)
  /\ st \in Replying => Len(reply) > 0
  /\ st \in {"recvReq", "hook", "sendUp", "relay"} => Len(reply) = 0

(* Before the relay phase: the relay buffers are untouched, what came from *)
(* the client is in the request, and each peer has received what was sent. *)
Before ==
  st \in Early =>
    /\ got["c2u"] = reqN /\ got["u2c"] = 0
    /\ \A d \in Dirs : Len(buf[d]) = 0 /\ op[d] = "none" /\ ~shut[d]
    /\ consumed + Len(out["c2u"]) = initSent
    /\ Len(out["u2c"]) = replied - Len(reply)
    /\ st \notin {"replyClient", "sendUp"} => initSent = 0

(* What direction d has delivered and still holds, by position. *)
Placed(d) ==
  /\ \A n \in 1..Len(out[d]) : out[d][n] = ByteAt(d, n)
  /\ \A n \in 1..Len(buf[d]) : buf[d][n] = Base(d) + Len(out[d]) + n

(* The relay phase of direction d: all that was received is delivered or   *)
(* in the buffer, and the buffer is empty exactly when no send is due.     *)
Relays(d) ==
  /\ st = "relay" => /\ Base(d) + Len(out[d]) >= 0
                     /\ Base(d) + Len(out[d]) + Len(buf[d]) = got[d]
  /\ op[d] = "send" <=> Len(buf[d]) > 0
  /\ shut[d] => op[d] = "none" /\ Base(d) + Len(out[d]) = got[d]

(* The counters, and that no more is delivered than was received. *)
Counts ==
  /\ consumed + Len(out["c2u"]) <= got["c2u"]
  /\ counted["c2u"] = Len(out["c2u"]) + Len(buf["c2u"])
  /\ counted["u2c"] + replied - Len(reply) = Len(out["u2c"]) + Len(buf["u2c"])

Inv ==
  /\ TypeOK
  /\ Request /\ Replies /\ Before /\ Counts
  /\ \A d \in Dirs : Placed(d) /\ Relays(d)

-----------------------------------------------------------------------------

(* What is delivered grows by what was received, or the rest shrinks. *)
LEMMA SumGrows ==
  ASSUME NEW a \in Nat, NEW b \in Nat, NEW k \in Nat, NEW c, c = a + b
  PROVE  c + k = (a + k) + b
OBVIOUS

(* The same with what is still to be sent, n, taken off a total p. *)
LEMMA RestShrinks ==
  ASSUME NEW p \in Nat, NEW n \in Nat, NEW k \in Nat, NEW a \in Nat,
         NEW b \in Nat, NEW c \in Nat, c + (p - n) = a + b
  PROVE  c + (p - (n - k)) = (a + k) + b
OBVIOUS

(* A function on 1..m is a sequence of length m. *)
LEMMA SeqOf ==
  ASSUME NEW S, NEW m \in Nat, NEW f \in [1..m -> S]
  PROVE  f \in Seq(S) /\ Len(f) = m
<1>1. f \in Seq(S)
  BY SeqDef
<1>2. DOMAIN f = 1..m /\ DOMAIN f = 1..Len(f) /\ Len(f) \in Nat
  BY <1>1, LenProperties
<1>3. QED
  BY <1>1, <1>2

(* A short send cuts a buffer into what was sent and the rest. *)
LEMMA CutSeq ==
  ASSUME NEW S, NEW s \in Seq(S), NEW k \in 1..Len(s)
  PROVE  /\ SubSeq(s, 1, k) \in Seq(S) /\ Len(SubSeq(s, 1, k)) = k
         /\ \A i \in 1..k : SubSeq(s, 1, k)[i] = s[i]
         /\ SubSeq(s, k + 1, Len(s)) \in Seq(S)
         /\ Len(SubSeq(s, k + 1, Len(s))) = Len(s) - k
         /\ \A i \in 1..(Len(s) - k) : SubSeq(s, k + 1, Len(s))[i] = s[k + i]
<1>1. Len(s) \in Nat /\ k \in Int /\ \A i \in 1..Len(s) : s[i] \in S
  BY LenProperties, ElementOfSeq
<1>2. /\ SubSeq(s, 1, k) \in Seq(S)
      /\ Len(SubSeq(s, 1, k)) = IF 1 <= k THEN k - 1 + 1 ELSE 0
      /\ \A i \in 1..(k - 1 + 1) : SubSeq(s, 1, k)[i] = s[1 + i - 1]
  <2>1. \A i \in 1..k : s[i] \in S
    BY <1>1
  <2>2. QED
    BY <1>1, <2>1, SubSeqProperties
<1>3. PICK n \in Nat : n = Len(s)
  BY <1>1
<1>4. PICK j \in Int : j = k + 1
  BY <1>1
<1>5. /\ SubSeq(s, j, n) \in Seq(S)
      /\ Len(SubSeq(s, j, n)) = IF j <= n THEN n - j + 1 ELSE 0
      /\ \A i \in 1..(n - j + 1) : SubSeq(s, j, n)[i] = s[j + i - 1]
  <2>1. \A i \in j..n : s[i] \in S
    BY <1>1, <1>3, <1>4
  <2>2. QED
    BY <1>3, <1>4, <2>1, SubSeqProperties
<1>6. /\ Len(SubSeq(s, 1, k)) = k
      /\ \A i \in 1..k : SubSeq(s, 1, k)[i] = s[i]
  BY <1>1, <1>2
<1>7. /\ Len(SubSeq(s, j, n)) = n - k
      /\ \A i \in 1..(n - k) : SubSeq(s, j, n)[i] = s[k + i]
  <2>1. n - j + 1 = n - k /\ \A i \in Int : j + i - 1 = k + i
    BY <1>1, <1>3, <1>4
  <2>2. k <= n /\ (j <= n <=> k < n)
    BY <1>1, <1>3, <1>4
  <2>3. Len(SubSeq(s, j, n)) = n - k
    BY <1>1, <1>3, <1>5, <2>1, <2>2
  <2>4. ASSUME NEW i \in 1..(n - k) PROVE SubSeq(s, j, n)[i] = s[k + i]
    <3>1. i \in 1..(n - j + 1) /\ j + i - 1 = k + i
      BY <2>1
    <3>2. SubSeq(s, j, n)[i] = s[j + i - 1]
      BY <1>5, <3>1
    <3>3. QED
      BY <3>1, <3>2
  <2>5. QED
    BY <2>3, <2>4
<1>8. QED
  BY <1>2, <1>3, <1>4, <1>5, <1>6, <1>7

(* Facts about lengths that every step needs. *)
LEMMA Lengths ==
  ASSUME TypeOK
  PROVE  /\ Len(req) \in Nat /\ reqN \in Nat /\ initSent \in Nat
         /\ reqN <= Len(req) /\ initSent <= reqN
         /\ Len(reply) \in Nat /\ replied \in Nat /\ consumed \in Nat
         /\ \A d \in Dirs : /\ Len(buf[d]) \in Nat /\ Len(out[d]) \in Nat
                            /\ got[d] \in Nat /\ counted[d] \in Nat
                            /\ buf[d] \in Seq(Nat) /\ out[d] \in Seq(Int)
                            /\ Base(d) \in Int
         /\ "c2u" \in Dirs /\ "u2c" \in Dirs
<1>1. Len(req) \in Nat /\ Len(reply) \in Nat
  BY LenProperties DEF TypeOK
<1>2. ASSUME NEW d \in Dirs
      PROVE  /\ Len(buf[d]) \in Nat /\ Len(out[d]) \in Nat
             /\ got[d] \in Nat /\ counted[d] \in Nat
             /\ buf[d] \in Seq(Nat) /\ out[d] \in Seq(Int)
  <2>1. /\ buf[d] \in Seq(Nat) /\ out[d] \in Seq(Int)
        /\ got[d] \in Nat /\ counted[d] \in Nat
    BY DEF TypeOK
  <2>2. QED
    BY <2>1, LenProperties
<1>3. reqN \in Nat /\ initSent \in Nat /\ reqN <= Len(req) /\ initSent <= reqN
      /\ replied \in Nat /\ consumed \in Nat
  BY <1>1 DEF TypeOK
<1>4. QED
  BY <1>1, <1>2, <1>3 DEF Dirs, Base

(* The initial state: nothing is received, nothing is sent. *)
LEMMA InitInv == Init => Inv
<1> SUFFICES ASSUME Init PROVE Inv
  OBVIOUS
<1>1. req \in [1..InitialReqLen -> Nat] /\ InitialReqLen \in Nat
  BY StreamAssumption DEF Init
<1>2. req \in Seq(Nat) /\ Len(req) = InitialReqLen
  BY <1>1, SeqOf
<1>3. /\ <<>> \in Seq(Nat) /\ <<>> \in Seq(Int) /\ Len(<<>>) = 0
  BY EmptySeq
<1>4. \A d \in Dirs : /\ buf[d] = <<>> /\ out[d] = <<>> /\ op[d] = "none"
                      /\ got[d] = 0 /\ counted[d] = 0 /\ shut[d] = FALSE
  BY DEF Init, Both
<1>5. "c2u" \in Dirs /\ "u2c" \in Dirs
  BY DEF Dirs
<1>6. /\ st = "recvReq" /\ reqN = 0 /\ initSent = 0 /\ consumed = 0
      /\ reply = <<>> /\ replied = 0
  BY DEF Init
<1>7. TypeOK
  <2>1. reqN \in 0..Len(req) /\ initSent \in 0..reqN
    BY <1>1, <1>2, <1>6
  <2>2. readDone \in [Dirs -> BOOLEAN] /\ shut \in [Dirs -> BOOLEAN]
    BY DEF Init, Both
  <2>3. /\ buf \in [Dirs -> Seq(Nat)] /\ out \in [Dirs -> Seq(Int)]
        /\ op \in [Dirs -> {"none", "recv", "send"}]
        /\ got \in [Dirs -> Nat] /\ counted \in [Dirs -> Nat]
    BY <1>3 DEF Init, Both
  <2>4. QED
    BY <1>2, <1>3, <1>6, <2>1, <2>2, <2>3 DEF TypeOK
<1>8. Request /\ Replies /\ Before /\ Counts
  <2>1. Len(reply) = 0 /\ \A d \in Dirs : Len(buf[d]) = 0 /\ Len(out[d]) = 0
    BY <1>3, <1>4, <1>6
  <2>2. Request
    BY <1>1, <1>2, <1>6, StreamAssumption DEF Request
  <2>3. Replies
    BY <1>6, <2>1 DEF Replies, Replying
  <2>4. Before
    BY <1>4, <1>5, <1>6, <2>1 DEF Before
  <2>5. Counts
    <3>1. /\ Len(out["c2u"]) = 0 /\ Len(buf["c2u"]) = 0 /\ counted["c2u"] = 0
          /\ Len(out["u2c"]) = 0 /\ Len(buf["u2c"]) = 0 /\ counted["u2c"] = 0
          /\ got["c2u"] = 0
      BY <1>4, <1>5, <2>1
    <3>2. consumed = 0 /\ replied = 0 /\ Len(reply) = 0
      BY <1>6, <2>1
    <3>3. QED
      BY ONLY <3>1, <3>2 DEF Counts
  <2>6. QED
    BY <2>2, <2>3, <2>4, <2>5
<1>9. ASSUME NEW d \in Dirs PROVE Placed(d) /\ Relays(d)
  <2>1. Len(buf[d]) = 0 /\ Len(out[d]) = 0 /\ op[d] = "none" /\ ~shut[d]
    BY <1>3, <1>4
  <2>2. QED
    BY <1>6, <2>1 DEF Placed, Relays
<1>10. QED
  BY <1>7, <1>8, <1>9 DEF Inv

-----------------------------------------------------------------------------
(* What the parts say of a direction is kept by the steps before the relay *)
(* phase that deliver nothing: new replies come behind those delivered,    *)
(* and a part is consumed before any of the request is forwarded.          *)
LEMMA EarlyPlaced ==
  ASSUME Inv, st \in Early, UNCHANGED <<out, buf>>,
         consumed' \in Nat, replied' \in Nat,
         consumed' = consumed \/ Len(out["c2u"]) = 0,
         replied <= replied'
  PROVE  \A d \in Dirs : Placed(d)'
<1> SUFFICES ASSUME NEW d \in Dirs PROVE Placed(d)'
  OBVIOUS
<1>1. /\ Len(buf[d]) = 0
      /\ Len(out["u2c"]) = replied - Len(reply)
  BY DEF Inv, Before
<1>2. TypeOK
  BY DEF Inv
<1>3. /\ Len(out[d]) \in Nat /\ replied \in Nat /\ consumed \in Nat
      /\ Len(reply) \in Nat
  BY <1>2, Lengths
<1>4. ASSUME NEW n \in 1..Len(out[d]) PROVE out[d][n] = ByteAt(d, n)'
  <2>1. out[d][n] = ByteAt(d, n)
    BY DEF Inv, Placed
  <2>2. CASE d = "c2u"
    <3>1. consumed' = consumed
      BY <1>3, <2>2
    <3>2. QED
      BY <2>1, <2>2, <3>1 DEF ByteAt, Base
  <2>3. CASE d = "u2c"
    <3>1. n <= replied /\ n <= replied' /\ n \in Nat
      BY <1>1, <1>3, <2>3 DEF Dirs
    <3>2. d # "c2u"
      BY <2>3
    <3>3. ByteAt(d, n) = -n /\ ByteAt(d, n)' = -n
      <4>1. Base(d) = -replied /\ Base(d)' = -replied'
        BY <3>2 DEF Base
      <4>2. \A a \in Nat, i \in Nat : i <= a => ~(-a + i > 0)
        OBVIOUS
      <4>3. ~(-replied + n > 0) /\ ~(-(replied') + n > 0)
        BY <1>3, <3>1, <4>2
      <4>4. QED
        BY <4>1, <4>3 DEF ByteAt
    <3>4. QED
      BY <2>1, <3>3
  <2>4. QED
    BY <2>2, <2>3 DEF Dirs
<1>5. QED
  BY <1>1, <1>4 DEF Placed

(* So is the rest, unless the step enters the relay phase. *)
LEMMA EarlyDirs ==
  ASSUME Inv, st \in Early, UNCHANGED <<out, buf, op, shut>>,
         consumed' \in Nat, replied' \in Nat,
         consumed' = consumed \/ Len(out["c2u"]) = 0,
         replied <= replied', st' # "relay"
  PROVE  \A d \in Dirs : Placed(d)' /\ Relays(d)'
<1>1. \A d \in Dirs : Placed(d)'
  BY EarlyPlaced
<1>2. \A d \in Dirs : Len(buf[d]) = 0 /\ op[d] = "none" /\ ~shut[d]
  BY DEF Inv, Before
<1>3. \A d \in Dirs : Relays(d)'
  BY <1>2 DEF Relays
<1>4. QED
  BY <1>1, <1>3

(* startDuplex: both directions start empty, behind what was delivered. *)
LEMMA EnterRelay ==
  ASSUME TypeOK', st' = "relay", op' = Both("recv"),
         \A d \in Dirs : Len(buf'[d]) = 0 /\ ~shut'[d],
         consumed' + Len(out'["c2u"]) = got'["c2u"],
         Len(out'["u2c"]) = replied', got'["u2c"] = 0
  PROVE  \A d \in Dirs : Relays(d)'
<1> SUFFICES ASSUME NEW d \in Dirs PROVE Relays(d)'
  OBVIOUS
<1>1. op'[d] = "recv" /\ Len(buf'[d]) = 0 /\ ~shut'[d]
  BY DEF Both
<1>2. /\ Len(out'["c2u"]) \in Nat /\ Len(out'["u2c"]) \in Nat
      /\ consumed' \in Nat /\ replied' \in Nat /\ got'["c2u"] \in Nat
  <2>1. out'["c2u"] \in Seq(Int) /\ out'["u2c"] \in Seq(Int)
    BY DEF TypeOK, Dirs
  <2>2. QED
    BY <2>1, LenProperties DEF TypeOK, Dirs
<1>3. Base(d)' + Len(out'[d]) = got'[d] /\ Base(d)' + Len(out'[d]) >= 0
  <2>1. CASE d = "c2u"
    BY <1>2, <2>1 DEF Base
  <2>2. CASE d = "u2c"
    BY <1>2, <2>2 DEF Base
  <2>3. QED
    BY <2>1, <2>2 DEF Dirs
<1>4. Base(d)' \in Int /\ Len(out'[d]) \in Nat /\ got'[d] \in Int
  BY <1>2 DEF Base, Dirs, TypeOK
<1>5. Base(d)' + Len(out'[d]) + Len(buf'[d]) = got'[d]
  BY <1>1, <1>3, <1>4
<1>6. QED
  BY <1>1, <1>3, <1>5 DEF Relays

(* A delivery of the bytes t that come next keeps the order. *)
LEMMA Delivered ==
  ASSUME TypeOK, NEW d \in Dirs, Placed(d), NEW t \in Seq(Int),
         out' = [out EXCEPT ![d] = @ \o t],
         consumed' = consumed, replied' = replied,
         \A n \in 1..Len(t) : t[n] = ByteAt(d, Len(out[d]) + n)
  PROVE  /\ out' \in [Dirs -> Seq(Int)]
         /\ Len(out'[d]) = Len(out[d]) + Len(t)
         /\ \A n \in 1..Len(out'[d]) : out'[d][n] = ByteAt(d, n)'
         /\ \A e \in Dirs : e # d => out'[e] = out[e]
<1>1. out \in [Dirs -> Seq(Int)] /\ out[d] \in Seq(Int)
  BY DEF TypeOK
<1>2. PICK s : s = out[d]
  OBVIOUS
<1>3. s \in Seq(Int) /\ Len(s) \in Nat /\ Len(t) \in Nat
  BY <1>1, <1>2, LenProperties
<1>4. /\ s \o t \in Seq(Int) /\ Len(s \o t) = Len(s) + Len(t)
      /\ \A i \in 1..(Len(s) + Len(t)) :
           (s \o t)[i] = IF i <= Len(s) THEN s[i] ELSE t[i - Len(s)]
  BY <1>3, ConcatProperties
<1>5. out'[d] = s \o t /\ out' \in [Dirs -> Seq(Int)]
      /\ \A e \in Dirs : e # d => out'[e] = out[e]
  BY <1>1, <1>2, <1>4
<1>6. ASSUME NEW n \in 1..(Len(s) + Len(t)) PROVE (s \o t)[n] = ByteAt(d, n)
  <2>1. CASE n <= Len(s)
    <3>1. n \in 1..Len(s)
      BY <1>3, <2>1
    <3>2. s[n] = ByteAt(d, n)
      BY <1>2, <3>1 DEF Placed
    <3>3. QED
      BY <1>4, <2>1, <3>2
  <2>2. CASE ~(n <= Len(s))
    <3>1. PICK i \in 1..Len(t) : i = n - Len(s) /\ Len(s) + i = n
      <4>1. n - Len(s) \in 1..Len(t) /\ Len(s) + (n - Len(s)) = n
        BY <1>3, <2>2
      <4>2. QED
        BY <4>1
    <3>2. t[i] = ByteAt(d, n)
      BY <1>2, <3>1
    <3>3. QED
      BY <1>4, <2>2, <3>1, <3>2
  <2>3. QED
    BY <2>1, <2>2
<1>7. \A n : ByteAt(d, n)' = ByteAt(d, n)
  BY DEF ByteAt, Base
<1>8. QED
  BY <1>2, <1>4, <1>5, <1>6, <1>7

-----------------------------------------------------------------------------
(* A read of the request: its bytes go behind those that are there. *)
LEMMA RecvReqInv ==
  ASSUME Inv, NEW k \in 1..MaxReqLen, RecvReq(k) PROVE Inv'
<1>1. TypeOK /\ st \in Early /\ got["c2u"] = reqN /\ got["u2c"] = 0
      /\ initSent = 0 /\ Len(reply) = 0 /\ "c2u" \in Dirs
  BY DEF RecvReq, Inv, Before, Replies, Early, Replying, Dirs
<1>2. /\ st = "recvReq" /\ st' = "hook" /\ k \in 1..(Len(req) - reqN)
      /\ req' = [n \in 1..Len(req) |->
           IF n \in (reqN + 1)..(reqN + k) THEN got["c2u"] + n - reqN ELSE req[n]]
      /\ reqN' = reqN + k /\ got' = [got EXCEPT !["c2u"] = @ + k]
      /\ UNCHANGED <<initSent, consumed, reply, replied, out, counted>>
      /\ UNCHANGED <<buf, op, readDone, shut>>
  BY DEF RecvReq, relayVars
<1>3. /\ Len(req) \in Nat /\ reqN \in Nat /\ reqN <= Len(req) /\ k \in Nat
      /\ k <= Len(req) - reqN /\ k > 0
  BY <1>1, <1>2, Lengths
<1>4. req' \in Seq(Nat) /\ Len(req') = Len(req)
      /\ \A n \in 1..(reqN + k) : req'[n] = n
  <2>1. \A n \in 1..Len(req) : req[n] \in Nat
    BY <1>1, ElementOfSeq DEF TypeOK
  <2>2. ASSUME NEW n \in 1..Len(req)
        PROVE  /\ req'[n] = IF n \in (reqN + 1)..(reqN + k) THEN n ELSE req[n]
               /\ req'[n] \in Nat
    BY <1>1, <1>2, <1>3, <2>1
  <2>3. req' \in [1..Len(req) -> Nat]
    BY <1>2, <2>2
  <2>4. req' \in Seq(Nat) /\ Len(req') = Len(req)
    BY <1>3, <2>3, SeqOf
  <2>5. ASSUME NEW n \in 1..(reqN + k) PROVE req'[n] = n
    <3>1. n \in 1..Len(req)
      BY <1>3
    <3>2. CASE n \in 1..reqN
      BY <1>3, <2>2, <3>1, <3>2 DEF Inv, Request
    <3>3. CASE n \in (reqN + 1)..(reqN + k)
      BY <2>2, <3>1, <3>3
    <3>4. QED
      BY <1>3, <3>2, <3>3
  <2>6. QED
    BY <2>4, <2>5
<1>5. /\ got' \in [Dirs -> Nat] /\ got'["c2u"] = reqN + k
      /\ got'["u2c"] = 0
  BY <1>1, <1>2, <1>3 DEF TypeOK, Dirs
<1>6. TypeOK'
  <2>1. reqN' \in 0..Len(req') /\ initSent' \in 0..reqN'
    BY <1>1, <1>2, <1>3, <1>4
  <2>2. QED
    BY <1>1, <1>2, <1>4, <1>5, <2>1 DEF TypeOK
<1>7. Request'
  BY <1>1, <1>2, <1>4 DEF Inv, Request
<1>8. Replies'
  BY <1>1, <1>2 DEF Inv, Replies, Replying
<1>9. Before'
  BY <1>1, <1>2, <1>5 DEF Inv, Before
<1>10. Counts'
  <2>1. Len(out["c2u"]) \in Nat /\ consumed \in Nat
    BY <1>1, Lengths
  <2>2. consumed + Len(out["c2u"]) <= reqN + k
    BY <1>1, <1>3, <2>1 DEF Inv, Counts
  <2>3. QED
    BY <1>2, <1>5, <2>2 DEF Inv, Counts
<1>11. \A d \in Dirs : Placed(d)' /\ Relays(d)'
  <2>1. consumed \in Nat /\ replied \in Nat
    BY <1>1, Lengths
  <2>2. QED
    BY <1>1, <1>2, <2>1, EarlyDirs
<1>12. QED
  BY <1>6, <1>7, <1>8, <1>9, <1>10, <1>11 DEF Inv

(* The state of the connection while the hook's answer, with a reply of m  *)
(* bytes, is applied: nothing of the request is forwarded, all earlier     *)
(* replies are delivered, and the new one comes behind them.               *)
Answered(m) ==
  /\ TypeOK /\ st = "hook" /\ st \in Early
  /\ reply' \in Seq(Int) /\ Len(reply') = m /\ m \in Nat
  /\ replied' \in Nat /\ replied' = replied + m
  /\ \A n \in 1..Len(reply') : reply'[n] = -(replied' - Len(reply') + n)
  /\ Len(reply') <= replied'
  /\ got["c2u"] = reqN /\ got["u2c"] = 0
  /\ \A d \in Dirs : Len(buf[d]) = 0 /\ op[d] = "none" /\ ~shut[d]
  /\ initSent = 0 /\ consumed = 0 /\ Len(out["c2u"]) = 0
  /\ replied <= replied' /\ Len(out["u2c"]) = replied' - Len(reply')
  /\ counted["u2c"] + replied' - Len(reply')
       = Len(out["u2c"]) + Len(buf["u2c"])

(* A reply of the hook starts behind the replies that were sent. *)
LEMMA HookRepliesKeeps ==
  ASSUME Inv, NEW m \in 0..ReplyMax, HookReplies(m) PROVE Answered(m)
<1>1. TypeOK /\ st = "hook" /\ st \in Early /\ reply' = NextReply(m)
      /\ replied' = replied + m /\ m \in Nat
  BY StreamAssumption DEF Inv, HookReplies, Early
<1>2. /\ replied \in Nat /\ consumed \in Nat /\ initSent \in Nat
      /\ Len(out["c2u"]) \in Nat /\ Len(out["u2c"]) \in Nat
  BY <1>1, Lengths
<1>3. /\ Len(reply) = 0 /\ got["c2u"] = reqN /\ got["u2c"] = 0
      /\ \A d \in Dirs : Len(buf[d]) = 0 /\ op[d] = "none" /\ ~shut[d]
      /\ initSent = 0 /\ consumed + Len(out["c2u"]) = initSent
      /\ Len(out["u2c"]) = replied - Len(reply)
  BY <1>1 DEF Inv, Before, Replies
<1>4. consumed = 0 /\ Len(out["c2u"]) = 0 /\ Len(out["u2c"]) = replied
  BY <1>2, <1>3
<1>5. reply' \in [1..m -> Int] /\ \A n \in 1..m : reply'[n] = -(replied + n)
  BY <1>1, <1>2 DEF NextReply
<1>6. reply' \in Seq(Int) /\ Len(reply') = m
  BY <1>1, <1>5, SeqOf
<1>7. replied' \in Nat /\ Len(reply') <= replied' /\ replied' - Len(reply') = replied
  BY <1>1, <1>2, <1>6
<1>8. \A n \in 1..Len(reply') : reply'[n] = -(replied' - Len(reply') + n)
  BY <1>5, <1>6, <1>7
<1>9. counted["u2c"] + replied = Len(out["u2c"]) + Len(buf["u2c"])
  <2>1. counted["u2c"] \in Nat
    BY <1>1, Lengths
  <2>2. QED
    BY <1>2, <1>3, <2>1 DEF Inv, Counts
<1>10. replied <= replied' /\ Len(out["u2c"]) = replied' - Len(reply')
       /\ counted["u2c"] + replied' - Len(reply')
            = Len(out["u2c"]) + Len(buf["u2c"])
  <2>1. Len(buf["u2c"]) \in Nat /\ counted["u2c"] \in Nat
    BY <1>1, Lengths
  <2>2. QED
    BY <1>1, <1>2, <1>4, <1>6, <1>7, <1>9, <2>1
<1>11. QED
  BY <1>1, <1>3, <1>4, <1>6, <1>7, <1>8, <1>10 DEF Answered

(* A hook that rejects: its reply is sent, or the connection ends. *)
LEMMA HookRejectInv ==
  ASSUME Inv, NEW m \in 0..ReplyMax, HookReject(m) PROVE Inv'
<1>1. HookReplies(m) /\ st' = IF m > 0 THEN "rejectSend" ELSE "closed"
  BY DEF HookReject
<1>2. UNCHANGED <<req, reqN, initSent, consumed, buf, op, readDone, shut, got,
                  out, counted>>
  BY DEF HookReject, reqVars, relayVars
<1>3. Answered(m)
  BY <1>1, HookRepliesKeeps
<1>4. st' \in {"rejectSend", "closed"}
  BY <1>1
<1>5. TypeOK'
  BY <1>2, <1>3, <1>4 DEF Answered, TypeOK, Replying
<1>6. Request'
  BY <1>2, <1>4 DEF Inv, Request
<1>7. Replies'
  BY <1>1, <1>3 DEF Answered, Replies, Replying
<1>8. Before'
  BY <1>2, <1>3 DEF Answered, Before
<1>9. Counts'
  BY <1>2, <1>3 DEF Answered, Inv, Counts
<1>10. \A d \in Dirs : Placed(d)' /\ Relays(d)'
  BY <1>2, <1>3, <1>4, EarlyDirs DEF Answered
<1>11. QED
  BY <1>5, <1>6, <1>7, <1>8, <1>9, <1>10 DEF Inv

(* growReq: the grown buffer is larger, within MaxReqLen, and keeps the    *)
(* bytes of the request.                                                   *)
LEMMA GrowReq ==
  ASSUME TypeOK, Len(req) \in 1..MaxReqLen, Len(req) < MaxReqLen,
         \A n \in 1..reqN : req[n] = n
  PROVE  /\ growReq \in Seq(Nat)
         /\ Len(growReq) \in 1..MaxReqLen /\ Len(req) < Len(growReq)
         /\ \A n \in 1..reqN : growReq[n] = n
<1>1. Len(req) \in Nat /\ Len(req) > 0 /\ reqN \in Nat /\ reqN <= Len(req)
      /\ MaxReqLen \in Nat
  BY Lengths, StreamAssumption
<1>2. PICK N \in Nat : /\ N = IF 2 * Len(req) > MaxReqLen THEN MaxReqLen
                              ELSE 2 * Len(req)
                       /\ N \in 1..MaxReqLen /\ Len(req) < N
  BY <1>1
<1>3. growReq = [n \in 1..N |-> IF n <= reqN THEN req[n] ELSE 0]
  BY <1>2 DEF growReq
<1>4. ASSUME NEW n \in 1..N PROVE (IF n <= reqN THEN req[n] ELSE 0) \in Nat
  BY <1>1
<1>5. growReq \in [1..N -> Nat]
  BY <1>3, <1>4 DEF Answered
<1>6. growReq \in Seq(Nat) /\ Len(growReq) = N
  BY <1>5, SeqOf
<1>7. ASSUME NEW n \in 1..reqN PROVE growReq[n] = n
  <2>1. n \in 1..N /\ n <= reqN
    BY <1>1, <1>2
  <2>2. QED
    BY <1>3, <2>1 DEF Answered
<1>8. QED
  BY <1>2, <1>6, <1>7

(* A hook that wants more: there is room for it, or the buffer grows. *)
LEMMA HookMoreInv ==
  ASSUME Inv, NEW m \in 0..ReplyMax, HookMore(m) PROVE Inv'
<1>1. HookReplies(m) /\ st' = IF m > 0 THEN "replyMore" ELSE "recvReq"
  BY DEF HookMore
<1>2. UNCHANGED <<reqN, initSent, consumed, buf, op, readDone, shut, got,
                  out, counted>>
  BY DEF HookMore, relayVars
<1>3. Answered(m)
  BY <1>1, HookRepliesKeeps
<1>4. st' \in {"replyMore", "recvReq"}
  BY <1>1
<1>5. /\ req' \in Seq(Nat) /\ Len(req') \in 1..MaxReqLen /\ reqN < Len(req')
      /\ \A n \in 1..reqN : req'[n] = n
  <2>1. /\ Len(req) \in 1..MaxReqLen /\ \A n \in 1..reqN : req[n] = n
        /\ req' = IF reqN < Len(req) THEN req ELSE growReq
        /\ ~(reqN >= Len(req) /\ Len(req) >= MaxReqLen)
    BY DEF HookMore, ReqFull, Inv, Request
  <2>2. Len(req) \in Nat /\ reqN \in Nat /\ reqN <= Len(req) /\ MaxReqLen \in Nat
        /\ req \in Seq(Nat)
    BY <1>3, Lengths, StreamAssumption DEF Answered, TypeOK
  <2>3. CASE reqN < Len(req)
    BY <2>1, <2>2, <2>3
  <2>4. CASE ~(reqN < Len(req))
    <3>1. Len(req) < MaxReqLen /\ reqN = Len(req)
      BY <2>1, <2>2, <2>4
    <3>2. /\ growReq \in Seq(Nat)
          /\ Len(growReq) \in 1..MaxReqLen /\ Len(req) < Len(growReq)
          /\ \A n \in 1..reqN : growReq[n] = n
      BY <1>3, <2>1, <3>1, GrowReq DEF Answered
    <3>3. QED
      BY <2>1, <2>4, <3>1, <3>2
  <2>5. QED
    BY <2>3, <2>4
<1>6. TypeOK'
  <2>1. reqN' \in 0..Len(req') /\ initSent' \in 0..reqN'
    BY <1>2, <1>3, <1>5, StreamAssumption DEF Answered, TypeOK
  <2>2. QED
    BY <1>2, <1>3, <1>4, <1>5, <2>1 DEF Answered, TypeOK, Replying
<1>7. Request'
  BY <1>2, <1>4, <1>5 DEF Inv, Request
<1>8. Replies'
  BY <1>1, <1>3 DEF Answered, Replies, Replying
<1>9. Before'
  BY <1>2, <1>3, <1>4 DEF Answered, Before
<1>10. Counts'
  BY <1>2, <1>3 DEF Answered, Inv, Counts
<1>11. \A d \in Dirs : Placed(d)' /\ Relays(d)'
  BY <1>2, <1>3, <1>4, EarlyDirs DEF Answered
<1>12. QED
  BY <1>6, <1>7, <1>8, <1>9, <1>10, <1>11 DEF Inv

(* A step that only ends the connection. *)
LEMMA ClosedInv ==
  ASSUME Inv, st' = "closed",
         UNCHANGED <<reqVars, reply, relayVars, got, out, counted, replied>>
  PROVE  Inv'
<1>1. /\ UNCHANGED <<req, reqN, initSent, consumed, reply, buf, op>>
      /\ UNCHANGED <<readDone, shut, got, out, counted, replied>>
  BY DEF reqVars, relayVars
<1>2. TypeOK'
  BY <1>1 DEF Inv, TypeOK
<1>3. Request' /\ Replies' /\ Before' /\ Counts'
  BY <1>1 DEF Inv, Request, Replies, Before, Counts, Early, Replying
<1>4. ASSUME NEW d \in Dirs PROVE Placed(d)' /\ Relays(d)'
  <2>1. \A n : ByteAt(d, n)' = ByteAt(d, n)
    BY <1>1 DEF ByteAt, Base
  <2>2. Base(d)' = Base(d)
    BY <1>1 DEF Base
  <2>3. Placed(d) /\ Relays(d)
    BY DEF Inv
  <2>4. Placed(d)'
    BY <1>1, <2>1, <2>2, <2>3 DEF Placed
  <2>5. Relays(d)'
    BY <1>1, <2>2, <2>3 DEF Relays
  <2>6. QED
    BY <2>4, <2>5
<1>5. QED
  BY <1>2, <1>3, <1>4 DEF Inv

(* forwardInit: with all replies delivered the rest of the request is      *)
(* sent, or, when there is none, both directions start.                    *)
LEMMA ForwardInit ==
  ASSUME TypeOK', Counts', \A d \in Dirs : Placed(d)',
         Len(req') \in 1..MaxReqLen, consumed' <= initSent',
         \A n \in 1..reqN' : req'[n] = n,
         Len(reply') = 0, got'["c2u"] = reqN', got'["u2c"] = 0,
         \A d \in Dirs : Len(buf'[d]) = 0 /\ ~shut'[d],
         consumed' + Len(out'["c2u"]) = initSent', Len(out'["u2c"]) = replied',
         \/ st' = "relay" /\ op' = Both("recv") /\ initSent' >= reqN'
         \/ st' = "sendUp" /\ initSent' < reqN' /\ \A d \in Dirs : op'[d] = "none"
  PROVE  Inv'
<1>1. reqN' \in Nat /\ initSent' \in Nat /\ initSent' <= reqN' /\ replied' \in Nat
  <2>1. Len(req') \in Nat
    BY LenProperties DEF TypeOK
  <2>2. QED
    BY <2>1 DEF TypeOK
<1>2. Request'
  BY <1>1 DEF Request
<1>3. Replies'
  BY <1>1 DEF Replies, Replying
<1>4. Before'
  <2>1. Len(out'["u2c"]) = replied' - Len(reply')
    <3>1. \A r \in Nat : r - 0 = r
      OBVIOUS
    <3>2. QED
      BY <1>1, <3>1
  <2>2. CASE st' = "relay"
    BY <2>2 DEF Before, Early, Replying
  <2>3. CASE st' = "sendUp" /\ \A d \in Dirs : op'[d] = "none"
    BY <2>1, <2>3 DEF Before
  <2>4. QED
    BY <2>2, <2>3
<1>5. \A d \in Dirs : Relays(d)'
  <2>1. CASE st' = "relay" /\ op' = Both("recv") /\ initSent' >= reqN'
    BY <1>1, <2>1, EnterRelay
  <2>2. CASE st' = "sendUp" /\ \A d \in Dirs : op'[d] = "none"
    BY <2>2 DEF Relays
  <2>3. QED
    BY <2>1, <2>2
<1>6. QED
  BY <1>2, <1>3, <1>4, <1>5 DEF Inv

(* A hook that relays: the consumed part is within the request, and the    *)
(* reply goes out before anything is forwarded.                            *)
LEMMA HookRelayInv ==
  ASSUME Inv, NEW n \in Int, NEW m \in 0..ReplyMax, HookRelay(n, m) PROVE Inv'
<1>1. HookReplies(m)
  BY DEF HookRelay
<1>2. UNCHANGED <<req, reqN, got, out, counted>>
  BY DEF HookRelay
<1>3. Answered(m)
  BY <1>1, HookRepliesKeeps
<1>4. TypeOK /\ reqN \in Nat /\ Len(req) \in Nat /\ reqN <= Len(req)
  BY <1>3, Lengths DEF Answered
<1>5. PICK c \in 0..reqN : c = Clamp(n)
  BY <1>4 DEF Clamp
<1>6. initSent' = c /\ consumed' = c /\ c \in Nat /\ c <= reqN
  BY <1>4, <1>5 DEF HookRelay
<1>7. UNCHANGED <<buf, readDone, shut>>
  BY DEF HookRelay, forwardInit, startDuplex, relayVars
<1>8. \/ m > 0 /\ st' = "replyClient" /\ op' = op
      \/ m = 0 /\ st' = "relay" /\ op' = Both("recv") /\ c >= reqN
      \/ m = 0 /\ st' = "sendUp" /\ op' = op /\ c < reqN
  BY <1>3, <1>4, <1>5, <1>6
     DEF HookRelay, forwardInit, startDuplex, relayVars, Answered
<1>9. TypeOK'
  <2>1. op' \in [Dirs -> {"none", "recv", "send"}]
    BY <1>4, <1>8 DEF TypeOK, Both
  <2>2. initSent' \in 0..reqN' /\ consumed' \in Nat
    BY <1>2, <1>5, <1>6
  <2>3. st' \in {"recvReq", "hook", "sendUp", "relay", "closed"} \cup Replying
    BY <1>8 DEF Replying
  <2>4. QED
    BY <1>2, <1>3, <1>7, <2>1, <2>2, <2>3 DEF TypeOK, Answered
<1>10. /\ Len(req) \in 1..MaxReqLen /\ \A i \in 1..reqN : req[i] = i
  BY DEF Inv, Request
<1>11. consumed' + Len(out'["c2u"]) = initSent'
  BY <1>2, <1>3, <1>6 DEF Answered
<1>12. Counts'
  <2>1. consumed' + Len(out'["c2u"]) <= got'["c2u"]
    BY <1>2, <1>3, <1>6, <1>11 DEF Answered
  <2>2. QED
    BY <1>2, <1>3, <1>7, <2>1 DEF Inv, Counts, Answered
<1>13. \A d \in Dirs : Placed(d)'
  BY <1>2, <1>3, <1>6, <1>7, EarlyPlaced DEF Answered
<1>14. CASE m > 0 /\ st' = "replyClient" /\ op' = op
  <2>1. Request'
    BY <1>2, <1>6, <1>10, <1>14 DEF Request
  <2>2. Replies'
    BY <1>3, <1>14 DEF Replies, Replying, Answered
  <2>3. Before'
    BY <1>2, <1>3, <1>7, <1>11, <1>14 DEF Before, Answered
  <2>4. \A d \in Dirs : Relays(d)'
    BY <1>3, <1>7, <1>14, SMTT(30) DEF Relays, Answered
  <2>5. QED
    BY <1>9, <1>12, <1>13, <2>1, <2>2, <2>3, <2>4 DEF Inv
<1>15. CASE m = 0
  <2>1. Len(reply') = 0 /\ Len(out'["u2c"]) = replied'
    BY <1>2, <1>3, <1>15 DEF Answered
  <2>2. /\ got'["c2u"] = reqN' /\ got'["u2c"] = 0
        /\ \A d \in Dirs : Len(buf'[d]) = 0 /\ ~shut'[d]
    BY <1>2, <1>3, <1>7 DEF Answered
  <2>3. \/ st' = "relay" /\ op' = Both("recv") /\ initSent' >= reqN'
        \/ st' = "sendUp" /\ initSent' < reqN' /\ \A d \in Dirs : op'[d] = "none"
    BY <1>2, <1>3, <1>6, <1>8, <1>15 DEF Answered
  <2>4. /\ Len(req') \in 1..MaxReqLen /\ \A i \in 1..reqN' : req'[i] = i
        /\ consumed' <= initSent'
    BY <1>2, <1>6, <1>10
  <2>5. QED
    BY <1>9, <1>11, <1>12, <1>13, <2>1, <2>2, <2>3, <2>4, ForwardInit
<1>16. QED
  BY <1>8, <1>14, <1>15

(* A send of a reply: its first k bytes are delivered to the client. *)
LEMMA ReplySentInv ==
  ASSUME Inv, NEW k \in 1..ReplyMax, ReplySent(k) PROVE Inv'
<1>1. /\ st \in Replying /\ k \in 1..Len(reply)
      /\ out' = [out EXCEPT !["u2c"] = @ \o SubSeq(reply, 1, k)]
      /\ reply' = SubSeq(reply, k + 1, Len(reply))
      /\ UNCHANGED <<req, reqN, initSent, consumed, got, counted, replied>>
  BY DEF ReplySent, reqVars
<1>2. TypeOK /\ st \in Early /\ "u2c" \in Dirs /\ "c2u" \in Dirs
  BY <1>1 DEF Inv, Early, Dirs
<1>3. /\ reply \in Seq(Int) /\ Len(reply) \in Nat /\ replied \in Nat
      /\ consumed \in Nat /\ initSent \in Nat /\ reqN \in Nat
      /\ Len(out["u2c"]) \in Nat /\ Len(out["c2u"]) \in Nat
      /\ Len(buf["u2c"]) \in Nat /\ counted["u2c"] \in Nat /\ k \in Nat
  BY <1>1, <1>2, Lengths, SMTT(30) DEF TypeOK
<1>4. /\ got["c2u"] = reqN /\ got["u2c"] = 0
      /\ \A d \in Dirs : Len(buf[d]) = 0 /\ op[d] = "none" /\ ~shut[d]
      /\ consumed + Len(out["c2u"]) = initSent
      /\ Len(out["u2c"]) = replied - Len(reply)
      /\ st \notin {"replyClient", "sendUp"} => initSent = 0
  BY <1>2 DEF Inv, Before
<1>5. PICK t : t = SubSeq(reply, 1, k)
  OBVIOUS
<1>6. /\ t \in Seq(Int) /\ Len(t) = k /\ \A i \in 1..k : t[i] = reply[i]
      /\ reply' \in Seq(Int) /\ Len(reply') = Len(reply) - k
      /\ \A i \in 1..(Len(reply) - k) : reply'[i] = reply[k + i]
  BY <1>1, <1>3, <1>5, CutSeq
<1>7. \A i \in 1..Len(reply) : reply[i] = -(Len(out["u2c"]) + i)
  BY <1>3, <1>4 DEF Inv, Replies
<1>8. ASSUME NEW i \in 1..Len(t)
      PROVE  t[i] = ByteAt("u2c", Len(out["u2c"]) + i)
  <2>1. i \in 1..k /\ i \in 1..Len(reply) /\ i \in Nat
    BY <1>1, <1>3, <1>6
  <2>2. t[i] = -(Len(out["u2c"]) + i)
    BY <1>6, <1>7, <2>1
  <2>3. Len(out["u2c"]) + i <= replied
    BY <1>3, <1>4, <2>1
  <2>4. \A a \in Nat, j \in Nat : j <= a => ~(-a + j > 0)
    OBVIOUS
  <2>5. ~(-replied + (Len(out["u2c"]) + i) > 0)
    <3>1. Len(out["u2c"]) + i \in Nat
      BY <1>3, <2>1
    <3>2. QED
      BY <1>3, <2>3, <2>4, <3>1
  <2>6. QED
    BY <2>2, <2>5 DEF ByteAt, Base
<1>9. /\ out' \in [Dirs -> Seq(Int)]
      /\ Len(out'["u2c"]) = Len(out["u2c"]) + k
      /\ \A n \in 1..Len(out'["u2c"]) : out'["u2c"][n] = ByteAt("u2c", n)'
      /\ \A e \in Dirs : e # "u2c" => out'[e] = out[e]
  <2>1. out' = [out EXCEPT !["u2c"] = @ \o t] /\ Placed("u2c")
    BY <1>1, <1>2, <1>5 DEF Inv
  <2>2. QED
    BY <1>1, <1>2, <1>6, <1>8, <2>1, Delivered
<1>10. UNCHANGED <<buf, readDone, shut>> /\ out'["c2u"] = out["c2u"]
  BY <1>2, <1>9 DEF ReplySent, forwardInit, startDuplex, relayVars
<1>11. Len(reply') = 0 <=> reply' = <<>>
  BY <1>6, EmptySeq
<1>12. \/ Len(reply') > 0 /\ st' = st /\ op' = op
       \/ /\ Len(reply') = 0 /\ st = "replyMore"
          /\ st' = "recvReq" /\ op' = op
       \/ /\ Len(reply') = 0 /\ st = "rejectSend"
          /\ st' = "closed" /\ op' = op
       \/ /\ Len(reply') = 0 /\ st = "replyClient" /\ initSent >= reqN
          /\ st' = "relay" /\ op' = Both("recv")
       \/ /\ Len(reply') = 0 /\ st = "replyClient" /\ ~(initSent >= reqN)
          /\ st' = "sendUp" /\ op' = op
  <2>1. CASE reply' # <<>>
    <3>1. Len(reply') > 0
      BY <1>6, <2>1, EmptySeq
    <3>2. QED
      BY <2>1, <3>1 DEF ReplySent, relayVars
  <2>2. CASE reply' = <<>>
    BY <1>11, <2>2 DEF ReplySent, forwardInit, startDuplex, relayVars
  <2>3. QED
    BY <2>1, <2>2
<1>13. \A d \in Dirs : Placed(d)'
  <2>1. \A n \in 1..Len(out'["c2u"]) : out'["c2u"][n] = ByteAt("c2u", n)'
    BY <1>1, <1>2, <1>10 DEF Inv, Placed, ByteAt, Base
  <2>2. QED
    BY <1>4, <1>9, <1>10, <2>1 DEF Placed, Dirs
<1>14. /\ Len(out'["u2c"]) = replied' - Len(reply')
       /\ Len(reply') <= replied'
       /\ consumed' + Len(out'["c2u"]) = initSent'
  <2>1. PICK o \in Nat, r \in Nat : o = Len(out["u2c"]) /\ r = Len(reply)
    BY <1>3
  <2>2. o = replied - r /\ k \in 1..r
    BY <1>1, <1>4, <2>1
  <2>3. o + k = replied - (r - k) /\ r - k <= replied
    BY <1>3, <2>1, <2>2
  <2>4. QED
    BY <1>1, <1>4, <1>6, <1>9, <1>10, <2>1, <2>3
<1>15. Counts'
  <2>1. counted["u2c"] + replied - Len(reply) = Len(out["u2c"]) + Len(buf["u2c"])
    BY DEF Inv, Counts
  <2>2. counted["u2c"] + replied - (Len(reply) - k)
          = (Len(out["u2c"]) + k) + Len(buf["u2c"])
    <3>1. PICK c \in Nat : c = counted["u2c"]
      BY <1>3
    <3>2. PICK n \in Nat : n = Len(reply)
      BY <1>3
    <3>3. PICK o \in Nat : o = Len(out["u2c"])
      BY <1>3
    <3>4. PICK b \in Nat : b = Len(buf["u2c"])
      BY <1>3
    <3>5. c + (replied - n) = o + b
      BY <2>1, <3>1, <3>2, <3>3, <3>4, Zenon
    <3>6. k \in Nat /\ replied \in Nat
      BY <1>3
    <3>7. c + (replied - (n - k)) = (o + k) + b
      BY <3>5, <3>6, RestShrinks
    <3>8. QED
      BY <3>1, <3>2, <3>3, <3>4, <3>7, Zenon
  <2>3. QED
    BY <1>1, <1>6, <1>9, <1>10, <2>2 DEF Inv, Counts
<1>16. \A i \in 1..Len(reply') : reply'[i] = -(replied' - Len(reply') + i)
  <2> SUFFICES ASSUME NEW i \in 1..Len(reply')
               PROVE  reply'[i] = -(replied' - Len(reply') + i)
    OBVIOUS
  <2>1. k + i \in 1..Len(reply) /\ i \in 1..(Len(reply) - k) /\ i \in Nat
    <3>1. PICK r \in Nat : r = Len(reply)
      BY <1>3
    <3>2. i \in 1..(r - k) /\ k \in 1..r
      BY <1>1, <1>6, <3>1
    <3>3. k + i \in 1..r /\ i \in Nat
      BY <3>1, <3>2
    <3>4. QED
      BY <3>1, <3>2, <3>3
  <2>2. reply'[i] = -(Len(out["u2c"]) + (k + i))
    BY <1>6, <1>7, <2>1
  <2>3. Len(out["u2c"]) + (k + i) = replied - (Len(reply) - k) + i
    BY <1>3, <1>4, <2>1
  <2>4. QED
    BY <1>1, <1>6, <2>2, <2>3
<1>17. TypeOK'
  <2>1. op' \in [Dirs -> {"none", "recv", "send"}]
    BY <1>2, <1>12 DEF TypeOK, Both
  <2>2. st' \in {"recvReq", "hook", "sendUp", "relay", "closed"} \cup Replying
    BY <1>1, <1>12
  <2>3. QED
    BY <1>1, <1>2, <1>6, <1>9, <1>10, <2>1, <2>2 DEF TypeOK
<1>18. CASE st' \in {"recvReq", "closed"} \cup Replying /\ op' = op
  <2>1. Request'
    BY <1>1, <1>12, <1>18 DEF Inv, Request, Replying
  <2>2. Replies'
    <3>1. /\ st' \in Replying => Len(reply') > 0
          /\ st' \in {"recvReq", "hook", "sendUp", "relay"} => Len(reply') = 0
      BY <1>1, <1>12, <1>18 DEF Replying
    <3>2. QED
      BY <1>14, <1>16, <3>1 DEF Replies
  <2>3. Before'
    <3>1. st' \notin {"replyClient", "sendUp"} /\ st' \in Early => initSent' = 0
      BY <1>1, <1>4, <1>12, <1>18 DEF Early, Replying
    <3>2. QED
      BY <1>1, <1>4, <1>10, <1>14, <1>18, <3>1 DEF Before
  <2>4. \A d \in Dirs : Relays(d)'
    BY <1>4, <1>10, <1>18 DEF Relays, Replying
  <2>5. QED
    BY <1>13, <1>15, <1>17, <2>1, <2>2, <2>3, <2>4 DEF Inv
<1>19. CASE /\ Len(reply') = 0
            /\ \/ initSent >= reqN /\ st' = "relay" /\ op' = Both("recv")
               \/ ~(initSent >= reqN) /\ st' = "sendUp" /\ op' = op
  <2>1. Len(out'["u2c"]) = replied'
    <3>1. \A r \in Nat : r - 0 = r
      OBVIOUS
    <3>2. QED
      BY <1>1, <1>3, <1>14, <1>19, <3>1
  <2>2. \/ st' = "relay" /\ op' = Both("recv") /\ initSent' >= reqN'
        \/ st' = "sendUp" /\ initSent' < reqN' /\ \A d \in Dirs : op'[d] = "none"
    BY <1>1, <1>3, <1>4, <1>19
  <2>3. /\ Len(req') \in 1..MaxReqLen /\ \A i \in 1..reqN' : req'[i] = i
        /\ consumed' <= initSent'
    BY <1>1 DEF Inv, Request
  <2>4. /\ got'["c2u"] = reqN' /\ got'["u2c"] = 0
        /\ \A d \in Dirs : Len(buf'[d]) = 0 /\ ~shut'[d]
    BY <1>1, <1>4, <1>10
  <2>5. QED
    BY <1>13, <1>14, <1>15, <1>17, <1>19, <2>1, <2>2, <2>3, <2>4, ForwardInit
<1>20. QED
  BY <1>1, <1>12, <1>18, <1>19

(* A send of the request: its next k bytes are delivered to the upstream. *)
LEMMA SendUpInv ==
  ASSUME Inv, NEW k \in 1..MaxReqLen, SendUp(k) PROVE Inv'
<1>1. /\ st = "sendUp" /\ k \in 1..(reqN - initSent)
      /\ out' = [out EXCEPT !["c2u"] = @ \o [n \in 1..k |-> req[initSent + n]]]
      /\ initSent' = initSent + k
      /\ counted' = [counted EXCEPT !["c2u"] = @ + k]
      /\ UNCHANGED <<req, reqN, consumed, reply, got, replied>>
  BY DEF SendUp
<1>2. TypeOK /\ st \in Early /\ "u2c" \in Dirs /\ "c2u" \in Dirs
  BY <1>1 DEF Inv, Early, Dirs
<1>3. /\ replied \in Nat /\ consumed \in Nat /\ initSent \in Nat /\ reqN \in Nat
      /\ Len(req) \in Nat /\ reqN <= Len(req)
      /\ Len(out["u2c"]) \in Nat /\ Len(out["c2u"]) \in Nat
      /\ Len(buf["c2u"]) \in Nat /\ counted["c2u"] \in Nat /\ k \in Nat /\ k > 0
      /\ initSent + k <= reqN
  BY <1>1, <1>2, Lengths
<1>4. /\ got["c2u"] = reqN /\ got["u2c"] = 0 /\ Len(reply) = 0
      /\ \A d \in Dirs : Len(buf[d]) = 0 /\ op[d] = "none" /\ ~shut[d]
      /\ consumed + Len(out["c2u"]) = initSent
      /\ Len(out["u2c"]) = replied
  <2>1. Len(reply) = 0 /\ Len(out["u2c"]) = replied - Len(reply)
    BY <1>1, <1>2 DEF Inv, Before, Replies
  <2>2. \A r \in Nat : r - 0 = r
    OBVIOUS
  <2>3. Len(out["u2c"]) = replied
    BY <1>3, <2>1, <2>2
  <2>4. QED
    BY <1>2, <2>1, <2>3 DEF Inv, Before
<1>5. /\ Len(req) \in 1..MaxReqLen /\ \A n \in 1..reqN : req[n] = n
      /\ consumed <= initSent
  BY DEF Inv, Request
<1>6. PICK t : t = [n \in 1..k |-> req[initSent + n]]
  OBVIOUS
<1>7. \A n \in 1..k : t[n] = initSent + n
  <2> SUFFICES ASSUME NEW n \in 1..k PROVE t[n] = initSent + n
    OBVIOUS
  <2>1. initSent + n \in 1..reqN
    BY <1>3
  <2>2. QED
    BY <1>5, <1>6, <2>1
<1>8. t \in Seq(Int) /\ Len(t) = k
  <2>1. ASSUME NEW n \in 1..k PROVE req[initSent + n] \in Int
    <3>1. req[initSent + n] = initSent + n
      BY <1>6, <1>7
    <3>2. QED
      BY <1>3, <3>1
  <2>2. t \in [1..k -> Int]
    BY <1>6, <2>1
  <2>3. QED
    BY <1>3, <2>2, SeqOf
<1>9. ASSUME NEW n \in 1..Len(t)
      PROVE  t[n] = ByteAt("c2u", Len(out["c2u"]) + n)
  <2>1. n \in 1..k /\ n \in Nat /\ n > 0
    BY <1>3, <1>8
  <2>2. consumed + (Len(out["c2u"]) + n) = initSent + n /\ initSent + n > 0
    BY <1>3, <1>4, <2>1, SMTT(30)
  <2>3. QED
    BY <1>7, <2>1, <2>2 DEF ByteAt, Base
<1>10. /\ out' \in [Dirs -> Seq(Int)]
       /\ Len(out'["c2u"]) = Len(out["c2u"]) + k
       /\ \A n \in 1..Len(out'["c2u"]) : out'["c2u"][n] = ByteAt("c2u", n)'
       /\ \A e \in Dirs : e # "c2u" => out'[e] = out[e]
  <2>1. out' = [out EXCEPT !["c2u"] = @ \o t] /\ Placed("c2u")
    BY <1>1, <1>2, <1>6 DEF Inv
  <2>2. QED
    BY <1>1, <1>2, <1>8, <1>9, <2>1, Delivered
<1>11. UNCHANGED <<buf, readDone, shut>> /\ out'["u2c"] = out["u2c"]
  BY <1>2, <1>10 DEF SendUp, startDuplex, relayVars
<1>12. \/ st' = "relay" /\ op' = Both("recv") /\ ~(initSent' < reqN)
       \/ st' = "sendUp" /\ op' = op /\ initSent' < reqN
  BY <1>1 DEF SendUp, startDuplex, relayVars
<1>13. /\ counted' \in [Dirs -> Nat] /\ counted'["c2u"] = counted["c2u"] + k
       /\ counted'["u2c"] = counted["u2c"]
  <2>1. counted \in [Dirs -> Nat]
    BY <1>2 DEF TypeOK
  <2>2. QED
    BY <1>1, <1>2, <1>3, <2>1
<1>14. TypeOK'
  <2>1. op' \in [Dirs -> {"none", "recv", "send"}]
    BY <1>2, <1>12 DEF TypeOK, Both
  <2>2. initSent' \in 0..reqN'
    BY <1>1, <1>3
  <2>3. QED
    BY <1>1, <1>2, <1>10, <1>11, <1>12, <1>13, <2>1, <2>2 DEF TypeOK
<1>15. \A d \in Dirs : Placed(d)'
  <2>1. \A n \in 1..Len(out'["u2c"]) : out'["u2c"][n] = ByteAt("u2c", n)'
    BY <1>1, <1>2, <1>11 DEF Inv, Placed, ByteAt, Base
  <2>2. QED
    BY <1>4, <1>10, <1>11, <2>1 DEF Placed, Dirs
<1>16. consumed' + Len(out'["c2u"]) = initSent' /\ consumed' <= initSent'
  <2>1. PICK o \in Nat : o = Len(out["c2u"])
    BY <1>3
  <2>2. consumed + o = initSent /\ k \in Nat /\ consumed \in Nat /\ initSent \in Nat
    BY <1>3, <1>4, <2>1
  <2>3. consumed + (o + k) = initSent + k /\ consumed <= initSent + k
    BY ONLY <2>1, <2>2
  <2>4. QED
    BY <1>1, <1>10, <2>1, <2>3
<1>17. Counts'
  <2>1. counted["c2u"] = Len(out["c2u"]) + Len(buf["c2u"])
    BY DEF Inv, Counts
  <2>2. counted["c2u"] + k = (Len(out["c2u"]) + k) + Len(buf["c2u"])
    <3>1. PICK o \in Nat : o = Len(out["c2u"])
      BY <1>3
    <3>2. PICK b \in Nat : b = Len(buf["c2u"])
      BY <1>3
    <3>3. PICK c : c = counted["c2u"]
      OBVIOUS
    <3>4. c = o + b /\ k \in Nat
      BY <1>3, <2>1, <3>1, <3>2, <3>3
    <3>5. c + k = (o + k) + b
      BY <3>4, SumGrows
    <3>6. QED
      BY <3>1, <3>2, <3>3, <3>5
  <2>3. consumed' + Len(out'["c2u"]) <= got'["c2u"]
    BY <1>1, <1>3, <1>4, <1>16
  <2>4. QED
    BY <1>1, <1>10, <1>11, <1>13, <2>2, <2>3 DEF Inv, Counts
<1>18. \/ st' = "relay" /\ op' = Both("recv") /\ initSent' >= reqN'
       \/ st' = "sendUp" /\ initSent' < reqN' /\ \A d \in Dirs : op'[d] = "none"
  BY <1>1, <1>3, <1>4, <1>12
<1>19. QED
  BY <1>1, <1>4, <1>5, <1>11, <1>14, <1>15, <1>16, <1>17, <1>18, ForwardInit

-----------------------------------------------------------------------------
(* What the relay phase says of a direction, in lengths. *)
LEMMA RelayFacts ==
  ASSUME Inv, st = "relay", NEW d \in Dirs
  PROVE  /\ TypeOK /\ Base(d) \in Int
         /\ Len(out[d]) \in Nat /\ Len(buf[d]) \in Nat
         /\ got[d] \in Nat /\ counted[d] \in Nat
         /\ buf[d] \in Seq(Nat) /\ out[d] \in Seq(Int)
         /\ Base(d) + Len(out[d]) >= 0
         /\ Base(d) + Len(out[d]) + Len(buf[d]) = got[d]
         /\ op[d] = "send" <=> Len(buf[d]) > 0
         /\ shut[d] => op[d] = "none" /\ Base(d) + Len(out[d]) = got[d]
         /\ Placed(d)
         /\ d = "c2u" => counted[d] = Len(out[d]) + Len(buf[d])
         /\ d = "u2c" => counted[d] + replied = Len(out[d]) + Len(buf[d])
<1>1. TypeOK /\ Placed(d) /\ Relays(d) /\ Counts /\ Len(reply) = 0
  BY DEF Inv, Replies
<1>2. /\ Len(out[d]) \in Nat /\ Len(buf[d]) \in Nat /\ replied \in Nat
      /\ got[d] \in Nat /\ counted[d] \in Nat /\ Base(d) \in Int
      /\ buf[d] \in Seq(Nat) /\ out[d] \in Seq(Int)
  BY <1>1, Lengths
<1>3. replied - Len(reply) = replied
  <2>1. \A r \in Nat : r - 0 = r
    OBVIOUS
  <2>2. QED
    BY <1>1, <1>2, <2>1
<1>4. /\ d = "c2u" => counted[d] = Len(out[d]) + Len(buf[d])
      /\ d = "u2c" => counted[d] + replied = Len(out[d]) + Len(buf[d])
  BY <1>1, <1>3 DEF Counts
<1>5. QED
  BY <1>1, <1>2, <1>4 DEF Relays

(* A step of the relay phase is a step of one direction: what it keeps for *)
(* direction d suffices.                                                   *)
LEMMA RelayStep ==
  ASSUME Inv, st = "relay", NEW d \in Dirs, TypeOK',
         st' \in {"relay", "closed"}, UNCHANGED <<reqVars, reply, replied>>,
         \A e \in Dirs : e # d =>
           /\ buf'[e] = buf[e] /\ out'[e] = out[e] /\ got'[e] = got[e]
           /\ op'[e] = op[e] /\ shut'[e] = shut[e] /\ counted'[e] = counted[e],
         Placed(d)', Relays(d)',
         Base(d) + Len(out'[d]) <= got'[d],
         d = "c2u" => counted'[d] = Len(out'[d]) + Len(buf'[d]),
         d = "u2c" => counted'[d] + replied = Len(out'[d]) + Len(buf'[d])
  PROVE  Inv'
<1>1. UNCHANGED <<req, reqN, initSent, consumed, reply, replied>>
  BY DEF reqVars
<1>2. /\ TypeOK /\ Request /\ Replies /\ Counts /\ Len(reply) = 0
      /\ "c2u" \in Dirs /\ "u2c" \in Dirs /\ "c2u" # "u2c"
  BY DEF Inv, Replies, Dirs
<1>3. Request'
  BY <1>1, <1>2 DEF Request
<1>4. Replies'
  BY <1>1, <1>2 DEF Replies, Replying
<1>5. Before'
  BY DEF Before, Early, Replying
<1>6. replied \in Nat /\ replied - Len(reply) = replied
  <2>1. \A r \in Nat : r - 0 = r
    OBVIOUS
  <2>2. replied \in Nat
    BY <1>2, Lengths
  <2>3. QED
    BY <1>2, <2>1, <2>2
<1>7. Counts'
  <2>1. CASE d = "c2u"
    <3>1. consumed + Len(out'["c2u"]) <= got'["c2u"]
      BY <2>1 DEF Base
    <3>2. /\ counted'["c2u"] = Len(out'["c2u"]) + Len(buf'["c2u"])
          /\ buf'["u2c"] = buf["u2c"] /\ out'["u2c"] = out["u2c"]
          /\ counted'["u2c"] = counted["u2c"]
      BY <1>2, <2>1
    <3>3. QED
      BY <1>1, <1>2, <3>1, <3>2 DEF Counts
  <2>2. CASE d = "u2c"
    <3>1. /\ counted'["u2c"] + replied = Len(out'["u2c"]) + Len(buf'["u2c"])
          /\ buf'["c2u"] = buf["c2u"] /\ out'["c2u"] = out["c2u"]
          /\ counted'["c2u"] = counted["c2u"] /\ got'["c2u"] = got["c2u"]
      BY <1>2, <2>2
    <3>2. QED
      BY <1>1, <1>2, <1>6, <3>1 DEF Counts
  <2>3. QED
    BY <2>1, <2>2 DEF Dirs
<1>8. ASSUME NEW e \in Dirs, e # d PROVE Placed(e)' /\ Relays(e)'
  <2>1. Base(e)' = Base(e) /\ \A n : ByteAt(e, n)' = ByteAt(e, n)
    BY <1>1 DEF ByteAt, Base
  <2>2. /\ buf'[e] = buf[e] /\ out'[e] = out[e] /\ got'[e] = got[e]
        /\ op'[e] = op[e] /\ shut'[e] = shut[e]
    BY <1>8
  <2>3. Placed(e) /\ Relays(e)
    BY DEF Inv
  <2>4. Placed(e)'
    BY <2>1, <2>2, <2>3 DEF Placed
  <2>5. Relays(e)'
    BY <2>1, <2>2, <2>3 DEF Relays
  <2>6. QED
    BY <2>4, <2>5
<1>9. QED
  BY <1>3, <1>4, <1>5, <1>7, <1>8 DEF Inv

(* A read of direction d fills its empty buffer. *)
LEMMA RecvInv ==
  ASSUME Inv, NEW d \in Dirs, NEW k \in 1..BufSize, Recv(d, k) PROVE Inv'
<1>1. /\ st = "relay" /\ st' = "relay" /\ op[d] = "recv"
      /\ buf' = [buf EXCEPT ![d] = [n \in 1..k |-> got[d] + n]]
      /\ got' = [got EXCEPT ![d] = @ + k]
      /\ counted' = [counted EXCEPT ![d] = @ + k]
      /\ op' = [op EXCEPT ![d] = "send"]
      /\ UNCHANGED <<reqVars, reply, readDone, out, shut, replied>>
  BY DEF Recv
<1>2. /\ TypeOK /\ Base(d) \in Int /\ Len(out[d]) \in Nat /\ Len(buf[d]) \in Nat
      /\ got[d] \in Nat /\ counted[d] \in Nat
      /\ Base(d) + Len(out[d]) >= 0
      /\ Base(d) + Len(out[d]) + Len(buf[d]) = got[d]
      /\ op[d] = "send" <=> Len(buf[d]) > 0
      /\ shut[d] => op[d] = "none"
      /\ Placed(d)
      /\ d = "c2u" => counted[d] = Len(out[d]) + Len(buf[d])
      /\ d = "u2c" => counted[d] + replied = Len(out[d]) + Len(buf[d])
  BY <1>1, RelayFacts
<1>3. k \in Nat /\ k > 0
  BY StreamAssumption
<1>4. Len(buf[d]) = 0 /\ ~shut[d]
  BY <1>1, <1>2
<1>5. Base(d) + Len(out[d]) = got[d]
  BY <1>2, <1>4
<1>6. PICK t : t = [n \in 1..k |-> got[d] + n]
  OBVIOUS
<1>7. t \in Seq(Nat) /\ Len(t) = k /\ \A n \in 1..k : t[n] = got[d] + n
  <2>1. \A n \in 1..k : t[n] = got[d] + n
    BY <1>6
  <2>2. \A n \in 1..k : got[d] + n \in Nat
    BY <1>2, <1>3
  <2>3. t \in [1..k -> Nat]
    BY <1>6, <2>2
  <2>4. QED
    BY <1>3, <2>1, <2>3, SeqOf
<1>8. /\ buf \in [Dirs -> Seq(Nat)] /\ got \in [Dirs -> Nat]
      /\ counted \in [Dirs -> Nat] /\ op \in [Dirs -> {"none", "recv", "send"}]
  BY <1>2 DEF TypeOK
<1>9. /\ buf'[d] = t /\ got'[d] = got[d] + k /\ counted'[d] = counted[d] + k
      /\ op'[d] = "send" /\ out'[d] = out[d] /\ shut'[d] = shut[d]
      /\ \A e \in Dirs : e # d =>
           /\ buf'[e] = buf[e] /\ out'[e] = out[e] /\ got'[e] = got[e]
           /\ op'[e] = op[e] /\ shut'[e] = shut[e] /\ counted'[e] = counted[e]
  BY <1>1, <1>6, <1>8
<1>10. TypeOK'
  <2>1. /\ buf' \in [Dirs -> Seq(Nat)] /\ got' \in [Dirs -> Nat]
        /\ counted' \in [Dirs -> Nat] /\ op' \in [Dirs -> {"none", "recv", "send"}]
    <3>1. buf' = [buf EXCEPT ![d] = t]
      BY <1>1, <1>6
    <3>2. buf' \in [Dirs -> Seq(Nat)]
      BY <1>7, <1>8, <3>1
    <3>3. got[d] + k \in Nat /\ counted[d] + k \in Nat
      BY <1>2, <1>3
    <3>4. got' \in [Dirs -> Nat] /\ counted' \in [Dirs -> Nat]
      BY <1>1, <1>8, <3>3
    <3>5. op' \in [Dirs -> {"none", "recv", "send"}]
      BY <1>1, <1>8
    <3>6. QED
      BY <3>2, <3>4, <3>5
  <2>2. QED
    BY <1>1, <1>2, <2>1 DEF TypeOK, reqVars
<1>11. Base(d)' = Base(d) /\ \A n : ByteAt(d, n)' = ByteAt(d, n)
  BY <1>1 DEF Base, ByteAt, reqVars
<1>12. Placed(d)'
  <2>1. \A n \in 1..Len(out'[d]) : out'[d][n] = ByteAt(d, n)'
    BY <1>2, <1>9, <1>11 DEF Placed
  <2>2. ASSUME NEW n \in 1..Len(buf'[d])
        PROVE  buf'[d][n] = Base(d)' + Len(out'[d]) + n
    <3>1. n \in 1..k
      BY <1>7, <1>9
    <3>2. t[n] = got[d] + n
      BY <1>7, <3>1
    <3>3. QED
      BY <1>5, <1>9, <1>11, <3>2, Zenon
  <2>3. QED
    BY <2>1, <2>2 DEF Placed
<1>13. Relays(d)'
  <2>1. Base(d)' + Len(out'[d]) + Len(buf'[d]) = got'[d]
    BY <1>5, <1>7, <1>9, <1>11
  <2>2. QED
    BY <1>2, <1>3, <1>4, <1>7, <1>9, <1>11, <2>1 DEF Relays
<1>14. /\ d = "c2u" => counted'[d] = Len(out'[d]) + Len(buf'[d])
       /\ d = "u2c" => counted'[d] + replied = Len(out'[d]) + Len(buf'[d])
  <2>1. PICK o \in Nat, c \in Nat : o = Len(out[d]) /\ c = counted[d]
    BY <1>2
  <2>2. replied \in Nat
    BY <1>2, Lengths
  <2>3. \A i \in Nat : i + 0 = i
    OBVIOUS
  <2>4. (d = "c2u" => c = o) /\ (d = "u2c" => c + replied = o)
    BY <1>2, <1>4, <2>1, <2>3
  <2>5. (d = "c2u" => c + k = o + k) /\ (d = "u2c" => (c + k) + replied = o + k)
    BY <1>3, <2>2, <2>4
  <2>6. QED
    BY <1>7, <1>9, <2>1, <2>5
<1>15. Base(d) + Len(out'[d]) <= got'[d]
  BY <1>2, <1>3, <1>5, <1>9
<1>16. QED
  BY <1>1, <1>9, <1>10, <1>12, <1>13, <1>14, <1>15, RelayStep

(* A send of direction d delivers the first k bytes of its buffer. *)
LEMMA SendInv ==
  ASSUME Inv, NEW d \in Dirs, NEW k \in 1..BufSize, Send(d, k) PROVE Inv'
<1>1. /\ st = "relay" /\ st' = "relay" /\ op[d] = "send" /\ k \in 1..Len(buf[d])
      /\ out' = [out EXCEPT ![d] = @ \o SubSeq(buf[d], 1, k)]
      /\ buf' = [buf EXCEPT ![d] = SubSeq(@, k + 1, Len(@))]
      /\ op' = [op EXCEPT ![d] = IF k < Len(buf[d]) THEN "send"
                                 ELSE IF readDone[d] THEN "none" ELSE "recv"]
      /\ UNCHANGED <<reqVars, reply, readDone, got, shut, counted, replied>>
  BY DEF Send
<1>2. /\ TypeOK /\ Base(d) \in Int /\ Len(out[d]) \in Nat /\ Len(buf[d]) \in Nat
      /\ got[d] \in Nat /\ buf[d] \in Seq(Nat) /\ out[d] \in Seq(Int)
      /\ Base(d) + Len(out[d]) >= 0
      /\ Base(d) + Len(out[d]) + Len(buf[d]) = got[d]
      /\ shut[d] => op[d] = "none"
      /\ Placed(d)
      /\ d = "c2u" => counted[d] = Len(out[d]) + Len(buf[d])
      /\ d = "u2c" => counted[d] + replied = Len(out[d]) + Len(buf[d])
  BY <1>1, RelayFacts
<1>3. PICK B \in Int : B = Base(d)
  BY <1>2
<1>4. PICK o \in Nat : o = Len(out[d])
  BY <1>2
<1>5. PICK b \in Nat : b = Len(buf[d])
  BY <1>2
<1>6. B + o >= 0 /\ B + o + b = got[d] /\ k \in 1..b /\ k \in Nat /\ k > 0
  <2>1. k \in 1..b
    BY <1>1, <1>5
  <2>2. QED
    BY <1>2, <1>3, <1>4, <1>5, <2>1
<1>7. PICK t : t = SubSeq(buf[d], 1, k)
  OBVIOUS
<1>8. PICK rest : rest = SubSeq(buf[d], k + 1, Len(buf[d]))
  OBVIOUS
<1>9. /\ t \in Seq(Nat) /\ Len(t) = k /\ \A i \in 1..k : t[i] = buf[d][i]
      /\ rest \in Seq(Nat) /\ Len(rest) = b - k
      /\ \A i \in 1..(b - k) : rest[i] = buf[d][k + i]
  <2>1. PICK s \in Seq(Nat) : s = buf[d]
    BY <1>2
  <2>2. /\ t = SubSeq(s, 1, k) /\ rest = SubSeq(s, k + 1, Len(s))
        /\ k \in 1..Len(s) /\ Len(s) = b
    BY <1>1, <1>5, <1>7, <1>8, <2>1
  <2>3. /\ t \in Seq(Nat) /\ Len(t) = k /\ \A i \in 1..k : t[i] = s[i]
        /\ rest \in Seq(Nat) /\ Len(rest) = Len(s) - k
        /\ \A i \in 1..(Len(s) - k) : rest[i] = s[k + i]
    BY <2>2, CutSeq, ZenonT(30)
  <2>4. QED
    BY <2>1, <2>2, <2>3
<1>10. \A i \in 1..b : buf[d][i] = B + o + i
  BY <1>2, <1>3, <1>4, <1>5 DEF Placed
<1>11. ASSUME NEW i \in 1..Len(t) PROVE t[i] = ByteAt(d, Len(out[d]) + i)
  <2>1. i \in 1..k /\ i \in 1..b /\ i \in Nat /\ i > 0
    BY <1>5, <1>6, <1>9
  <2>2. t[i] = B + o + i
    BY <1>9, <1>10, <2>1
  <2>3. B + (o + i) = B + o + i /\ B + (o + i) > 0
    BY <1>3, <1>4, <1>6, <2>1
  <2>4. QED
    BY <1>3, <1>4, <2>2, <2>3 DEF ByteAt
<1>12. consumed' = consumed /\ replied' = replied
  BY <1>1 DEF reqVars
<1>13. /\ out' \in [Dirs -> Seq(Int)]
       /\ Len(out'[d]) = o + k
       /\ \A n \in 1..Len(out'[d]) : out'[d][n] = ByteAt(d, n)'
       /\ \A e \in Dirs : e # d => out'[e] = out[e]
  <2>1. t \in Seq(Int)
    BY <1>9, SeqMonotonic
  <2>2. out' = [out EXCEPT ![d] = @ \o t]
    BY <1>1, <1>7
  <2>3. QED
    BY <1>2, <1>4, <1>9, <1>11, <1>12, <2>1, <2>2, Delivered
<1>14. /\ buf \in [Dirs -> Seq(Nat)] /\ op \in [Dirs -> {"none", "recv", "send"}]
  BY <1>2 DEF TypeOK
<1>15. /\ buf' = [buf EXCEPT ![d] = rest]
       /\ op' = [op EXCEPT ![d] = IF k < b THEN "send"
                                  ELSE IF readDone[d] THEN "none" ELSE "recv"]
  BY <1>1, <1>5, <1>8
<1>16. /\ buf' \in [Dirs -> Seq(Nat)] /\ buf'[d] = rest
       /\ op' \in [Dirs -> {"none", "recv", "send"}]
       /\ op'[d] = "send" <=> k < b
       /\ \A e \in Dirs : e # d => buf'[e] = buf[e] /\ op'[e] = op[e]
  BY <1>9, <1>14, <1>15
<1>17. TypeOK'
  BY <1>1, <1>2, <1>13, <1>16 DEF TypeOK, reqVars
<1>18. Base(d)' = B
  BY <1>3, <1>12 DEF Base
<1>19. Placed(d)'
  <2>1. ASSUME NEW n \in 1..Len(buf'[d])
        PROVE  buf'[d][n] = Base(d)' + Len(out'[d]) + n
    <3>1. n \in 1..(b - k)
      BY <1>9, <1>16
    <3>2. k + n \in 1..b /\ n \in Nat
      BY <1>5, <1>6, <3>1
    <3>3. rest[n] = B + o + (k + n)
      BY <1>9, <1>10, <3>1, <3>2
    <3>4. B + o + (k + n) = B + (o + k) + n
      BY <1>3, <1>4, <1>6, <3>2
    <3>5. QED
      BY <1>13, <1>16, <1>18, <3>3, <3>4
  <2>2. QED
    BY <1>13, <2>1 DEF Placed
<1>20. /\ B + (o + k) >= 0 /\ B + (o + k) + (b - k) = got[d]
       /\ B + (o + k) <= got[d] /\ (k < b <=> b - k > 0)
  <2>1. PICK g \in Nat : g = got[d]
    BY <1>2
  <2>2. B + o >= 0 /\ B + o + b = g /\ k \in Nat /\ k > 0 /\ k <= b
    BY <1>6, <2>1
  <2>3. /\ B + (o + k) >= 0 /\ B + (o + k) + (b - k) = g
        /\ B + (o + k) <= g /\ (k < b <=> b - k > 0)
    BY <2>2
  <2>4. QED
    BY <2>1, <2>3
<1>21. Relays(d)'
  <2>1. ~shut[d] /\ shut' = shut /\ got' = got
    BY <1>1, <1>2
  <2>2. op'[d] = "send" <=> Len(buf'[d]) > 0
    BY <1>9, <1>16, <1>20
  <2>3. Base(d)' + Len(out'[d]) >= 0
        /\ Base(d)' + Len(out'[d]) + Len(buf'[d]) = got'[d]
    BY <1>9, <1>13, <1>16, <1>18, <1>20, <2>1
  <2>4. QED
    BY <2>1, <2>2, <2>3 DEF Relays
<1>22. /\ d = "c2u" => counted'[d] = Len(out'[d]) + Len(buf'[d])
       /\ d = "u2c" => counted'[d] + replied = Len(out'[d]) + Len(buf'[d])
  <2>1. o + b = (o + k) + (b - k)
    BY <1>6
  <2>2. Len(out'[d]) + Len(buf'[d]) = Len(out[d]) + Len(buf[d])
    BY <1>4, <1>5, <1>9, <1>13, <1>16, <2>1
  <2>3. QED
    BY <1>1, <1>2, <2>2
<1>23. Base(d) + Len(out'[d]) <= got'[d]
  BY <1>1, <1>3, <1>13, <1>20
<1>24. /\ st' \in {"relay", "closed"} /\ UNCHANGED <<reqVars, reply, replied>>
       /\ \A e \in Dirs : e # d =>
            /\ buf'[e] = buf[e] /\ out'[e] = out[e] /\ got'[e] = got[e]
            /\ op'[e] = op[e] /\ shut'[e] = shut[e] /\ counted'[e] = counted[e]
  BY <1>1, <1>13, <1>16
<1>25. QED
  BY <1>1, <1>17, <1>19, <1>21, <1>22, <1>23, <1>24, RelayStep

(* The end of a stream comes with an empty buffer: all is delivered. *)
LEMMA EndInv ==
  ASSUME Inv, NEW d \in Dirs, End(d) PROVE Inv'
<1>1. /\ st = "relay" /\ st' \in {"relay", "closed"} /\ op[d] = "recv"
      /\ shut' = [shut EXCEPT ![d] = TRUE]
      /\ readDone' = [readDone EXCEPT ![d] = TRUE]
      /\ op' = [op EXCEPT ![d] = "none"]
      /\ UNCHANGED <<reqVars, reply, buf, got, out, counted, replied>>
  BY DEF End
<1>2. /\ TypeOK /\ Base(d) \in Int /\ Len(out[d]) \in Nat /\ Len(buf[d]) \in Nat
      /\ got[d] \in Nat
      /\ Base(d) + Len(out[d]) >= 0
      /\ Base(d) + Len(out[d]) + Len(buf[d]) = got[d]
      /\ op[d] = "send" <=> Len(buf[d]) > 0
      /\ Placed(d)
      /\ d = "c2u" => counted[d] = Len(out[d]) + Len(buf[d])
      /\ d = "u2c" => counted[d] + replied = Len(out[d]) + Len(buf[d])
  BY <1>1, RelayFacts
<1>3. Len(buf[d]) = 0
  BY <1>1, <1>2
<1>4. Base(d) + Len(out[d]) = got[d]
  BY <1>2, <1>3
<1>5. /\ op \in [Dirs -> {"none", "recv", "send"}]
      /\ readDone \in [Dirs -> BOOLEAN] /\ shut \in [Dirs -> BOOLEAN]
  BY <1>2 DEF TypeOK
<1>6. /\ op' \in [Dirs -> {"none", "recv", "send"}] /\ op'[d] = "none"
      /\ \A e \in Dirs : e # d => op'[e] = op[e] /\ shut'[e] = shut[e]
  BY <1>1, <1>5
<1>7. readDone' \in [Dirs -> BOOLEAN] /\ shut' \in [Dirs -> BOOLEAN]
  BY <1>1, <1>5
<1>8. TypeOK'
  BY <1>1, <1>2, <1>6, <1>7 DEF TypeOK, reqVars
<1>9. Base(d)' = Base(d) /\ \A n : ByteAt(d, n)' = ByteAt(d, n)
  BY <1>1 DEF Base, ByteAt, reqVars
<1>10. Placed(d)'
  BY <1>1, <1>2, <1>9 DEF Placed
<1>11. Relays(d)'
  BY <1>1, <1>2, <1>3, <1>4, <1>6, <1>9 DEF Relays
<1>12. Base(d) + Len(out'[d]) <= got'[d]
  BY <1>1, <1>2, <1>4
<1>13. QED
  BY <1>1, <1>2, <1>6, <1>8, <1>10, <1>11, <1>12, RelayStep

(* The invariant is inductive. *)
LEMMA NextInv == Inv /\ [Next]_vars => Inv'
<1> SUFFICES ASSUME Inv, [Next]_vars PROVE Inv'
  OBVIOUS
<1>1. CASE \E k \in 1..MaxReqLen : RecvReq(k) \/ SendUp(k)
  BY <1>1, RecvReqInv, SendUpInv
<1>2. CASE HookDecides
  BY <1>2, HookRejectInv, HookMoreInv, HookRelayInv, StreamAssumption
     DEF HookDecides
<1>3. CASE HookTooMuch \/ Failed
  BY <1>3, ClosedInv DEF HookTooMuch, Failed
<1>4. CASE \E k \in 1..ReplyMax : ReplySent(k)
  BY <1>4, ReplySentInv
<1>5. CASE Relaying
  BY <1>5, SendInv, EndInv, RecvInv DEF Relaying, Sends
<1>6. CASE UNCHANGED vars
  <2>1. /\ UNCHANGED <<st, req, reqN, initSent, consumed, reply, buf, op>>
        /\ UNCHANGED <<readDone, shut, got, out, counted, replied>>
    BY <1>6 DEF vars, reqVars, relayVars
  <2>2. TypeOK' /\ Request' /\ Replies' /\ Before' /\ Counts'
    BY <2>1 DEF Inv, TypeOK, Request, Replies, Before, Counts
  <2>3. ASSUME NEW d \in Dirs PROVE Placed(d)' /\ Relays(d)'
    <3>1. Base(d)' = Base(d) /\ \A n : ByteAt(d, n)' = ByteAt(d, n)
      BY <2>1 DEF Base, ByteAt
    <3>2. QED
      BY <2>1, <3>1 DEF Inv, Placed, Relays
  <2>4. QED
    BY <2>2, <2>3 DEF Inv
<1>7. QED
  BY <1>1, <1>2, <1>3, <1>4, <1>5, <1>6 DEF Next

(* Every state of a connection satisfies the invariant. *)
THEOREM StreamInv == SafeSpec => []Inv
<1>1. QED
  BY InitInv, NextInv, PTL DEF SafeSpec

(* No operation is prepared with an empty buffer, and the request buffer   *)
(* stays within MaxReqLen, for every size of the buffers.                  *)
THEOREM StreamBuffersFit == SafeSpec => []BuffersFit
<1>1. Inv => BuffersFit
  <2> SUFFICES ASSUME Inv PROVE BuffersFit
    OBVIOUS
  <2>1. TypeOK /\ Request /\ Replies /\ \A d \in Dirs : Relays(d)
    BY DEF Inv
  <2>2. Len(<<>>) = 0
    BY EmptySeq
  <2>3. /\ st \in Replying => reply # <<>>
        /\ \A d \in Dirs : st = "relay" /\ op[d] = "send" => buf[d] # <<>>
    BY <2>1, <2>2 DEF Replies, Relays
  <2>4. Len(req) <= MaxReqLen
    BY <2>1, StreamAssumption DEF Request
  <2>5. QED
    BY <2>1, <2>3, <2>4 DEF Request, BuffersFit
<1>2. QED
  BY <1>1, StreamInv, PTL

(* Nothing is lost, repeated, reordered or cut off, and all is counted.    *)
THEOREM StreamKeepsBytes == SafeSpec => []StreamsIntact
<1>1. Inv => StreamsIntact
  <2> SUFFICES ASSUME Inv PROVE StreamsIntact
    OBVIOUS
  <2>1. TypeOK /\ Request /\ Counts /\ \A d \in Dirs : Placed(d) /\ Relays(d)
    BY DEF Inv
  <2>2. /\ "c2u" \in Dirs /\ "u2c" \in Dirs
        /\ Len(out["c2u"]) \in Nat /\ Len(out["u2c"]) \in Nat
        /\ out["c2u"] \in Seq(Int) /\ out["u2c"] \in Seq(Int)
        /\ consumed \in Nat /\ replied \in Nat /\ got["u2c"] \in Nat
    BY <2>1, Lengths
  <2>3. /\ DOMAIN out["c2u"] = 1..Len(out["c2u"])
        /\ DOMAIN out["u2c"] = 1..Len(out["u2c"])
    BY <2>2, LenProperties
  <2>4. HookSeesRequest
    BY <2>1 DEF Request, HookSeesRequest
  <2>5. ASSUME NEW n \in 1..Len(out["c2u"]) PROVE out["c2u"][n] = consumed + n
    <3>1. out["c2u"][n] = ByteAt("c2u", n)
      BY <2>1, <2>2 DEF Placed
    <3>2. consumed + n > 0
      BY <2>2
    <3>3. QED
      BY <3>1, <3>2 DEF ByteAt, Base
  <2>6. UpstreamGets
    BY <2>1, <2>3, <2>5 DEF Counts, UpstreamGets
  <2>7. ASSUME NEW n \in 1..Len(out["u2c"])
        PROVE  out["u2c"][n] = IF n <= replied THEN -n ELSE n - replied
    <3>1. out["u2c"][n] = ByteAt("u2c", n) /\ n \in Nat
      BY <2>1, <2>2 DEF Placed
    <3>2. \A r \in Nat, i \in Nat : (-r + i > 0 <=> ~(i <= r)) /\ -r + i = i - r
      OBVIOUS
    <3>3. (-replied + n > 0 <=> ~(n <= replied)) /\ -replied + n = n - replied
      BY <2>2, <3>1, <3>2
    <3>4. QED
      BY <3>1, <3>3 DEF ByteAt, Base
  <2>8. ClientGets
    BY <2>3, <2>7 DEF ClientGets
  <2>9. EndComesLast
    <3>1. shut["c2u"] => consumed + Len(out["c2u"]) = got["c2u"]
      BY <2>1, <2>2 DEF Relays, Base
    <3>2. shut["u2c"] => -replied + Len(out["u2c"]) = got["u2c"]
      BY <2>1, <2>2 DEF Relays, Base
    <3>3. \A r \in Nat, i \in Nat, g \in Nat : -r + i = g => i = r + g
      OBVIOUS
    <3>4. shut["u2c"] => Len(out["u2c"]) = replied + got["u2c"]
      <4>1. PICK i \in Nat, g \in Nat : i = Len(out["u2c"]) /\ g = got["u2c"]
        BY <2>2
      <4>2. (shut["u2c"] => -replied + i = g) /\ replied \in Nat
        BY <2>2, <3>2, <4>1
      <4>3. shut["u2c"] => i = replied + g
        BY <3>3, <4>2
      <4>4. QED
        BY <4>1, <4>3
    <3>5. QED
      BY <3>1, <3>4 DEF EndComesLast
  <2>10. BytesCounted
    BY <2>1 DEF Counts, BytesCounted
  <2>11. QED
    BY <2>4, <2>6, <2>8, <2>9, <2>10 DEF StreamsIntact
<1>2. QED
  BY <1>1, StreamInv, PTL

=============================================================================
