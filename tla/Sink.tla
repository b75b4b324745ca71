-------------------------------- MODULE Sink ---------------------------------
(***************************************************************************)
(* The upstream of the gate (package sinksrv): ServeAll, which reads one   *)
(* request, writes one reply and closes, and ListenAndServeEcho, which     *)
(* returns what it receives until the peer closes.                         *)
(***************************************************************************)
EXTENDS Netpoll

VARIABLES
  echo,       \* the sink was started with -echo
  sink,       \* where the goroutine of the upstream connection is
  served,     \* connections counted in served
  misread,    \* connections counted in auditFail
  echoed      \* tokens counted by countingWriter, per connection

sinkVars == <<echo, sink, served, misread, echoed>>

SinkInit ==
  /\ echo \in BOOLEAN
  /\ sink = [c \in Conns |-> "none"]
  /\ served = {} /\ misread = {} /\ echoed = [c \in Conns |-> 0]

At(c, from, to) == sink[c] = from /\ sink' = [sink EXCEPT ![c] = to]

SinkAccept(c) ==
  /\ sock[c]["sk"] = "open"
  /\ At(c, "none", IF echo THEN "echo" ELSE "read")
  /\ UNCHANGED <<sockVars, echo, served, misread, echoed>>

(* ReadFull and the audit of the request; a mismatch is counted and the    *)
(* request answered all the same.                                          *)
SinkRead(c) ==
  /\ Readable(c, "sk") /\ At(c, "read", "write")
  /\ misread' = IF Head(inbox[c]["sk"]) = "request" THEN misread
                ELSE misread \cup {c}
  /\ inbox' = Drop(inbox, c, "sk")
  /\ UNCHANGED <<sock, echo, served, echoed>>

(* Seeded fault: the read has no deadline. *)
SinkReadFailsLate(c) ==
  /\ AtEnd(c, "sk") /\ At(c, "read", "done")
  /\ Close(c, {"sk"}, inbox)
  /\ UNCHANGED <<echo, served, misread, echoed>>

(* The read fails at the end of the stream, or at the deadline, whatever   *)
(* the peer does.                                                          *)
SinkReadFails(c) ==
  /\ At(c, "read", "done")
  /\ Close(c, {"sk"}, inbox)
  /\ UNCHANGED <<echo, served, misread, echoed>>

SinkWrite(c) ==
  /\ At(c, "write", "count") /\ Write(c, "sk", "reply")
  /\ UNCHANGED <<sock, echo, served, misread, echoed>>

(* The deadline covers the write, too. *)
SinkWriteFails(c) ==
  /\ At(c, "write", "done")
  /\ Close(c, {"sk"}, inbox)
  /\ UNCHANGED <<echo, served, misread, echoed>>

(* served.Add after the write, then the deferred close. *)
SinkCount(c) ==
  /\ At(c, "count", "done")
  /\ served' = served \cup {c}
  /\ Close(c, {"sk"}, inbox)
  /\ UNCHANGED <<echo, misread, echoed>>

(* io.Copy of a connection to itself, through countingWriter, which counts *)
(* after the write.                                                        *)
Echo(c) ==
  /\ At(c, "echo", "tally") /\ Readable(c, "sk") /\ HasRoom(c, "sk")
  /\ inbox' = Arrive(Drop(inbox, c, "sk"), c, "sk", Head(inbox[c]["sk"]))
  /\ UNCHANGED <<sock, echo, served, misread, echoed>>

EchoCount(c) ==
  /\ At(c, "tally", "echo")
  /\ echoed' = [echoed EXCEPT ![c] = @ + 1]
  /\ UNCHANGED <<sockVars, echo, served, misread>>

EchoEnds(c) ==
  /\ CopyOver(c, "sk", "sk") /\ At(c, "echo", "done")
  /\ Close(c, {"sk"}, inbox)
  /\ UNCHANGED <<echo, served, misread, echoed>>

SinkStep(c) ==
  \/ SinkAccept(c) \/ SinkRead(c) \/ SinkReadFails(c)
  \/ SinkWrite(c) \/ SinkWriteFails(c) \/ SinkCount(c)
  \/ Echo(c) \/ EchoCount(c) \/ EchoEnds(c)
=============================================================================
