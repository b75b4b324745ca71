------------------------------- MODULE Tunnel --------------------------------
(***************************************************************************)
(* The load side of the experiments with long-lived connections, which run *)
(* against the echo sink.  bulkgen streams a pattern in one goroutine and  *)
(* verifies what comes back in another; holdgen sends a request, then a    *)
(* keepalive now and then, and waits for each to come back.                *)
(* Token n stands for the n-th chunk of the stream.                        *)
(***************************************************************************)
EXTENDS Sink

CONSTANTS
  Tunnels,     \* the connections these programs open
  MaxChunks    \* chunks sent on one connection at most

ASSUME TunnelAssumption == Tunnels \subseteq Conns /\ MaxChunks \in Nat

VARIABLES
  prog,        \* the program that opens connection c: "bulkgen", "holdgen"
  writer,      \* where the writer is (for holdgen: the only goroutine)
  reader,      \* where the reader is (for holdgen: "off")
  woff, roff,  \* chunks written, and read back and verified
  mismatch,    \* connections counted in auditFail
  over         \* the time is up: stop is closed, the deadline has passed

tunnelVars == <<prog, writer, reader, woff, roff, mismatch, over>>

TunnelInit ==
  /\ prog \in [Tunnels -> {"bulkgen", "holdgen"}]
  /\ writer = [c \in Tunnels |-> "off"] /\ reader = [c \in Tunnels |-> "off"]
  /\ woff = [c \in Tunnels |-> 0] /\ roff = [c \in Tunnels |-> 0]
  /\ mismatch = {} /\ over = FALSE

TimeUp == ~over /\ over' = TRUE
          /\ UNCHANGED <<prog, writer, reader, woff, roff, mismatch, sockVars>>

Open(c, p, w, r) ==
  /\ prog[c] = p /\ sock[c]["cl"] = "none" /\ Connect(c, "cl")
  /\ writer' = [writer EXCEPT ![c] = w] /\ reader' = [reader EXCEPT ![c] = r]
  /\ UNCHANGED <<prog, inbox, woff, roff, mismatch, over>>

WriteTo(c, from, to) ==
  writer[c] = from /\ writer' = [writer EXCEPT ![c] = to]

SendChunk(c, from, to) ==
  /\ WriteTo(c, from, to) /\ woff[c] < MaxChunks
  /\ sock[c]["cl"] = "open" /\ Write(c, "cl", woff[c] + 1)
  /\ woff' = [woff EXCEPT ![c] = @ + 1]
  /\ UNCHANGED <<prog, sock, reader, roff, mismatch, over>>

-----------------------------------------------------------------------------
(* bulkgen.                                                                *)

BulkDials(c) == Open(c, "bulkgen", "select", "select")

(* The writer: look at stop, write a chunk, again. *)
BulkWriterLooks(c) ==
  /\ prog[c] = "bulkgen"
  /\ WriteTo(c, "select", IF over THEN "done" ELSE "write")
  /\ UNCHANGED <<prog, reader, woff, roff, mismatch, over, sockVars>>

BulkWrites(c) == prog[c] = "bulkgen" /\ SendChunk(c, "write", "select")

(* The connection is closed, or a blocked write meets its deadline. *)
BulkWriteFails(c) ==
  /\ prog[c] = "bulkgen" /\ WriteTo(c, "write", "done")
  /\ sock[c]["cl"] = "closed" \/ PeerGone(c, "cl") \/ ~HasRoom(c, "cl")
  /\ UNCHANGED <<prog, reader, woff, roff, mismatch, over, sockVars>>

ReaderReturns(c, in) ==
  /\ reader' = [reader EXCEPT ![c] = "done"] /\ Close(c, {"cl"}, in)

(* The reader: look at stop and at the writer's done, read, verify. *)
BulkReaderLooks(c) ==
  /\ reader[c] = "select"
  /\ IF over \/ writer[c] = "done"
       THEN ReaderReturns(c, inbox)
       ELSE reader' = [reader EXCEPT ![c] = "read"] /\ UNCHANGED sockVars
  /\ UNCHANGED <<prog, writer, woff, roff, mismatch, over>>

(* Seeded fault: one goroutine writes its chunks, then reads them back. *)
BulkReadsAfter(c) ==
  /\ reader[c] = "read" /\ Readable(c, "cl")
  /\ woff[c] = MaxChunks \/ writer[c] = "done"
  /\ inbox' = Drop(inbox, c, "cl")
  /\ roff' = [roff EXCEPT ![c] = @ + 1]
  /\ reader' = [reader EXCEPT ![c] = "select"]
  /\ UNCHANGED <<prog, sock, writer, woff, mismatch, over>>

BulkReads(c) ==
  /\ reader[c] = "read" /\ Readable(c, "cl")
  /\ IF Head(inbox[c]["cl"]) = roff[c] + 1
       THEN /\ inbox' = Drop(inbox, c, "cl")
            /\ roff' = [roff EXCEPT ![c] = @ + 1]
            /\ reader' = [reader EXCEPT ![c] = "select"]
            /\ UNCHANGED <<sock, mismatch>>
       ELSE /\ ReaderReturns(c, Drop(inbox, c, "cl"))
            /\ mismatch' = mismatch \cup {c} /\ UNCHANGED roff
  /\ UNCHANGED <<prog, writer, woff, over>>

(* The end of the stream, or a read that meets its deadline. *)
BulkReadFails(c) ==
  /\ reader[c] = "read" /\ ReaderReturns(c, inbox)
  /\ UNCHANGED <<prog, writer, woff, roff, mismatch, over>>

BulkEnds(c) == AtEnd(c, "cl") /\ BulkReadFails(c)
BulkExpires(c) == inbox[c]["cl"] = <<>> /\ BulkReadFails(c)

-----------------------------------------------------------------------------
(* holdgen.                                                                *)

HoldDials(c) == Open(c, "holdgen", "send", "off")

HoldSends(c) == prog[c] = "holdgen" /\ SendChunk(c, "send", "await")

HoldReads(c) ==
  /\ Readable(c, "cl") /\ WriteTo(c, "await", "send")
  /\ inbox' = Drop(inbox, c, "cl")
  /\ roff' = [roff EXCEPT ![c] = @ + 1]
  /\ UNCHANGED <<prog, sock, reader, woff, mismatch, over>>

HoldReturns(c, from) ==
  /\ WriteTo(c, from, "done") /\ Close(c, {"cl"}, inbox)
  /\ UNCHANGED <<prog, reader, woff, roff, mismatch, over>>

(* A write or a read that fails or meets its deadline. *)
HoldFails(c) ==
  /\ prog[c] = "holdgen" /\ inbox[c]["cl"] = <<>>
  /\ HoldReturns(c, "send") \/ HoldReturns(c, "await")

(* The hold time is over: looked at after the echo of a keepalive. *)
HoldEnds(c) == over /\ roff[c] > 0 /\ HoldReturns(c, "send")

-----------------------------------------------------------------------------
(* The steps that need no deadline. *)
ClientStep(c) ==
  \/ BulkDials(c) \/ BulkWriterLooks(c) \/ BulkWrites(c)
  \/ BulkReaderLooks(c) \/ BulkReads(c) \/ BulkEnds(c)
  \/ HoldDials(c) \/ HoldSends(c) \/ HoldReads(c) \/ HoldEnds(c)

TunnelStep ==
  TimeUp \/ \E c \in Tunnels : ClientStep(c) \/ BulkWriteFails(c)
                               \/ BulkExpires(c) \/ HoldFails(c)
=============================================================================
