------------------------------- MODULE Netpoll -------------------------------
(***************************************************************************)
(* relay-netpoll, the baseline relay of the gate: one goroutine per        *)
(* accepted connection, and one more that copies from the client to the    *)
(* upstream.  A tunnel is a client connection and, once the relay has      *)
(* dialled, an upstream connection.  Programs at either end are in Sink,   *)
(* Churn and Tunnel; they use the sockets through the operators below.     *)
(*                                                                         *)
(* A token stands for what the programs read with one ReadFull (a request, *)
(* a reply, a keepalive) or for a chunk of a stream.  io.Copy moves a      *)
(* token at a time; the room in its own buffer is left out.                *)
(***************************************************************************)
EXTENDS Naturals, Sequences, FiniteSets

CONSTANTS
  Conns,       \* tunnels, numbered from 1 in the order they are dialled
  SockCap,     \* tokens that fit between a sender and its receiver
  MaxWedged    \* connections an overwhelmed relay may leave alone for ever

ASSUME NetpollAssumption ==
  /\ Conns \subseteq Nat \ {0} /\ IsFiniteSet(Conns)
  /\ SockCap \in Nat \ {0} /\ MaxWedged \in Nat

VARIABLES
  sock,        \* sock[c][e]: "none", "open" or "closed", for each end e
  inbox,       \* inbox[c][e]: tokens that arrived at end e and are unread
  relay,       \* where the goroutine of the connection is
  copier,      \* where the goroutine of its upward copy is
  initial,     \* the request the relay has read
  completed,   \* tunnels counted in completed
  wedged       \* tunnels the relay does not serve any more

sockVars == <<sock, inbox>>
relayVars == <<relay, copier, initial, completed, wedged>>

(* The ends of a tunnel: the client, the relay's two sockets, the sink. *)
Ends == {"cl", "rc", "ru", "sk"}
Peer(e) == CASE e = "cl" -> "rc" [] e = "rc" -> "cl"
             [] e = "ru" -> "sk" [] e = "sk" -> "ru"

-----------------------------------------------------------------------------
(* TCP sockets.                                                            *)

PeerGone(c, e) == sock[c][Peer(e)] = "closed"

Readable(c, e) == sock[c][e] = "open" /\ inbox[c][e] # <<>>

(* A read reports the end of the stream, or that the socket was closed. *)
AtEnd(c, e) == sock[c][e] = "closed" \/ (inbox[c][e] = <<>> /\ PeerGone(c, e))

HasRoom(c, e) == PeerGone(c, e) \/ Len(inbox[c][Peer(e)]) < SockCap

(* Sending from e; what is sent to a closed socket is lost. *)
Arrive(in, c, e, tok) ==
  IF PeerGone(c, e) THEN in ELSE [in EXCEPT ![c][Peer(e)] = Append(@, tok)]

Drop(in, c, e) == [in EXCEPT ![c][e] = Tail(@)]

Write(c, e, tok) == HasRoom(c, e) /\ inbox' = Arrive(inbox, c, e, tok)

(* Closing the ends es of tunnel c, after the inboxes have become in.  A   *)
(* close with unread input resets the connection: the peer may lose what   *)
(* it has not read.                                                        *)
Close(c, es, in) ==
  /\ sock' = [sock EXCEPT ![c] = [e \in Ends |->
                IF e \in es /\ @[e] = "open" THEN "closed" ELSE @[e]]]
  /\ \E lost \in SUBSET {Peer(e) : e \in {x \in es : in[c][x] # <<>>}} :
       inbox' = [in EXCEPT ![c] = [e \in Ends |->
                   IF e \in lost \cup es THEN <<>> ELSE @[e]]]

(* A connection between a dialling end and the backlog of a listener. *)
Connect(c, e) == sock' = [sock EXCEPT ![c] = [@ EXCEPT ![e] = "open",
                                                       ![Peer(e)] = "open"]]

-----------------------------------------------------------------------------
RelayInit ==
  /\ sock = [c \in Conns |-> [e \in Ends |-> "none"]]
  /\ inbox = [c \in Conns |-> [e \in Ends |-> <<>>]]
  /\ relay = [c \in Conns |-> "none"] /\ copier = [c \in Conns |-> "none"]
  /\ initial = [c \in Conns |-> <<>>]
  /\ completed = {} /\ wedged = {}

Go(c, from, to) ==
  /\ c \notin wedged /\ relay[c] = from
  /\ relay' = [relay EXCEPT ![c] = to]

(* Accept, and the goroutine it starts. *)
Accept(c) ==
  /\ sock[c]["rc"] = "open" /\ Go(c, "none", "initial")
  /\ UNCHANGED <<sockVars, copier, initial, completed, wedged>>

(* ReadFull of the request.  There is no deadline. *)
ReadInitial(c) ==
  /\ Readable(c, "rc") /\ Go(c, "initial", "hook")
  /\ initial' = [initial EXCEPT ![c] = <<Head(inbox[c]["rc"])>>]
  /\ inbox' = Drop(inbox, c, "rc")
  /\ UNCHANGED <<sock, copier, completed, wedged>>

(* The goroutine returns: its deferred calls close what it has opened. *)
Return(c, from) ==
  /\ Go(c, from, "done")
  /\ Close(c, {"rc", "ru"}, inbox)
  /\ UNCHANGED <<copier, initial, wedged>>

ReadInitialFails(c) ==
  AtEnd(c, "rc") /\ Return(c, "initial") /\ UNCHANGED completed

(* Seeded fault: the upward copy starts before the request is written. *)
DialCopies(c) ==
  /\ Go(c, "hook", "dialed") /\ Connect(c, "ru")
  /\ copier' = [copier EXCEPT ![c] = "copy"]
  /\ UNCHANGED <<inbox, initial, completed, wedged>>

(* The hook's spin and delay, then the dial. *)
Dial(c) ==
  /\ Go(c, "hook", "dialed") /\ Connect(c, "ru")
  /\ UNCHANGED <<inbox, copier, initial, completed, wedged>>

DialFails(c) == Return(c, "hook") /\ UNCHANGED completed

WriteInitial(c) ==
  /\ Go(c, "dialed", "copy") /\ Write(c, "ru", initial[c][1])
  /\ copier' = [copier EXCEPT ![c] = "copy"]
  /\ UNCHANGED <<sock, initial, completed, wedged>>

WriteInitialFails(c) ==
  PeerGone(c, "ru") /\ Return(c, "dialed") /\ UNCHANGED completed

(* One token from socket a to socket b of the relay. *)
Move(c, a, b) ==
  /\ Readable(c, a) /\ sock[c][b] = "open" /\ HasRoom(c, b)
  /\ inbox' = Arrive(Drop(inbox, c, a), c, b, Head(inbox[c][a]))

(* io.Copy(up, client), which closes nothing when it ends. *)
CopyUp(c) ==
  /\ c \notin wedged /\ copier[c] = "copy" /\ Move(c, "rc", "ru")
  /\ UNCHANGED <<sock, relayVars>>

(* A copy ends at the end of its input, or when it has something to write  *)
(* and the write fails.                                                    *)
CopyOver(c, a, b) ==
  AtEnd(c, a) \/ (Readable(c, a) /\ (PeerGone(c, b) \/ sock[c][b] = "closed"))

CopyUpEnds(c) ==
  /\ c \notin wedged /\ copier[c] = "copy" /\ CopyOver(c, "rc", "ru")
  /\ copier' = [copier EXCEPT ![c] = "done"]
  /\ UNCHANGED <<sockVars, relay, initial, completed, wedged>>

(* io.Copy(client, up), after which the connection counts as completed,    *)
(* and both sockets are closed.                                            *)
CopyDown(c) ==
  /\ c \notin wedged /\ relay[c] = "copy" /\ Move(c, "ru", "rc")
  /\ UNCHANGED <<sock, relayVars>>

CopyDownEnds(c) ==
  /\ CopyOver(c, "ru", "rc") /\ Return(c, "copy")
  /\ completed' = completed \cup {c}

RelayStep(c) ==
  \/ Accept(c) \/ ReadInitial(c) \/ ReadInitialFails(c)
  \/ Dial(c) \/ DialFails(c) \/ WriteInitial(c) \/ WriteInitialFails(c)
  \/ CopyDown(c) \/ CopyDownEnds(c)

CopierStep(c) == CopyUp(c) \/ CopyUpEnds(c)

(* The fault the load generator is built for: a stalled relay. *)
Wedge(c) ==
  /\ relay[c] \notin {"none", "done"} /\ Cardinality(wedged) < MaxWedged
  /\ wedged' = wedged \cup {c}
  /\ UNCHANGED <<sockVars, relay, copier, initial, completed>>
=============================================================================
