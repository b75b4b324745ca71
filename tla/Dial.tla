-------------------------------- MODULE Dial ---------------------------------
(***************************************************************************)
(* The upstream leg of the gate: the ports a sink binds (cmd/sink), the    *)
(* grid of targets over which the hooks of a relay worker spread their     *)
(* dials (package hook), and the dial itself (rawsock.DialFP).             *)
(* Ports are numbered from the base port of the sinks.                     *)
(***************************************************************************)
EXTENDS Integers, Sequences, FiniteSets

CONSTANTS
  Hosts,       \* the upstream hosts, numbered from 1
  PortCounts,  \* numbers of ports a sink may be asked to bind (-ports)
  Window,      \* ports it may try (-portwindow)
  Hooks,       \* hook goroutines of the worker
  MaxDials     \* dials explored

ASSUME DialAssumption ==
  /\ Hosts \subseteq Nat /\ IsFiniteSet(Hosts) /\ Hosts # {}
  /\ PortCounts \subseteq Nat \ {0} /\ Window \in Nat /\ MaxDials \in Nat
  /\ IsFiniteSet(Hooks)

VARIABLES
  ports,       \* the number of ports both sides are told
  held,        \* held[h]: ports other programs hold on host h
  scan,        \* scan[h]: the port its sink tries next
  bound,       \* bound[h]: the ports its sink listens on
  sink,        \* sink[h]: "scan", "serving" or "fatal"
  targets,     \* Config.targets: pairs <<host, base>>
  nports,      \* Config.SinkPorts
  listed,      \* whether -sinkips names the bound ports
  dialSeq,     \* Config.dialSeq
  dials,       \* dials begun
  picks,       \* how often each cell of the grid was chosen
  hook,        \* hook[g]: where hook goroutine g is in Decide
  dest,        \* dest[g]: the pair <<host, port>> it dials
  fds          \* descriptors open, those handed to the ring included

sinkVars == <<ports, held, scan, bound, sink>>
cfgVars == <<targets, nports, listed>>
vars == <<sinkVars, cfgVars, dialSeq, dials, picks, hook, dest, fds>>

Init ==
  /\ ports \in PortCounts /\ held \in [Hosts -> SUBSET (0..Window-1)]
  /\ scan = [h \in Hosts |-> 0] /\ bound = [h \in Hosts |-> {}]
  /\ sink = [h \in Hosts |-> "scan"]
  /\ targets = <<>> /\ nports = 0 /\ listed = FALSE
  /\ dialSeq = 0 /\ dials = 0 /\ picks = <<>>
  /\ hook = [g \in Hooks |-> "idle"] /\ dest = [g \in Hooks |-> <<0, 0>>]
  /\ fds = 0

-----------------------------------------------------------------------------
(* The sink tries one port after the other and skips the busy ones. *)
TryPort(h) ==
  /\ sink[h] = "scan" /\ scan[h] < Window /\ Cardinality(bound[h]) < ports
  /\ bound' = [bound EXCEPT ![h] = @ \cup ({scan[h]} \ held[h])]
  /\ scan' = [scan EXCEPT ![h] = @ + 1]
  /\ UNCHANGED <<ports, held, sink, cfgVars, dialSeq, dials, picks, hook, dest, fds>>

(* Enough ports: it prints them and serves.  Too few: it closes them and   *)
(* gives up.                                                               *)
ScanEnds(h) ==
  /\ sink[h] = "scan"
  /\ scan[h] = Window \/ Cardinality(bound[h]) = ports
  /\ LET ok == Cardinality(bound[h]) = ports
     IN /\ sink' = [sink EXCEPT ![h] = IF ok THEN "serving" ELSE "fatal"]
        /\ bound' = [bound EXCEPT ![h] = IF ok THEN @ ELSE {}]
  /\ UNCHANGED <<ports, held, scan, cfgVars, dialSeq, dials, picks, hook, dest, fds>>

-----------------------------------------------------------------------------
(* The configuration of the relay.  -sinkips lists the bound ports one by  *)
(* one, with -sinkports 1 (as box2-setup.sh prints them); or it lists the  *)
(* hosts, or is empty for the first of them, with -sinkports for the span. *)
(* The entries of a list may be in any order.                              *)

Orders(S) ==
  {s \in [1..Cardinality(S) -> S] :
     \A i, j \in 1..Cardinality(S) : i # j => s[i] # s[j]}

(* Seeded fault: the list is made from the base port. *)
ListedFromBase == Hosts \X (0..ports-1)

Listed == {t \in Hosts \X (0..Window-1) : t[2] \in bound[t[1]]}

Spans(H) == H \X {0}

First == {h \in Hosts : \A k \in Hosts : h <= k}

Grid(ts, n) == [c \in (1..Len(ts)) \X (0..n-1) |-> 0]

(* Config.Init, once the sinks serve.  A list that does not parse is not   *)
(* modelled: it ends the relay before the first dial.                      *)
ConfigInit ==
  /\ targets = <<>> /\ \A h \in Hosts : sink[h] = "serving"
  /\ \/ targets' \in Orders(Listed) /\ nports' = 1 /\ listed' = TRUE
     \/ \E H \in {Hosts, First} :
          targets' \in Orders(Spans(H)) /\ nports' = ports /\ listed' = FALSE
  /\ picks' = Grid(targets', nports')
  /\ UNCHANGED <<sinkVars, dialSeq, dials, hook, dest, fds>>

-----------------------------------------------------------------------------
(* Decide.                                                                 *)

(* Seeded fault: the port follows the same remainders as the host. *)
CellDiagonal(n) == <<(n % Len(targets)) + 1, n % nports>>

(* The cell of the n-th dial: hosts first, then ports. *)
Cell(n) == <<(n % Len(targets)) + 1, (n \div Len(targets)) % nports>>

(* sinkTargetFor: a single target needs no counter; otherwise one atomic   *)
(* Add chooses the cell.                                                   *)
SinkTargetFor(g) ==
  /\ hook[g] = "idle" /\ targets # <<>> /\ dials < MaxDials
  /\ dials' = dials + 1
  /\ LET single == Len(targets) = 1 /\ nports = 1
         n == dialSeq + 1
         cell == IF single THEN <<1, 0>> ELSE Cell(n)
     IN /\ dialSeq' = IF single THEN dialSeq ELSE n
        /\ picks' = [picks EXCEPT ![cell] = @ + 1]
        /\ dest' = [dest EXCEPT ![g] = <<targets[cell[1]][1],
                                         targets[cell[1]][2] + cell[2]>>]
  /\ hook' = [hook EXCEPT ![g] = "socket"]
  /\ UNCHANGED <<sinkVars, cfgVars, fds>>

Dialling(g, from, to, n) ==
  /\ hook[g] = from /\ hook' = [hook EXCEPT ![g] = to] /\ fds' = fds + n
  /\ UNCHANGED <<sinkVars, cfgVars, dialSeq, dials, picks, dest>>

Socket(g) == Dialling(g, "socket", "mark", 1)

(* No such address, or no descriptor left. *)
SocketFails(g) == Dialling(g, "socket", "idle", 0)

(* SO_MARK; the options after it are best effort. *)
SetMark(g) == Dialling(g, "mark", "connect", 0)

(* Seeded fault: the socket stays open. *)
SetMarkFailsOpen(g) == Dialling(g, "mark", "idle", 0)

SetMarkFails(g) == Dialling(g, "mark", "idle", -1)

(* A sink or another program listens there.  The connected socket goes to  *)
(* the ring, which closes it in its time.                                  *)
Connect(g) ==
  /\ Dialling(g, "connect", "idle", -1)
  /\ dest[g][2] \in bound[dest[g][1]] \cup held[dest[g][1]]

ConnectFails(g) == Dialling(g, "connect", "idle", -1)

Next ==
  \/ \E h \in Hosts : TryPort(h) \/ ScanEnds(h)
  \/ ConfigInit
  \/ \E g \in Hooks : \/ SinkTargetFor(g) \/ Socket(g) \/ SocketFails(g)
                      \/ SetMark(g) \/ SetMarkFails(g)
                      \/ Connect(g) \/ ConnectFails(g)

Spec == Init /\ [][Next]_vars

-----------------------------------------------------------------------------
(* "One counter walks the whole ip x port grid": at any time no cell has   *)
(* been dialled more than once more than another, so that none of the      *)
(* port spaces runs out before the others.                                 *)
GridEven ==
  \A c, d \in DOMAIN picks : picks[c] <= picks[d] + 1

(* A dial goes to a port on which a sink listens.  With listed ports that  *)
(* always holds; with a span it fails only where the sink had to skip a    *)
(* busy port of the span, although -ports is documented as consecutive.    *)
TargetServed ==
  \A g \in Hooks : hook[g] # "idle" =>
    \/ dest[g][2] \in bound[dest[g][1]]
    \/ ~listed /\ \E p \in held[dest[g][1]] : p < ports

(* A socket is open exactly while a hook works on it: a dial that fails    *)
(* leaves nothing behind.                                                  *)
NoSocketLeft == fds = Cardinality({g \in Hooks : hook[g] \in {"mark", "connect"}})

DialsSettle == TargetServed /\ NoSocketLeft
=============================================================================
