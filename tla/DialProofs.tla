----------------------------- MODULE DialProofs ------------------------------
(***************************************************************************)
(* Proofs about Dial.tla, for any hosts, ports, hooks and number of dials: *)
(* the counter fills the grid of targets evenly, every dial goes to a      *)
(* served port unless a sink had to skip one, and no socket is left open.  *)
(***************************************************************************)
EXTENDS Dial, FiniteSetTheorems, WellFoundedInduction, TLAPS

Places == {"idle", "socket", "mark", "connect"}

Types ==
  /\ ports \in Nat \ {0}
  /\ held \in [Hosts -> SUBSET (0..Window-1)]
  /\ scan \in [Hosts -> 0..Window]
  /\ bound \in [Hosts -> SUBSET (0..Window-1)]
  /\ sink \in [Hosts -> {"scan", "serving", "fatal"}]
  /\ nports \in Nat /\ listed \in BOOLEAN
  /\ dialSeq \in Nat /\ dials \in Nat /\ fds \in Int
  /\ hook \in [Hooks -> Places]
  /\ dest \in [Hooks -> Nat \X Nat]

(* A sink holds the free ones of the ports it has tried, and serves when   *)
(* they are as many as it was asked for.                                   *)
Scanned ==
  \A h \in Hosts :
    /\ sink[h] # "fatal" => bound[h] = (0..scan[h]-1) \ held[h]
    /\ sink[h] = "serving" => Cardinality(bound[h]) = ports

Configured == targets # <<>>

Targets ==
  IF Configured
    THEN /\ \A h \in Hosts : sink[h] = "serving"
         /\ targets \in Seq(Hosts \X Nat) /\ nports \in Nat \ {0}
         /\ IF listed
              THEN nports = 1 /\ \A k \in 1..Len(targets) :
                                   targets[k][2] \in bound[targets[k][1]]
              ELSE nports = ports /\ \A k \in 1..Len(targets) : targets[k][2] = 0
    ELSE /\ picks = <<>> /\ dialSeq = 0
         /\ \A g \in Hooks : hook[g] = "idle"

(* The grid, its cells in the order of the counter, and how far it has     *)
(* come.                                                                   *)
Cells == Len(targets) * nports
Pos(c) == (c[1] - 1) + Len(targets) * c[2]
Turns == dialSeq \div Cells
Rest == dialSeq % Cells
Single == Len(targets) = 1 /\ nports = 1

(* Every cell was chosen in every full turn, and the cells up to Rest once *)
(* more.  The first number is 1, so the cell of 0 is the last of its turn. *)
Filled ==
  Configured =>
    /\ picks \in [(1..Len(targets)) \X (0..nports-1) -> Nat]
    /\ ~Single => \A c \in DOMAIN picks :
         picks[c] = Turns + (IF 1 <= Pos(c) /\ Pos(c) <= Rest THEN 1 ELSE 0)

Inv == Types /\ Scanned /\ Targets /\ Filled /\ TargetServed /\ NoSocketLeft

-----------------------------------------------------------------------------
(***************************************************************************)
(* Arithmetic of the grid.                                                 *)
(***************************************************************************)
(* Quotient and remainder. *)
LEMMA ModBasics ==
  ASSUME NEW x \in Nat, NEW m \in Nat \ {0}
  PROVE  /\ x % m \in 0..(m - 1)
         /\ x \div m \in Nat
         /\ x = m * (x \div m) + (x % m)
<1>1. x % m \in 0..(m - 1)
  OBVIOUS
<1>2. x \div m \in Nat
  OBVIOUS
<1>3. PICK q \in Nat : q = x \div m
  BY <1>2
<1>4. x = m * q + (x % m)
  BY <1>3
<1>5. x = m * (x \div m) + (x % m)
  BY <1>3, <1>4, Zenon
<1>6. QED
  BY <1>1, <1>2, <1>5, Zenon

(* They are determined by the number. *)
LEMMA QuotientUnique ==
  ASSUME NEW m \in Nat \ {0}, NEW p \in Nat, NEW q \in Nat,
         NEW a \in 0..(m - 1), NEW b \in 0..(m - 1),
         m * p + a = m * q + b
  PROVE  p = q /\ a = b
<1>1. ASSUME NEW u \in Nat, NEW v \in Nat, u < v
      PROVE  m * v >= m * u + m
  <2>1. PICK d \in Nat : v = u + 1 + d
    <3>1. v - u - 1 \in Nat /\ v = u + 1 + (v - u - 1)
      BY <1>1
    <3>2. QED
      BY <3>1
  <2>2. m * v = m * u + m + m * d
    BY <2>1
  <2>3. m * d \in Nat /\ m * u \in Nat
    OBVIOUS
  <2>4. QED
    BY <2>2, <2>3
<1>2. m * p \in Nat /\ m * q \in Nat
  OBVIOUS
<1>3. ~(p < q)
  BY <1>1, <1>2
<1>4. ~(q < p)
  BY <1>1, <1>2
<1>5. QED
  BY <1>3, <1>4

(* A number written with quotient and remainder has these. *)
LEMMA ModUnique ==
  ASSUME NEW m \in Nat \ {0}, NEW x \in Nat, NEW q \in Nat, NEW a \in 0..(m - 1),
         x = m * q + a
  PROVE  x % m = a /\ x \div m = q
<1>1. x % m \in 0..(m - 1) /\ x \div m \in Nat /\ x = m * (x \div m) + (x % m)
  BY ModBasics
<1>2. PICK p \in Nat : p = x \div m
  BY <1>1
<1>3. PICK b \in 0..(m - 1) : b = x % m
  BY <1>1
<1>4. m * q + a = m * p + b
  BY <1>1, <1>2, <1>3, Zenon
<1>5. q = p /\ a = b
  BY <1>4, QuotientUnique
<1>6. QED
  BY <1>2, <1>3, <1>5

(* The counter moves on by one, in the same turn or into the next. *)
LEMMA NextTurn ==
  ASSUME NEW m \in Nat \ {0}, NEW x \in Nat
  PROVE  IF (x % m) + 1 < m
           THEN (x + 1) % m = (x % m) + 1 /\ (x + 1) \div m = x \div m
           ELSE (x + 1) % m = 0 /\ (x + 1) \div m = (x \div m) + 1
<1>1. x % m \in 0..(m - 1) /\ x \div m \in Nat /\ x = m * (x \div m) + (x % m)
  BY ModBasics
<1>2. PICK q \in Nat : q = x \div m
  BY <1>1
<1>3. PICK a \in 0..(m - 1) : a = x % m
  BY <1>1
<1>4. x = m * q + a /\ m * q \in Nat /\ x + 1 \in Nat
  BY <1>1, <1>2, <1>3
<1>5. CASE a + 1 < m
  <2>1. PICK b \in 0..(m - 1) : b = a + 1
    BY <1>5
  <2>2. x + 1 = m * q + b
    BY <1>4, <2>1
  <2>3. (x + 1) % m = b /\ (x + 1) \div m = q
    BY <1>4, <2>2, ModUnique
  <2>4. QED
    BY <1>2, <1>3, <1>5, <2>1, <2>3
<1>6. CASE ~(a + 1 < m)
  <2>1. PICK p \in Nat : p = q + 1
    OBVIOUS
  <2>2. PICK b \in 0..(m - 1) : b = 0
    OBVIOUS
  <2>3. m * p = m * q + m
    BY <2>1
  <2>4. x + 1 = m * p + b
    BY <1>4, <1>6, <2>2, <2>3
  <2>5. (x + 1) % m = b /\ (x + 1) \div m = p
    BY <1>4, <2>4, ModUnique
  <2>6. QED
    BY <1>2, <1>3, <1>6, <2>1, <2>2, <2>5
<1>7. QED
  BY <1>5, <1>6

(* The position of the cell of a number in its turn. *)
LEMMA CellPosition ==
  ASSUME NEW L \in Nat \ {0}, NEW P \in Nat \ {0}, NEW x \in Nat
  PROVE  /\ x % L \in 0..(L - 1) /\ (x \div L) % P \in 0..(P - 1)
         /\ x % (L * P) = (x % L) + L * ((x \div L) % P)
<1>1. x % L \in 0..(L - 1) /\ x \div L \in Nat /\ x = L * (x \div L) + (x % L)
  BY ModBasics
<1>2. PICK y \in Nat : y = x \div L
  BY <1>1
<1>3. PICK a \in 0..(L - 1) : a = x % L
  BY <1>1
<1>4. y % P \in 0..(P - 1) /\ y \div P \in Nat /\ y = P * (y \div P) + (y % P)
  BY ModBasics
<1>5. PICK e \in Nat : e = y \div P
  BY <1>4
<1>6. PICK b \in 0..(P - 1) : b = y % P
  BY <1>4
<1>7. x = L * y + a /\ y = P * e + b
  BY <1>1, <1>2, <1>3, <1>4, <1>5, <1>6
<1>8. L * y = (L * P) * e + L * b
  <2>1. L * (P * e + b) = L * (P * e) + L * b
    OBVIOUS
  <2>2. L * (P * e) = (L * P) * e
    OBVIOUS
  <2>3. QED
    BY <1>7, <2>1, <2>2
<1>9. PICK N \in Nat \ {0} : N = L * P
  OBVIOUS
<1>10. a + L * b \in 0..(N - 1)
  <2>1. PICK d \in Nat : P = b + 1 + d
    <3>1. P - b - 1 \in Nat /\ P = b + 1 + (P - b - 1)
      OBVIOUS
    <3>2. QED
      BY <3>1
  <2>2. L * P = L * b + L + L * d /\ L * d \in Nat /\ L * b \in Nat
    BY <2>1
  <2>3. QED
    BY <1>9, <2>2
<1>11. PICK c \in 0..(N - 1) : c = a + L * b
  BY <1>10
<1>12. x = N * e + c
  <2>1. (L * P) * e \in Nat /\ L * b \in Nat /\ L * y \in Nat
    OBVIOUS
  <2>2. QED
    BY <1>7, <1>8, <1>9, <1>11, <2>1
<1>13. x % N = c
  BY <1>12, ModUnique
<1>14. QED
  BY <1>1, <1>2, <1>3, <1>4, <1>6, <1>9, <1>11, <1>13

-----------------------------------------------------------------------------
(***************************************************************************)
(* The lists of targets.                                                   *)
(***************************************************************************)
(* There is a first host. *)
LEMMA FirstHost == First # {} /\ First \subseteq Hosts
<1> DEFINE Less == OpToRel(<, Nat)
<1>1. IsWellFoundedOn(Less, Nat)
  BY NatLessThanWellFounded
<1>2. \E x \in Hosts : \A y \in Hosts : ~(<<y, x>> \in Less)
  <2> HIDE DEF Less
  <2>1. QED
    BY <1>1, WFMin, DialAssumption
<1>3. PICK x \in Hosts : \A y \in Hosts : ~(<<y, x>> \in Less)
  BY <1>2
<1>4. ASSUME NEW y \in Hosts
      PROVE  x <= y
  <2>1. x \in Nat /\ y \in Nat
    BY DialAssumption
  <2>2. y < x => <<y, x>> \in Less
    BY <2>1 DEF OpToRel
  <2>3. ~(y < x)
    BY <1>3, <2>2
  <2> HIDE DEF Less
  <2>4. QED
    BY <2>1, <2>3
<1>5. QED
  BY <1>3, <1>4 DEF First

(* An order of a set of targets is a list of members of the set. *)
LEMMA OrderIsList ==
  ASSUME NEW S \in SUBSET (Hosts \X Nat), IsFiniteSet(S), S # {}, NEW s \in Orders(S)
  PROVE  /\ s \in Seq(Hosts \X Nat) /\ s # <<>> /\ Len(s) \in Nat \ {0}
         /\ \A k \in 1..Len(s) : s[k] \in S
<1>1. Cardinality(S) \in Nat /\ Cardinality(S) # 0
  BY FS_CardinalityType, FS_EmptySet
<1>2. s \in [1..Cardinality(S) -> S]
  BY DEF Orders
<1>3. s \in Seq(S) /\ Len(s) = Cardinality(S)
  BY <1>1, <1>2
<1>4. s \in Seq(Hosts \X Nat)
  BY <1>1, <1>2
<1>5. QED
  BY <1>1, <1>2, <1>3, <1>4

(* The sets of targets are finite and not empty once the sinks serve. *)
LEMMA TargetSets ==
  ASSUME Types, Scanned, \A h \in Hosts : sink[h] = "serving",
         NEW H \in {Hosts, First}
  PROVE  /\ Listed \in SUBSET (Hosts \X Nat) /\ IsFiniteSet(Listed) /\ Listed # {}
         /\ Spans(H) \in SUBSET (Hosts \X Nat) /\ IsFiniteSet(Spans(H)) /\ Spans(H) # {}
<1>1. /\ Hosts \subseteq Nat /\ IsFiniteSet(Hosts) /\ Hosts # {} /\ Window \in Nat
      /\ First # {} /\ First \subseteq Hosts
  BY DialAssumption, FirstHost
<1>2. Listed \in SUBSET (Hosts \X (0..Window-1)) /\ Listed \in SUBSET (Hosts \X Nat)
  BY <1>1 DEF Listed
<1>3. IsFiniteSet(Listed)
  <2>1. IsFiniteSet(0..Window-1)
    BY <1>1, FS_Interval
  <2>2. IsFiniteSet(Hosts \X (0..Window-1))
    BY <1>1, <2>1, FS_Product
  <2>3. QED
    BY <1>2, <2>2, FS_Subset
<1>4. Listed # {}
  <2>1. PICK h \in Hosts : TRUE
    BY <1>1
  <2>2. Cardinality(bound[h]) = ports /\ ports # 0 /\ bound[h] \in SUBSET (0..Window-1)
    BY DEF Scanned, Types
  <2>3. bound[h] # {}
    BY <2>2, FS_EmptySet
  <2>4. PICK p \in bound[h] : p \in 0..Window-1
    BY <2>2, <2>3
  <2>5. <<h, p>> \in Listed
    BY <2>4 DEF Listed
  <2>6. QED
    BY <2>5
<1>5. H # {} /\ H \subseteq Hosts
  BY <1>1
<1>6. Spans(H) \in SUBSET (Hosts \X Nat) /\ Spans(H) # {}
  <2>1. PICK x \in H : x \in Hosts
    BY <1>5
  <2>2. <<x, 0>> \in H \X {0}
    OBVIOUS
  <2>3. H \X {0} \subseteq Hosts \X Nat
    BY <1>5
  <2>4. QED
    BY <2>2, <2>3 DEF Spans
<1>7. IsFiniteSet(Spans(H))
  <2>1. IsFiniteSet(H)
    BY <1>1, <1>5, FS_Subset
  <2>2. QED
    BY <2>1, FS_Singleton, FS_Product DEF Spans
<1>8. QED
  BY <1>2, <1>3, <1>4, <1>6, <1>7

(* A port of the span of a serving sink is served unless one of the span   *)
(* was busy: as many ports as were asked for lie below the scan.           *)
LEMMA SpanServed ==
  ASSUME Types, Scanned, NEW h \in Hosts, sink[h] = "serving",
         NEW p \in Nat, p < ports
  PROVE  p \in bound[h] \/ \E q \in held[h] : q < ports
<1>1. SUFFICES ASSUME p \notin bound[h], p \notin held[h]
               PROVE  FALSE
  OBVIOUS
<1>2. /\ bound[h] = (0..scan[h]-1) \ held[h] /\ Cardinality(bound[h]) = ports
      /\ scan[h] \in Nat /\ ports \in Nat
  BY DialAssumption DEF Scanned, Types
<1>3. p >= scan[h]
  BY <1>1, <1>2
<1>4. IsFiniteSet(0..scan[h]-1) /\ Cardinality(0..scan[h]-1) = scan[h]
  <2>1. PICK b \in Int : b = scan[h] - 1
    BY <1>2
  <2>2. IsFiniteSet(0..b) /\ Cardinality(0..b) = IF 0 > b THEN 0 ELSE b - 0 + 1
    BY FS_Interval
  <2>3. QED
    BY <1>2, <2>1, <2>2
<1>5. Cardinality(bound[h]) <= scan[h]
  <2>1. bound[h] \subseteq 0..scan[h]-1
    BY <1>2
  <2>2. QED
    BY <1>4, <2>1, FS_Subset, ZenonT(30)
<1>6. QED
  BY <1>2, <1>3, <1>5

-----------------------------------------------------------------------------
(***************************************************************************)
(* Steps of the sinks and of the configuration.                            *)
(***************************************************************************)
(* While a sink scans, nobody dials. *)
LEMMA ScanningQuiet ==
  ASSUME Inv, NEW h \in Hosts, sink[h] = "scan"
  PROVE  ~Configured /\ \A g \in Hooks : hook[g] = "idle"
BY DEF Inv, Targets

(* What the steps of a sink leave alone. *)
LEMMA SinkSteps ==
  ASSUME Inv, ~Configured, \A g \in Hooks : hook[g] = "idle",
         UNCHANGED <<ports, held, cfgVars, dialSeq, dials, picks, hook, dest, fds>>,
         scan' \in [Hosts -> 0..Window],
         bound' \in [Hosts -> SUBSET (0..Window-1)],
         sink' \in [Hosts -> {"scan", "serving", "fatal"}],
         Scanned'
  PROVE  Inv'
<1>1. /\ ports' = ports /\ held' = held /\ targets' = targets /\ nports' = nports
      /\ listed' = listed /\ dialSeq' = dialSeq /\ dials' = dials /\ picks' = picks
      /\ hook' = hook /\ dest' = dest /\ fds' = fds
  BY DEF cfgVars
<1>2. Types'
  BY <1>1 DEF Inv, Types
<1>3. Targets'
  BY <1>1 DEF Inv, Targets, Configured
<1>4. Filled'
  BY <1>1 DEF Filled, Configured
<1>5. TargetServed'
  BY <1>1 DEF TargetServed
<1>6. NoSocketLeft'
  BY <1>1 DEF Inv, NoSocketLeft
<1>7. QED
  BY <1>2, <1>3, <1>4, <1>5, <1>6 DEF Inv

(* The scan moves over one port and takes it if it is free. *)
LEMMA TryPortStep ==
  ASSUME Inv, NEW h \in Hosts, TryPort(h)
  PROVE  Inv'
<1>1. Types /\ Scanned /\ Window \in Nat
  BY DialAssumption DEF Inv
<1>2. /\ sink[h] = "scan" /\ scan[h] < Window
      /\ bound' = [bound EXCEPT ![h] = @ \cup ({scan[h]} \ held[h])]
      /\ scan' = [scan EXCEPT ![h] = @ + 1]
      /\ sink' = sink /\ held' = held /\ ports' = ports
      /\ UNCHANGED <<ports, held, cfgVars, dialSeq, dials, picks, hook, dest, fds>>
  BY DEF TryPort
<1>3. scan[h] \in Nat
  BY <1>1 DEF Types
<1>4. scan' \in [Hosts -> 0..Window] /\ sink' \in [Hosts -> {"scan", "serving", "fatal"}]
  BY <1>1, <1>2, <1>3 DEF Types
<1>5. bound' \in [Hosts -> SUBSET (0..Window-1)]
  <2>1. scan[h] \in 0..Window-1
    BY <1>1, <1>2, <1>3
  <2>2. QED
    BY <1>1, <1>2, <2>1 DEF Types
<1>6. Scanned'
  <2>1. SUFFICES ASSUME NEW k \in Hosts
                 PROVE  /\ sink'[k] # "fatal" => bound'[k] = (0..scan'[k]-1) \ held'[k]
                        /\ sink'[k] = "serving" => Cardinality(bound'[k]) = ports'
    BY DEF Scanned
  <2>2. CASE k = h
    <3>1. bound[h] = (0..scan[h]-1) \ held[h]
      BY <1>1, <1>2 DEF Scanned
    <3>2. scan'[h] = scan[h] + 1 /\ bound'[h] = bound[h] \cup ({scan[h]} \ held[h])
      BY <1>1, <1>2 DEF Types
    <3>3. 0..(scan[h] + 1)-1 = (0..scan[h]-1) \cup {scan[h]}
      BY <1>3
    <3>4. bound'[h] = (0..scan'[h]-1) \ held'[h]
      BY <1>2, <3>1, <3>2, <3>3
    <3>5. QED
      BY <1>2, <2>2, <3>4
  <2>3. CASE k # h
    <3>1. scan'[k] = scan[k] /\ bound'[k] = bound[k] /\ sink'[k] = sink[k]
      BY <1>1, <1>2, <2>3 DEF Types
    <3>2. QED
      BY <1>1, <1>2, <3>1 DEF Scanned
  <2>4. QED
    BY <2>2, <2>3
<1>7. QED
  BY <1>2, <1>4, <1>5, <1>6, ScanningQuiet, SinkSteps

(* The sink serves with enough ports and otherwise gives them up. *)
LEMMA ScanEndsStep ==
  ASSUME Inv, NEW h \in Hosts, ScanEnds(h)
  PROVE  Inv'
<1> DEFINE ok == Cardinality(bound[h]) = ports
<1>1. Types /\ Scanned
  BY DEF Inv
<1>2. /\ sink[h] = "scan" /\ scan' = scan /\ held' = held /\ ports' = ports
      /\ sink' = [sink EXCEPT ![h] = IF ok THEN "serving" ELSE "fatal"]
      /\ bound' = [bound EXCEPT ![h] = IF ok THEN @ ELSE {}]
      /\ UNCHANGED <<ports, held, cfgVars, dialSeq, dials, picks, hook, dest, fds>>
  BY DEF ScanEnds
<1>3. /\ scan' \in [Hosts -> 0..Window] /\ sink' \in [Hosts -> {"scan", "serving", "fatal"}]
      /\ bound' \in [Hosts -> SUBSET (0..Window-1)]
  BY <1>1, <1>2 DEF Types
<1>4. Scanned'
  <2>1. SUFFICES ASSUME NEW k \in Hosts
                 PROVE  /\ sink'[k] # "fatal" => bound'[k] = (0..scan'[k]-1) \ held'[k]
                        /\ sink'[k] = "serving" => Cardinality(bound'[k]) = ports'
    BY DEF Scanned
  <2>2. CASE k = h /\ ok
    <3>1. sink'[k] = "serving" /\ bound'[k] = bound[h]
      BY <1>1, <1>2, <2>2 DEF Types
    <3>2. QED
      BY <1>1, <1>2, <2>2, <3>1 DEF Scanned
  <2>3. CASE k = h /\ ~ok
    <3>1. sink'[k] = "fatal"
      BY <1>1, <1>2, <2>3 DEF Types
    <3>2. QED
      BY <3>1
  <2>4. CASE k # h
    <3>1. sink'[k] = sink[k] /\ bound'[k] = bound[k]
      BY <1>1, <1>2, <2>4 DEF Types
    <3>2. QED
      BY <1>1, <1>2, <3>1 DEF Scanned
  <2>5. QED
    BY <2>2, <2>3, <2>4
<1>5. QED
  BY <1>2, <1>3, <1>4, ScanningQuiet, SinkSteps

(* The grid starts empty. *)
LEMMA ConfigInitStep ==
  ASSUME Inv, ConfigInit
  PROVE  Inv'
<1>1. Types /\ Scanned /\ Targets /\ NoSocketLeft
  BY DEF Inv
<1>2. /\ targets = <<>> /\ \A h \in Hosts : sink[h] = "serving"
      /\ picks' = Grid(targets', nports')
      /\ UNCHANGED <<ports, held, scan, bound, sink, dialSeq, dials, hook, dest, fds>>
      /\ \/ targets' \in Orders(Listed) /\ nports' = 1 /\ listed' = TRUE
         \/ \E H \in {Hosts, First} :
              targets' \in Orders(Spans(H)) /\ nports' = ports /\ listed' = FALSE
  BY DEF ConfigInit, sinkVars
<1>3. /\ dialSeq = 0 /\ \A g \in Hooks : hook[g] = "idle"
      /\ ports \in Nat \ {0}
  BY <1>1, <1>2 DEF Targets, Configured, Types
<1>4. /\ targets' \in Seq(Hosts \X Nat) /\ targets' # <<>> /\ Len(targets') \in Nat \ {0}
      /\ nports' \in Nat \ {0} /\ listed' \in BOOLEAN
      /\ IF listed' THEN nports' = 1 /\ \A k \in 1..Len(targets') :
                                          targets'[k][2] \in bound[targets'[k][1]]
                    ELSE nports' = ports /\ \A k \in 1..Len(targets') : targets'[k][2] = 0
  <2>1. CASE targets' \in Orders(Listed) /\ nports' = 1 /\ listed' = TRUE
    <3>1. Listed \in SUBSET (Hosts \X Nat) /\ IsFiniteSet(Listed) /\ Listed # {}
      BY <1>1, <1>2, TargetSets
    <3>2. /\ targets' \in Seq(Hosts \X Nat) /\ targets' # <<>> /\ Len(targets') \in Nat \ {0}
          /\ \A k \in 1..Len(targets') : targets'[k] \in Listed
      BY <2>1, <3>1, OrderIsList
    <3>3. \A k \in 1..Len(targets') : targets'[k][2] \in bound[targets'[k][1]]
      BY <3>2 DEF Listed
    <3>4. QED
      BY <2>1, <3>2, <3>3
  <2>2. ASSUME NEW H \in {Hosts, First},
               targets' \in Orders(Spans(H)), nports' = ports, listed' = FALSE
        PROVE  /\ targets' \in Seq(Hosts \X Nat) /\ targets' # <<>>
               /\ Len(targets') \in Nat \ {0}
               /\ \A k \in 1..Len(targets') : targets'[k][2] = 0
    <3>1. Spans(H) \in SUBSET (Hosts \X Nat) /\ IsFiniteSet(Spans(H)) /\ Spans(H) # {}
      BY <1>1, <1>2, TargetSets
    <3>2. /\ targets' \in Seq(Hosts \X Nat) /\ targets' # <<>> /\ Len(targets') \in Nat \ {0}
          /\ \A k \in 1..Len(targets') : targets'[k] \in Spans(H)
      BY <2>2, <3>1, OrderIsList
    <3>3. \A k \in 1..Len(targets') : targets'[k][2] = 0
      BY <3>2 DEF Spans
    <3>4. QED
      BY <3>2, <3>3
  <2>3. QED
    BY <1>2, <1>3, <2>1, <2>2
<1>5. Types'
  BY <1>1, <1>2, <1>4 DEF Types
<1>6. Scanned'
  BY <1>1, <1>2 DEF Scanned
<1>7. Targets'
  BY <1>2, <1>4 DEF Targets, Configured
<1>8. Filled'
  <2> DEFINE L == Len(targets')
             P == nports'
  <2>1. L \in Nat \ {0} /\ P \in Nat \ {0}
    BY <1>4
  <2>2. picks' = [c \in (1..L) \X (0..P-1) |-> 0]
    BY <1>2 DEF Grid
  <2>3. Turns' = 0 /\ Rest' = 0
    <3>1. PICK N \in Nat \ {0} : N = L * P
      BY <2>1
    <3>2. PICK z \in Nat : z = 0
      OBVIOUS
    <3>3. 0 = N * z + z /\ z \in 0..(N - 1)
      BY <3>2
    <3>4. z % N = z /\ z \div N = z
      BY <3>2, <3>3, ModUnique
    <3>5. dialSeq' = z /\ Cells' = N
      BY <1>2, <1>3, <3>1, <3>2 DEF Cells
    <3>6. QED
      BY <3>2, <3>4, <3>5 DEF Turns, Rest
  <2> HIDE DEF L, P
  <2>4. picks' \in [(1..L) \X (0..P-1) -> Nat]
    BY <2>2
  <2>5. \A c \in DOMAIN picks' :
          picks'[c] = Turns' + (IF 1 <= Pos(c)' /\ Pos(c)' <= Rest' THEN 1 ELSE 0)
    <3>1. SUFFICES ASSUME NEW c \in DOMAIN picks'
                   PROVE  picks'[c] = 0
                          /\ ~(1 <= Pos(c)' /\ Pos(c)' <= 0)
      BY <2>3
    <3>2. c \in (1..L) \X (0..P-1)
      BY <2>2, <3>1
    <3>3. Pos(c)' \in Int
      BY <2>1, <3>2 DEF Pos, L
    <3>4. QED
      BY <2>2, <3>2, <3>3
  <2>6. QED
    BY <2>4, <2>5 DEF Filled, L, P
<1>9. TargetServed'
  BY <1>2, <1>3 DEF TargetServed
<1>10. NoSocketLeft'
  BY <1>1, <1>2 DEF NoSocketLeft
<1>11. QED
  BY <1>5, <1>6, <1>7, <1>8, <1>9, <1>10 DEF Inv

-----------------------------------------------------------------------------
(***************************************************************************)
(* Steps of a hook.                                                        *)
(***************************************************************************)
(* The cell of a number is a cell of the grid, at the number's position.   *)
LEMMA CellInGrid ==
  ASSUME NEW x \in Nat, Len(targets) \in Nat \ {0}, nports \in Nat \ {0}
  PROVE  /\ Cell(x) \in (1..Len(targets)) \X (0..nports-1)
         /\ Pos(Cell(x)) = x % Cells
<1> DEFINE L == Len(targets)
           P == nports
<1>1. L \in Nat \ {0} /\ P \in Nat \ {0}
  OBVIOUS
<1>2. Cell(x) = <<(x % L) + 1, (x \div L) % P>>
  BY DEF Cell
<1>3. Pos(Cell(x)) = (((x % L) + 1) - 1) + L * ((x \div L) % P)
  BY <1>2 DEF Pos
<1> HIDE DEF L, P
<1>4. /\ x % L \in 0..(L - 1) /\ (x \div L) % P \in 0..(P - 1)
      /\ x % (L * P) = (x % L) + L * ((x \div L) % P)
  BY <1>1, CellPosition
<1>5. Cell(x) \in (1..L) \X (0..P-1)
  BY <1>1, <1>2, <1>4
<1>6. PICK a \in 0..(L - 1) : a = x % L
  BY <1>4
<1>7. (a + 1) - 1 = a
  BY <1>1
<1>8. Pos(Cell(x)) = x % (L * P)
  BY <1>3, <1>4, <1>6, <1>7
<1>9. QED
  BY <1>5, <1>8 DEF L, P, Cells

(* Two cells at one position are one cell. *)
LEMMA PosUnique ==
  ASSUME Len(targets) \in Nat \ {0}, nports \in Nat \ {0},
         NEW c \in (1..Len(targets)) \X (0..nports-1),
         NEW d \in (1..Len(targets)) \X (0..nports-1),
         Pos(c) = Pos(d)
  PROVE  c = d
<1> DEFINE L == Len(targets)
<1>1. L \in Nat \ {0} /\ c[1] \in 1..L /\ d[1] \in 1..L /\ c[2] \in Nat /\ d[2] \in Nat
      /\ c = <<c[1], c[2]>> /\ d = <<d[1], d[2]>>
      /\ (c[1] - 1) + L * c[2] = (d[1] - 1) + L * d[2]
  BY DEF Pos
<1> HIDE DEF L
<1>2. PICK a \in 0..(L - 1) : a = c[1] - 1
  BY <1>1
<1>3. PICK b \in 0..(L - 1) : b = d[1] - 1
  BY <1>1
<1>4. PICK p \in Nat : p = c[2]
  BY <1>1
<1>5. PICK q \in Nat : q = d[2]
  BY <1>1
<1>6. L * p + a = L * q + b
  <2>1. L * p \in Nat /\ L * q \in Nat
    BY <1>1
  <2>2. a + L * p = b + L * q
    BY <1>1, <1>2, <1>3, <1>4, <1>5
  <2>3. QED
    BY <1>1, <2>1, <2>2
<1>7. p = q /\ a = b
  <2>1. PICK m \in Nat \ {0} : m = L
    BY <1>1
  <2>2. m * p + a = m * q + b /\ a \in 0..(m - 1) /\ b \in 0..(m - 1)
    BY <1>6, <2>1
  <2>3. QED
    BY <2>2, QuotientUnique, SMTT(30)
<1>8. c[1] = d[1] /\ c[2] = d[2]
  BY <1>1, <1>2, <1>3, <1>4, <1>5, <1>7
<1>9. QED
  BY <1>1, <1>8

(* The atomic Add moves the counter to the next cell, which is behind the  *)
(* others by one.                                                          *)
LEMMA GridStaysFilled ==
  ASSUME Types, Targets, Filled, Configured, ~Single,
         targets' = targets, nports' = nports, dialSeq' = dialSeq + 1,
         picks' = [picks EXCEPT ![Cell(dialSeq + 1)] = @ + 1]
  PROVE  Filled'
<1> DEFINE G == (1..Len(targets)) \X (0..nports-1)
           x == dialSeq + 1
<1>1. /\ dialSeq \in Nat /\ x \in Nat /\ Len(targets) \in Nat \ {0} /\ nports \in Nat \ {0}
      /\ picks \in [G -> Nat]
      /\ \A c \in G : picks[c] = Turns + (IF 1 <= Pos(c) /\ Pos(c) <= Rest THEN 1 ELSE 0)
  BY DEF Types, Targets, Filled, Configured
<1>2. Cells \in Nat \ {0} /\ Cells' = Cells
  BY <1>1 DEF Cells
<1>3. Cell(x) \in G /\ Pos(Cell(x)) = x % Cells
  BY <1>1, CellInGrid
<1>4. Rest \in 0..(Cells - 1) /\ Turns \in Nat
  BY <1>1, <1>2, ModBasics DEF Rest, Turns
<1>5. IF Rest + 1 < Cells THEN Rest' = Rest + 1 /\ Turns' = Turns
                          ELSE Rest' = 0 /\ Turns' = Turns + 1
  <2>1. IF (dialSeq % Cells) + 1 < Cells
          THEN (dialSeq + 1) % Cells = (dialSeq % Cells) + 1
               /\ (dialSeq + 1) \div Cells = dialSeq \div Cells
          ELSE (dialSeq + 1) % Cells = 0
               /\ (dialSeq + 1) \div Cells = (dialSeq \div Cells) + 1
    BY <1>1, <1>2, NextTurn
  <2>2. Rest' = (dialSeq + 1) % Cells /\ Turns' = (dialSeq + 1) \div Cells
    BY <1>2 DEF Rest, Turns
  <2>3. QED
    BY <2>1, <2>2 DEF Rest, Turns
<1>6. Pos(Cell(x)) = Rest'
  BY <1>2, <1>3 DEF Rest
<1>7. \A c \in G : Pos(c) \in 0..(Cells - 1) /\ Pos(c)' = Pos(c)
  <2>1. SUFFICES ASSUME NEW c \in G
                 PROVE  Pos(c) \in 0..(Cells - 1) /\ Pos(c)' = Pos(c)
    OBVIOUS
  <2>2. Pos(c)' = Pos(c)
    BY DEF Pos
  <2>3. PICK L \in Nat \ {0} : L = Len(targets)
    BY <1>1
  <2>4. PICK P \in Nat \ {0} : P = nports
    BY <1>1
  <2>5. PICK a \in 0..(L - 1) : a = c[1] - 1
    BY <2>1, <2>3
  <2>6. PICK b \in 0..(P - 1) : b = c[2]
    BY <2>1, <2>4
  <2>7. PICK d \in Nat : P = b + 1 + d
    <3>1. P - b - 1 \in Nat /\ P = b + 1 + (P - b - 1)
      OBVIOUS
    <3>2. QED
      BY <3>1
  <2>8. L * P = L * b + L + L * d /\ L * d \in Nat /\ L * b \in Nat
    BY <2>7
  <2>9. Pos(c) = a + L * b /\ Cells = L * P
    BY <2>3, <2>4, <2>5, <2>6 DEF Pos, Cells
  <2>10. Pos(c) \in 0..(Cells - 1)
    BY <2>8, <2>9
  <2>11. QED
    BY <2>2, <2>10
<1>8. picks' \in [G -> Nat]
  BY <1>1, <1>3
<1>9. ASSUME NEW c \in G
      PROVE  picks'[c] = Turns' + (IF 1 <= Pos(c) /\ Pos(c) <= Rest' THEN 1 ELSE 0)
  <2>1. CASE c = Cell(x)
    <3>1. picks'[c] = picks[c] + 1 /\ Pos(c) = Rest'
      BY <1>1, <1>3, <1>6, <2>1
    <3>2. picks[c] = Turns + (IF 1 <= Pos(c) /\ Pos(c) <= Rest THEN 1 ELSE 0)
      BY <1>1
    <3>3. QED
      BY <1>2, <1>4, <1>5, <3>1, <3>2
  <2>2. CASE c # Cell(x)
    <3>1. picks'[c] = picks[c]
      BY <1>1, <1>3, <2>2
    <3>2. Pos(c) # Rest'
      BY <1>1, <1>3, <1>6, <2>2, PosUnique
    <3>3. picks[c] = Turns + (IF 1 <= Pos(c) /\ Pos(c) <= Rest THEN 1 ELSE 0)
      BY <1>1
    <3>4. Pos(c) \in 0..(Cells - 1)
      BY <1>7
    <3>5. QED
      BY <1>2, <1>4, <1>5, <3>1, <3>2, <3>3, <3>4
  <2>3. QED
    BY <2>1, <2>2
<1> HIDE DEF x
<1>10. DOMAIN picks' = G /\ \A c \in G :
         picks'[c] = Turns' + (IF 1 <= Pos(c)' /\ Pos(c)' <= Rest' THEN 1 ELSE 0)
  BY <1>7, <1>8, <1>9
<1>11. QED
  BY <1>8, <1>10 DEF Filled

(* The choice of a target. *)
LEMMA ChooseStep ==
  ASSUME Inv, NEW g \in Hooks, SinkTargetFor(g)
  PROVE  Inv'
<1> DEFINE x == dialSeq + 1
           cell == IF Single THEN <<1, 0>> ELSE Cell(x)
           t == targets[cell[1]]
<1>1. Types /\ Scanned /\ Targets /\ Filled /\ TargetServed /\ NoSocketLeft
  BY DEF Inv
<1>2. /\ hook[g] = "idle" /\ targets # <<>> /\ dials' = dials + 1
      /\ dialSeq' = IF Single THEN dialSeq ELSE x
      /\ picks' = [picks EXCEPT ![cell] = @ + 1]
      /\ dest' = [dest EXCEPT ![g] = <<t[1], t[2] + cell[2]>>]
      /\ hook' = [hook EXCEPT ![g] = "socket"]
      /\ ports' = ports /\ held' = held /\ scan' = scan /\ bound' = bound /\ sink' = sink
      /\ targets' = targets /\ nports' = nports /\ listed' = listed /\ fds' = fds
  BY DEF SinkTargetFor, Single, sinkVars, cfgVars
<1>3. /\ Configured /\ dialSeq \in Nat /\ x \in Nat
      /\ \A h \in Hosts : sink[h] = "serving"
      /\ targets \in Seq(Hosts \X Nat) /\ Len(targets) \in Nat \ {0} /\ nports \in Nat \ {0}
      /\ picks \in [(1..Len(targets)) \X (0..nports-1) -> Nat]
      /\ ports \in Nat
  BY <1>1, <1>2 DEF Configured, Types, Targets, Filled
<1>4. cell \in (1..Len(targets)) \X (0..nports-1)
  <2>1. CASE Single
    BY <1>3, <2>1 DEF Single
  <2>2. CASE ~Single
    BY <1>3, <2>2, CellInGrid
  <2>3. QED
    BY <2>1, <2>2
<1> HIDE DEF cell, x
<1>5. /\ cell[1] \in 1..Len(targets) /\ cell[2] \in Nat /\ cell[2] < nports
      /\ t \in Hosts \X Nat /\ t[1] \in Hosts /\ t[2] \in Nat
  BY <1>3, <1>4
<1>6. Types'
  <2>1. Hosts \subseteq Nat
    BY DialAssumption
  <2>2. <<t[1], t[2] + cell[2]>> \in Nat \X Nat
    <3> HIDE DEF t
    <3>1. t[1] \in Nat /\ t[2] + cell[2] \in Nat
      <4>1. t[1] \in Hosts /\ t[2] \in Nat /\ cell[2] \in Nat
        BY <1>5
      <4>2. t[1] \in Nat
        BY <2>1, <4>1, Zenon
      <4>3. t[2] + cell[2] \in Nat
        BY <4>1
      <4>4. QED
        BY <4>2, <4>3
    <3>2. QED
      BY <3>1
  <2> HIDE DEF t
  <2>3. dest' \in [Hooks -> Nat \X Nat] /\ hook' \in [Hooks -> Places]
    BY <1>1, <1>2, <2>2 DEF Types, Places
  <2>4. dialSeq' \in Nat /\ dials' \in Nat
    BY <1>1, <1>2, <1>3 DEF Types
  <2>5. QED
    BY <1>1, <1>2, <2>3, <2>4 DEF Types
<1>7. Scanned'
  BY <1>1, <1>2 DEF Scanned
<1>8. Targets'
  BY <1>1, <1>2, <1>3 DEF Targets, Configured
<1>9. Filled'
  <2>1. CASE Single
    <3>1. picks' \in [(1..Len(targets)) \X (0..nports-1) -> Nat]
      BY <1>2, <1>3, <1>4, SMTT(30)
    <3>2. QED
      BY <1>2, <2>1, <3>1 DEF Filled, Single
  <2>2. CASE ~Single
    BY <1>1, <1>2, <1>3, <2>2, GridStaysFilled DEF cell, x
  <2>3. QED
    BY <2>1, <2>2
<1>10. TargetServed'
  <2>1. SUFFICES ASSUME NEW k \in Hooks, hook'[k] # "idle"
                 PROVE  \/ dest'[k][2] \in bound[dest'[k][1]]
                        \/ ~listed /\ \E p \in held[dest'[k][1]] : p < ports
    BY <1>2 DEF TargetServed
  <2>2. CASE k = g
    <3>1. dest'[k][1] = t[1] /\ dest'[k][2] = t[2] + cell[2]
      BY <1>1, <1>2, <2>2 DEF Types
    <3>2. CASE listed
      <4>1. t[2] \in bound[t[1]] /\ nports = 1
        BY <1>1, <1>3, <1>5, <3>2 DEF Targets
      <4>2. t[2] + cell[2] = t[2]
        BY <1>5, <4>1
      <4>3. QED
        BY <3>1, <4>1, <4>2
    <3>3. CASE ~listed
      <4>1. t[2] = 0 /\ nports = ports
        BY <1>1, <1>3, <1>5, <3>3 DEF Targets
      <4>2. dest'[k][2] = cell[2] /\ cell[2] < ports
        BY <1>5, <3>1, <4>1
      <4>3. cell[2] \in bound[t[1]] \/ \E q \in held[t[1]] : q < ports
        BY <1>1, <1>3, <1>5, <4>2, SpanServed
      <4>4. QED
        BY <3>1, <3>3, <4>2, <4>3
    <3>4. QED
      BY <3>2, <3>3
  <2>3. CASE k # g
    <3>1. dest'[k] = dest[k] /\ hook'[k] = hook[k]
      BY <1>1, <1>2, <2>3 DEF Types
    <3>2. QED
      BY <1>1, <2>1, <3>1 DEF TargetServed
  <2>4. QED
    BY <2>2, <2>3
<1>11. NoSocketLeft'
  <2>1. {k \in Hooks : hook'[k] \in {"mark", "connect"}}
          = {k \in Hooks : hook[k] \in {"mark", "connect"}}
    BY <1>1, <1>2 DEF Types
  <2>2. QED
    BY <1>1, <1>2, <2>1 DEF NoSocketLeft
<1>12. QED
  BY <1>6, <1>7, <1>8, <1>9, <1>10, <1>11 DEF Inv

(* A step of a dial changes the socket count by the number of hooks that   *)
(* begin or end working on one.                                            *)
Open == {"mark", "connect"}
Opens(p) == IF p \in Open THEN 1 ELSE 0

(* The steps of a dial. *)
LEMMA DiallingStep ==
  ASSUME Inv, NEW g \in Hooks, NEW from \in Places \ {"idle"}, NEW to \in Places,
         NEW k \in Int, k = Opens(to) - Opens(from), Dialling(g, from, to, k)
  PROVE  Inv'
<1> DEFINE S == {j \in Hooks : hook[j] \in Open}
           R == {j \in Hooks : hook'[j] \in Open}
<1>1. Types /\ Scanned /\ Targets /\ Filled /\ TargetServed /\ NoSocketLeft
  BY DEF Inv
<1>2. /\ hook[g] = from /\ hook' = [hook EXCEPT ![g] = to] /\ fds' = fds + k
      /\ ports' = ports /\ held' = held /\ scan' = scan /\ bound' = bound /\ sink' = sink
      /\ targets' = targets /\ nports' = nports /\ listed' = listed
      /\ dialSeq' = dialSeq /\ dials' = dials /\ picks' = picks /\ dest' = dest
  BY DEF Dialling, sinkVars, cfgVars
<1>3. hook \in [Hooks -> Places] /\ hook'[g] = to /\ \A j \in Hooks \ {g} : hook'[j] = hook[j]
  BY <1>1, <1>2 DEF Types
<1>4. Types'
  BY <1>1, <1>2 DEF Types
<1>5. Scanned'
  BY <1>1, <1>2 DEF Scanned
<1>6. Targets'
  <2>1. Configured
    BY <1>1, <1>2 DEF Targets
  <2>2. QED
    BY <1>1, <1>2, <2>1 DEF Targets, Configured
<1>7. Filled'
  <2>1. Turns' = Turns /\ Rest' = Rest /\ (Single' <=> Single)
    BY <1>2 DEF Turns, Rest, Cells, Single
  <2>2. \A c : Pos(c)' = Pos(c)
    BY <1>2 DEF Pos
  <2>3. QED
    BY <1>1, <1>2, <2>1, <2>2 DEF Filled, Configured
<1>8. TargetServed'
  BY <1>1, <1>2, <1>3 DEF TargetServed
<1>9. NoSocketLeft'
  <2>1. IsFiniteSet(S) /\ Cardinality(S) \in Nat /\ fds = Cardinality(S)
    BY <1>1, DialAssumption, FS_Subset, FS_CardinalityType DEF NoSocketLeft, Open
  <2>2. g \in S <=> from \in Open
    BY <1>2
  <2>3. R = IF to \in Open THEN S \cup {g} ELSE S \ {g}
    BY <1>3
  <2> HIDE DEF S, R
  <2>4. /\ Cardinality(S \cup {g}) = IF g \in S THEN Cardinality(S) ELSE Cardinality(S) + 1
        /\ Cardinality(S \ {g}) = IF g \in S THEN Cardinality(S) - 1 ELSE Cardinality(S)
    BY <2>1, FS_AddElement, FS_RemoveElement
  <2>5. Cardinality(R) = fds + k
    <3>1. CASE to \in Open
      BY <2>1, <2>2, <2>3, <2>4, <3>1 DEF Opens
    <3>2. CASE to \notin Open
      BY <2>1, <2>2, <2>3, <2>4, <3>2 DEF Opens
    <3>3. QED
      BY <3>1, <3>2
  <2>6. QED
    BY <1>2, <2>5 DEF NoSocketLeft, R, Open
<1>10. QED
  BY <1>4, <1>5, <1>6, <1>7, <1>8, <1>9 DEF Inv

-----------------------------------------------------------------------------
(* Nothing is bound, configured or dialled at first. *)
LEMMA DialInit ==
  ASSUME Init
  PROVE  Inv
<1>1. Types
  <2>1. ports \in Nat \ {0} /\ 0 \in 0..Window
    BY DialAssumption DEF Init
  <2>2. dest \in [Hooks -> Nat \X Nat] /\ hook \in [Hooks -> Places]
    BY DEF Init, Places
  <2>3. /\ scan \in [Hosts -> 0..Window] /\ bound \in [Hosts -> SUBSET (0..Window-1)]
        /\ sink \in [Hosts -> {"scan", "serving", "fatal"}]
    BY <2>1 DEF Init
  <2>4. held \in [Hosts -> SUBSET (0..Window-1)]
    BY DEF Init
  <2>5. nports \in Nat /\ dialSeq \in Nat /\ dials \in Nat /\ fds \in Int
    BY DEF Init
  <2>6. listed \in BOOLEAN
    BY Zenon DEF Init
  <2>7. QED
    BY <2>1, <2>2, <2>3, <2>4, <2>5, <2>6 DEF Types
<1>2. Scanned
  <2>1. 0..0-1 = {}
    OBVIOUS
  <2>2. QED
    BY <2>1 DEF Init, Scanned
<1>3. Targets /\ Filled
  BY DEF Init, Targets, Filled, Configured
<1>4. TargetServed
  BY DEF Init, TargetServed
<1>5. NoSocketLeft
  <2>1. {g \in Hooks : hook[g] \in {"mark", "connect"}} = {}
    BY DEF Init
  <2>2. QED
    BY <2>1, FS_EmptySet DEF Init, NoSocketLeft
<1>6. QED
  BY <1>1, <1>2, <1>3, <1>4, <1>5 DEF Inv

(* Every step keeps the invariant. *)
LEMMA DialStep ==
  ASSUME Inv, [Next]_vars
  PROVE  Inv'
<1>1. ASSUME NEW h \in Hosts, TryPort(h) \/ ScanEnds(h)
      PROVE  Inv'
  BY <1>1, TryPortStep, ScanEndsStep
<1>2. ASSUME ConfigInit
      PROVE  Inv'
  BY <1>2, ConfigInitStep
<1>3. ASSUME NEW g \in Hooks, SinkTargetFor(g)
      PROVE  Inv'
  BY <1>3, ChooseStep
<1>4. ASSUME NEW g \in Hooks,
             \/ Socket(g) \/ SocketFails(g) \/ SetMark(g) \/ SetMarkFails(g)
             \/ Connect(g) \/ ConnectFails(g)
      PROVE  Inv'
  <2>1. \/ Dialling(g, "socket", "mark", 1) \/ Dialling(g, "socket", "idle", 0)
        \/ Dialling(g, "mark", "connect", 0) \/ Dialling(g, "mark", "idle", -1)
        \/ Dialling(g, "connect", "idle", -1)
    BY <1>4 DEF Socket, SocketFails, SetMark, SetMarkFails, Connect, ConnectFails
  <2>2. CASE Dialling(g, "socket", "mark", 1)
    BY <2>2, DiallingStep DEF Places, Opens, Open
  <2>3. CASE Dialling(g, "socket", "idle", 0)
    BY <2>3, DiallingStep DEF Places, Opens, Open
  <2>4. CASE Dialling(g, "mark", "connect", 0)
    BY <2>4, DiallingStep DEF Places, Opens, Open
  <2>5. CASE Dialling(g, "mark", "idle", -1)
    BY <2>5, DiallingStep DEF Places, Opens, Open
  <2>6. CASE Dialling(g, "connect", "idle", -1)
    BY <2>6, DiallingStep DEF Places, Opens, Open
  <2>7. QED
    BY <2>1, <2>2, <2>3, <2>4, <2>5, <2>6
<1>5. ASSUME UNCHANGED vars
      PROVE  Inv'
  <2>1. /\ ports' = ports /\ held' = held /\ scan' = scan /\ bound' = bound /\ sink' = sink
        /\ targets' = targets /\ nports' = nports /\ listed' = listed
        /\ dialSeq' = dialSeq /\ dials' = dials /\ picks' = picks
        /\ hook' = hook /\ dest' = dest /\ fds' = fds
    BY <1>5 DEF vars, sinkVars, cfgVars
  <2>2. Types' /\ Scanned' /\ Targets'
    BY <2>1 DEF Inv, Types, Scanned, Targets, Configured
  <2>3. Filled'
    <3>1. Turns' = Turns /\ Rest' = Rest /\ (Single' <=> Single)
      BY <2>1 DEF Turns, Rest, Cells, Single
    <3>2. \A c : Pos(c)' = Pos(c)
      BY <2>1 DEF Pos
    <3>3. QED
      BY <2>1, <3>1, <3>2 DEF Inv, Filled, Configured
  <2>4. TargetServed' /\ NoSocketLeft'
    BY <2>1 DEF Inv, TargetServed, NoSocketLeft
  <2>5. QED
    BY <2>2, <2>3, <2>4 DEF Inv
<1>6. QED
  BY <1>1, <1>2, <1>3, <1>4, <1>5 DEF Next

(* The invariant of the upstream leg. *)
THEOREM DialHolds == Spec => []Inv
<1>1. Init => Inv
  BY DialInit
<1>2. Inv /\ [Next]_vars => Inv'
  BY DialStep
<1>3. QED
  BY <1>1, <1>2, PTL DEF Spec

(* One counter walks the whole grid of hosts and ports: no cell is ever    *)
(* dialled more than once more than another, for any numbers of either.    *)
THEOREM DialGridEven == Spec => []GridEven
<1>1. Inv => GridEven
  <2>1. SUFFICES ASSUME Inv, NEW c \in DOMAIN picks, NEW d \in DOMAIN picks
                 PROVE  picks[c] <= picks[d] + 1
    BY DEF GridEven
  <2>2. Types /\ Targets /\ Filled
    BY <2>1 DEF Inv
  <2>3. Configured
    <3>1. DOMAIN <<>> = {}
      OBVIOUS
    <3>2. QED
      BY <2>1, <2>2, <3>1 DEF Targets
  <2>4. picks \in [(1..Len(targets)) \X (0..nports-1) -> Nat]
    BY <2>2, <2>3 DEF Filled
  <2>5. CASE Single
    <3>1. c = <<1, 0>> /\ d = <<1, 0>>
      BY <2>1, <2>4, <2>5 DEF Single
    <3>2. QED
      BY <2>4, <3>1, <2>1
  <2>6. CASE ~Single
    <3>1. /\ picks[c] = Turns + (IF 1 <= Pos(c) /\ Pos(c) <= Rest THEN 1 ELSE 0)
          /\ picks[d] = Turns + (IF 1 <= Pos(d) /\ Pos(d) <= Rest THEN 1 ELSE 0)
      BY <2>1, <2>2, <2>3, <2>6 DEF Filled
    <3>2. Turns \in Nat
      <4>1. dialSeq \in Nat /\ Len(targets) \in Nat \ {0} /\ nports \in Nat \ {0}
        BY <2>2, <2>3 DEF Types, Targets, Configured
      <4>2. Cells \in Nat \ {0}
        BY <4>1 DEF Cells
      <4>3. QED
        BY <4>1, <4>2, ModBasics DEF Turns
    <3>3. QED
      BY <3>1, <3>2
  <2>7. QED
    BY <2>5, <2>6
<1>2. QED
  BY <1>1, DialHolds, PTL

(* A dial goes to a served port, unless the relay was told a span of which *)
(* a sink had to skip a busy port; and a socket is open exactly while a    *)
(* hook works on it.                                                       *)
THEOREM DialsAllSettle == Spec => []DialsSettle
<1>1. Inv => DialsSettle
  BY DEF Inv, DialsSettle
<1>2. QED
  BY <1>1, DialHolds, PTL

=============================================================================
