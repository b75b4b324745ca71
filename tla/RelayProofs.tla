---------------------------- MODULE RelayProofs ----------------------------
(***************************************************************************)
(* Proofs about RelayUring.tla, for any number of connections, listeners,  *)
(* hooks and descriptors, in all three modes.                              *)
(*                                                                         *)
(* The parts need each other.  A struct is recycled safely because no      *)
(* operation of its connection is left (Life); that is so because every    *)
(* handler finds the connection at the stage it expects; and the closes    *)
(* that end a connection are counted right because its descriptors are its *)
(* own (DescriptorsOwned, Sockets).                                        *)
(***************************************************************************)
EXTENDS RelayUring, FiniteSetTheorems, SequenceTheorems, WellFoundedInduction, TLAPS

Expect(b) == IF b THEN 1 ELSE 0

Pipe == [r : Nat, w : Nat]
Conn == [id : Nat, client : Nat, up : Nat, closing : BOOLEAN, closesLeft : Nat,
         done : [Dirs -> BOOLEAN], pipe : [Dirs -> Pipe]]
HeldOps == [o : Ops, files : SUBSET Int]

Types ==
  /\ c \in Configs /\ waiting \in BOOLEAN /\ left \in Nat
  /\ acceptInflight \in [Listeners -> Nat] /\ armed \in [Listeners -> Nat]
  /\ totalAccepts \in Nat /\ accepted \in Nat /\ completed \in Nat
  /\ nextID \in Nat /\ made \in Nat
  /\ conns \in [Ids -> Nat] /\ cell \in [Ids -> Conn] /\ connFree \in Seq(Nat)
  /\ sq \in Seq(Ops) /\ cq \in Seq(Completions)
  /\ kops \in [DOMAIN kops -> Nat \ {0}]
  /\ DOMAIN kops \in SUBSET HeldOps /\ IsFiniteSet(DOMAIN kops)
  /\ fdt \in [FDs -> Int]
  /\ jobs \in Seq(Nat) /\ running \in SUBSET Ids
  /\ ready \in Seq(Results) /\ drained \in Seq(Results)

(* What an operation looks like. *)
Formed(o) ==
  /\ o.fds \subseteq FDs
  /\ o.op \in ChurnOps => o.dir = NoDir /\ o.id \in Ids /\ o.buf \in Ids
  /\ o.op \in {"Recv", "Send"} =>
       mode = "duplex" /\ o.dir \in Dirs /\ o.id \in Ids /\ o.buf \in Ids
  /\ o.op \in {"SpliceIn", "SpliceOut"} =>
       mode = "splice" /\ o.dir \in Dirs /\ o.id \in Ids /\ o.buf = 0
  /\ o.op = "Close" => o.dir = NoDir /\ o.buf = 0 /\ (o.id = 0 \/ o.id \in Ids)
                       /\ \E f \in FDs : o.fds = {f}
  /\ o.op \in {"Accept", "Eventfd", "Timeout"} =>
       o.dir = NoDir /\ o.fds = {} /\ o.buf = 0
       /\ IF o.op = "Accept" THEN o.id \in Listeners ELSE o.id = 0

(* Accepts are armed at the end of a turn only, and a client that arrived  *)
(* has a descriptor.                                                       *)
Shapes ==
  /\ \A j \in DOMAIN sq : Formed(sq[j]) /\ sq[j].op # "Accept"
  /\ \A h \in DOMAIN kops : Formed(h.o) /\ h.o.op # "Accept"
  /\ \A j \in DOMAIN cq : Formed(cq[j].o)
                          /\ (cq[j].o.op = "Accept" /\ cq[j].res > 0 => cq[j].res \in FDs)
  /\ \A j \in DOMAIN jobs : jobs[j] \in Ids
  /\ \A j \in DOMAIN ready : ready[j].id \in Ids /\ ready[j].fd \in 0..c.fds
  /\ \A j \in DOMAIN drained : drained[j].id \in Ids /\ drained[j].fd \in 0..c.fds

(* The ring thread waits with nothing prepared. *)
Loop ==
  /\ left <= Len(cq)
  /\ waiting => sq = <<>> /\ drained = <<>> /\ left = 0

AcceptsOf(k) == {e \in Completions : e.o.op = "Accept" /\ e.o.id = k}
Serving == {i \in Live : ~Cc(i).closing}

(* Accepts in flight are with the kernel or not handled yet. *)
Cap ==
  /\ \A k \in Listeners : acceptInflight[k] = armed[k] + Occurs(cq, AcceptsOf(k))
  /\ totalAccepts = Cardinality(Accepts)
  /\ Cardinality(Live) <= MaxConns
  /\ Cardinality(Live) + totalAccepts <= Larger(MaxConns, NListeners)
  /\ accepted + Occurs(cq, Clients) <= c.accepts
  /\ nextID <= accepted /\ made <= nextID
  /\ completed + Cardinality(Serving) <= nextID

(* What a struct holds. *)
InRange(x) ==
  /\ x.id <= nextID /\ x.closesLeft <= 2 /\ x.client <= c.fds /\ x.up <= c.fds
  /\ \A d \in Dirs : x.pipe[d].r <= c.fds /\ x.pipe[d].w <= c.fds

(* A struct serves one connection, or is blank. *)
Structs ==
  /\ \A i \in Live : conns[i] \in 1..made /\ Cc(i).id = i /\ i <= nextID
  /\ \A s \in Ids : InRange(cell[s]) /\ (s > made => cell[s] = Blank)
  /\ \A j \in DOMAIN connFree : connFree[j] \in 1..made /\ cell[connFree[j]] = Blank
  /\ \A j, k \in DOMAIN connFree : connFree[j] = connFree[k] => j = k

(* Work before a connection has an upstream. *)
EarlyWork(i) == HookWork(i) + Count(OpsOf(i, {"RecvReq"}, {NoDir}))

(* An open connection before its relay phase, and in it. *)
Asking(i) ==
  /\ ChurnWork(i) = 1
  /\ \A d \in Dirs : /\ RelayWork(i, RelayOps, d) = 0
                     /\ ~Cc(i).done[d] /\ Cc(i).pipe[d] = NoPipe
  /\ Cc(i).up = NoFD <=> EarlyWork(i) > 0

Copying(i) ==
  /\ mode = "duplex"
  /\ \E d \in Dirs : ~Cc(i).done[d]
  /\ \A d \in Dirs : /\ RelayWork(i, RelayOps, d) = Expect(~Cc(i).done[d])
                     /\ Cc(i).pipe[d] = NoPipe

Splicing(i) ==
  /\ mode = "splice"
  /\ \A d \in Dirs : /\ RelayWork(i, {"SpliceIn"}, d) = 1
                     /\ RelayWork(i, {"SpliceOut"}, d) = 1
                     /\ Cc(i).pipe[d].r # NoFD /\ Cc(i).pipe[d].w # NoFD

Open(i) ==
  /\ CloseWork(i) = 0
  /\ \/ Asking(i)
     \/ ChurnWork(i) = 0 /\ Cc(i).up # NoFD /\ (Copying(i) \/ Splicing(i))

Closing(i) ==
  ChurnWork(i) = 0 /\ Cc(i).closesLeft > 0 /\ Cc(i).closesLeft = CloseWork(i)

Gone(i) ==
  /\ ChurnWork(i) = 0 /\ CloseWork(i) = 0
  /\ i > nextID => \A d \in Dirs : RelayWork(i, RelayOps, d) = 0

LifeOf(i) ==
  IF i \notin Live THEN Gone(i) ELSE IF Cc(i).closing THEN Closing(i) ELSE Open(i)

Life == \A i \in Ids : LifeOf(i)

(* The descriptors of an open connection are different, and open in its    *)
(* name.                                                                   *)
SocketsOf(i) ==
  LET cc == Cc(i)
  IN /\ cc.client # NoFD /\ cc.client # cc.up
     /\ cc.client \notin PipeEnds(cc) /\ cc.up \notin PipeEnds(cc)
     /\ fdt[cc.client] = i
     /\ cc.up # NoFD => fdt[cc.up] = i

Sockets == \A i \in Serving : SocketsOf(i)

(* Whose a number is. *)
Tags ==
  /\ \A f \in FDs : fdt[f] = Free \/ fdt[f] \in 0..c.accepts
  /\ \A j \in DOMAIN cq : cq[j] \in Clients => fdt[cq[j].res] = 0
  /\ \A j \in DOMAIN ready : ready[j].fd # NoFD => fdt[ready[j].fd] = ready[j].id
  /\ \A j \in DOMAIN drained :
       drained[j].fd # NoFD => fdt[drained[j].fd] = drained[j].id

(* Without pipes, prepared operations name files of their connection.      *)
Home ==
  mode # "splice" =>
    /\ \A j \in DOMAIN sq : \A f \in sq[j].fds : fdt[f] = sq[j].id
    /\ OpsStayHome

Inv ==
  /\ Types /\ Shapes /\ Loop /\ Cap /\ Structs /\ Life
  /\ BuffersNotShared /\ DescriptorsOwned /\ Sockets /\ Tags /\ Home

-----------------------------------------------------------------------------
(* How often members of a set occur in a sequence.                         *)

(* The positions of a sequence are finitely many. *)
LEMMA AtFinite ==
  ASSUME NEW T, NEW s \in Seq(T), NEW V
  PROVE  IsFiniteSet(At(s, V)) /\ Occurs(s, V) \in Nat
<1>1. DOMAIN s = 1..Len(s) /\ Len(s) \in Nat
  OBVIOUS
<1>2. IsFiniteSet(DOMAIN s)
  BY <1>1, FS_Interval
<1>3. At(s, V) \in SUBSET DOMAIN s
  BY DEF At
<1>4. IsFiniteSet(At(s, V))
  BY <1>2, <1>3, FS_Subset
<1>5. QED
  BY <1>4, FS_CardinalityType DEF Occurs

(* An empty sequence holds nothing. *)
LEMMA OccursEmpty ==
  ASSUME NEW V PROVE Occurs(<<>>, V) = 0
<1>1. At(<<>>, V) = {}
  BY DEF At
<1>2. QED
  BY <1>1, FS_EmptySet DEF Occurs

(* Appending counts the new element. *)
LEMMA OccursAppend ==
  ASSUME NEW T, NEW s \in Seq(T), NEW x \in T, NEW V
  PROVE  Occurs(Append(s, x), V) = Occurs(s, V) + Expect(x \in V)
<1> DEFINE n == Len(s) + 1
           a == Append(s, x)
<1>1. /\ DOMAIN s = 1..Len(s) /\ Len(s) \in Nat
      /\ DOMAIN a = 1..n
      /\ a[n] = x
      /\ \A i \in 1..Len(s) : a[i] = s[i]
  OBVIOUS
<1>2. At(a, V) = IF x \in V THEN At(s, V) \cup {n} ELSE At(s, V)
  <2>1. ASSUME NEW i \in 1..n
        PROVE  i \in DOMAIN s \/ i = n
    BY <1>1
  <2>2. QED
    BY <1>1, <2>1 DEF At
<1>3. n \notin At(s, V)
  BY <1>1 DEF At
<1>4. IsFiniteSet(At(s, V)) /\ Occurs(s, V) \in Nat
  BY AtFinite
<1>5. Cardinality(At(s, V) \cup {n}) = Cardinality(At(s, V)) + 1
  BY <1>3, <1>4, FS_AddElement
<1> HIDE DEF n, a
<1>6. CASE x \in V
  BY <1>2, <1>5, <1>6 DEF Occurs, a, Expect
<1>7. CASE x \notin V
  BY <1>2, <1>4, <1>7 DEF Occurs, a, Expect
<1>8. QED
  BY <1>6, <1>7

(* Losing the head discounts it. *)
LEMMA OccursTail ==
  ASSUME NEW T, NEW s \in Seq(T), s # <<>>, NEW V
  PROVE  Occurs(Tail(s), V) = Occurs(s, V) - Expect(Head(s) \in V)
<1> DEFINE t == Tail(s)
           f == [i \in At(t, V) |-> i + 1]
<1>1. /\ Len(s) \in Nat \ {0} /\ DOMAIN s = 1..Len(s)
      /\ t \in Seq(T) /\ DOMAIN t = 1..(Len(s) - 1)
      /\ \A i \in 1..(Len(s) - 1) : t[i] = s[i + 1]
      /\ Head(s) = s[1]
  OBVIOUS
<1>2. f \in Bijection(At(t, V), At(s, V) \ {1})
  <2>1. f \in [At(t, V) -> At(s, V) \ {1}]
    BY <1>1 DEF At
  <2>2. \A i, j \in At(t, V) : f[i] = f[j] => i = j
    BY <1>1 DEF At
  <2>3. \A k \in At(s, V) \ {1} : \E i \in At(t, V) : f[i] = k
    <3>1. SUFFICES ASSUME NEW k \in At(s, V) \ {1}
                   PROVE  k - 1 \in At(t, V) /\ f[k - 1] = k
      OBVIOUS
    <3>2. k \in 2..Len(s) /\ s[k] \in V
      BY <1>1 DEF At
    <3>3. k - 1 \in At(t, V)
      BY <1>1, <3>2 DEF At
    <3>4. QED
      BY <3>2, <3>3
  <2>4. QED
    BY <2>1, <2>2, <2>3 DEF Bijection, Injection, Surjection, IsInjective
<1>3. IsFiniteSet(At(t, V)) /\ IsFiniteSet(At(s, V)) /\ Occurs(s, V) \in Nat
  BY <1>1, AtFinite
<1>4. Cardinality(At(s, V) \ {1}) = Occurs(t, V)
  BY <1>2, <1>3, FS_Bijection DEF ExistsBijection, Occurs
<1>5. 1 \in At(s, V) <=> Head(s) \in V
  BY <1>1 DEF At
<1>6. Cardinality(At(s, V) \ {1}) =
        IF 1 \in At(s, V) THEN Cardinality(At(s, V)) - 1 ELSE Cardinality(At(s, V))
  BY <1>3, FS_RemoveElement
<1> HIDE DEF t, f
<1>7. CASE Head(s) \in V
  BY <1>4, <1>5, <1>6, <1>7 DEF Occurs, t, Expect
<1>8. CASE Head(s) \notin V
  BY <1>3, <1>4, <1>5, <1>6, <1>8 DEF Occurs, t, Expect
<1>9. QED
  BY <1>7, <1>8

(* Two disjoint sets. *)
LEMMA DisjointUnion ==
  ASSUME NEW S, NEW T, IsFiniteSet(S), IsFiniteSet(T), S \cap T = {}
  PROVE  /\ IsFiniteSet(S \cup T)
         /\ Cardinality(S) \in Nat /\ Cardinality(T) \in Nat
         /\ Cardinality(S \cup T) = Cardinality(S) + Cardinality(T)
<1>1. Cardinality(S) \in Nat /\ Cardinality(T) \in Nat
  BY FS_CardinalityType
<1>2. /\ IsFiniteSet(S \cup T)
      /\ Cardinality(S \cup T) = Cardinality(S) + Cardinality(T) - Cardinality(S \cap T)
  BY FS_Union
<1>3. Cardinality(S \cap T) = 0
  BY FS_EmptySet
<1>4. QED
  BY <1>1, <1>2, <1>3

(* A concatenation holds what its parts hold. *)
LEMMA OccursConcat ==
  ASSUME NEW T, NEW s \in Seq(T), NEW t \in Seq(T), NEW V
  PROVE  Occurs(s \o t, V) = Occurs(s, V) + Occurs(t, V)
<1> DEFINE u == s \o t
           n == Len(s)
           B == {j \in At(u, V) : j > n}
           f == [j \in At(t, V) |-> j + n]
<1>1. /\ n \in Nat /\ Len(t) \in Nat /\ DOMAIN s = 1..n /\ DOMAIN t = 1..Len(t)
      /\ u \in Seq(T) /\ DOMAIN u = 1..(n + Len(t))
      /\ \A j \in 1..n : u[j] = s[j]
      /\ \A j \in 1..Len(t) : u[j + n] = t[j]
  OBVIOUS
<1>2. At(u, V) = At(s, V) \cup B /\ At(s, V) \cap B = {}
  BY <1>1 DEF At
<1>3. f \in Bijection(At(t, V), B)
  <2>1. f \in [At(t, V) -> B]
    BY <1>1 DEF At
  <2>2. \A i, j \in At(t, V) : f[i] = f[j] => i = j
    BY <1>1 DEF At
  <2>3. \A k \in B : \E j \in At(t, V) : f[j] = k
    <3>1. SUFFICES ASSUME NEW k \in B PROVE k - n \in At(t, V) /\ f[k - n] = k
      OBVIOUS
    <3>2. k - n \in 1..Len(t) /\ u[k] = t[k - n] /\ u[k] \in V
      <4>1. k \in 1..(n + Len(t)) /\ k > n /\ u[k] \in V
        BY <1>1 DEF At
      <4>2. k - n \in 1..Len(t) /\ (k - n) + n = k
        BY <1>1, <4>1
      <4>3. QED
        BY <1>1, <4>1, <4>2
    <3>3. k - n \in At(t, V)
      BY <1>1, <3>2 DEF At
    <3>4. k \in Int
      BY <1>1 DEF At
    <3>5. QED
      BY <1>1, <3>3, <3>4
  <2>4. QED
    BY <2>1, <2>2, <2>3 DEF Bijection, Injection, Surjection, IsInjective
<1>4. /\ IsFiniteSet(At(t, V)) /\ IsFiniteSet(At(s, V))
      /\ Occurs(s, V) \in Nat /\ Occurs(t, V) \in Nat
  BY AtFinite
<1>5. IsFiniteSet(B) /\ Cardinality(B) = Occurs(t, V)
  BY <1>3, <1>4, FS_Bijection DEF ExistsBijection, Occurs
<1> HIDE DEF u, n, B, f
<1>6. Cardinality(At(u, V)) = Cardinality(At(s, V)) + Cardinality(B)
  BY <1>2, <1>4, <1>5, DisjointUnion
<1>7. QED
  BY <1>4, <1>5, <1>6 DEF Occurs, u

(* What short sequences hold. *)
LEMMA OccursOne ==
  ASSUME NEW T, NEW x \in T, NEW V
  PROVE  Occurs(<<x>>, V) = Expect(x \in V)
<1>1. <<x>> = Append(<<>>, x) /\ <<>> \in Seq(T)
  OBVIOUS
<1>2. Occurs(<<>>, V) = 0
  BY OccursEmpty
<1>3. Occurs(Append(<<>>, x), V) = Occurs(<<>>, V) + Expect(x \in V)
  BY <1>1, OccursAppend
<1>4. QED
  BY <1>1, <1>2, <1>3 DEF Expect

(* Two elements are counted one by one.                                    *)
LEMMA OccursTwo ==
  ASSUME NEW T, NEW x \in T, NEW y \in T, NEW V
  PROVE  Occurs(<<x, y>>, V) = Expect(x \in V) + Expect(y \in V)
<1> DEFINE s == <<x>>
           t == <<x, y>>
<1>1. t = Append(s, y) /\ s \in Seq(T)
  OBVIOUS
<1>2. Occurs(s, V) = Expect(x \in V)
  BY OccursOne
<1> HIDE DEF s, t
<1>3. Occurs(t, V) = Occurs(s, V) + Expect(y \in V)
  BY <1>1, OccursAppend
<1>4. QED
  BY <1>2, <1>3 DEF t

(* Four elements are counted one by one.                                   *)
LEMMA OccursFour ==
  ASSUME NEW T, NEW x \in T, NEW y \in T, NEW z \in T, NEW w \in T, NEW V
  PROVE  Occurs(<<x, y, z, w>>, V) =
           Expect(x \in V) + Expect(y \in V) + Expect(z \in V) + Expect(w \in V)
<1> DEFINE s == <<x, y>>
           t == <<x, y, z>>
           u == <<x, y, z, w>>
<1>1. /\ t = Append(s, z) /\ s \in Seq(T)
      /\ u = Append(t, w) /\ t \in Seq(T)
  OBVIOUS
<1>2. Occurs(s, V) = Expect(x \in V) + Expect(y \in V)
  BY OccursTwo
<1> HIDE DEF s, t, u
<1>3. Occurs(t, V) = Occurs(s, V) + Expect(z \in V)
  BY <1>1, OccursAppend
<1>4. Occurs(u, V) = Occurs(t, V) + Expect(w \in V)
  BY <1>1, OccursAppend
<1>5. QED
  BY <1>2, <1>3, <1>4 DEF u

(* Nothing is counted exactly when nothing is there. *)
LEMMA OccursNone ==
  ASSUME NEW T, NEW s \in Seq(T), NEW V
  PROVE  Occurs(s, V) = 0 <=> \A j \in DOMAIN s : s[j] \notin V
<1>1. IsFiniteSet(At(s, V))
  BY AtFinite
<1>2. Occurs(s, V) = 0 <=> At(s, V) = {}
  BY <1>1, FS_EmptySet DEF Occurs
<1>3. QED
  BY <1>2 DEF At

(* What is there is counted. *)
LEMMA OccursSome ==
  ASSUME NEW T, NEW s \in Seq(T), NEW V, NEW j \in DOMAIN s, s[j] \in V
  PROVE  Occurs(s, V) >= 1
<1>1. Occurs(s, V) # 0 /\ Occurs(s, V) \in Nat
  BY OccursNone, AtFinite
<1>2. QED
  BY <1>1

(* Disjoint sets are counted apart. *)
LEMMA OccursSplit ==
  ASSUME NEW T, NEW s \in Seq(T), NEW U, NEW V, NEW W,
         U = V \cup W, V \cap W = {}
  PROVE  Occurs(s, U) = Occurs(s, V) + Occurs(s, W)
<1>1. At(s, U) = At(s, V) \cup At(s, W) /\ At(s, V) \cap At(s, W) = {}
  BY DEF At
<1>2. /\ IsFiniteSet(At(s, V)) /\ IsFiniteSet(At(s, W))
      /\ Occurs(s, V) \in Nat /\ Occurs(s, W) \in Nat
  BY AtFinite
<1>3. Cardinality(At(s, V) \cup At(s, W)) = Cardinality(At(s, V)) + Cardinality(At(s, W))
  BY <1>1, <1>2, DisjointUnion
<1>4. QED
  BY <1>1, <1>3 DEF Occurs

-----------------------------------------------------------------------------
(* Bags: functions from a finite set to positive numbers.                  *)

Pairs(b) == UNION {{h} \X (1..b[h]) : h \in DOMAIN b}
PairsIn(b, V) == {t \in Pairs(b) : t[1].o \in V}
InBag(b, V) == Cardinality(PairsIn(b, V))

(* The copies of an element. *)
LEMMA PairsElement ==
  ASSUME NEW b
  PROVE  \A t : t \in Pairs(b) <=>
           t = <<t[1], t[2]>> /\ t[1] \in DOMAIN b /\ t[2] \in 1..b[t[1]]
  BY DEF Pairs

(* There are finitely many copies. *)
LEMMA PairsFinite ==
  ASSUME NEW D, IsFiniteSet(D), NEW b \in [D -> Nat], NEW V
  PROVE  IsFiniteSet(Pairs(b)) /\ IsFiniteSet(PairsIn(b, V)) /\ InBag(b, V) \in Nat
<1> DEFINE f == [h \in D |-> {h} \X (1..b[h])]
           R == {{h} \X (1..b[h]) : h \in DOMAIN b}
<1>1. f \in Surjection(D, R)
  BY DEF Surjection
<1>2. IsFiniteSet(R)
  BY <1>1, FS_Surjection
<1>3. ASSUME NEW h \in D PROVE IsFiniteSet({h} \X (1..b[h]))
  <2>1. b[h] \in Nat /\ IsFiniteSet(1..b[h])
    BY FS_Interval
  <2>2. IsFiniteSet({h})
    BY FS_Singleton
  <2>3. QED
    BY <2>1, <2>2, FS_Product
<1>4. \A S \in R : IsFiniteSet(S)
  BY <1>3
<1>5. IsFiniteSet(Pairs(b))
  <2> HIDE DEF f
  <2>1. Pairs(b) = UNION R
    BY DEF Pairs
  <2> HIDE DEF R
  <2>2. QED
    BY <1>2, <1>4, <2>1, FS_UNION
<1>6. PairsIn(b, V) \in SUBSET Pairs(b)
  BY DEF PairsIn
<1>7. QED
  BY <1>5, <1>6, FS_Subset, FS_CardinalityType DEF InBag

(* Nothing is counted exactly when nothing is there. *)
LEMMA InBagNone ==
  ASSUME NEW D, IsFiniteSet(D), NEW b \in [D -> Nat \ {0}], NEW V
  PROVE  InBag(b, V) = 0 <=> \A h \in D : h.o \notin V
<1>1. b \in [D -> Nat] /\ IsFiniteSet(PairsIn(b, V))
  BY PairsFinite
<1>2. InBag(b, V) = 0 <=> PairsIn(b, V) = {}
  BY <1>1, FS_EmptySet DEF InBag
<1>3. ASSUME NEW h \in D PROVE <<h, 1>> \in Pairs(b)
  <2>1. b[h] \in Nat /\ b[h] # 0
    OBVIOUS
  <2>2. QED
    BY <2>1 DEF Pairs
<1>4. \A t \in Pairs(b) : t[1] \in D
  BY PairsElement
<1>5. ASSUME NEW h \in D, h.o \in V PROVE <<h, 1>> \in PairsIn(b, V)
  BY <1>3, <1>5 DEF PairsIn
<1>6. QED
  BY <1>2, <1>4, <1>5 DEF PairsIn

(* Disjoint sets are counted apart. *)
LEMMA InBagSplit ==
  ASSUME NEW D, IsFiniteSet(D), NEW b \in [D -> Nat \ {0}],
         NEW U, NEW V, NEW W, U = V \cup W, V \cap W = {}
  PROVE  InBag(b, U) = InBag(b, V) + InBag(b, W)
<1>1. b \in [D -> Nat]
  OBVIOUS
<1>2. PairsIn(b, U) = PairsIn(b, V) \cup PairsIn(b, W) /\ PairsIn(b, V) \cap PairsIn(b, W) = {}
  BY DEF PairsIn
<1>3. /\ IsFiniteSet(PairsIn(b, V)) /\ IsFiniteSet(PairsIn(b, W))
      /\ InBag(b, V) \in Nat /\ InBag(b, W) \in Nat
  BY <1>1, PairsFinite
<1>4. Cardinality(PairsIn(b, V) \cup PairsIn(b, W))
        = Cardinality(PairsIn(b, V)) + Cardinality(PairsIn(b, W))
  BY <1>2, <1>3, DisjointUnion
<1>5. QED
  BY <1>2, <1>4 DEF InBag

(* A bag, a bag with one copy of h fewer, a bag with the elements of a     *)
(* sequence added.                                                         *)
Bag(b) == IsFiniteSet(DOMAIN b) /\ b \in [DOMAIN b -> Nat \ {0}]
Fewer(a, b, h) ==
  a = [g \in {g \in DOMAIN b : g = h => b[g] > 1} |->
         IF g = h THEN b[g] - 1 ELSE b[g]]
More(a, b, g) ==
  a = [h \in DOMAIN b \cup {g[j] : j \in DOMAIN g} |->
         (IF h \in DOMAIN b THEN b[h] ELSE 0) + Occurs(g, {h})]

(* One copy fewer. *)
LEMMA InBagTake ==
  ASSUME NEW b, Bag(b), NEW h \in DOMAIN b, NEW a, Fewer(a, b, h), NEW V
  PROVE  /\ Bag(a) /\ DOMAIN a \subseteq DOMAIN b
         /\ InBag(a, V) = InBag(b, V) - Expect(h.o \in V)
<1> DEFINE t == <<h, b[h]>>
           D == DOMAIN b
           E == DOMAIN a
<1>1. IsFiniteSet(D) /\ b \in [D -> Nat \ {0}]
  BY DEF Bag
<1>2. /\ \A g : g \in E <=> g \in D /\ (g = h => b[g] > 1)
      /\ a = [g \in E |-> a[g]]
      /\ \A g \in E : a[g] = IF g = h THEN b[g] - 1 ELSE b[g]
  BY DEF Fewer
<1> HIDE DEF D, E
<1>3. a \in [E -> Nat \ {0}] /\ IsFiniteSet(E)
  <2>1. IsFiniteSet(E)
    <3>1. E \in SUBSET D
      BY <1>2
    <3>2. QED
      BY <1>1, <3>1, FS_Subset
  <2>2. ASSUME NEW g \in E PROVE (IF g = h THEN b[g] - 1 ELSE b[g]) \in Nat \ {0}
    <3>1. b[g] \in Nat /\ b[g] # 0 /\ (g = h => b[g] > 1)
      BY <1>1, <1>2
    <3>2. QED
      BY <3>1
  <2>3. QED
    BY <1>2, <2>1, <2>2
<1>4. b \in [D -> Nat] /\ b[h] \in Nat /\ b[h] # 0
  BY <1>1 DEF D
<1>5. \A x : x \in Pairs(a) <=> x \in Pairs(b) /\ x # t
  <2> SUFFICES ASSUME NEW x PROVE x \in Pairs(a) <=> x \in Pairs(b) /\ x # t
    OBVIOUS
  <2>1. x \in Pairs(a) <=> x = <<x[1], x[2]>> /\ x[1] \in E /\ x[2] \in 1..a[x[1]]
    BY PairsElement DEF E
  <2>2. x \in Pairs(b) <=> x = <<x[1], x[2]>> /\ x[1] \in D /\ x[2] \in 1..b[x[1]]
    BY PairsElement DEF D
  <2>3. CASE x[1] # h
    <3>1. x[1] \in E <=> x[1] \in D
      BY <1>2, <2>3
    <3>2. x[1] \in D => a[x[1]] = b[x[1]]
      BY <1>2, <2>3
    <3>3. x # t
      BY <2>3
    <3> HIDE DEF t
    <3>4. QED
      BY <2>1, <2>2, <3>1, <3>2, <3>3
  <2>4. CASE x[1] = h
    <3>1. x[1] \in E <=> b[h] > 1
      BY <1>2, <2>4 DEF D
    <3>2. x[1] \in E => a[x[1]] = b[h] - 1
      BY <1>2, <2>4
    <3>3. x = <<x[1], x[2]>> => (x = t <=> x[2] = b[h])
      BY <2>4
    <3> HIDE DEF t
    <3>4. QED
      BY <1>4, <2>1, <2>2, <2>4, <3>1, <3>2, <3>3 DEF D
  <2>5. QED
    BY <2>3, <2>4
<1>6. PairsIn(a, V) = PairsIn(b, V) \ {t}
  BY <1>5 DEF PairsIn
<1>7. t \in PairsIn(b, V) <=> h.o \in V
  <2>1. t \in Pairs(b)
    BY <1>4, PairsElement DEF D
  <2>2. t[1] = h
    OBVIOUS
  <2>3. QED
    BY <2>1, <2>2 DEF PairsIn
<1>8. IsFiniteSet(PairsIn(b, V)) /\ InBag(b, V) \in Nat
  BY <1>4, <1>1, PairsFinite
<1> HIDE DEF t
<1>9. Cardinality(PairsIn(a, V)) =
        IF t \in PairsIn(b, V) THEN Cardinality(PairsIn(b, V)) - 1 ELSE Cardinality(PairsIn(b, V))
  BY <1>6, <1>8, FS_RemoveElement
<1>10. InBag(a, V) = InBag(b, V) - Expect(h.o \in V)
  BY <1>7, <1>8, <1>9 DEF InBag, Expect
<1>11. QED
  BY <1>3, <1>10, <1>2 DEF Bag, D, E

(* The copies that a sequence of elements adds to a bag. *)
LEMMA InBagAdd ==
  ASSUME NEW b, Bag(b), NEW T, NEW g \in Seq(T), NEW a, More(a, b, g), NEW V,
         NEW s, DOMAIN s = DOMAIN g, \A j \in DOMAIN g : s[j] = g[j].o
  PROVE  Bag(a) /\ InBag(a, V) = InBag(b, V) + Occurs(s, V)
<1> DEFINE D == DOMAIN b
           E == DOMAIN a
<1>1. IsFiniteSet(D) /\ b \in [D -> Nat \ {0}]
  BY DEF Bag
<1>2. /\ \A h : h \in E <=> h \in D \/ \E j \in DOMAIN g : g[j] = h
      /\ a = [h \in E |-> a[h]]
      /\ \A h \in E : a[h] = (IF h \in D THEN b[h] ELSE 0) + Occurs(g, {h})
  BY DEF More
<1> HIDE DEF D, E
<1> DEFINE R == {g[j] : j \in DOMAIN g}
           P(h) == At(g, {h})
           old(h) == IF h \in D THEN b[h] ELSE 0
           W == At(s, V)
           N == {x \in Pairs(a) : x[1].o \in V /\ x[2] > old(x[1])}
<1>3. DOMAIN g = 1..Len(g) /\ Len(g) \in Nat /\ IsFiniteSet(DOMAIN g)
  BY FS_Interval
<1>4. \A h : IsFiniteSet(P(h)) /\ Cardinality(P(h)) \in Nat /\ ExistsBijection(1..Cardinality(P(h)), P(h))
  <2> SUFFICES ASSUME NEW h
               PROVE  IsFiniteSet(P(h)) /\ Cardinality(P(h)) \in Nat
                      /\ ExistsBijection(1..Cardinality(P(h)), P(h))
    OBVIOUS
  <2>1. P(h) \in SUBSET DOMAIN g
    BY DEF At
  <2> HIDE DEF P
  <2>2. QED
    BY <1>3, <2>1, FS_Subset, FS_CardinalityType
<1>5. \A h : old(h) \in Nat
  BY <1>1
<1>6. IsFiniteSet(E)
  <2>1. [j \in DOMAIN g |-> g[j]] \in Surjection(DOMAIN g, R)
    BY DEF Surjection
  <2>2. IsFiniteSet(R)
    BY <1>3, <2>1, FS_Surjection
  <2>3. IsFiniteSet(D \cup R)
    BY <1>1, <2>2, FS_Union
  <2>4. E = D \cup R
    BY <1>2
  <2>5. QED
    BY <2>3, <2>4
<1>7. \A h \in E : a[h] = old(h) + Cardinality(P(h))
  BY <1>2 DEF Occurs
<1>8. a \in [E -> Nat \ {0}]
  <2> SUFFICES ASSUME NEW h \in E PROVE old(h) + Cardinality(P(h)) \in Nat \ {0}
    <3> HIDE DEF old, P
    <3>1. QED
      BY <1>7, <1>2
  <2>1. CASE h \in D
    <3>1. old(h) \in Nat \ {0}
      BY <1>1, <2>1
    <3> HIDE DEF old, P
    <3>2. QED
      BY <1>4, <3>1
  <2>2. CASE h \notin D
    <3>1. PICK j \in DOMAIN g : g[j] = h
      BY <1>2, <2>2
    <3>2. P(h) # {}
      BY <3>1 DEF At
    <3> HIDE DEF old, P
    <3>3. Cardinality(P(h)) # 0
      BY <1>4, <3>2, FS_EmptySet
    <3>4. QED
      BY <1>4, <1>5, <3>3
  <2>3. QED
    BY <2>1, <2>2
<1>9. b \in [D -> Nat] /\ a \in [E -> Nat]
  BY <1>8, <1>1
<1> DEFINE IsPair(x) == x = <<x[1], x[2]>> /\ x[1] \in E /\ x[2] \in 1..a[x[1]]
<1>10. \A x : x \in Pairs(a) <=> IsPair(x)
  BY PairsElement DEF E
<1>11. \A x : x \in Pairs(b) <=> x \in Pairs(a) /\ x[2] <= old(x[1])
  <2> SUFFICES ASSUME NEW x PROVE x \in Pairs(b) <=> x \in Pairs(a) /\ x[2] <= old(x[1])
    OBVIOUS
  <2>1. x \in Pairs(b) <=> x = <<x[1], x[2]>> /\ x[1] \in D /\ x[2] \in 1..b[x[1]]
    BY PairsElement DEF D
  <2>2. x \in Pairs(a) <=> x = <<x[1], x[2]>> /\ x[1] \in E /\ x[2] \in 1..a[x[1]]
    <3>1. QED
      BY <1>10
  <2>3. x[1] \in E => a[x[1]] = old(x[1]) + Cardinality(P(x[1]))
    BY <1>7
  <2>4. x[1] \in D => x[1] \in E /\ old(x[1]) = b[x[1]]
    BY <1>2
  <2>5. x[1] \notin D => old(x[1]) = 0
    OBVIOUS
  <2> HIDE DEF old, P
  <2>6. QED
    BY <1>4, <1>5, <2>1, <2>2, <2>3, <2>4, <2>5
<1>12. PairsIn(a, V) = PairsIn(b, V) \cup N /\ PairsIn(b, V) \cap N = {}
  <2>1. \A x \in Pairs(a) : x[2] \in Nat
    <3> SUFFICES ASSUME NEW x \in Pairs(a) PROVE x[2] \in Nat
      OBVIOUS
    <3>1. x[2] \in 1..a[x[1]] /\ x[1] \in E
      <4>1. QED
        BY <1>10
    <3>2. a[x[1]] \in Nat
      BY <1>9, <3>1
    <3>3. QED
      BY <3>1, <3>2
  <2> HIDE DEF old
  <2>2. QED
    BY <1>5, <1>11, <2>1 DEF PairsIn
<1> DEFINE beta == [h \in E |-> CHOOSE f : f \in Bijection(1..Cardinality(P(h)), P(h))]
           phi == [x \in N |-> beta[x[1]][x[2] - old(x[1])]]
<1>13. ASSUME NEW h \in E
       PROVE  /\ beta[h] \in Bijection(1..Cardinality(P(h)), P(h))
              /\ beta[h] \in [1..Cardinality(P(h)) -> P(h)]
              /\ \A m, n \in 1..Cardinality(P(h)) : beta[h][m] = beta[h][n] => m = n
              /\ \A j \in P(h) : \E m \in 1..Cardinality(P(h)) : beta[h][m] = j
  <2>1. beta[h] = CHOOSE f : f \in Bijection(1..Cardinality(P(h)), P(h))
    OBVIOUS
  <2>2. \E f : f \in Bijection(1..Cardinality(P(h)), P(h))
    BY <1>4 DEF ExistsBijection
  <2> HIDE DEF beta, P
  <2>3. beta[h] \in Bijection(1..Cardinality(P(h)), P(h))
    BY <2>1, <2>2
  <2>4. QED
    BY <2>3 DEF Bijection, Injection, Surjection, IsInjective
<1>14. ASSUME NEW x \in N
       PROVE  /\ x = <<x[1], x[2]>> /\ x[1] \in E /\ x[1].o \in V /\ x[2] \in Nat
              /\ x[2] - old(x[1]) \in 1..Cardinality(P(x[1]))
              /\ phi[x] \in P(x[1]) /\ phi[x] = beta[x[1]][x[2] - old(x[1])]
  <2>1. /\ x = <<x[1], x[2]>> /\ x[1] \in E /\ x[2] \in 1..a[x[1]]
        /\ x[1].o \in V /\ x[2] > old(x[1])
    <3> HIDE DEF old
    <3>1. QED
      BY <1>10
  <2>2. a[x[1]] = old(x[1]) + Cardinality(P(x[1]))
    BY <1>7, <2>1
  <2>3. phi[x] = beta[x[1]][x[2] - old(x[1])]
    OBVIOUS
  <2> HIDE DEF old, P, N, beta, phi
  <2>4. x[2] - old(x[1]) \in 1..Cardinality(P(x[1])) /\ x[2] \in Nat
    BY <1>4, <1>5, <2>1, <2>2
  <2>5. beta[x[1]][x[2] - old(x[1])] \in P(x[1])
    <3> DEFINE m == x[2] - old(x[1])
               h == x[1]
    <3>1. beta[h] \in [1..Cardinality(P(h)) -> P(h)] /\ m \in 1..Cardinality(P(h))
      BY <1>13, <2>1, <2>4
    <3> HIDE DEF m, h
    <3>2. beta[h][m] \in P(h)
      BY <3>1
    <3>3. QED
      BY <3>2 DEF m, h
  <2>6. QED
    BY <2>1, <2>3, <2>4, <2>5
<1>15. phi \in Bijection(N, W)
  <2>1. phi \in [N -> W]
    <3>1. ASSUME NEW x \in N PROVE phi[x] \in W
      <4>1. phi[x] \in P(x[1]) /\ x[1].o \in V
        BY <1>14
      <4> HIDE DEF phi, N
      <4>2. QED
        BY <4>1 DEF At
    <3>2. phi = [x \in N |-> phi[x]]
      OBVIOUS
    <3> HIDE DEF phi, N, W
    <3>3. QED
      BY <3>1, <3>2
  <2>2. ASSUME NEW x \in N, NEW y \in N, phi[x] = phi[y] PROVE x = y
    <3>1. phi[x] \in P(x[1]) /\ phi[y] \in P(y[1])
      BY <1>14
    <3>2. x[1] = y[1]
      <4> HIDE DEF phi, N
      <4>1. QED
        BY <2>2, <3>1 DEF At
    <3> HIDE DEF phi, N, P, old, beta
    <3>3. x[2] - old(x[1]) = y[2] - old(y[1])
      <4> DEFINE h == x[1]
                 m == x[2] - old(x[1])
                 n == y[2] - old(y[1])
      <4>1. h \in E /\ m \in 1..Cardinality(P(h)) /\ n \in 1..Cardinality(P(h))
        BY <1>14, <3>2
      <4>2. beta[h][m] = beta[h][n]
        BY <1>14, <2>2, <3>2
      <4> HIDE DEF h, m, n
      <4>3. m = n
        BY <1>13, <4>1, <4>2
      <4>4. QED
        BY <4>3 DEF m, n
    <3>4. x[2] = y[2]
      BY <1>5, <1>14, <3>2, <3>3
    <3>5. QED
      BY <1>14, <3>2, <3>4
  <2>3. ASSUME NEW j \in W PROVE \E x \in N : phi[x] = j
    <3> DEFINE h == g[j]
    <3>1. h \in E /\ j \in P(h) /\ h.o \in V
      BY <1>2 DEF At
    <3>2. PICK m \in 1..Cardinality(P(h)) : beta[h][m] = j
      BY <1>13, <3>1
    <3> DEFINE x == <<h, old(h) + m>>
    <3>3. a[h] = old(h) + Cardinality(P(h))
      BY <1>7, <3>1
    <3>4. x[1] = h /\ x[2] = old(h) + m /\ x = <<x[1], x[2]>>
      OBVIOUS
    <3>5. x \in Pairs(a) /\ x[2] > old(h) /\ x[2] - old(h) = m
      <4>1. m \in Nat /\ m >= 1 /\ m <= Cardinality(P(h))
        <5> HIDE DEF P
        <5>1. QED
          BY <1>4
      <4> HIDE DEF old, P, h, x
      <4>2. x[2] \in 1..a[x[1]] /\ x[2] > old(h) /\ x[2] - old(h) = m
        BY <1>4, <1>5, <3>3, <3>4, <4>1
      <4>3. DOMAIN a = E
        BY DEF E
      <4>4. QED
        BY <3>1, <3>4, <4>2, <4>3, PairsElement
    <3>6. x \in N
      BY <3>1, <3>4, <3>5
    <3>7. phi[x] = beta[x[1]][x[2] - old(x[1])]
      BY <1>14, <3>6
    <3> HIDE DEF phi, N, x, old, beta, h
    <3>8. phi[x] = j
      BY <3>2, <3>4, <3>5, <3>7
    <3>9. QED
      BY <3>6, <3>8
  <2> HIDE DEF phi, N, W
  <2>4. QED
    BY <2>1, <2>2, <2>3 DEF Bijection, Injection, Surjection, IsInjective
<1>16. IsFiniteSet(PairsIn(b, V)) /\ IsFiniteSet(PairsIn(a, V))
  BY <1>6, <1>9, <1>1, PairsFinite
<1> HIDE DEF phi, W, N
<1>17. IsFiniteSet(N) /\ Cardinality(W) = Cardinality(N)
  <2>1. N \in SUBSET PairsIn(a, V)
    BY <1>12
  <2>2. IsFiniteSet(N)
    BY <1>16, <2>1, FS_Subset
  <2>3. QED
    BY <1>15, <2>2, FS_Bijection DEF ExistsBijection
<1>18. Cardinality(PairsIn(b, V) \cup N) = Cardinality(PairsIn(b, V)) + Cardinality(N)
  BY <1>12, <1>16, <1>17, DisjointUnion
<1>19. InBag(a, V) = InBag(b, V) + Cardinality(W)
  BY <1>12, <1>17, <1>18 DEF InBag
<1>20. QED
  BY <1>6, <1>8, <1>19 DEF W, Occurs, Bag, E

(* A set of numbers that is not empty has a lowest. *)
LEMMA LowestIsThere ==
  ASSUME NEW S \in SUBSET Nat, S # {}
  PROVE  Lowest(S) \in S /\ \A g \in S : Lowest(S) <= g
<1> DEFINE Less == OpToRel(<, Nat)
<1>1. IsWellFoundedOn(Less, Nat)
  BY NatLessThanWellFounded
<1>2. \E x \in S : \A y \in S : ~(<<y, x>> \in Less)
  <2> HIDE DEF Less
  <2>1. QED
    BY <1>1, WFMin
<1>3. PICK x \in S : \A y \in S : ~(<<y, x>> \in Less)
  BY <1>2
<1>4. ASSUME NEW y \in S
      PROVE  x <= y
  <2>1. x \in Nat /\ y \in Nat
    OBVIOUS
  <2>2. y < x => <<y, x>> \in Less
    BY <2>1 DEF OpToRel
  <2>3. ~(y < x)
    BY <1>3, <2>2
  <2> HIDE DEF Less
  <2>4. QED
    BY <2>1, <2>3
<1>5. \E f \in S : \A g \in S : f <= g
  BY <1>3, <1>4
<1>6. QED
  BY <1>5 DEF Lowest

(* A bounded staircase: partial sums of steps that stop at a level. *)
LEMMA Stairs ==
  ASSUME NEW n \in Nat, NEW u \in [0..n -> Nat], NEW top \in Nat, u[0] = 0,
         \A k \in 1..n : u[k - 1] <= u[k] /\ (u[k] = u[k - 1] \/ u[k] <= top)
  PROVE  \A k \in 0..n : u[k] <= top /\ \A l \in 0..k : u[l] <= u[k]
<1> DEFINE Less == OpToRel(<, Nat)
           Good(k) == u[k] <= top /\ \A l \in 0..k : u[l] <= u[k]
           B == {k \in 0..n : ~Good(k)}
<1> SUFFICES ASSUME B # {} PROVE FALSE
  OBVIOUS
<1>1. IsWellFoundedOn(Less, Nat)
  BY NatLessThanWellFounded
<1>2. B \subseteq Nat
  OBVIOUS
<1>3. PICK k \in B : \A y \in B : ~(<<y, k>> \in Less)
  <2> HIDE DEF Less, B
  <2>1. QED
    BY <1>1, <1>2, WFMin
<1>4. k \in 0..n /\ ~Good(k)
  OBVIOUS
<1>5. k # 0
  BY <1>4
<1>6. k - 1 \in 0..n /\ k \in 1..n /\ k - 1 < k
  BY <1>4, <1>5
<1>7. <<k - 1, k>> \in Less
  BY <1>4, <1>6 DEF OpToRel
<1>8. Good(k - 1)
  <2> HIDE DEF Less, Good
  <2>1. QED
    BY <1>3, <1>6, <1>7
<1> HIDE DEF Less
<1>9. u[k] \in Nat /\ u[k - 1] \in Nat /\ \A l \in 0..k : u[l] \in Nat
  BY <1>4, <1>6
<1>10. u[k] <= top
  BY <1>6, <1>8, <1>9
<1>11. ASSUME NEW l \in 0..k PROVE u[l] <= u[k]
  <2>1. CASE l = k
    BY <1>9, <2>1
  <2>2. CASE l # k
    <3>1. l \in 0..(k - 1)
      BY <1>4, <2>2
    <3>2. u[l] <= u[k - 1]
      BY <1>8, <3>1
    <3>3. QED
      BY <1>6, <1>9, <3>2
  <2>3. QED
    BY <2>1, <2>2
<1>12. QED
  BY <1>4, <1>10, <1>11

(* On which step a height is reached. *)
LEMMA StairsReach ==
  ASSUME NEW n \in Nat, NEW u \in [0..n -> Nat], u[0] = 0, NEW m \in 1..u[n]
  PROVE  \E k \in 1..n : u[k - 1] < m /\ m <= u[k]
<1> DEFINE Less == OpToRel(<, Nat)
           B == {k \in 0..n : m <= u[k]}
<1>1. IsWellFoundedOn(Less, Nat)
  BY NatLessThanWellFounded
<1>2. n \in B /\ B \subseteq Nat
  OBVIOUS
<1>3. PICK k \in B : \A y \in B : ~(<<y, k>> \in Less)
  <2> HIDE DEF Less, B
  <2>1. QED
    BY <1>1, <1>2, WFMin
<1>4. k \in 0..n /\ m <= u[k]
  OBVIOUS
<1>5. k # 0
  BY <1>4
<1>6. k - 1 \in 0..n /\ k \in 1..n /\ k - 1 < k
  BY <1>4, <1>5
<1>7. <<k - 1, k>> \in Less
  BY <1>4, <1>6 DEF OpToRel
<1> HIDE DEF Less
<1>8. k - 1 \notin B
  BY <1>3, <1>7
<1>9. u[k - 1] < m
  BY <1>6, <1>8
<1>10. QED
  BY <1>4, <1>6, <1>9

(* What the steps add to a bag of numbers. *)
LEMMA StairsCount ==
  ASSUME NEW n \in Nat, NEW u \in [0..n -> Nat], u[0] = 0,
         \A k \in 0..n : \A l \in 0..k : u[l] <= u[k],
         NEW a \in [1..n -> Nat]
  PROVE  LET b == [k \in 1..n |-> a[k] + u[k] - u[k - 1]]
         IN  /\ b \in [1..n -> Nat]
             /\ Cardinality(Pairs(b)) = Cardinality(Pairs(a)) + u[n]
<1> DEFINE b == [k \in 1..n |-> a[k] + u[k] - u[k - 1]]
           N == {x \in Pairs(b) : x[2] > a[x[1]]}
           phi == [x \in N |-> u[x[1] - 1] + (x[2] - a[x[1]])]
<1>1. ASSUME NEW k \in 1..n
      PROVE  /\ a[k] \in Nat /\ u[k] \in Nat /\ u[k - 1] \in Nat /\ u[k - 1] <= u[k]
             /\ b[k] = a[k] + u[k] - u[k - 1] /\ b[k] \in Nat
  <2>1. k - 1 \in 0..n /\ k \in 0..n /\ k - 1 \in 0..k
    OBVIOUS
  <2>2. a[k] \in Nat /\ u[k] \in Nat /\ u[k - 1] \in Nat /\ u[k - 1] <= u[k]
    BY <2>1
  <2>3. b[k] = a[k] + u[k] - u[k - 1]
    OBVIOUS
  <2> HIDE DEF b
  <2>4. QED
    BY <2>2, <2>3
<1>2. b \in [1..n -> Nat] /\ DOMAIN b = 1..n /\ DOMAIN a = 1..n
  <2>1. \A k \in 1..n : a[k] + u[k] - u[k - 1] \in Nat
    BY <1>1
  <2>2. QED
    BY <2>1
<1>3. \A x : x \in Pairs(b) <=> x = <<x[1], x[2]>> /\ x[1] \in 1..n /\ x[2] \in 1..b[x[1]]
  <2> HIDE DEF b
  <2>1. QED
    BY <1>2, PairsElement
<1>4. \A x : x \in Pairs(a) <=> x = <<x[1], x[2]>> /\ x[1] \in 1..n /\ x[2] \in 1..a[x[1]]
  <2>1. QED
    BY <1>2, PairsElement
<1> HIDE DEF b
<1>5. \A x \in Pairs(b) : x[2] \in Nat
  BY <1>1, <1>3
<1>6. Pairs(b) = Pairs(a) \cup N /\ Pairs(a) \cap N = {}
  <2>1. \A x \in Pairs(a) : x \in Pairs(b) /\ ~(x[2] > a[x[1]])
    <3> SUFFICES ASSUME NEW x \in Pairs(a) PROVE x \in Pairs(b) /\ ~(x[2] > a[x[1]])
      OBVIOUS
    <3>1. x = <<x[1], x[2]>> /\ x[1] \in 1..n /\ x[2] \in 1..a[x[1]]
      BY <1>4
    <3>2. x[2] \in 1..b[x[1]] /\ ~(x[2] > a[x[1]])
      <4>1. a[x[1]] \in Nat /\ b[x[1]] \in Nat /\ a[x[1]] <= b[x[1]]
        BY <1>1, <3>1
      <4>2. x[2] \in Nat /\ x[2] >= 1 /\ x[2] <= a[x[1]]
        BY <3>1, <4>1
      <4>3. QED
        BY <4>1, <4>2
    <3>3. QED
      BY <1>3, <3>1, <3>2
  <2>2. \A x \in Pairs(b) : ~(x[2] > a[x[1]]) => x \in Pairs(a)
    <3> SUFFICES ASSUME NEW x \in Pairs(b), ~(x[2] > a[x[1]]) PROVE x \in Pairs(a)
      OBVIOUS
    <3>1. x = <<x[1], x[2]>> /\ x[1] \in 1..n /\ x[2] \in 1..b[x[1]]
      BY <1>3
    <3>2. x[2] \in 1..a[x[1]]
      BY <1>1, <3>1
    <3>3. QED
      BY <1>4, <3>1, <3>2
  <2>3. QED
    BY <2>1, <2>2
<1>7. ASSUME NEW x \in N
      PROVE  /\ x = <<x[1], x[2]>> /\ x[1] \in 1..n /\ x[2] \in Nat
             /\ phi[x] = u[x[1] - 1] + (x[2] - a[x[1]])
             /\ phi[x] \in Nat /\ u[x[1] - 1] < phi[x] /\ phi[x] <= u[x[1]]
  <2>1. x = <<x[1], x[2]>> /\ x[1] \in 1..n /\ x[2] \in 1..b[x[1]] /\ x[2] > a[x[1]]
    BY <1>3
  <2>2. phi[x] = u[x[1] - 1] + (x[2] - a[x[1]])
    OBVIOUS
  <2> HIDE DEF phi, N
  <2>3. QED
    BY <1>1, <2>1, <2>2, SMTT(30)
<1>8. phi \in Bijection(N, 1..u[n])
  <2>1. phi \in [N -> 1..u[n]]
    <3>1. ASSUME NEW x \in N PROVE phi[x] \in 1..u[n]
      <4>1. u[x[1]] <= u[n] /\ u[n] \in Nat /\ x[1] \in 1..n
        BY <1>7
      <4> HIDE DEF phi, N
      <4>2. QED
        BY <1>1, <1>7, <4>1, SMTT(30)
    <3>2. phi = [x \in N |-> phi[x]]
      OBVIOUS
    <3> HIDE DEF phi, N
    <3>3. QED
      BY <3>1, <3>2
  <2>2. ASSUME NEW x \in N, NEW y \in N, phi[x] = phi[y] PROVE x = y
    <3> HIDE DEF phi, N
    <3>1. ASSUME NEW p \in N, NEW q \in N, phi[p] = phi[q] PROVE ~(p[1] < q[1])
      <4> SUFFICES ASSUME p[1] < q[1] PROVE FALSE
        OBVIOUS
      <4>1. p[1] \in 1..n /\ q[1] \in 1..n
        BY <1>7
      <4>2. q[1] - 1 \in 0..n /\ p[1] \in 0..(q[1] - 1)
        BY <3>1, <4>1, SMTT(30)
      <4>3. u[p[1]] <= u[q[1] - 1]
        BY <4>2
      <4>4. phi[p] <= u[p[1]] /\ u[q[1] - 1] < phi[q] /\ phi[p] \in Nat /\ phi[q] \in Nat
        BY <1>7
      <4>5. u[p[1]] \in Nat /\ u[q[1] - 1] \in Nat
        BY <4>1, <4>2
      <4>6. QED
        BY <3>1, <4>3, <4>4, <4>5
    <3>2. x[1] = y[1]
      <4>1. x[1] \in 1..n /\ y[1] \in 1..n
        BY <1>7
      <4>2. ~(x[1] < y[1]) /\ ~(y[1] < x[1])
        BY <2>2, <3>1
      <4>3. QED
        BY <4>1, <4>2
    <3>3. x[2] = y[2]
      <4>1. /\ x[1] \in 1..n /\ x[2] \in Nat /\ y[2] \in Nat
            /\ phi[x] = u[x[1] - 1] + (x[2] - a[x[1]])
            /\ phi[y] = u[y[1] - 1] + (y[2] - a[y[1]])
        BY <1>7
      <4>2. a[x[1]] \in Nat /\ u[x[1] - 1] \in Nat
        BY <1>1, <4>1
      <4>3. a[x[1]] = a[y[1]] /\ u[x[1] - 1] = u[y[1] - 1]
        BY <3>2
      <4>4. \A A, U, p, q \in Nat : U + (p - A) = U + (q - A) => p = q
        OBVIOUS
      <4>5. u[x[1] - 1] + (x[2] - a[x[1]]) = u[x[1] - 1] + (y[2] - a[x[1]])
        BY <2>2, <4>1, <4>3
      <4>6. QED
        BY <4>1, <4>2, <4>4, <4>5
    <3>4. x = <<x[1], x[2]>> /\ y = <<y[1], y[2]>>
      BY <1>7
    <3>5. QED
      BY <3>2, <3>3, <3>4
  <2>3. ASSUME NEW m \in 1..u[n] PROVE \E x \in N : phi[x] = m
    <3>1. PICK k \in 1..n : u[k - 1] < m /\ m <= u[k]
      BY StairsReach
    <3> DEFINE x == <<k, a[k] + (m - u[k - 1])>>
    <3>2. x[1] = k /\ x[2] = a[k] + (m - u[k - 1]) /\ x = <<x[1], x[2]>>
      OBVIOUS
    <3> HIDE DEF x
    <3>3. m \in Nat
      OBVIOUS
    <3>4. x[2] \in 1..b[k] /\ x[2] > a[k]
      BY <1>1, <3>1, <3>2, <3>3, SMTT(30)
    <3>5. x \in N
      BY <1>3, <3>2, <3>4
    <3>6. phi[x] = u[x[1] - 1] + (x[2] - a[x[1]])
      BY <1>7, <3>5
    <3> HIDE DEF phi, N
    <3>7. phi[x] = m
      BY <1>1, <3>1, <3>2, <3>3, <3>6
    <3>8. QED
      BY <3>5, <3>7
  <2> HIDE DEF phi, N
  <2>4. QED
    BY <2>1, <2>2, <2>3 DEF Bijection, Injection, Surjection, IsInjective
<1>9. IsFiniteSet(1..n)
  BY FS_Interval
<1>10. IsFiniteSet(Pairs(b)) /\ IsFiniteSet(Pairs(a))
  BY <1>2, <1>9, PairsFinite
<1> HIDE DEF phi
<1>11. IsFiniteSet(N)
  BY <1>10, FS_Subset
<1> HIDE DEF N
<1>12. u[n] \in Nat
  OBVIOUS
<1>13. Cardinality(1..u[n]) = u[n]
  BY <1>12, FS_Interval
<1>14. Cardinality(1..u[n]) = Cardinality(N)
  BY <1>8, <1>11, FS_Bijection DEF ExistsBijection
<1>15. Cardinality(Pairs(a) \cup N) = Cardinality(Pairs(a)) + Cardinality(N)
  BY <1>6, <1>10, <1>11, DisjointUnion
<1>16. QED
  BY <1>2, <1>6, <1>13, <1>14, <1>15 DEF b

(* One number fewer. *)
LEMMA PairsDrop ==
  ASSUME NEW n \in Nat, NEW a \in [1..n -> Nat], NEW k \in 1..n, a[k] > 0
  PROVE  LET b == [a EXCEPT ![k] = @ - 1]
         IN  b \in [1..n -> Nat] /\ Cardinality(Pairs(b)) = Cardinality(Pairs(a)) - 1
<1> DEFINE b == [a EXCEPT ![k] = @ - 1]
           t == <<k, a[k]>>
<1>1. /\ b \in [1..n -> Nat] /\ DOMAIN a = 1..n /\ DOMAIN b = 1..n
      /\ \A j \in 1..n : b[j] = IF j = k THEN a[k] - 1 ELSE a[j]
  OBVIOUS
<1> HIDE DEF b
<1>2. /\ \A x : x \in Pairs(b) <=> x = <<x[1], x[2]>> /\ x[1] \in 1..n /\ x[2] \in 1..b[x[1]]
      /\ \A x : x \in Pairs(a) <=> x = <<x[1], x[2]>> /\ x[1] \in 1..n /\ x[2] \in 1..a[x[1]]
  BY <1>1, PairsElement
<1>3. t[1] = k /\ t[2] = a[k] /\ t = <<t[1], t[2]>> /\ a[k] \in Nat
      /\ \A x : x = <<x[1], x[2]>> => (x = t <=> x[1] = k /\ x[2] = a[k])
  OBVIOUS
<1> HIDE DEF t
<1>4. t \in Pairs(a)
  BY <1>2, <1>3
<1>5. Pairs(b) = Pairs(a) \ {t}
  <2> SUFFICES ASSUME NEW x PROVE x \in Pairs(b) <=> x \in Pairs(a) /\ x # t
    OBVIOUS
  <2>1. CASE x[1] = k
    BY <1>1, <1>2, <1>3, <2>1
  <2>2. CASE x[1] # k
    <3>1. x[1] \in 1..n => b[x[1]] = a[x[1]]
      BY <1>1, <2>2
    <3>2. QED
      BY <1>2, <1>3, <2>2, <3>1
  <2>3. QED
    BY <2>1, <2>2
<1>6. IsFiniteSet(1..n)
  BY FS_Interval
<1>7. IsFiniteSet(Pairs(a))
  BY <1>6, PairsFinite
<1>8. QED
  BY <1>1, <1>4, <1>5, <1>7, FS_RemoveElement DEF b

(* One of each. *)
LEMMA PairsOnes ==
  ASSUME NEW n \in Nat
  PROVE  Cardinality(Pairs([k \in 1..n |-> 1])) = n
<1> DEFINE a == [k \in 1..n |-> 1]
           f == [k \in 1..n |-> <<k, 1>>]
<1>1. DOMAIN a = 1..n /\ \A k \in 1..n : a[k] = 1
  OBVIOUS
<1> HIDE DEF a
<1>2. \A x : x \in Pairs(a) <=> x = <<x[1], x[2]>> /\ x[1] \in 1..n /\ x[2] \in 1..a[x[1]]
  BY <1>1, PairsElement
<1>3. f \in Bijection(1..n, Pairs(a))
  <2>1. ASSUME NEW k \in 1..n PROVE f[k] \in Pairs(a) /\ f[k] = <<k, 1>>
    BY <1>1, <1>2
  <2>2. f \in [1..n -> Pairs(a)]
    BY <2>1
  <2>3. \A k, l \in 1..n : f[k] = f[l] => k = l
    OBVIOUS
  <2>4. ASSUME NEW x \in Pairs(a) PROVE \E k \in 1..n : f[k] = x
    BY <1>1, <1>2, <2>1
  <2>5. QED
    BY <2>2, <2>3, <2>4 DEF Bijection, Injection, Surjection, IsInjective
<1>4. IsFiniteSet(1..n) /\ Cardinality(1..n) = n
  BY FS_Interval
<1> HIDE DEF f
<1>5. QED
  BY <1>3, <1>4, FS_Bijection DEF ExistsBijection, a

-----------------------------------------------------------------------------
(* The ranges of a configuration.                                          *)

(* What the assumptions say of the configuration, and the ranges it        *)
(* spans.                                                                  *)
LEMMA Ranges ==
  ASSUME Types
  PROVE  /\ c \in relayCfg /\ mode \in ModeNames
         /\ NListeners \in Nat /\ NListeners # 0 /\ MaxConns \in Nat /\ MaxConns # 0
         /\ PerLn \in Nat /\ PerLn # 0 /\ c.accepts \in Nat /\ c.fds \in Nat
         /\ Ids \subseteq Nat \ {0} /\ FDs \subseteq Nat \ {0}
         /\ Listeners \subseteq Nat \ {0}
         /\ IsFiniteSet(Ids) /\ IsFiniteSet(FDs)
<1>1. c \in relayCfg
  BY RelayAssumption DEF Types
<1>2. /\ c.mode \in ModeNames /\ c.ports \in Nat \ {0} /\ c.acceptBatch \in Nat \ {0}
      /\ c.maxConns \in Nat \ {0} /\ c.fds \in Nat /\ c.accepts \in Nat
  BY <1>1 DEF relayCfg
<1>3. \A x \in Nat, y \in Nat \ {0} : x \div y \in Nat
  OBVIOUS
<1>4. c.acceptBatch \div c.ports \in Nat
  BY <1>2, <1>3
<1>5. PerLn \in Nat /\ PerLn # 0
  BY <1>4 DEF PerLn, Larger, NListeners
<1>6. IsFiniteSet(1..c.accepts) /\ IsFiniteSet(1..c.fds)
  <2>1. 1 \in Int /\ c.accepts \in Int /\ c.fds \in Int
    BY <1>2
  <2>2. QED
    BY <2>1, FS_Interval
<1>7. QED
  BY <1>1, <1>2, <1>5, <1>6 DEF mode, NListeners, MaxConns, Ids, FDs, Listeners

(* Connections and those that serve are finitely many. *)
LEMMA LiveFinite ==
  ASSUME Types
  PROVE  /\ Live \in SUBSET Ids /\ Serving \in SUBSET Live
         /\ IsFiniteSet(Live) /\ Cardinality(Live) \in Nat
         /\ IsFiniteSet(Serving) /\ Cardinality(Serving) \in Nat
<1>1. IsFiniteSet(Ids)
  BY Ranges
<1>2. Live \in SUBSET Ids /\ Serving \in SUBSET Live
  BY DEF Live, Serving
<1>3. IsFiniteSet(Live)
  BY <1>1, <1>2, FS_Subset
<1>4. IsFiniteSet(Serving)
  BY <1>2, <1>3, FS_Subset
<1>5. QED
  BY <1>2, <1>3, <1>4, FS_CardinalityType

(* The configuration stays. *)
LEMMA SameConfig ==
  ASSUME c' = c
  PROVE  /\ mode' = mode /\ NListeners' = NListeners /\ MaxConns' = MaxConns
         /\ Listeners' = Listeners /\ Ids' = Ids /\ FDs' = FDs /\ PerLn' = PerLn
  BY DEF mode, NListeners, MaxConns, Listeners, Ids, FDs, PerLn

-----------------------------------------------------------------------------
(* Counting operations.                                                    *)

(* The operations of the kernel are a bag.                                 *)
LEMMA KopsBag ==
  ASSUME Types
  PROVE  /\ kops \in [DOMAIN kops -> Nat \ {0}] /\ IsFiniteSet(DOMAIN kops)
         /\ kops \in [DOMAIN kops -> Nat] /\ Bag(kops)
  BY DEF Types, Bag

(* The copies that the kernel holds are counted in its bag.                *)
LEMMA InKernelIsInBag ==
  ASSUME NEW V
  PROVE  InKernel(V) = InBag(kops, V) /\ InKernel(V)' = InBag(kops', V)
  BY DEF InKernel, Copies, InBag, PairsIn, Pairs

(* The counts of pending operations are numbers.                           *)
LEMMA CountNat ==
  ASSUME Types, NEW V
  PROVE  /\ Occurs(sq, V) \in Nat /\ InKernel(V) \in Nat
         /\ Occurs(cq, Completed(V)) \in Nat /\ Count(V) \in Nat
<1>1. Occurs(sq, V) \in Nat /\ Occurs(cq, Completed(V)) \in Nat
  BY AtFinite DEF Types
<1>2. InKernel(V) \in Nat
  BY KopsBag, PairsFinite, InKernelIsInBag
<1>3. QED
  BY <1>1, <1>2 DEF Count

(* Nothing is counted exactly when nothing is there. *)
LEMMA CountNone ==
  ASSUME Types, NEW V
  PROVE  Count(V) = 0 <=> /\ \A j \in DOMAIN sq : sq[j] \notin V
                          /\ \A h \in DOMAIN kops : h.o \notin V
                          /\ \A j \in DOMAIN cq : cq[j].o \notin V
<1>1. Occurs(sq, V) = 0 <=> \A j \in DOMAIN sq : sq[j] \notin V
  BY OccursNone DEF Types
<1>2. InKernel(V) = 0 <=> \A h \in DOMAIN kops : h.o \notin V
  BY KopsBag, InBagNone, InKernelIsInBag
<1>3. Occurs(cq, Completed(V)) = 0 <=> \A j \in DOMAIN cq : cq[j] \notin Completed(V)
  BY OccursNone DEF Types
<1>4. \A j \in DOMAIN cq : cq[j] \in Completions
  BY DEF Types
<1>5. \A j \in DOMAIN cq : cq[j] \in Completed(V) <=> cq[j].o \in V
  BY <1>4 DEF Completed
<1>6. Count(V) = 0 <=> Occurs(sq, V) = 0 /\ InKernel(V) = 0 /\ Occurs(cq, Completed(V)) = 0
  BY CountNat DEF Count
<1>7. QED
  BY <1>1, <1>2, <1>3, <1>5, <1>6

(* Disjoint sets are counted apart. *)
LEMMA CountSplit ==
  ASSUME Types, NEW U, NEW V, NEW W, U = V \cup W, V \cap W = {}
  PROVE  Count(U) = Count(V) + Count(W)
<1>1. sq \in Seq(Ops) /\ cq \in Seq(Completions)
  BY DEF Types
<1>2. Occurs(sq, U) = Occurs(sq, V) + Occurs(sq, W)
  BY <1>1, OccursSplit
<1>3. InKernel(U) = InKernel(V) + InKernel(W)
  BY KopsBag, InBagSplit, InKernelIsInBag
<1>4. Occurs(cq, Completed(U)) = Occurs(cq, Completed(V)) + Occurs(cq, Completed(W))
  <2>1. Completed(U) = Completed(V) \cup Completed(W) /\ Completed(V) \cap Completed(W) = {}
    BY DEF Completed
  <2> DEFINE P == Completed(U)
             Q == Completed(V)
             R == Completed(W)
  <2> HIDE DEF P, Q, R
  <2>2. Occurs(cq, P) = Occurs(cq, Q) + Occurs(cq, R)
    <3>1. P = Q \cup R /\ Q \cap R = {}
      BY <2>1 DEF P, Q, R
    <3>2. QED
      BY <1>1, <3>1, OccursSplit
  <2>3. QED
    BY <2>2 DEF P, Q, R
<1>5. QED
  BY <1>2, <1>3, <1>4, CountNat DEF Count

(* A part is no more than the whole. *)
LEMMA CountMore ==
  ASSUME Types, NEW V, NEW U, V \subseteq U
  PROVE  Count(V) <= Count(U)
<1>1. U = V \cup (U \ V) /\ V \cap (U \ V) = {}
  OBVIOUS
<1>2. Count(U) = Count(V) + Count(U \ V)
  BY <1>1, CountSplit
<1>3. Count(V) \in Nat /\ Count(U \ V) \in Nat
  BY CountNat
<1>4. QED
  BY <1>2, <1>3

(* Nothing changes. *)
LEMMA CountSame ==
  ASSUME sq' = sq, kops' = kops, cq' = cq, NEW V
  PROVE  Count(V)' = Count(V) /\ InKernel(V)' = InKernel(V)
<1>1. InKernel(V)' = InKernel(V)
  BY InKernelIsInBag
<1>2. QED
  BY <1>1 DEF Count

(* Operations are prepared. *)
LEMMA CountPosted ==
  ASSUME Types, NEW ops \in Seq(Ops), sq' = sq \o ops, kops' = kops, cq' = cq, NEW V
  PROVE  Count(V)' = Count(V) + Occurs(ops, V)
<1>1. Occurs(sq', V) = Occurs(sq, V) + Occurs(ops, V)
  BY OccursConcat DEF Types
<1>2. InKernel(V)' = InKernel(V)
  BY InKernelIsInBag
<1>3. Occurs(ops, V) \in Nat
  BY AtFinite
<1>4. QED
  BY <1>1, <1>2, <1>3, CountNat DEF Count

(* The completion at the head is handled, operations are prepared. *)
LEMMA CountHandled ==
  ASSUME Types, cq # <<>>, cq' = Tail(cq), NEW ops \in Seq(Ops), sq' = sq \o ops,
         kops' = kops, NEW V
  PROVE  /\ Count(V)' = Count(V) - Expect(Head(cq).o \in V) + Occurs(ops, V)
         /\ InKernel(V)' = InKernel(V)
<1>1. Occurs(sq', V) = Occurs(sq, V) + Occurs(ops, V)
  BY OccursConcat DEF Types
<1>2. InKernel(V)' = InKernel(V)
  BY InKernelIsInBag
<1>3. Occurs(cq', Completed(V)) = Occurs(cq, Completed(V)) - Expect(Head(cq) \in Completed(V))
  BY OccursTail DEF Types
<1>4. Head(cq) \in Completions
  BY DEF Types
<1>5. Head(cq) \in Completed(V) <=> Head(cq).o \in V
  BY <1>4 DEF Completed
<1>6. Occurs(ops, V) \in Nat
  BY AtFinite
<1>7. Expect(Head(cq) \in Completed(V)) = Expect(Head(cq).o \in V) /\ Expect(Head(cq).o \in V) \in Nat
  BY <1>5 DEF Expect
<1>8. QED
  BY <1>1, <1>2, <1>3, <1>6, <1>7, CountNat, SMTT(30) DEF Count

(* The kernel completes an operation it holds. *)
LEMMA CountTaken ==
  ASSUME Types, NEW h \in DOMAIN kops, Take(h), NEW res \in Int,
         cq' = Append(cq, [o |-> h.o, res |-> res]), sq' = sq, NEW V
  PROVE  /\ Count(V)' = Count(V)
         /\ InKernel(V)' = InKernel(V) - Expect(h.o \in V)
         /\ kops' \in [DOMAIN kops' -> Nat \ {0}] /\ IsFiniteSet(DOMAIN kops')
         /\ DOMAIN kops' \subseteq DOMAIN kops
         /\ [o |-> h.o, res |-> res] \in Completions
<1> DEFINE e == [o |-> h.o, res |-> res]
<1>1. Fewer(kops', kops, h)
  BY DEF Take, Fewer
<1>2. /\ Bag(kops') /\ DOMAIN kops' \subseteq DOMAIN kops
      /\ InBag(kops', V) = InBag(kops, V) - Expect(h.o \in V)
  BY <1>1, KopsBag, InBagTake
<1>3. h.o \in Ops
  BY DEF Types, HeldOps
<1>4. e \in Completions /\ (e \in Completed(V) <=> h.o \in V)
  BY <1>3 DEF Completions, Completed
<1> HIDE DEF e
<1>5. Occurs(cq', Completed(V)) = Occurs(cq, Completed(V)) + Expect(e \in Completed(V))
  BY <1>4, OccursAppend DEF Types, e
<1>6. InKernel(V)' = InKernel(V) - Expect(h.o \in V)
  BY <1>1, <1>2, InKernelIsInBag
<1>7. Expect(e \in Completed(V)) = Expect(h.o \in V) /\ Expect(h.o \in V) \in Nat
  BY <1>4 DEF Expect
<1>8. Count(V)' = Count(V)
  BY <1>5, <1>6, <1>7, CountNat DEF Count
<1>9. QED
  BY <1>2, <1>4, <1>6, <1>8 DEF e, Bag

(* The kernel completes an accept. *)
LEMMA CountAccepted ==
  ASSUME Types, NEW e \in Completions, cq' = Append(cq, e), sq' = sq, kops' = kops, NEW V,
         e.o \notin V
  PROVE  Count(V)' = Count(V) /\ InKernel(V)' = InKernel(V)
<1>1. e \notin Completed(V)
  BY DEF Completed
<1>2. Occurs(cq', Completed(V)) = Occurs(cq, Completed(V)) + Expect(e \in Completed(V))
  BY OccursAppend DEF Types
<1>3. InKernel(V)' = InKernel(V)
  BY InKernelIsInBag
<1>4. Expect(e \in Completed(V)) = 0
  BY <1>1 DEF Expect
<1>5. QED
  BY <1>2, <1>3, <1>4, CountNat DEF Count

(* What was prepared is submitted. *)
LEMMA CountTurned ==
  ASSUME Types, Turn, NEW V
  PROVE  /\ Count(V)' = Count(V)
         /\ InKernel(V)' = InKernel(V) + Occurs(sq, V)
         /\ kops' \in [DOMAIN kops' -> Nat \ {0}] /\ IsFiniteSet(DOMAIN kops')
         /\ DOMAIN kops' = DOMAIN kops \cup {Held(sq[j]) : j \in DOMAIN sq}
<1> DEFINE g == [j \in DOMAIN sq |-> Held(sq[j])]
           T == {Held(sq[j]) : j \in DOMAIN sq}
<1>1. DOMAIN sq = 1..Len(sq) /\ Len(sq) \in Nat /\ sq' = <<>> /\ cq' = cq
  BY DEF Types, Turn
<1>2. g \in Seq(T) /\ DOMAIN g = DOMAIN sq /\ \A j \in DOMAIN sq : g[j] = Held(sq[j])
  <2>1. g \in [1..Len(sq) -> T]
    BY <1>1
  <2>2. QED
    BY <1>1, <2>1, SeqDef
<1>3. \A h : Submitted(h) = Occurs(g, {h})
  <2> SUFFICES ASSUME NEW h PROVE Submitted(h) = Occurs(g, {h})
    OBVIOUS
  <2>1. {j \in DOMAIN sq : Held(sq[j]) = h} = At(g, {h})
    BY <1>2 DEF At
  <2> HIDE DEF g, T
  <2>2. QED
    BY <2>1 DEF Submitted, Occurs
<1>4. T = {g[j] : j \in DOMAIN g}
  BY <1>2
<1> HIDE DEF g
<1>5. kops' = [h \in DOMAIN kops \cup T |->
                 (IF h \in DOMAIN kops THEN kops[h] ELSE 0) + Submitted(h)]
  BY DEF Turn
<1>6. More(kops', kops, g) /\ DOMAIN kops' = DOMAIN kops \cup T
  <2> HIDE DEF T
  <2>1. kops' = [h \in DOMAIN kops \cup T |->
                   (IF h \in DOMAIN kops THEN kops[h] ELSE 0) + Occurs(g, {h})]
    BY <1>3, <1>5
  <2>2. QED
    BY <1>4, <2>1 DEF More
<1>7. Bag(kops') /\ InBag(kops', V) = InBag(kops, V) + Occurs(sq, V)
  <2> HIDE DEF T
  <2>1. \A j \in DOMAIN g : sq[j] = g[j].o
    BY <1>2 DEF Held
  <2>2. QED
    BY <1>2, <1>6, <2>1, KopsBag, InBagAdd
<1>8. InKernel(V)' = InKernel(V) + Occurs(sq, V)
  BY <1>7, InKernelIsInBag
<1>9. Occurs(sq', V) = 0
  BY <1>1, OccursEmpty
<1>10. Occurs(cq', Completed(V)) = Occurs(cq, Completed(V))
  BY <1>1
<1>11. Count(V)' = Count(V)
  BY <1>8, <1>9, <1>10, CountNat DEF Count
<1>12. QED
  BY <1>6, <1>8, <1>11, <1>7 DEF T, Bag

-----------------------------------------------------------------------------
(* Counting hook calls.                                                    *)

(* The counts of pending hook work are numbers.                            *)
LEMMA HookNat ==
  ASSUME Types, NEW i
  PROVE  /\ Occurs(jobs, {i}) \in Nat /\ Occurs(ready, ResultsFor(i)) \in Nat
         /\ Occurs(drained, ResultsFor(i)) \in Nat /\ HookWork(i) \in Nat
<1>1. /\ Occurs(jobs, {i}) \in Nat /\ Occurs(ready, ResultsFor(i)) \in Nat
      /\ Occurs(drained, ResultsFor(i)) \in Nat
  BY AtFinite DEF Types
<1>2. QED
  BY <1>1 DEF HookWork

(* No hook call is under way exactly when there is none anywhere. *)
LEMMA HookNone ==
  ASSUME Types, NEW i
  PROVE  HookWork(i) = 0 <=>
           /\ \A j \in DOMAIN jobs : jobs[j] # i
           /\ i \notin running
           /\ \A j \in DOMAIN ready : ready[j].id # i
           /\ \A j \in DOMAIN drained : drained[j].id # i
<1>1. Occurs(jobs, {i}) = 0 <=> \A j \in DOMAIN jobs : jobs[j] \notin {i}
  BY OccursNone DEF Types
<1>2. /\ Occurs(ready, ResultsFor(i)) = 0 <=> \A j \in DOMAIN ready : ready[j] \notin ResultsFor(i)
      /\ Occurs(drained, ResultsFor(i)) = 0
           <=> \A j \in DOMAIN drained : drained[j] \notin ResultsFor(i)
  BY OccursNone DEF Types
<1>3. /\ \A j \in DOMAIN ready : ready[j] \in Results
      /\ \A j \in DOMAIN drained : drained[j] \in Results
  BY DEF Types
<1>4. /\ \A j \in DOMAIN ready : ready[j] \in ResultsFor(i) <=> ready[j].id = i
      /\ \A j \in DOMAIN drained : drained[j] \in ResultsFor(i) <=> drained[j].id = i
  BY <1>3 DEF ResultsFor
<1>5. HookWork(i) = 0 <=> /\ Occurs(jobs, {i}) = 0 /\ i \notin running
                          /\ Occurs(ready, ResultsFor(i)) = 0
                          /\ Occurs(drained, ResultsFor(i)) = 0
  BY HookNat DEF HookWork
<1>6. QED
  BY <1>1, <1>2, <1>4, <1>5

(* Hook work is made of the queues and the hooks in progress only.         *)
LEMMA HookSame ==
  ASSUME jobs' = jobs, running' = running, ready' = ready, drained' = drained, NEW i
  PROVE  HookWork(i)' = HookWork(i)
  BY DEF HookWork

-----------------------------------------------------------------------------
(* What belongs to a connection.                                           *)

WorkOps == ChurnOps \cup RelayOps \cup {"Close"}
LateOps == ChurnOps \ {"RecvReq"}

(* The step leaves what j waits for alone. *)
Untouched(j) ==
  /\ HookWork(j)' = HookWork(j)
  /\ \A K \in SUBSET WorkOps, D \in SUBSET (Dirs \cup {NoDir}) :
       Count(OpsOf(j, K, D))' = Count(OpsOf(j, K, D))

(* An operation that is nothing of j's. *)
Away(o, j) == o.op \in WorkOps => o.id # j

(* What a connection waits for is the same after the step. *)
Steady(j) ==
  /\ ChurnWork(j)' = ChurnWork(j) /\ EarlyWork(j)' = EarlyWork(j)
  /\ CloseWork(j)' = CloseWork(j)
  /\ \A d \in Dirs : /\ RelayWork(j, RelayOps, d)' = RelayWork(j, RelayOps, d)
                     /\ RelayWork(j, {"SpliceIn"}, d)' = RelayWork(j, {"SpliceIn"}, d)
                     /\ RelayWork(j, {"SpliceOut"}, d)' = RelayWork(j, {"SpliceOut"}, d)

(* A connection whose work is untouched stays at its stage.                *)
LEMMA UntouchedSteady ==
  ASSUME NEW j, Untouched(j)
  PROVE  Steady(j)
<1>1. /\ HookWork(j)' = HookWork(j)
      /\ Count(OpsOf(j, ChurnOps, {NoDir}))' = Count(OpsOf(j, ChurnOps, {NoDir}))
      /\ Count(OpsOf(j, {"RecvReq"}, {NoDir}))' = Count(OpsOf(j, {"RecvReq"}, {NoDir}))
      /\ Count(OpsOf(j, {"Close"}, {NoDir}))' = Count(OpsOf(j, {"Close"}, {NoDir}))
  BY DEF Untouched, WorkOps, ChurnOps
<1>2. \A d \in Dirs :
        /\ Count(OpsOf(j, RelayOps, {d}))' = Count(OpsOf(j, RelayOps, {d}))
        /\ Count(OpsOf(j, {"SpliceIn"}, {d}))' = Count(OpsOf(j, {"SpliceIn"}, {d}))
        /\ Count(OpsOf(j, {"SpliceOut"}, {d}))' = Count(OpsOf(j, {"SpliceOut"}, {d}))
  BY DEF Untouched, WorkOps, RelayOps
<1>3. ChurnWork(j)' = ChurnWork(j) /\ EarlyWork(j)' = EarlyWork(j) /\ CloseWork(j)' = CloseWork(j)
  BY <1>1 DEF ChurnWork, EarlyWork, CloseWork
<1>4. \A d \in Dirs : /\ RelayWork(j, RelayOps, d)' = RelayWork(j, RelayOps, d)
                      /\ RelayWork(j, {"SpliceIn"}, d)' = RelayWork(j, {"SpliceIn"}, d)
                      /\ RelayWork(j, {"SpliceOut"}, d)' = RelayWork(j, {"SpliceOut"}, d)
  BY <1>2 DEF RelayWork
<1>5. QED
  BY <1>3, <1>4 DEF Steady

(* A connection whose work and entry are the same stays where it is. *)
LEMMA LifeFrame ==
  ASSUME NEW j, LifeOf(j), mode' = mode, Steady(j),
         (j \in Live)' <=> j \in Live, j \in Live => Cc(j)' = Cc(j),
         j > nextID' => j > nextID
  PROVE  LifeOf(j)'
<1>1. ChurnWork(j)' = ChurnWork(j) /\ EarlyWork(j)' = EarlyWork(j) /\ CloseWork(j)' = CloseWork(j)
  BY DEF Steady
<1>2. \A d \in Dirs : /\ RelayWork(j, RelayOps, d)' = RelayWork(j, RelayOps, d)
                      /\ RelayWork(j, {"SpliceIn"}, d)' = RelayWork(j, {"SpliceIn"}, d)
                      /\ RelayWork(j, {"SpliceOut"}, d)' = RelayWork(j, {"SpliceOut"}, d)
  BY DEF Steady
<1>3. CASE j \notin Live
  BY <1>1, <1>2, <1>3 DEF LifeOf, Gone
<1>4. CASE j \in Live /\ Cc(j).closing
  BY <1>1, <1>4 DEF LifeOf, Closing
<1>5. CASE j \in Live /\ ~Cc(j).closing
  <2>1. Open(j)
    BY <1>5 DEF LifeOf
  <2>2. Asking(j) => Asking(j)'
    BY <1>1, <1>2, <1>5 DEF Asking
  <2>3. Copying(j) => Copying(j)'
    BY <1>1, <1>2, <1>5 DEF Copying
  <2>4. Splicing(j) => Splicing(j)'
    BY <1>1, <1>2, <1>5 DEF Splicing
  <2>5. Open(j)'
    BY <1>1, <1>5, <2>1, <2>2, <2>3, <2>4 DEF Open
  <2>6. QED
    BY <1>5, <2>5 DEF LifeOf
<1>6. QED
  BY <1>3, <1>4, <1>5

(* Which operations belong to a connection. *)
LEMMA InOpsOf ==
  ASSUME NEW o \in Ops, NEW i, NEW K, NEW D
  PROVE  o \in OpsOf(i, K, D) <=> o.id = i /\ o.op \in K /\ o.dir \in D
  BY DEF OpsOf

(* An operation of another connection is none of this one.                 *)
LEMMA AwayNot ==
  ASSUME NEW o, NEW j, Away(o, j), NEW K \in SUBSET WorkOps, NEW D
  PROVE  o \notin OpsOf(j, K, D)
  BY DEF Away, OpsOf

(* Sequences of operations of others. *)
LEMMA AwayNone ==
  ASSUME NEW ops \in Seq(Ops), NEW j, \A n \in DOMAIN ops : Away(ops[n], j),
         NEW K \in SUBSET WorkOps, NEW D
  PROVE  Occurs(ops, OpsOf(j, K, D)) = 0
  BY AwayNot, OccursNone

(* A handler leaves the others alone. *)
LEMMA HandledUntouched ==
  ASSUME Types, cq # <<>>, cq' = Tail(cq), NEW ops \in Seq(Ops), sq' = sq \o ops,
         kops' = kops, NEW j, HookWork(j)' = HookWork(j),
         Away(Head(cq).o, j), \A n \in DOMAIN ops : Away(ops[n], j)
  PROVE  Untouched(j)
<1> SUFFICES ASSUME NEW K \in SUBSET WorkOps, NEW D \in SUBSET (Dirs \cup {NoDir})
             PROVE  Count(OpsOf(j, K, D))' = Count(OpsOf(j, K, D))
  BY DEF Untouched
<1>1. Count(OpsOf(j, K, D))' = Count(OpsOf(j, K, D)) - Expect(Head(cq).o \in OpsOf(j, K, D))
                                 + Occurs(ops, OpsOf(j, K, D))
  BY CountHandled
<1>2. Occurs(ops, OpsOf(j, K, D)) = 0 /\ Head(cq).o \notin OpsOf(j, K, D)
  BY AwayNone, AwayNot
<1>3. Count(OpsOf(j, K, D)) \in Nat
  BY CountNat
<1>4. QED
  BY <1>1, <1>2, <1>3 DEF Expect

(* So does the application of a result. *)
LEMMA PostedUntouched ==
  ASSUME Types, cq' = cq, NEW ops \in Seq(Ops), sq' = sq \o ops,
         kops' = kops, NEW j, HookWork(j)' = HookWork(j),
         \A n \in DOMAIN ops : Away(ops[n], j)
  PROVE  Untouched(j)
<1> SUFFICES ASSUME NEW K \in SUBSET WorkOps, NEW D \in SUBSET (Dirs \cup {NoDir})
             PROVE  Count(OpsOf(j, K, D))' = Count(OpsOf(j, K, D))
  BY DEF Untouched
<1>1. Count(OpsOf(j, K, D))' = Count(OpsOf(j, K, D)) + Occurs(ops, OpsOf(j, K, D))
  BY CountPosted
<1>2. Occurs(ops, OpsOf(j, K, D)) = 0
  BY AwayNone
<1>3. Count(OpsOf(j, K, D)) \in Nat
  BY CountNat
<1>4. QED
  BY <1>1, <1>2, <1>3

-----------------------------------------------------------------------------
(* One completion is handled and a few operations are prepared.            *)

Hit(o, i, K, D) == Expect(o.id = i /\ o.op \in K /\ o.dir \in D)

(* The completion at the head. *)
LEMMA HeadFacts ==
  ASSUME Types, Shapes, cq # <<>>
  PROVE  /\ Head(cq) \in Completions /\ Head(cq).o \in Ops /\ Formed(Head(cq).o)
         /\ Head(cq) = cq[1] /\ 1 \in DOMAIN cq /\ Cid \in Nat /\ Res \in Int
         /\ (Head(cq).o.op = "Accept" /\ Res > 0 => Res \in FDs)
         /\ Tail(cq) \in Seq(Completions) /\ Len(Tail(cq)) = Len(cq) - 1
         /\ DOMAIN Tail(cq) = 1..(Len(cq) - 1)
         /\ \A j \in DOMAIN Tail(cq) : j + 1 \in DOMAIN cq /\ Tail(cq)[j] = cq[j + 1]
<1>1. cq \in Seq(Completions)
  BY DEF Types
<1>2. /\ Head(cq) = cq[1] /\ 1 \in DOMAIN cq /\ Head(cq) \in Completions
      /\ Tail(cq) \in Seq(Completions) /\ Len(Tail(cq)) = Len(cq) - 1
      /\ DOMAIN Tail(cq) = 1..(Len(cq) - 1)
      /\ \A j \in DOMAIN Tail(cq) : j + 1 \in DOMAIN cq /\ Tail(cq)[j] = cq[j + 1]
  BY <1>1
<1>3. Head(cq).o \in Ops /\ Res \in Int
  BY <1>2 DEF Completions, Res
<1>4. Cid \in Nat
  BY <1>3 DEF Ops, Cid
<1>5. QED
  BY <1>2, <1>3, <1>4 DEF Shapes, Res

(* The queues are sequences.                                               *)
LEMMA SeqTypes ==
  ASSUME Types
  PROVE  /\ sq \in Seq(Ops) /\ cq \in Seq(Completions) /\ jobs \in Seq(Nat)
         /\ ready \in Seq(Results) /\ drained \in Seq(Results)
         /\ <<>> \in Seq(Ops)
  BY DEF Types

(* The completion that is handled carries an operation.                    *)
LEMMA HeadOp ==
  ASSUME Types, cq # <<>>
  PROVE  Head(cq) \in Completions /\ Head(cq).o \in Ops
<1>1. cq \in Seq(Completions)
  BY DEF Types
<1>2. Head(cq) \in Completions
  BY <1>1
<1>3. QED
  BY <1>2 DEF Completions

(* A completion is handled and nothing posted.                             *)
LEMMA HandledNone ==
  ASSUME Types, cq # <<>>, cq' = Tail(cq), sq' = sq, kops' = kops,
         NEW i, NEW K, NEW D
  PROVE  Count(OpsOf(i, K, D))' = Count(OpsOf(i, K, D)) - Hit(Head(cq).o, i, K, D)
<1>1. sq \in Seq(Ops) /\ <<>> \in Seq(Ops) /\ Head(cq).o \in Ops
  BY HeadOp, SeqTypes
<1>2. sq' = sq \o <<>>
  BY <1>1, ConcatEmptySeq
<1>3. Count(OpsOf(i, K, D))' = Count(OpsOf(i, K, D)) - Expect(Head(cq).o \in OpsOf(i, K, D))
                                 + Occurs(<<>>, OpsOf(i, K, D))
  BY <1>1, <1>2, CountHandled
<1>4. Occurs(<<>>, OpsOf(i, K, D)) = 0
  BY OccursEmpty
<1>5. Expect(Head(cq).o \in OpsOf(i, K, D)) = Hit(Head(cq).o, i, K, D)
      /\ Hit(Head(cq).o, i, K, D) \in Nat
  BY <1>1, InOpsOf DEF Hit, Expect
<1>6. Count(OpsOf(i, K, D)) \in Nat
  BY CountNat
<1>7. QED
  BY <1>3, <1>4, <1>5, <1>6

(* A completion is handled and one operation posted.                       *)
LEMMA HandledOne ==
  ASSUME Types, cq # <<>>, cq' = Tail(cq), NEW p \in Ops, sq' = sq \o <<p>>, kops' = kops,
         NEW i, NEW K, NEW D
  PROVE  Count(OpsOf(i, K, D))' = Count(OpsOf(i, K, D)) - Hit(Head(cq).o, i, K, D)
                                    + Hit(p, i, K, D)
<1>1. <<p>> \in Seq(Ops) /\ Head(cq).o \in Ops
  BY HeadOp
<1>2. Count(OpsOf(i, K, D))' = Count(OpsOf(i, K, D)) - Expect(Head(cq).o \in OpsOf(i, K, D))
                                 + Occurs(<<p>>, OpsOf(i, K, D))
  BY <1>1, CountHandled
<1>3. Occurs(<<p>>, OpsOf(i, K, D)) = Expect(p \in OpsOf(i, K, D))
  BY OccursOne
<1>4. Expect(Head(cq).o \in OpsOf(i, K, D)) = Hit(Head(cq).o, i, K, D)
      /\ Expect(p \in OpsOf(i, K, D)) = Hit(p, i, K, D)
  BY <1>1, InOpsOf DEF Hit, Expect
<1>5. QED
  BY <1>2, <1>3, <1>4

(* A completion is handled and two operations posted.                      *)
LEMMA HandledTwo ==
  ASSUME Types, cq # <<>>, cq' = Tail(cq), NEW p \in Ops, NEW q \in Ops,
         sq' = sq \o <<p, q>>, kops' = kops, NEW i, NEW K, NEW D
  PROVE  Count(OpsOf(i, K, D))' = Count(OpsOf(i, K, D)) - Hit(Head(cq).o, i, K, D)
                                    + (Hit(p, i, K, D) + Hit(q, i, K, D))
<1>1. <<p, q>> \in Seq(Ops) /\ Head(cq).o \in Ops
  BY HeadOp
<1>2. Count(OpsOf(i, K, D))' = Count(OpsOf(i, K, D)) - Expect(Head(cq).o \in OpsOf(i, K, D))
                                 + Occurs(<<p, q>>, OpsOf(i, K, D))
  BY <1>1, CountHandled
<1>3. Occurs(<<p, q>>, OpsOf(i, K, D)) = Expect(p \in OpsOf(i, K, D)) + Expect(q \in OpsOf(i, K, D))
  BY OccursTwo
<1>4. Expect(Head(cq).o \in OpsOf(i, K, D)) = Hit(Head(cq).o, i, K, D)
      /\ Expect(p \in OpsOf(i, K, D)) = Hit(p, i, K, D)
      /\ Expect(q \in OpsOf(i, K, D)) = Hit(q, i, K, D)
  BY <1>1, InOpsOf DEF Hit, Expect
<1>5. QED
  BY <1>2, <1>3, <1>4

(* A completion is handled and four operations posted.                     *)
LEMMA HandledFour ==
  ASSUME Types, cq # <<>>, cq' = Tail(cq), NEW p \in Ops, NEW q \in Ops,
         NEW r \in Ops, NEW s \in Ops,
         sq' = sq \o <<p, q, r, s>>, kops' = kops, NEW i, NEW K, NEW D
  PROVE  Count(OpsOf(i, K, D))' = Count(OpsOf(i, K, D)) - Hit(Head(cq).o, i, K, D)
           + (Hit(p, i, K, D) + Hit(q, i, K, D) + Hit(r, i, K, D) + Hit(s, i, K, D))
<1>1. <<p, q, r, s>> \in Seq(Ops) /\ Head(cq).o \in Ops
  BY HeadOp
<1>2. Count(OpsOf(i, K, D))' = Count(OpsOf(i, K, D)) - Expect(Head(cq).o \in OpsOf(i, K, D))
                                 + Occurs(<<p, q, r, s>>, OpsOf(i, K, D))
  BY <1>1, CountHandled
<1>3. Occurs(<<p, q, r, s>>, OpsOf(i, K, D)) =
        Expect(p \in OpsOf(i, K, D)) + Expect(q \in OpsOf(i, K, D))
        + Expect(r \in OpsOf(i, K, D)) + Expect(s \in OpsOf(i, K, D))
  BY OccursFour
<1>4. Expect(Head(cq).o \in OpsOf(i, K, D)) = Hit(Head(cq).o, i, K, D)
      /\ Expect(p \in OpsOf(i, K, D)) = Hit(p, i, K, D)
      /\ Expect(q \in OpsOf(i, K, D)) = Hit(q, i, K, D)
      /\ Expect(r \in OpsOf(i, K, D)) = Hit(r, i, K, D)
      /\ Expect(s \in OpsOf(i, K, D)) = Hit(s, i, K, D)
  BY <1>1, InOpsOf DEF Hit, Expect
<1>5. QED
  BY <1>2, <1>3, <1>4

(* An operation that takes the place of another one. *)
Replaces(p, o) ==
  \/ o.op \notin WorkOps /\ p.op \notin WorkOps
  \/ /\ p.id = o.id /\ p.dir = o.dir
     /\ p.op = o.op \/ {p.op, o.op} \subseteq LateOps \/ {p.op, o.op} \subseteq {"Recv", "Send"}

(* A completion is handled and its operation replaced by one of its kind:  *)
(* every connection stays at its stage.                                    *)
LEMMA ReplacedSteady ==
  ASSUME Types, cq # <<>>, cq' = Tail(cq), NEW p \in Ops, sq' = sq \o <<p>>, kops' = kops,
         Replaces(p, Head(cq).o), NEW j, HookWork(j)' = HookWork(j)
  PROVE  Steady(j)
<1> DEFINE o == Head(cq).o
<1>1. ASSUME NEW K, NEW D, Hit(o, j, K, D) = Hit(p, j, K, D)
      PROVE  Count(OpsOf(j, K, D))' = Count(OpsOf(j, K, D))
  <2>1. Count(OpsOf(j, K, D))' = Count(OpsOf(j, K, D)) - Hit(o, j, K, D) + Hit(p, j, K, D)
    BY HandledOne
  <2>2. Count(OpsOf(j, K, D)) \in Nat /\ Hit(p, j, K, D) \in Nat
    BY CountNat DEF Hit, Expect
  <2>3. QED
    BY <1>1, <2>1, <2>2
<1> HIDE DEF o
<1>2. /\ Hit(o, j, ChurnOps, {NoDir}) = Hit(p, j, ChurnOps, {NoDir})
      /\ Hit(o, j, {"RecvReq"}, {NoDir}) = Hit(p, j, {"RecvReq"}, {NoDir})
      /\ Hit(o, j, {"Close"}, {NoDir}) = Hit(p, j, {"Close"}, {NoDir})
  BY DEF o, Replaces, Hit, Expect, WorkOps, LateOps, ChurnOps, RelayOps
<1>3. ASSUME NEW d \in Dirs
      PROVE  /\ Hit(o, j, RelayOps, {d}) = Hit(p, j, RelayOps, {d})
             /\ Hit(o, j, {"SpliceIn"}, {d}) = Hit(p, j, {"SpliceIn"}, {d})
             /\ Hit(o, j, {"SpliceOut"}, {d}) = Hit(p, j, {"SpliceOut"}, {d})
  BY DEF o, Replaces, Hit, Expect, WorkOps, LateOps, ChurnOps, RelayOps
<1>4. QED
  BY <1>1, <1>2, <1>3 DEF Steady, ChurnWork, EarlyWork, CloseWork, RelayWork

-----------------------------------------------------------------------------
(* The stage of a connection when one of its completions or results comes. *)

RecvWork(i) == Count(OpsOf(i, {"RecvReq"}, {NoDir}))
LateWork(i) == Count(OpsOf(i, LateOps, {NoDir}))
AskWork(i) == Count(OpsOf(i, ChurnOps, {NoDir}))

(* The work of a connection before its relay phase, part by part.          *)
LEMMA ChurnParts ==
  ASSUME Types, NEW i
  PROVE  /\ HookWork(i) \in Nat /\ RecvWork(i) \in Nat /\ LateWork(i) \in Nat
         /\ AskWork(i) \in Nat /\ AskWork(i) = RecvWork(i) + LateWork(i)
         /\ ChurnWork(i) = HookWork(i) + AskWork(i)
         /\ EarlyWork(i) = HookWork(i) + RecvWork(i)
<1> DEFINE U == OpsOf(i, ChurnOps, {NoDir})
           V == OpsOf(i, {"RecvReq"}, {NoDir})
           W == OpsOf(i, LateOps, {NoDir})
<1>1. U = V \cup W /\ V \cap W = {}
  BY DEF OpsOf, ChurnOps, LateOps
<1> HIDE DEF U, V, W
<1>2. Count(U) = Count(V) + Count(W)
  BY <1>1, CountSplit
<1>3. Count(U) \in Nat /\ Count(V) \in Nat /\ Count(W) \in Nat /\ HookWork(i) \in Nat
  BY CountNat, HookNat
<1>4. QED
  BY <1>2, <1>3 DEF U, V, W, ChurnWork, EarlyWork, RecvWork, LateWork, AskWork

(* The work of its relay phase.                                            *)
LEMMA RelayParts ==
  ASSUME Types, NEW i, NEW d
  PROVE  /\ RelayWork(i, RelayOps, d) \in Nat /\ CloseWork(i) \in Nat
         /\ RelayWork(i, {"SpliceIn"}, d) \in Nat /\ RelayWork(i, {"SpliceOut"}, d) \in Nat
         /\ RelayWork(i, {"SpliceIn"}, d) <= RelayWork(i, RelayOps, d)
         /\ RelayWork(i, {"SpliceOut"}, d) <= RelayWork(i, RelayOps, d)
<1>1. /\ OpsOf(i, {"SpliceIn"}, {d}) \subseteq OpsOf(i, RelayOps, {d})
      /\ OpsOf(i, {"SpliceOut"}, {d}) \subseteq OpsOf(i, RelayOps, {d})
  BY DEF OpsOf, RelayOps
<1>2. QED
  BY <1>1, CountMore, CountNat DEF RelayWork, CloseWork

(* What is at the head is counted. *)
LEMMA HeadCounted ==
  ASSUME Types, cq # <<>>, NEW i, NEW K, NEW D, Head(cq).o.id = i, Head(cq).o.op \in K,
         Head(cq).o.dir \in D
  PROVE  Count(OpsOf(i, K, D)) >= 1 /\ Count(OpsOf(i, K, D)) \in Nat
<1>1. Head(cq).o \in OpsOf(i, K, D) /\ 1 \in DOMAIN cq /\ Head(cq) = cq[1]
  <2>1. Head(cq).o \in OpsOf(i, K, D)
    BY HeadOp, InOpsOf
  <2>2. cq \in Seq(Completions)
    BY SeqTypes
  <2>3. QED
    BY <2>1, <2>2
<1>2. Count(OpsOf(i, K, D)) # 0
  BY <1>1, CountNone
<1>3. QED
  BY <1>2, CountNat

(* Before the relay phase, no completion is stale. *)
LEMMA StageChurn ==
  ASSUME Types, Shapes, Life, cq # <<>>, Head(cq).o.op \in ChurnOps
  PROVE  /\ Cid \in Ids /\ Head(cq).o.dir = NoDir
         /\ Cid \in Live /\ ~Cc(Cid).closing /\ CloseWork(Cid) = 0 /\ Asking(Cid)
         /\ HookWork(Cid) = 0 /\ AskWork(Cid) = 1
         /\ RecvWork(Cid) = Expect(Head(cq).o.op = "RecvReq")
         /\ (Cc(Cid).up = NoFD <=> Head(cq).o.op = "RecvReq")
<1> DEFINE i == Cid
<1>1. i \in Ids /\ Head(cq).o.dir = NoDir /\ Head(cq).o.id = i
  BY HeadFacts DEF Formed, Cid
<1> HIDE DEF i
<1>2. AskWork(i) >= 1
  BY <1>1, HeadCounted DEF AskWork
<1>3. LifeOf(i)
  BY <1>1 DEF Life
<1>4. ChurnWork(i) # 0
  BY <1>2, ChurnParts
<1>5. i \in Live /\ ~Cc(i).closing /\ Open(i)
  BY <1>3, <1>4 DEF LifeOf, Gone, Closing
<1>6. Asking(i) /\ CloseWork(i) = 0 /\ ChurnWork(i) = 1
  BY <1>4, <1>5 DEF Open, Asking
<1>7. HookWork(i) = 0 /\ AskWork(i) = 1
  BY <1>2, <1>6, ChurnParts
<1>8. RecvWork(i) = Expect(Head(cq).o.op = "RecvReq")
  <2>1. CASE Head(cq).o.op = "RecvReq"
    <3>1. RecvWork(i) >= 1
      BY <1>1, <2>1, HeadCounted DEF RecvWork
    <3>2. QED
      BY <1>7, <2>1, <3>1, ChurnParts DEF Expect
  <2>2. CASE Head(cq).o.op # "RecvReq"
    <3>1. Head(cq).o.op \in LateOps
      BY <2>2 DEF LateOps
    <3>2. LateWork(i) >= 1
      BY <1>1, <3>1, HeadCounted DEF LateWork
    <3>3. QED
      BY <1>7, <2>2, <3>2, ChurnParts DEF Expect
  <2>3. QED
    BY <2>1, <2>2
<1>9. Cc(i).up = NoFD <=> Head(cq).o.op = "RecvReq"
  <2>1. EarlyWork(i) = Expect(Head(cq).o.op = "RecvReq")
    BY <1>7, <1>8, ChurnParts
  <2>2. Cc(i).up = NoFD <=> EarlyWork(i) > 0
    BY <1>6 DEF Asking
  <2>3. QED
    BY <2>1, <2>2 DEF Expect
<1>10. QED
  BY <1>1, <1>5, <1>6, <1>7, <1>8, <1>9 DEF i

(* A result finds its connection open and without an upstream. *)
LEMMA StageResult ==
  ASSUME Types, Shapes, Life, drained # <<>>
  PROVE  LET i == Head(drained).id
         IN  /\ i \in Ids /\ i \in Live /\ ~Cc(i).closing /\ CloseWork(i) = 0 /\ Asking(i)
             /\ HookWork(i) = 1 /\ AskWork(i) = 0
             /\ RecvWork(i) = 0
             /\ Cc(i).up = NoFD /\ Head(drained) \in Results
             /\ Head(drained).fd \in 0..c.fds
<1> DEFINE i == Head(drained).id
<1>1. /\ Head(drained) = drained[1] /\ 1 \in DOMAIN drained /\ Head(drained) \in Results
  BY SeqTypes
<1>2. i \in Ids /\ Head(drained).fd \in 0..c.fds
  BY <1>1 DEF Shapes
<1>3. HookWork(i) # 0
  BY <1>1, HookNone
<1> HIDE DEF i
<1>4. HookWork(i) \in Nat /\ ChurnWork(i) # 0
  BY <1>3, ChurnParts
<1>5. LifeOf(i)
  BY <1>2 DEF Life
<1>6. i \in Live /\ ~Cc(i).closing /\ Open(i)
  BY <1>4, <1>5 DEF LifeOf, Gone, Closing
<1>7. Asking(i) /\ CloseWork(i) = 0 /\ ChurnWork(i) = 1
  BY <1>4, <1>6 DEF Open, Asking
<1>8. /\ HookWork(i) = 1 /\ AskWork(i) = 0
      /\ RecvWork(i) = 0 /\ EarlyWork(i) = 1
  BY <1>3, <1>4, <1>7, ChurnParts
<1>9. Cc(i).up = NoFD
  BY <1>7, <1>8 DEF Asking
<1>10. QED
  BY <1>1, <1>2, <1>6, <1>7, <1>8, <1>9 DEF i

(* The relay handlers find an open connection in its relay phase. *)
LEMMA StageRelay ==
  ASSUME Types, Shapes, Life, cq # <<>>, Head(cq).o.op \in RelayOps, Usable(Head(cq).o.op)
  PROVE  /\ Cid \in Ids /\ Dir \in Dirs /\ Cid \in Live /\ ~Cc(Cid).closing
         /\ CloseWork(Cid) = 0 /\ ChurnWork(Cid) = 0 /\ HookWork(Cid) = 0
         /\ AskWork(Cid) = 0
         /\ Cc(Cid).up # NoFD
         /\ (Head(cq).o.op \in {"Recv", "Send"} =>
               mode = "duplex" /\ Copying(Cid) /\ ~Cc(Cid).done[Dir])
         /\ (Head(cq).o.op \in {"SpliceIn", "SpliceOut"} => mode = "splice" /\ Splicing(Cid))
<1> DEFINE i == Cid
<1>1. i \in Ids /\ Dir \in Dirs /\ Head(cq).o.id = i /\ Head(cq).o.dir = Dir
  BY HeadFacts DEF Formed, Cid, Dir, RelayOps
<1>2. i \in Live /\ ~Cc(i).closing
  BY DEF Usable
<1> HIDE DEF i
<1>3. RelayWork(i, RelayOps, Dir) >= 1
  BY <1>1, HeadCounted DEF RelayWork
<1>4. LifeOf(i)
  BY <1>1 DEF Life
<1>5. Open(i)
  BY <1>2, <1>4 DEF LifeOf
<1>6. ~Asking(i)
  BY <1>1, <1>3 DEF Asking
<1>7. CloseWork(i) = 0 /\ ChurnWork(i) = 0 /\ Cc(i).up # NoFD /\ (Copying(i) \/ Splicing(i))
  BY <1>5, <1>6 DEF Open
<1>8. HookWork(i) = 0 /\ AskWork(i) = 0
  BY <1>7, ChurnParts
<1>9. ASSUME Head(cq).o.op \in {"Recv", "Send"}
      PROVE  mode = "duplex" /\ Copying(i) /\ ~Cc(i).done[Dir]
  <2>1. mode = "duplex"
    BY <1>9, HeadFacts DEF Formed
  <2>2. Copying(i)
    BY <1>7, <2>1 DEF Splicing
  <2>3. ~Cc(i).done[Dir]
    BY <1>1, <1>3, <2>2 DEF Copying, Expect
  <2>4. QED
    BY <2>1, <2>2, <2>3
<1>10. ASSUME Head(cq).o.op \in {"SpliceIn", "SpliceOut"}
       PROVE  mode = "splice" /\ Splicing(i)
  <2>1. mode = "splice"
    BY <1>10, HeadFacts DEF Formed
  <2>2. QED
    BY <1>7, <2>1 DEF Copying
<1>11. QED
  BY <1>1, <1>2, <1>7, <1>8, <1>9, <1>10 DEF i

(* A close that finds its connection finds it closing. *)
LEMMA StageClose ==
  ASSUME Types, Shapes, Life, cq # <<>>, Head(cq).o.op = "Close", Cid \in Live
  PROVE  /\ Cid \in Ids /\ Head(cq).o.dir = NoDir /\ Cc(Cid).closing
         /\ ChurnWork(Cid) = 0 /\ Cc(Cid).closesLeft > 0
         /\ Cc(Cid).closesLeft = CloseWork(Cid)
<1> DEFINE i == Cid
<1>1. Head(cq).o.dir = NoDir /\ Head(cq).o.id = i /\ i \in Ids
  BY HeadFacts DEF Formed, Cid, Live
<1> HIDE DEF i
<1>2. CloseWork(i) >= 1
  BY <1>1, HeadCounted DEF CloseWork
<1>3. LifeOf(i)
  BY <1>1 DEF Life
<1>4. Cc(i).closing /\ Closing(i)
  BY <1>2, <1>3 DEF LifeOf, Open, i
<1>5. QED
  BY <1>1, <1>4 DEF Closing, i

-----------------------------------------------------------------------------
(* The parts of a step.                                                    *)

(* What every handler does.                                                *)
LEMMA HandleFacts ==
  ASSUME Types, Loop, NEW o, Handle(o)
  PROVE  /\ cq # <<>> /\ cq' = Tail(cq) /\ Head(cq).o.op = o /\ drained = <<>>
         /\ c' = c /\ waiting' = waiting /\ ~waiting /\ kops' = kops /\ armed' = armed
         /\ running' = running /\ left' = left - 1 /\ left > 0
<1>1. /\ cq' = Tail(cq) /\ Head(cq).o.op = o /\ drained = <<>>
      /\ c' = c /\ waiting' = waiting /\ kops' = kops /\ armed' = armed
      /\ running' = running /\ left' = left - 1 /\ left > 0
  BY DEF Handle, kernelVars
<1>2. ~waiting
  BY <1>1 DEF Loop
<1>3. left \in Nat /\ left <= Len(cq)
  BY DEF Types, Loop
<1>4. cq # <<>>
  BY <1>1, <1>3
<1>5. QED
  BY <1>1, <1>2, <1>4

(* An empty list of operations changes nothing. *)
LEMMA PostNothing ==
  ASSUME Types, sq' = sq
  PROVE  sq' = sq \o <<>>
  BY SeqTypes, ConcatEmptySeq

(* Structs serve one connection each. *)
LEMMA StructsApart ==
  ASSUME Types, Structs, NEW i \in Live, NEW j \in Live, i # j
  PROVE  conns[i] # conns[j]
  BY DEF Structs, Cc

(* A struct in use is one of the array, with the id of its connection. *)
LEMMA StructInUse ==
  ASSUME Types, Structs, made <= nextID, nextID <= c.accepts, NEW i \in Live
  PROVE  /\ i \in Ids /\ conns[i] \in Ids /\ conns[i] # 0 /\ Cc(i) \in Conn
         /\ Cc(i).id = i /\ conns[i] <= made /\ i <= nextID
<1>1. i \in Ids /\ conns[i] # 0
  BY DEF Live
<1>2. conns[i] \in 1..made /\ Cc(i).id = i /\ i <= nextID
  BY DEF Structs
<1>3. made \in Nat /\ nextID \in Nat /\ c.accepts \in Nat
  BY Ranges DEF Types
<1>4. conns[i] \in Ids /\ conns[i] <= made
  BY <1>2, <1>3 DEF Ids
<1>5. Cc(i) \in Conn
  BY <1>4 DEF Types, Cc
<1>6. QED
  BY <1>1, <1>2, <1>4, <1>5

(* Ids and structs that were handed out are within the bound. *)
LEMMA IdsBound ==
  ASSUME Types, Cap
  PROVE  made <= nextID /\ nextID <= c.accepts
<1>1. accepted \in Nat /\ nextID \in Nat /\ made \in Nat /\ Occurs(cq, Clients) \in Nat
      /\ c.accepts \in Nat
  BY Ranges, AtFinite DEF Types
<1>2. QED
  BY <1>1 DEF Cap

(* One entry is updated. *)
LEMMA OthersUpdate ==
  ASSUME Types, Structs, Cap, c' = c, conns' = conns, NEW i \in Live, NEW x,
         cell' = [cell EXCEPT ![conns[i]] = x]
  PROVE  /\ Live' = Live /\ Cc(i)' = x
         /\ \A j \in Live : j # i => Cc(j)' = Cc(j)
<1>1. Live' = Live
  BY SameConfig DEF Live
<1>2. conns[i] \in Ids /\ DOMAIN cell = Ids
  BY IdsBound, StructInUse DEF Types
<1>3. Cc(i)' = x
  BY <1>2 DEF Cc
<1>4. ASSUME NEW j \in Live, j # i PROVE Cc(j)' = Cc(j)
  <2>1. conns[j] # conns[i]
    BY <1>4, StructsApart
  <2>2. conns[j] \in Ids
    BY IdsBound, StructInUse
  <2>3. QED
    BY <1>2, <2>1, <2>2 DEF Cc
<1>5. QED
  BY <1>1, <1>3, <1>4

(* One entry is forgotten. *)
LEMMA OthersForget ==
  ASSUME Types, Structs, Cap, c' = c, NEW i \in Live, Forget(i)
  PROVE  /\ Live' = Live \ {i}
         /\ \A j \in Live : j # i => Cc(j)' = Cc(j)
<1>1. i \in Ids /\ DOMAIN conns = Ids /\ conns' = [conns EXCEPT ![i] = 0]
  BY DEF Live, Types, Forget
<1>2. Live' = Live \ {i}
  BY <1>1, SameConfig DEF Live
<1>3. conns[i] \in Ids /\ DOMAIN cell = Ids
  BY IdsBound, StructInUse DEF Types
<1>4. ASSUME NEW j \in Live, j # i PROVE Cc(j)' = Cc(j)
  <2>1. conns[j] # conns[i] /\ conns[j] \in Ids /\ j \in Ids
    BY <1>4, StructsApart, IdsBound, StructInUse
  <2>2. conns'[j] = conns[j]
    BY <1>1, <1>4, <2>1
  <2>3. cell'[conns[j]] = cell[conns[j]]
    BY <1>3, <2>1 DEF Forget
  <2>4. QED
    BY <2>2, <2>3 DEF Cc
<1>5. QED
  BY <1>2, <1>4

(* The table stays. *)
LEMMA TableStays ==
  ASSUME c' = c, conns' = conns, cell' = cell
  PROVE  Live' = Live /\ Serving' = Serving /\ \A j : Cc(j)' = Cc(j)
<1>1. Live' = Live
  BY SameConfig DEF Live
<1>2. \A j : Cc(j)' = Cc(j)
  BY DEF Cc
<1>3. QED
  BY <1>1, <1>2 DEF Serving

(* Life when the table stays and all work is steady. *)
LEMMA LifeSteady ==
  ASSUME Types, Life, c' = c, conns' = conns, cell' = cell, nextID' = nextID,
         \A j \in Ids : Steady(j)
  PROVE  Life'
<1> SUFFICES ASSUME NEW j \in Ids PROVE LifeOf(j)'
  BY SameConfig DEF Life
<1>1. LifeOf(j) /\ Steady(j) /\ mode' = mode
  BY SameConfig DEF Life
<1>2. Live' = Live /\ Cc(j)' = Cc(j)
  BY TableStays
<1>3. QED
  BY <1>1, <1>2, LifeFrame

(* Life when one connection goes on and the others stay. *)
LEMMA LifeOne ==
  ASSUME Types, Life, c' = c, nextID' = nextID, NEW i, LifeOf(i)',
         \A j \in Ids : j # i => Steady(j) /\ ((j \in Live)' <=> j \in Live),
         \A j \in Live : j # i => Cc(j)' = Cc(j)
  PROVE  Life'
<1> SUFFICES ASSUME NEW j \in Ids, j # i PROVE LifeOf(j)'
  BY SameConfig DEF Life
<1>1. LifeOf(j) /\ Steady(j) /\ mode' = mode
  BY SameConfig DEF Life
<1>2. QED
  BY <1>1, LifeFrame

-----------------------------------------------------------------------------
(* The parts of the invariant that most steps leave alone.                 *)

(* The form of an operation depends on the configuration only.             *)
LEMMA FormedSame ==
  ASSUME c' = c
  PROVE  \A o : Formed(o)' <=> Formed(o)
  BY SameConfig DEF Formed

(* An operation that may be prepared. *)
FitNext(p) ==
  /\ p \in Ops /\ Formed(p) /\ p.op # "Accept"
  /\ p.buf # 0 => cell'[p.buf].id = p.id
  /\ mode # "splice" => \A f \in p.fds : fdt'[f] = p.id

(* Elements of a concatenation. *)
LEMMA PostedElement ==
  ASSUME NEW T, NEW s \in Seq(T), NEW t \in Seq(T), NEW j \in DOMAIN (s \o t)
  PROVE  \/ j \in DOMAIN s /\ (s \o t)[j] = s[j]
         \/ \E n \in DOMAIN t : (s \o t)[j] = t[n]
<1>1. /\ DOMAIN s = 1..Len(s) /\ DOMAIN t = 1..Len(t) /\ Len(s) \in Nat /\ Len(t) \in Nat
      /\ DOMAIN (s \o t) = 1..(Len(s) + Len(t))
      /\ (s \o t)[j] = IF j <= Len(s) THEN s[j] ELSE t[j - Len(s)]
  OBVIOUS
<1>2. CASE j <= Len(s)
  BY <1>1, <1>2
<1>3. CASE ~(j <= Len(s))
  <2>1. j - Len(s) \in DOMAIN t
    BY <1>1, <1>3
  <2>2. QED
    BY <1>1, <1>3, <2>1
<1>4. QED
  BY <1>2, <1>3

(* Operations are prepared and nothing happens to the earlier ones. *)
LEMMA PreparedKept ==
  ASSUME Types, Shapes, BuffersNotShared, Home, c' = c, kops' = kops,
         NEW ops \in Seq(Ops), sq' = sq \o ops, \A n \in DOMAIN ops : FitNext(ops[n]),
         \A o \in Prepared : o.buf # 0 => cell'[o.buf].id = cell[o.buf].id,
         mode # "splice" => \A j \in DOMAIN sq : \A f \in sq[j].fds : fdt'[f] = fdt[f]
  PROVE  /\ sq' \in Seq(Ops)
         /\ \A j \in DOMAIN sq' : Formed(sq'[j]) /\ sq'[j].op # "Accept"
         /\ BuffersNotShared' /\ Home'
<1>1. sq \in Seq(Ops)
  BY SeqTypes
<1>2. sq' \in Seq(Ops)
  BY <1>1, ConcatProperties
<1>3. ASSUME NEW j \in DOMAIN sq'
      PROVE  (j \in DOMAIN sq /\ sq'[j] = sq[j]) \/ FitNext(sq'[j])
  <2>1. \/ j \in DOMAIN sq /\ (sq \o ops)[j] = sq[j]
        \/ \E n \in DOMAIN ops : (sq \o ops)[j] = ops[n]
    BY <1>1, PostedElement
  <2>2. QED
    BY <2>1
<1>4. ASSUME NEW j \in DOMAIN sq' PROVE Formed(sq'[j]) /\ sq'[j].op # "Accept"
  BY <1>3 DEF Shapes, FitNext
<1>5. BuffersNotShared'
  <2> SUFFICES ASSUME NEW o \in Prepared', o.buf # 0 PROVE cell'[o.buf].id = o.id
    BY DEF BuffersNotShared
  <2>1. o \in Prepared \/ FitNext(o)
    <3>1. CASE \E h \in DOMAIN kops : o = h.o
      BY <3>1 DEF Prepared
    <3>2. CASE \E j \in DOMAIN sq' : o = sq'[j]
      BY <1>3, <3>2 DEF Prepared
    <3>3. QED
      BY <3>1, <3>2 DEF Prepared
  <2>2. CASE o \in Prepared
    BY <2>2 DEF BuffersNotShared
  <2>3. CASE FitNext(o)
    BY <2>3 DEF FitNext
  <2>4. QED
    BY <2>1, <2>2, <2>3
<1>6. Home'
  <2> SUFFICES ASSUME mode # "splice"
               PROVE  /\ \A j \in DOMAIN sq' : \A f \in sq'[j].fds : fdt'[f] = sq'[j].id
                      /\ OpsStayHome'
    BY SameConfig DEF Home
  <2>1. OpsStayHome'
    BY DEF Home, OpsStayHome
  <2>2. ASSUME NEW j \in DOMAIN sq', NEW f \in sq'[j].fds PROVE fdt'[f] = sq'[j].id
    <3>1. CASE FitNext(sq'[j])
      BY <3>1 DEF FitNext
    <3>2. CASE j \in DOMAIN sq /\ sq'[j] = sq[j]
      BY <3>2 DEF Home
    <3>3. QED
      BY <1>3, <3>1, <3>2
  <2>3. QED
    BY <2>1, <2>2
<1>7. QED
  BY <1>2, <1>4, <1>5, <1>6

(* No accept is handled or armed, nobody comes. *)
LEMMA CapKeeps ==
  ASSUME Types, Cap, c' = c, armed' = armed, acceptInflight' = acceptInflight,
         totalAccepts' = totalAccepts, accepted' = accepted, nextID' = nextID, made' = made,
         \A k \in Listeners : Occurs(cq', AcceptsOf(k)) = Occurs(cq, AcceptsOf(k)),
         Occurs(cq', Clients) = Occurs(cq, Clients),
         Live' \subseteq Live, completed' \in Nat,
         completed' + Cardinality(Serving') <= completed + Cardinality(Serving)
  PROVE  Cap'
<1>1. /\ NListeners' = NListeners /\ Listeners' = Listeners /\ MaxConns' = MaxConns
  BY SameConfig
<1>2. Accepts' = Accepts
  BY <1>1 DEF Accepts
<1>3. /\ IsFiniteSet(Live) /\ Cardinality(Live) \in Nat
  BY LiveFinite
<1>4. Cardinality(Live') <= Cardinality(Live) /\ Cardinality(Live') \in Nat
  BY <1>3, FS_Subset, FS_CardinalityType
<1>5. totalAccepts \in Nat /\ MaxConns \in Nat /\ NListeners \in Nat /\ completed \in Nat
      /\ nextID \in Nat /\ Cardinality(Serving) \in Nat
  BY Ranges, LiveFinite DEF Types
<1>6. Cardinality(Serving') \in Nat
  <2>1. Serving' \subseteq Live
    BY DEF Serving
  <2>2. QED
    BY <1>3, <2>1, FS_Subset, FS_CardinalityType
<1>7. /\ \A k \in Listeners' : acceptInflight'[k] = armed'[k] + Occurs(cq', AcceptsOf(k))
      /\ totalAccepts' = Cardinality(Accepts')
      /\ accepted' + Occurs(cq', Clients) <= c'.accepts
      /\ nextID' <= accepted' /\ made' <= nextID'
  BY <1>1, <1>2 DEF Cap
<1>8. Cardinality(Live') <= MaxConns'
      /\ Cardinality(Live') + totalAccepts' <= Larger(MaxConns', NListeners')
  <2>1. Cardinality(Live) <= MaxConns
        /\ Cardinality(Live) + totalAccepts <= Larger(MaxConns, NListeners)
    BY DEF Cap
  <2>2. Larger(MaxConns, NListeners) \in Nat
    BY <1>5 DEF Larger
  <2>3. Larger(MaxConns', NListeners') = Larger(MaxConns, NListeners)
    BY <1>1
  <2>4. \A a, b, t, m, l \in Nat :
          b <= a /\ a <= m /\ a + t <= l => b <= m /\ b + t <= l
    OBVIOUS
  <2>5. QED
    BY ONLY <1>1, <1>3, <1>4, <1>5, <2>1, <2>2, <2>3, <2>4, totalAccepts' = totalAccepts
<1>9. completed' + Cardinality(Serving') <= nextID'
  <2>1. completed + Cardinality(Serving) <= nextID
    BY DEF Cap
  <2>2. QED
    BY <1>5, <1>6, <2>1
<1>10. QED
  BY <1>7, <1>8, <1>9 DEF Cap

(* Handling anything but an accept. *)
LEMMA NoAcceptHandled ==
  ASSUME Types, cq # <<>>, cq' = Tail(cq), Head(cq).o.op # "Accept"
  PROVE  /\ \A k : Occurs(cq', AcceptsOf(k)) = Occurs(cq, AcceptsOf(k))
         /\ Occurs(cq', Clients) = Occurs(cq, Clients)
         /\ \A f : Occurs(cq', ClientAt(f)) = Occurs(cq, ClientAt(f))
<1>1. ASSUME NEW V, Head(cq) \notin V PROVE Occurs(cq', V) = Occurs(cq, V)
  <2>1. Occurs(cq', V) = Occurs(cq, V) - Expect(Head(cq) \in V)
    BY SeqTypes, OccursTail
  <2>2. Occurs(cq, V) \in Nat
    BY SeqTypes, AtFinite
  <2>3. QED
    BY <1>1, <2>1, <2>2 DEF Expect
<1>2. Head(cq) \notin Clients /\ \A k : Head(cq) \notin AcceptsOf(k) /\ Head(cq) \notin ClientAt(k)
  BY DEF Clients, AcceptsOf, ClientAt
<1>3. QED
  BY <1>1, <1>2

(* What remains of the completions. *)
LEMMA ShapesTail ==
  ASSUME Types, Shapes, cq # <<>>, cq' = Tail(cq)
  PROVE  /\ cq' \in Seq(Completions) /\ Len(cq') = Len(cq) - 1
         /\ \A j \in DOMAIN cq' : Formed(cq'[j].o)
              /\ (cq'[j].o.op = "Accept" /\ cq'[j].res > 0 => cq'[j].res \in FDs)
         /\ \A j \in DOMAIN cq' : j + 1 \in DOMAIN cq /\ cq'[j] = cq[j + 1]
  BY HeadFacts DEF Shapes

-----------------------------------------------------------------------------
(* Who holds a descriptor.                                                 *)

Owners(f) == {i \in Serving : f \in HeldBy(i)}
AtClients(f) == Occurs(cq, ClientAt(f))
AtCloses(f) == Occurs(sq, ClosesOf(f)) + InKernel(ClosesOf(f))
AtResults(f) == Occurs(ready, ResultsAt(f)) + Occurs(drained, ResultsAt(f))

(* The holders of a number are counted by numbers.                         *)
LEMMA HoldersParts ==
  ASSUME Types, NEW f
  PROVE  /\ AtClients(f) \in Nat /\ AtCloses(f) \in Nat /\ AtResults(f) \in Nat
         /\ IsFiniteSet(Owners(f)) /\ Cardinality(Owners(f)) \in Nat
<1>1. AtClients(f) \in Nat
  BY SeqTypes, AtFinite DEF AtClients
<1>2. AtCloses(f) \in Nat
  BY CountNat DEF AtCloses
<1>3. Occurs(ready, ResultsAt(f)) \in Nat /\ Occurs(drained, ResultsAt(f)) \in Nat
  BY SeqTypes, AtFinite
<1>4. Owners(f) \in SUBSET Serving
  BY DEF Owners
<1>5. IsFiniteSet(Owners(f))
  BY <1>4, LiveFinite, FS_Subset
<1>6. QED
  BY <1>1, <1>2, <1>3, <1>5, FS_CardinalityType DEF AtResults

(* The holders of a number, part by part.                                  *)
LEMMA HoldersSum ==
  ASSUME NEW f
  PROVE  /\ Holders(f) = AtClients(f) + Cardinality(Owners(f))
                         + Occurs(sq, ClosesOf(f)) + InKernel(ClosesOf(f))
                         + Occurs(ready, ResultsAt(f)) + Occurs(drained, ResultsAt(f))
         /\ Holders(f)' = AtClients(f)' + Cardinality(Owners(f)')
                          + Occurs(sq', ClosesOf(f)) + InKernel(ClosesOf(f))'
                          + Occurs(ready', ResultsAt(f)) + Occurs(drained', ResultsAt(f))
<1>1. Owners(f) = {i \in Live : ~Cc(i).closing /\ f \in HeldBy(i)}
  BY DEF Owners, Serving
<1>2. Owners(f)' = {i \in Live' : ~Cc(i)'.closing /\ f \in HeldBy(i)'}
  BY DEF Owners, Serving
<1>3. QED
  BY <1>1, <1>2 DEF Holders, AtClients

(* An open number has one holder, and a closed one none. *)
LEMMA OneHolder ==
  ASSUME Types, DescriptorsOwned, NEW f \in FDs
  PROVE  AtClients(f) + Cardinality(Owners(f)) + AtCloses(f) + AtResults(f)
           = IF fdt[f] = Free THEN 0 ELSE 1
<1>1. Holders(f) = IF fdt[f] = Free THEN 0 ELSE 1
  BY DEF DescriptorsOwned
<1>2. /\ AtClients(f) \in Nat /\ Cardinality(Owners(f)) \in Nat
      /\ Occurs(sq, ClosesOf(f)) \in Nat /\ InKernel(ClosesOf(f)) \in Nat
      /\ Occurs(ready, ResultsAt(f)) \in Nat /\ Occurs(drained, ResultsAt(f)) \in Nat
  BY HoldersParts, CountNat, SeqTypes, AtFinite
<1>3. QED
  BY <1>1, <1>2, HoldersSum DEF AtCloses, AtResults

(* A number that a connection holds. *)
LEMMA OwnedByConn ==
  ASSUME Types, DescriptorsOwned, NEW f \in FDs, NEW i \in Owners(f)
  PROVE  /\ fdt[f] # Free /\ Owners(f) = {i} /\ Cardinality(Owners(f)) = 1
         /\ AtClients(f) = 0 /\ AtCloses(f) = 0 /\ AtResults(f) = 0
<1>1. Cardinality(Owners(f)) # 0
  BY HoldersParts, FS_EmptySet
<1>2. /\ fdt[f] # Free /\ Cardinality(Owners(f)) = 1
      /\ AtClients(f) = 0 /\ AtCloses(f) = 0 /\ AtResults(f) = 0
  BY <1>1, OneHolder, HoldersParts
<1>3. PICK x : Owners(f) = {x}
  BY <1>2, HoldersParts, FS_Singleton
<1>4. QED
  BY <1>2, <1>3

(* A number that nobody holds. *)
LEMMA OwnedByNobody ==
  ASSUME Types, DescriptorsOwned, NEW f \in FDs, fdt[f] = Free
  PROVE  /\ Owners(f) = {} /\ AtClients(f) = 0 /\ AtCloses(f) = 0 /\ AtResults(f) = 0
<1>1. /\ Cardinality(Owners(f)) = 0
      /\ AtClients(f) = 0 /\ AtCloses(f) = 0 /\ AtResults(f) = 0
  BY OneHolder, HoldersParts
<1>2. QED
  BY <1>1, HoldersParts, FS_EmptySet

(* A number held elsewhere is no connection's. *)
LEMMA OwnedElsewhere ==
  ASSUME Types, DescriptorsOwned, NEW f \in FDs, AtClients(f) + AtCloses(f) + AtResults(f) >= 1
  PROVE  /\ fdt[f] # Free /\ Owners(f) = {}
         /\ AtClients(f) + AtCloses(f) + AtResults(f) = 1
<1>1. /\ Cardinality(Owners(f)) = 0 /\ fdt[f] # Free
      /\ AtClients(f) + AtCloses(f) + AtResults(f) = 1
  BY OneHolder, HoldersParts
<1>2. QED
  BY <1>1, HoldersParts, FS_EmptySet

(* The holders of every number stay as many, or follow the table. *)
LEMMA OwnedKeeps ==
  ASSUME Types, DescriptorsOwned, c' = c,
         \A f \in FDs : Holders(f)' = Holders(f) /\ (fdt'[f] = Free <=> fdt[f] = Free)
  PROVE  DescriptorsOwned'
  BY SameConfig DEF DescriptorsOwned

(* The ends of the pipes. *)
LEMMA InPipeEnds ==
  ASSUME NEW x, NEW f
  PROVE  f \in PipeEnds(x) <=>
           f # NoFD /\ \E d \in Dirs : f = x.pipe[d].r \/ f = x.pipe[d].w
<1>1. f \in PipeEnds(x) <=>
        f \in UNION {{x.pipe[d].r, x.pipe[d].w} : d \in Dirs} /\ f # NoFD
  BY DEF PipeEnds
<1>2. f \in UNION {{x.pipe[d].r, x.pipe[d].w} : d \in Dirs}
        <=> \E d \in Dirs : f \in {x.pipe[d].r, x.pipe[d].w}
  BY Zenon
<1>3. QED
  BY <1>1, <1>2

(* A socket of an open connection is a number that it holds. *)
LEMMA SocketsHeld ==
  ASSUME Types, Structs, Cap, Sockets, NEW i \in Serving
  PROVE  /\ i \in Ids /\ i \in Live /\ Cc(i) \in Conn /\ Cc(i).id = i
         /\ Cc(i).client \in FDs /\ i \in Owners(Cc(i).client)
         /\ fdt[Cc(i).client] = i /\ Cc(i).client # Cc(i).up
         /\ (Cc(i).up # NoFD => Cc(i).up \in FDs /\ i \in Owners(Cc(i).up) /\ fdt[Cc(i).up] = i)
         /\ \A f \in PipeEnds(Cc(i)) : f \in FDs /\ i \in Owners(f)
<1>1. i \in Live
  BY DEF Serving
<1>2. i \in Ids /\ Cc(i) \in Conn /\ Cc(i).id = i /\ conns[i] \in Ids
  BY <1>1, IdsBound, StructInUse
<1>3. /\ Cc(i).client <= c.fds /\ Cc(i).up <= c.fds
      /\ \A d \in Dirs : Cc(i).pipe[d].r <= c.fds /\ Cc(i).pipe[d].w <= c.fds
  BY <1>2 DEF Structs, Cc, InRange
<1>4. Cc(i).client \in Nat /\ Cc(i).up \in Nat
      /\ \A d \in Dirs : Cc(i).pipe[d].r \in Nat /\ Cc(i).pipe[d].w \in Nat
  BY <1>2 DEF Conn, Pipe
<1>5. SocketsOf(i)
  BY DEF Sockets
<1>6. Cc(i).client # NoFD /\ Cc(i).client # Cc(i).up /\ fdt[Cc(i).client] = i
      /\ (Cc(i).up # NoFD => fdt[Cc(i).up] = i)
  BY <1>5 DEF SocketsOf
<1>7. Cc(i).client \in FDs /\ (Cc(i).up # NoFD => Cc(i).up \in FDs)
  BY <1>3, <1>4, <1>6, Ranges DEF FDs, NoFD
<1>8. ASSUME NEW f \in PipeEnds(Cc(i)) PROVE f \in FDs
  <2>1. PICK d \in Dirs : f \in {Cc(i).pipe[d].r, Cc(i).pipe[d].w} /\ f # NoFD
    BY InPipeEnds
  <2>2. f \in Nat /\ f <= c.fds /\ f # 0
    BY <1>3, <1>4, <2>1 DEF NoFD
  <2>3. QED
    BY <2>2, Ranges DEF FDs
<1>9. \A f \in HeldBy(i) : i \in Owners(f)
  BY DEF Owners
<1>10. QED
  BY <1>1, <1>2, <1>6, <1>7, <1>8, <1>9 DEF HeldBy

-----------------------------------------------------------------------------
(* Steps of the ring thread that accept nobody.                            *)

HookShapes ==
  /\ jobs \in Seq(Nat) /\ ready \in Seq(Results) /\ drained \in Seq(Results)
  /\ \A j \in DOMAIN jobs : jobs[j] \in Ids
  /\ \A j \in DOMAIN ready : ready[j].id \in Ids /\ ready[j].fd \in 0..c.fds
  /\ \A j \in DOMAIN drained : drained[j].id \in Ids /\ drained[j].fd \in 0..c.fds

(* Results are moved or used up, never made. *)
HookKeeps ==
  /\ HookShapes'
  /\ \A j \in DOMAIN ready' : \E k \in DOMAIN ready : ready'[j] = ready[k]
  /\ \A j \in DOMAIN drained' : \/ \E k \in DOMAIN drained : drained'[j] = drained[k]
                                \/ \E k \in DOMAIN ready : drained'[j] = ready[k]

TableTypes ==
  /\ conns \in [Ids -> Nat] /\ cell \in [Ids -> Conn] /\ connFree \in Seq(Nat)
  /\ fdt \in [FDs -> Int] /\ completed \in Nat

(* A completion is handled, or a result applied; ops are prepared. *)
RingStep(ops) ==
  /\ ~waiting /\ waiting' = waiting /\ c' = c /\ kops' = kops /\ armed' = armed
  /\ running' = running /\ acceptInflight' = acceptInflight
  /\ totalAccepts' = totalAccepts /\ accepted' = accepted
  /\ nextID' = nextID /\ made' = made
  /\ ops \in Seq(Ops) /\ sq' = sq \o ops
  /\ \/ /\ cq # <<>> /\ cq' = Tail(cq) /\ Head(cq).o.op # "Accept"
        /\ left > 0 /\ left' = left - 1
     \/ cq' = cq /\ left' = left

(* The hook's side of the invariant. *)
LEMMA HookShapesNow ==
  ASSUME Types, Shapes
  PROVE  HookShapes
  BY DEF Types, Shapes, HookShapes

(* The completions after such a step. *)
LEMMA RingQueue ==
  ASSUME Types, Shapes, NEW ops, RingStep(ops)
  PROVE  /\ cq' \in Seq(Completions)
         /\ \A j \in DOMAIN cq' : \E k \in DOMAIN cq : cq'[j] = cq[k]
         /\ \A k : Occurs(cq', AcceptsOf(k)) = Occurs(cq, AcceptsOf(k))
         /\ Occurs(cq', Clients) = Occurs(cq, Clients)
         /\ \A f : Occurs(cq', ClientAt(f)) = Occurs(cq, ClientAt(f))
<1>1. CASE cq' = cq
  BY <1>1, SeqTypes
<1>2. CASE cq # <<>> /\ cq' = Tail(cq) /\ Head(cq).o.op # "Accept"
  <2>1. /\ cq' \in Seq(Completions)
        /\ \A j \in DOMAIN cq' : j + 1 \in DOMAIN cq /\ cq'[j] = cq[j + 1]
    BY <1>2, ShapesTail
  <2>2. QED
    BY <1>2, <2>1, NoAcceptHandled
<1>3. QED
  BY <1>1, <1>2 DEF RingStep

(* The parts that do not depend on what the step does to the table. *)
LEMMA RingFrame ==
  ASSUME Inv, NEW ops, RingStep(ops), HookShapes', TableTypes',
         \A n \in DOMAIN ops : FitNext(ops[n]),
         Live' \subseteq Live,
         completed' + Cardinality(Serving') <= completed + Cardinality(Serving),
         \A o \in Prepared : o.buf # 0 => cell'[o.buf].id = cell[o.buf].id,
         mode # "splice" => \A j \in DOMAIN sq : \A f \in sq[j].fds : fdt'[f] = fdt[f]
  PROVE  Types' /\ Shapes' /\ Loop' /\ Cap' /\ BuffersNotShared' /\ Home'
<1>1. Types /\ Shapes /\ Loop /\ Cap /\ BuffersNotShared /\ Home
  BY DEF Inv
<1>2. /\ ~waiting /\ waiting' = waiting /\ c' = c /\ kops' = kops /\ armed' = armed
      /\ running' = running /\ acceptInflight' = acceptInflight
      /\ totalAccepts' = totalAccepts /\ accepted' = accepted
      /\ nextID' = nextID /\ made' = made
      /\ ops \in Seq(Ops) /\ sq' = sq \o ops
  BY DEF RingStep
<1>3. /\ sq' \in Seq(Ops)
      /\ \A j \in DOMAIN sq' : Formed(sq'[j]) /\ sq'[j].op # "Accept"
      /\ BuffersNotShared' /\ Home'
  BY <1>1, <1>2, PreparedKept
<1>4. /\ cq' \in Seq(Completions)
      /\ \A j \in DOMAIN cq' : \E k \in DOMAIN cq : cq'[j] = cq[k]
      /\ \A k : Occurs(cq', AcceptsOf(k)) = Occurs(cq, AcceptsOf(k))
      /\ Occurs(cq', Clients) = Occurs(cq, Clients)
  BY <1>1, RingQueue
<1>5. left' \in Nat /\ left' <= Len(cq')
  <2>1. left \in Nat /\ left <= Len(cq) /\ cq \in Seq(Completions)
    BY <1>1 DEF Types, Loop
  <2>2. CASE cq' = cq /\ left' = left
    BY <2>1, <2>2
  <2>3. CASE cq # <<>> /\ cq' = Tail(cq) /\ left > 0 /\ left' = left - 1
    BY <2>1, <2>3
  <2>4. QED
    BY <2>2, <2>3 DEF RingStep
<1>6. Ids' = Ids /\ FDs' = FDs /\ Listeners' = Listeners
  BY <1>2, SameConfig
<1>7. Types'
  BY <1>1, <1>2, <1>3, <1>4, <1>5, <1>6 DEF Types, HookShapes, TableTypes
<1>8. Shapes'
  <2>1. \A o : Formed(o)' <=> Formed(o)
    BY <1>2, FormedSame
  <2>2. /\ \A j \in DOMAIN cq : Formed(cq[j].o)
                          /\ (cq[j].o.op = "Accept" /\ cq[j].res > 0 => cq[j].res \in FDs)
        /\ \A h \in DOMAIN kops : Formed(h.o) /\ h.o.op # "Accept"
    BY <1>1 DEF Shapes
  <2>3. \A j \in DOMAIN cq' : Formed(cq[j].o)'
                          /\ (cq'[j].o.op = "Accept" /\ cq'[j].res > 0 => cq'[j].res \in FDs')
    <3> SUFFICES ASSUME NEW j \in DOMAIN cq'
                 PROVE  /\ Formed(cq[j].o)'
                        /\ cq'[j].o.op = "Accept" /\ cq'[j].res > 0 => cq'[j].res \in FDs'
      OBVIOUS
    <3>1. PICK k \in DOMAIN cq : cq'[j] = cq[k]
      BY <1>4
    <3>2. Formed(cq[k].o) /\ (cq[k].o.op = "Accept" /\ cq[k].res > 0 => cq[k].res \in FDs)
      BY <2>2
    <3>3. QED
      BY <1>2, <1>6, <3>1, <3>2 DEF Formed, mode
  <2>4. \A h \in DOMAIN kops' : Formed(h.o)' /\ h.o.op # "Accept"
    BY <1>2, <2>1, <2>2
  <2>5. \A j \in DOMAIN sq' : Formed(sq[j])' /\ sq'[j].op # "Accept"
    BY <1>3, <1>6, <2>1, <1>2 DEF Formed, mode
  <2>6. QED
    BY <2>3, <2>4, <2>5 DEF Shapes, HookShapes
<1>9. Loop'
  BY <1>2, <1>5 DEF Loop
<1>10. Cap'
  BY <1>1, <1>2, <1>4, CapKeeps DEF TableTypes
<1>11. QED
  BY <1>3, <1>7, <1>8, <1>9, <1>10

(* Numbers keep their tags, or are no client's and no result's. *)
LEMMA TagsKeep ==
  ASSUME Types, Shapes, Tags, c' = c, Types', Shapes', HookKeeps,
         \A j \in DOMAIN cq' : \E k \in DOMAIN cq : cq'[j] = cq[k],
         \A f \in FDs : \/ fdt'[f] = fdt[f]
                        \/ /\ fdt'[f] = Free \/ fdt'[f] \in 0..c.accepts
                           /\ AtClients(f)' = 0 /\ AtResults(f)' = 0
  PROVE  Tags'
<1>1. FDs' = FDs
  BY SameConfig
<1>2. /\ cq' \in Seq(Completions) /\ ready' \in Seq(Results) /\ drained' \in Seq(Results)
  BY DEF Types
<1>3. \A f \in FDs : fdt'[f] = Free \/ fdt'[f] \in 0..c.accepts
  BY DEF Tags
<1>4. ASSUME NEW j \in DOMAIN cq', cq'[j] \in Clients PROVE fdt'[cq'[j].res] = 0
  <2>1. cq'[j].res \in FDs
    BY <1>1, <1>4 DEF Shapes, Clients
  <2>2. fdt[cq'[j].res] = 0
    BY <1>4 DEF Tags
  <2>3. cq'[j] \in ClientAt(cq'[j].res)
    BY <1>4 DEF Clients, ClientAt
  <2>4. PICK f \in FDs : f = cq'[j].res
    BY <2>1
  <2>5. AtClients(f)' # 0
    BY <1>2, <2>3, <2>4, OccursNone DEF AtClients
  <2>6. QED
    BY <2>2, <2>4, <2>5
<1>5. \A f : AtResults(f)' = 0 => /\ \A j \in DOMAIN ready' : ready'[j].fd # f
                                  /\ \A j \in DOMAIN drained' : drained'[j].fd # f
  <2> SUFFICES ASSUME NEW f, AtResults(f)' = 0
               PROVE  /\ \A j \in DOMAIN ready' : ready'[j].fd # f
                      /\ \A j \in DOMAIN drained' : drained'[j].fd # f
    OBVIOUS
  <2>1. Occurs(ready', ResultsAt(f)) + Occurs(drained', ResultsAt(f)) = 0
    BY DEF AtResults
  <2>2. Occurs(ready', ResultsAt(f)) \in Nat /\ Occurs(drained', ResultsAt(f)) \in Nat
    BY <1>2, AtFinite
  <2>3. Occurs(ready', ResultsAt(f)) = 0 /\ Occurs(drained', ResultsAt(f)) = 0
    BY <2>1, <2>2
  <2>4. /\ \A j \in DOMAIN ready' : ready'[j] \notin ResultsAt(f)
        /\ \A j \in DOMAIN drained' : drained'[j] \notin ResultsAt(f)
    BY <1>2, <2>3, OccursNone
  <2>5. /\ \A j \in DOMAIN ready' : ready'[j] \in Results
        /\ \A j \in DOMAIN drained' : drained'[j] \in Results
    BY <1>2
  <2>6. QED
    BY <2>4, <2>5 DEF ResultsAt
<1>6. ASSUME NEW j \in DOMAIN ready', ready'[j].fd # NoFD
      PROVE  fdt'[ready'[j].fd] = ready'[j].id
  <2>1. fdt[ready'[j].fd] = ready'[j].id
    BY <1>6 DEF Tags, HookKeeps
  <2>2. ready'[j].fd \in FDs
    BY <1>1, <1>6 DEF Shapes, FDs, NoFD
  <2>3. QED
    BY <1>5, <2>1, <2>2
<1>7. ASSUME NEW j \in DOMAIN drained', drained'[j].fd # NoFD
      PROVE  fdt'[drained'[j].fd] = drained'[j].id
  <2>1. fdt[drained'[j].fd] = drained'[j].id
    BY <1>7 DEF Tags, HookKeeps
  <2>2. drained'[j].fd \in FDs
    BY <1>1, <1>7 DEF Shapes, FDs, NoFD
  <2>3. QED
    BY <1>5, <2>1, <2>2
<1>8. QED
  BY <1>1, <1>3, <1>4, <1>6, <1>7 DEF Tags

(* The sockets of the connections other than i. *)
LEMMA SocketsKeep ==
  ASSUME Types, Structs, Cap, Sockets, NEW i,
         \A j \in Serving' : j # i => j \in Serving /\ Cc(j)' = Cc(j),
         \A f \in FDs : fdt'[f] = fdt[f] \/ Owners(f) \subseteq {i},
         i \in Serving' => SocketsOf(i)'
  PROVE  Sockets'
<1> SUFFICES ASSUME NEW j \in Serving', j # i PROVE SocketsOf(j)'
  BY DEF Sockets
<1>1. j \in Serving /\ Cc(j)' = Cc(j)
  OBVIOUS
<1>2. SocketsOf(j)
  BY <1>1 DEF Sockets
<1>3. /\ Cc(j).client \in FDs /\ j \in Owners(Cc(j).client)
      /\ (Cc(j).up # NoFD => Cc(j).up \in FDs /\ j \in Owners(Cc(j).up))
  BY <1>1, SocketsHeld
<1>4. fdt'[Cc(j).client] = fdt[Cc(j).client]
      /\ (Cc(j).up # NoFD => fdt'[Cc(j).up] = fdt[Cc(j).up])
  BY <1>3
<1>5. QED
  BY <1>1, <1>2, <1>4 DEF SocketsOf

(* Who holds a number before and after. *)
Balance(f, ops) ==
  Cardinality(Owners(f)') + Occurs(ops, ClosesOf(f)) + AtResults(f)' + Expect(fdt[f] # Free)
    = Cardinality(Owners(f)) + AtResults(f) + Expect(fdt'[f] # Free)

(* A step of the ring thread that keeps the balance of every number keeps  *)
(* every open number owned.                                                *)
LEMMA RingOwned ==
  ASSUME Types, Shapes, DescriptorsOwned, NEW ops, RingStep(ops), Live' \subseteq Live,
         HookShapes', \A f \in FDs : Balance(f, ops)
  PROVE  DescriptorsOwned'
<1>1. c' = c /\ kops' = kops /\ ops \in Seq(Ops) /\ sq' = sq \o ops
  BY DEF RingStep
<1> SUFFICES ASSUME NEW f \in FDs PROVE Holders(f)' = IF fdt'[f] = Free THEN 0 ELSE 1
  BY <1>1, SameConfig DEF DescriptorsOwned
<1> DEFINE a == AtClients(f)
           m == Cardinality(Owners(f))
           n == Cardinality(Owners(f)')
           s1 == Occurs(sq, ClosesOf(f))
           s2 == Occurs(ops, ClosesOf(f))
           k == InKernel(ClosesOf(f))
           r1 == Occurs(ready, ResultsAt(f))
           r2 == Occurs(drained, ResultsAt(f))
           q1 == Occurs(ready', ResultsAt(f))
           q2 == Occurs(drained', ResultsAt(f))
<1>2. a \in Nat /\ m \in Nat /\ s1 \in Nat /\ k \in Nat /\ r1 \in Nat /\ r2 \in Nat
  BY HoldersParts, CountNat, SeqTypes, AtFinite
<1>3. s2 \in Nat /\ q1 \in Nat /\ q2 \in Nat
  BY <1>1, AtFinite DEF HookShapes
<1>4. n \in Nat
  <2>1. Owners(f)' \subseteq Live
    BY DEF Owners, Serving
  <2>2. QED
    BY <2>1, LiveFinite, FS_Subset, FS_CardinalityType
<1>5. AtClients(f)' = a
  BY RingQueue DEF AtClients
<1>6. Occurs(sq', ClosesOf(f)) = s1 + s2
  BY <1>1, SeqTypes, OccursConcat
<1>7. InKernel(ClosesOf(f))' = k
  BY <1>1, InKernelIsInBag
<1>8. /\ Holders(f) = a + m + s1 + k + r1 + r2
      /\ Holders(f)' = a + n + (s1 + s2) + k + q1 + q2
  BY <1>5, <1>6, <1>7, HoldersSum
<1>9. n + s2 + (q1 + q2) + Expect(fdt[f] # Free) = m + (r1 + r2) + Expect(fdt'[f] # Free)
  BY DEF Balance, AtResults
<1>10. Holders(f) = Expect(fdt[f] # Free)
  BY DEF DescriptorsOwned, Expect
<1>11. Expect(fdt[f] # Free) \in Nat /\ Expect(fdt'[f] # Free) \in Nat
  BY DEF Expect
<1> HIDE DEF a, m, n, s1, s2, k, r1, r2, q1, q2
<1>12. Holders(f)' = Expect(fdt'[f] # Free)
  BY ONLY <1>2, <1>3, <1>4, <1>8, <1>9, <1>10, <1>11
<1>13. QED
  BY <1>12 DEF Expect

(* The hooks' side stays. *)
LEMMA HooksSame ==
  ASSUME Types, Shapes, c' = c, jobs' = jobs, ready' = ready, drained' = drained,
         running' = running
  PROVE  /\ HookKeeps /\ \A f : AtResults(f)' = AtResults(f)
         /\ \A j : HookWork(j)' = HookWork(j)
<1>1. HookShapes' 
  BY HookShapesNow, SameConfig DEF HookShapes
<1>2. QED
  BY <1>1 DEF HookKeeps, AtResults, HookWork

(* A job is queued. *)
LEMMA HooksJob ==
  ASSUME Types, Shapes, c' = c, NEW i \in Ids, jobs' = Append(jobs, i), ready' = ready,
         drained' = drained, running' = running
  PROVE  /\ HookKeeps /\ \A f : AtResults(f)' = AtResults(f)
         /\ \A j : HookWork(j)' = HookWork(j) + Expect(j = i)
<1>1. i \in Nat /\ jobs \in Seq(Nat) /\ Ids' = Ids
  BY Ranges, SeqTypes, SameConfig
<1>2. jobs' \in Seq(Nat) /\ \A n \in DOMAIN jobs' : jobs'[n] \in Ids
  <2>1. \A n \in DOMAIN jobs : jobs[n] \in Ids
    BY DEF Shapes
  <2>2. QED
    BY <1>1, <2>1
<1>3. HookShapes'
  BY <1>1, <1>2, HookShapesNow DEF HookShapes
<1>4. HookKeeps /\ \A f : AtResults(f)' = AtResults(f)
  BY <1>3 DEF HookKeeps, AtResults
<1>5. ASSUME NEW j PROVE HookWork(j)' = HookWork(j) + Expect(j = i)
  <2>1. Occurs(jobs', {j}) = Occurs(jobs, {j}) + Expect(i \in {j})
    BY <1>1, OccursAppend
  <2>2. Expect(i \in {j}) = Expect(j = i) /\ Expect(j = i) \in Nat
    BY DEF Expect
  <2>3. Occurs(jobs, {j}) \in Nat /\ Occurs(ready, ResultsFor(j)) \in Nat
        /\ Occurs(drained, ResultsFor(j)) \in Nat
    BY HookNat
  <2>4. QED
    BY <2>1, <2>2, <2>3 DEF HookWork
<1>6. QED
  BY <1>4, <1>5

(* The results are taken. *)
LEMMA HooksSwap ==
  ASSUME Types, Shapes, c' = c, jobs' = jobs, drained = <<>>, drained' = ready,
         ready' = <<>>, running' = running
  PROVE  /\ HookKeeps /\ \A f : AtResults(f)' = AtResults(f)
         /\ \A j : HookWork(j)' = HookWork(j)
<1>1. /\ ready \in Seq(Results) /\ <<>> \in Seq(Results) /\ DOMAIN (<<>>) = {}
      /\ HookShapes /\ Ids' = Ids
  BY SeqTypes, SameConfig, HookShapesNow
<1>2. HookShapes'
  BY <1>1 DEF HookShapes
<1>3. HookKeeps
  BY <1>1, <1>2 DEF HookKeeps
<1>4. ASSUME NEW V
      PROVE  Occurs(ready', V) + Occurs(drained', V) = Occurs(ready, V) + Occurs(drained, V)
             /\ Occurs(ready, V) \in Nat /\ Occurs(drained, V) = 0 /\ Occurs(ready', V) = 0
  <2>1. Occurs(<<>>, V) = 0
    BY OccursEmpty
  <2>2. Occurs(ready, V) \in Nat
    BY <1>1, AtFinite
  <2>3. QED
    BY <2>1, <2>2
<1>5. \A f : AtResults(f)' = AtResults(f)
  BY <1>4 DEF AtResults
<1>6. ASSUME NEW j PROVE HookWork(j)' = HookWork(j)
  <2>1. Occurs(jobs, {j}) \in Nat
    BY HookNat
  <2>2. QED
    BY <1>4, <2>1 DEF HookWork
<1>7. QED
  BY <1>3, <1>5, <1>6

(* A result is applied. *)
LEMMA HooksTail ==
  ASSUME Types, Shapes, c' = c, jobs' = jobs, drained # <<>>, drained' = Tail(drained),
         ready' = ready, running' = running
  PROVE  /\ HookKeeps
         /\ \A f : AtResults(f)' = AtResults(f) - Expect(Head(drained).fd = f)
         /\ \A j : HookWork(j)' = HookWork(j) - Expect(j = Head(drained).id)
<1>1. /\ drained \in Seq(Results) /\ HookShapes /\ Ids' = Ids /\ Head(drained) \in Results
  BY SeqTypes, SameConfig, HookShapesNow
<1>2. /\ drained' \in Seq(Results)
      /\ \A n \in DOMAIN drained' : n + 1 \in DOMAIN drained /\ drained'[n] = drained[n + 1]
  BY <1>1
<1>3. HookShapes'
  BY <1>1, <1>2 DEF HookShapes
<1>4. HookKeeps
  BY <1>2, <1>3 DEF HookKeeps
<1>5. ASSUME NEW V
      PROVE  Occurs(drained', V) = Occurs(drained, V) - Expect(Head(drained) \in V)
             /\ Occurs(ready, V) \in Nat /\ Occurs(drained, V) \in Nat
  BY <1>1, OccursTail, AtFinite DEF HookShapes
<1>6. ASSUME NEW f PROVE AtResults(f)' = AtResults(f) - Expect(Head(drained).fd = f)
  <2>1. Expect(Head(drained) \in ResultsAt(f)) = Expect(Head(drained).fd = f)
        /\ Expect(Head(drained).fd = f) \in Nat
    BY <1>1 DEF Expect, ResultsAt
  <2>2. QED
    BY <1>5, <2>1 DEF AtResults
<1>7. ASSUME NEW j PROVE HookWork(j)' = HookWork(j) - Expect(j = Head(drained).id)
  <2>1. Occurs(jobs, {j}) \in Nat
    BY HookNat
  <2>2. Expect(Head(drained) \in ResultsFor(j)) = Expect(j = Head(drained).id)
        /\ Expect(j = Head(drained).id) \in Nat
    BY <1>1 DEF Expect, ResultsFor
  <2>3. QED
    BY <1>5, <2>1, <2>2 DEF HookWork
<1>8. QED
  BY <1>4, <1>6, <1>7

-----------------------------------------------------------------------------
(* Steps that change nothing but the queues.                               *)

(* A step of the ring thread that leaves the connections alone.            *)
LEMMA SameTable ==
  ASSUME Inv, NEW ops, RingStep(ops), HookKeeps, conns' = conns, cell' = cell,
         connFree' = connFree, fdt' = fdt, completed' = completed,
         \A n \in DOMAIN ops : FitNext(ops[n]) /\ ops[n].op # "Close",
         \A f : AtResults(f)' = AtResults(f), Life'
  PROVE  Inv'
<1>1. /\ Types /\ Shapes /\ Loop /\ Cap /\ Structs /\ Life
      /\ BuffersNotShared /\ DescriptorsOwned /\ Sockets /\ Tags /\ Home
  BY DEF Inv
<1>2. /\ c' = c /\ nextID' = nextID /\ made' = made /\ ops \in Seq(Ops)
      /\ Ids' = Ids /\ FDs' = FDs
  BY SameConfig DEF RingStep
<1>3. Live' = Live /\ Serving' = Serving /\ \A j : Cc(j)' = Cc(j)
  BY <1>2, TableStays
<1>4. TableTypes' /\ HookShapes'
  BY <1>1, <1>2 DEF TableTypes, Types, HookKeeps
<1>5. completed \in Nat /\ Cardinality(Serving) \in Nat
  BY <1>1, LiveFinite DEF Types
<1>6. Types' /\ Shapes' /\ Loop' /\ Cap' /\ BuffersNotShared' /\ Home'
  <2>1. completed' + Cardinality(Serving') <= completed + Cardinality(Serving)
    BY <1>3, <1>5
  <2>2. QED
    BY <1>3, <1>4, <2>1, RingFrame
<1>7. Structs'
  BY <1>1, <1>2, <1>3 DEF Structs, InRange
<1>8. DescriptorsOwned'
  <2>1. ASSUME NEW f \in FDs PROVE Balance(f, ops)
    <3>1. Owners(f)' = Owners(f)
      BY <1>3 DEF Owners, HeldBy
    <3>2. \A n \in DOMAIN ops : ops[n] \notin ClosesOf(f)
      BY DEF ClosesOf
    <3>3. Occurs(ops, ClosesOf(f)) = 0
      BY <1>2, <3>2, OccursNone
    <3>4. Cardinality(Owners(f)) \in Nat /\ AtResults(f) \in Nat
      BY <1>1, HoldersParts
    <3>5. Expect(fdt[f] # Free) \in Nat
      BY DEF Expect
    <3>6. AtResults(f)' = AtResults(f) /\ Expect(fdt'[f] # Free) = Expect(fdt[f] # Free)
      OBVIOUS
    <3>7. QED
      BY <3>1, <3>3, <3>4, <3>5, <3>6 DEF Balance
  <2>2. QED
    BY <1>1, <1>3, <1>4, <2>1, RingOwned
<1>9. Sockets'
  BY <1>1, <1>3 DEF Sockets, SocketsOf
<1>10. Tags'
  <2>1. \A j \in DOMAIN cq' : \E k \in DOMAIN cq : cq'[j] = cq[k]
    BY <1>1, RingQueue
  <2>2. QED
    BY <1>1, <1>2, <1>6, <2>1, TagsKeep
<1>11. QED
  BY <1>6, <1>7, <1>8, <1>9, <1>10 DEF Inv

(* An operation takes the place of the completed one. *)
LEMMA Rearmed ==
  ASSUME Inv, NEW p, FitNext(p), RingStep(<<p>>), cq' = Tail(cq), cq # <<>>,
         Replaces(p, Head(cq).o), p.op # "Close", HookKeeps,
         \A f : AtResults(f)' = AtResults(f), \A j : HookWork(j)' = HookWork(j),
         conns' = conns, cell' = cell, connFree' = connFree, fdt' = fdt, completed' = completed
  PROVE  Inv'
<1>1. Types /\ Life
  BY DEF Inv
<1>2. p \in Ops /\ c' = c /\ nextID' = nextID /\ sq' = sq \o <<p>> /\ kops' = kops
  BY DEF FitNext, RingStep
<1>3. \A j \in Ids : Steady(j)
  BY <1>1, <1>2, ReplacedSteady
<1>4. Life'
  BY <1>1, <1>2, <1>3, LifeSteady
<1>5. \A n \in DOMAIN (<<p>>) : FitNext((<<p>>)[n]) /\ (<<p>>)[n].op # "Close"
  OBVIOUS
<1>6. QED
  BY <1>4, <1>5, SameTable

(* A handler is such a step. *)
LEMMA HandlerStep ==
  ASSUME Types, Loop, NEW o, o # "Accept", Handle(o), acceptVars' = acceptVars,
         nextID' = nextID, made' = made, NEW ops \in Seq(Ops), sq' = sq \o ops
  PROVE  /\ RingStep(ops) /\ cq # <<>> /\ cq' = Tail(cq) /\ Head(cq).o.op = o
         /\ drained = <<>> /\ c' = c /\ running' = running /\ kops' = kops
  BY HandleFacts DEF RingStep, acceptVars

-----------------------------------------------------------------------------
(* The handlers that re-arm.                                               *)

(* An operation on a socket, with the connection's buffer. *)
LEMMA BufferedFit ==
  ASSUME Types, NEW o, NEW d, NEW i \in Ids, NEW f \in FDs, NEW b \in Ids,
         \/ o \in ChurnOps /\ d = NoDir
         \/ o \in {"Recv", "Send"} /\ d \in Dirs /\ mode = "duplex",
         cell'[b].id = i, fdt'[f] = i
  PROVE  FitNext(Op(o, d, i, {f}, b))
<1> DEFINE p == Op(o, d, i, {f}, b)
<1>1. /\ p.op = o /\ p.dir = d /\ p.id = i /\ p.fds = {f} /\ p.buf = b
  BY DEF Op
<1>2. i \in Nat /\ b \in Nat /\ f \in Nat
  BY Ranges
<1>3. p \in Ops
  BY <1>2 DEF Op, Ops, OpNames, ChurnOps, RelayOps
<1> HIDE DEF p
<1>4. Formed(p)
  BY <1>1 DEF Formed, ChurnOps
<1>5. p.op # "Accept"
  BY <1>1 DEF ChurnOps
<1>6. QED
  BY <1>1, <1>3, <1>4, <1>5 DEF FitNext, p

(* A splice between a socket and a pipe of its connection. *)
LEMMA SpliceFit ==
  ASSUME Types, NEW o \in {"SpliceIn", "SpliceOut"}, NEW d \in Dirs, NEW i \in Ids,
         NEW f \in FDs, NEW g \in FDs, mode = "splice"
  PROVE  FitNext(Op(o, d, i, {f, g}, 0))
<1> DEFINE p == Op(o, d, i, {f, g}, 0)
<1>1. /\ p.op = o /\ p.dir = d /\ p.id = i /\ p.fds = {f, g} /\ p.buf = 0
  BY DEF Op
<1>2. i \in Nat /\ f \in Nat /\ g \in Nat
  BY Ranges
<1>3. p \in Ops
  BY <1>2 DEF Op, Ops, OpNames, ChurnOps, RelayOps
<1> HIDE DEF p
<1>4. Formed(p)
  BY <1>1 DEF Formed, ChurnOps
<1>5. QED
  BY <1>1, <1>3, <1>4 DEF FitNext, p

(* The re-armed timer and eventfd. *)
LEMMA LoopFit ==
  ASSUME NEW o \in {"Timeout", "Eventfd"}
  PROVE  FitNext(Op(o, NoDir, 0, {}, 0))
<1> DEFINE p == Op(o, NoDir, 0, {}, 0)
<1>1. /\ p.op = o /\ p.dir = NoDir /\ p.id = 0 /\ p.fds = {} /\ p.buf = 0
  BY DEF Op
<1>2. p \in Ops
  BY DEF Op, Ops, OpNames
<1> HIDE DEF p
<1>3. Formed(p)
  BY <1>1 DEF Formed, ChurnOps
<1>4. QED
  BY <1>1, <1>2, <1>3 DEF FitNext, p

(* One operation as a batch.                                               *)
LEMMA OneOp ==
  ASSUME NEW p, FitNext(p)
  PROVE  <<p>> \in Seq(Ops)
  BY DEF FitNext

(* The parts of the invariant.                                             *)
LEMMA InvParts ==
  ASSUME Inv
  PROVE  /\ Types /\ Shapes /\ Loop /\ Cap /\ Structs /\ Life
         /\ BuffersNotShared /\ DescriptorsOwned /\ Sockets /\ Tags /\ Home
  BY DEF Inv

(* Nothing of the table changes. *)
Rest ==
  /\ acceptVars' = acceptVars /\ completed' = completed
  /\ nextID' = nextID /\ made' = made /\ conns' = conns /\ cell' = cell
  /\ connFree' = connFree /\ fdt' = fdt /\ jobs' = jobs

(* What a handler of the loop leaves alone.                                *)
LEMMA RestUnchanged ==
  ASSUME UNCHANGED <<counters, fdt, jobs, tableVars>>
  PROVE  Rest
  BY DEF Rest, counters, acceptVars, tableVars

(* A handler that prepares one operation and does nothing else. *)
LEMMA HandlerRearms ==
  ASSUME Inv, NEW o, o # "Accept", Handle(o), Rest, NEW p, FitNext(p), Post(<<p>>),
         Replaces(p, Head(cq).o), p.op # "Close",
         \/ ready' = ready /\ drained' = drained
         \/ drained' = ready /\ ready' = <<>>
  PROVE  Inv'
<1>1. Types /\ Shapes /\ Loop
  BY InvParts
<1>2. /\ acceptVars' = acceptVars /\ completed' = completed
      /\ nextID' = nextID /\ made' = made /\ conns' = conns /\ cell' = cell
      /\ connFree' = connFree /\ fdt' = fdt /\ jobs' = jobs
  BY DEF Rest
<1>3. <<p>> \in Seq(Ops) /\ sq' = sq \o <<p>>
  BY OneOp DEF Post
<1>4. /\ RingStep(<<p>>) /\ cq # <<>> /\ cq' = Tail(cq)
      /\ drained = <<>> /\ c' = c /\ running' = running
  BY <1>1, <1>2, <1>3, HandlerStep
<1>5. /\ HookKeeps /\ \A f : AtResults(f)' = AtResults(f)
      /\ \A j : HookWork(j)' = HookWork(j)
  <2>1. CASE ready' = ready /\ drained' = drained
    BY <1>1, <1>2, <1>4, <2>1, HooksSame
  <2>2. CASE drained' = ready /\ ready' = <<>>
    BY <1>1, <1>2, <1>4, <2>2, HooksSwap
  <2>3. QED
    BY <2>1, <2>2
<1>6. QED
  BY <1>2, <1>4, <1>5, Rearmed

(* The timer is armed again.                                               *)
LEMMA TimeoutStep ==
  ASSUME Inv, OnTimeout
  PROVE  Inv'
<1>1. /\ Handle("Timeout") /\ Post(<<TimeoutOp>>) /\ ready' = ready /\ drained' = drained
      /\ UNCHANGED <<counters, fdt, jobs, tableVars>>
  BY DEF OnTimeout
<1>2. FitNext(TimeoutOp) /\ TimeoutOp.op = "Timeout"
  BY LoopFit DEF TimeoutOp, Op
<1>3. Replaces(TimeoutOp, Head(cq).o)
  BY <1>1, <1>2 DEF Replaces, WorkOps, ChurnOps, RelayOps, Handle
<1>4. QED
  BY <1>1, <1>2, <1>3, RestUnchanged, HandlerRearms

(* The read of the eventfd is armed again and the results are taken.       *)
LEMMA EventfdStep ==
  ASSUME Inv, OnEventfd
  PROVE  Inv'
<1>1. /\ Handle("Eventfd") /\ Post(<<EventfdOp>>) /\ drained' = ready /\ ready' = <<>>
      /\ UNCHANGED <<counters, fdt, jobs, tableVars>>
  BY DEF OnEventfd
<1>2. FitNext(EventfdOp) /\ EventfdOp.op = "Eventfd"
  BY LoopFit DEF EventfdOp, Op
<1>3. Replaces(EventfdOp, Head(cq).o)
  BY <1>1, <1>2 DEF Replaces, WorkOps, ChurnOps, RelayOps, Handle
<1>4. QED
  BY <1>1, <1>2, <1>3, RestUnchanged, HandlerRearms

(* A handler of an open connection. *)
LEMMA ServeFacts ==
  ASSUME Inv, NEW o \in ChurnOps \cup RelayOps, Handle(o), Usable(o)
  PROVE  /\ Cid \in Serving /\ Cid \in Live /\ Cid \in Ids /\ conns[Cid] \in Ids
         /\ Cc(Cid) \in Conn /\ Cc(Cid).id = Cid /\ cell[conns[Cid]] = Cc(Cid)
         /\ Cc(Cid).client \in FDs /\ fdt[Cc(Cid).client] = Cid
         /\ (o # "RecvReq" => Cc(Cid).up \in FDs /\ fdt[Cc(Cid).up] = Cid)
         /\ Cc(Cid).client # Cc(Cid).up
         /\ cq # <<>> /\ Head(cq).o.op = o /\ Head(cq).o.id = Cid /\ Head(cq).o.dir = Dir
         /\ (o \in ChurnOps => Dir = NoDir) /\ (o \in RelayOps => Dir \in Dirs)
<1>1. Types /\ Shapes /\ Loop /\ Life /\ Structs /\ Cap /\ Sockets
  BY InvParts
<1>2. cq # <<>> /\ Head(cq).o.op = o /\ Head(cq).o.id = Cid /\ Head(cq).o.dir = Dir
  BY <1>1, HandleFacts DEF Cid, Dir
<1>3. /\ Cid \in Live /\ ~Cc(Cid).closing /\ (o \in ChurnOps => Dir = NoDir)
      /\ (o \in RelayOps => Dir \in Dirs)
      /\ (o # "RecvReq" => Cc(Cid).up # NoFD)
  <2>1. CASE o \in ChurnOps
    <3>1. o \notin RelayOps
      BY <2>1 DEF ChurnOps, RelayOps
    <3>2. QED
      BY <1>1, <1>2, <2>1, <3>1, StageChurn
  <2>2. CASE o \in RelayOps
    <3>1. o \notin ChurnOps
      BY <2>2 DEF ChurnOps, RelayOps
    <3>2. QED
      BY <1>1, <1>2, <2>2, <3>1, StageRelay
  <2>3. QED
    BY <2>1, <2>2
<1>4. Cid \in Serving
  BY <1>3 DEF Serving
<1>5. conns[Cid] \in Ids /\ cell[conns[Cid]] = Cc(Cid)
  BY <1>1, <1>3, IdsBound, StructInUse DEF Cc
<1>6. QED
  BY <1>1, <1>2, <1>3, <1>4, <1>5, SocketsHeld

(* The request is sent: the response is awaited.                           *)
LEMMA SendUpChurnStep ==
  ASSUME Inv, OnSendUp, mode # "duplex"
  PROVE  Inv'
<1> DEFINE p == Op("RecvResp", NoDir, Cid, {Cc(Cid).up}, conns[Cid])
<1>1. /\ Handle("SendUp") /\ Usable("SendUp") /\ Post(<<p>>)
      /\ ready' = ready /\ drained' = drained /\ Rest
  BY DEF OnSendUp, Serve, Rest
<1>2. "SendUp" \in ChurnOps /\ "RecvResp" \in ChurnOps
  BY DEF ChurnOps
<1>3. /\ Cid \in Ids /\ conns[Cid] \in Ids /\ cell[conns[Cid]].id = Cid
      /\ Cc(Cid).up \in FDs /\ fdt[Cc(Cid).up] = Cid
      /\ Head(cq).o.op = "SendUp" /\ Head(cq).o.id = Cid /\ Head(cq).o.dir = NoDir
  BY <1>1, <1>2, ServeFacts
<1>4. FitNext(p)
  BY <1>1, <1>2, <1>3, BufferedFit, InvParts DEF Rest
<1>5. Replaces(p, Head(cq).o) /\ p.op # "Close"
  BY <1>3 DEF Replaces, Op, LateOps, ChurnOps
<1> HIDE DEF p
<1>6. QED
  BY <1>1, <1>4, <1>5, HandlerRearms

(* The response arrived: it is sent to the client.                         *)
LEMMA RecvRespStep ==
  ASSUME Inv, OnRecvResp
  PROVE  Inv'
<1> DEFINE p == Op("SendClient", NoDir, Cid, {Cc(Cid).client}, conns[Cid])
<1>1. /\ Handle("RecvResp") /\ Usable("RecvResp") /\ Post(<<p>>)
      /\ ready' = ready /\ drained' = drained /\ Rest
  BY DEF OnRecvResp, Serve, Rest
<1>2. "SendClient" \in ChurnOps /\ "RecvResp" \in ChurnOps
  BY DEF ChurnOps
<1>3. /\ Cid \in Ids /\ conns[Cid] \in Ids /\ cell[conns[Cid]].id = Cid
      /\ Cc(Cid).client \in FDs /\ fdt[Cc(Cid).client] = Cid
      /\ Head(cq).o.op = "RecvResp" /\ Head(cq).o.id = Cid /\ Head(cq).o.dir = NoDir
  BY <1>1, <1>2, ServeFacts
<1>4. FitNext(p)
  BY <1>1, <1>2, <1>3, BufferedFit, InvParts DEF Rest
<1>5. Replaces(p, Head(cq).o) /\ p.op # "Close"
  BY <1>3 DEF Replaces, Op, LateOps, ChurnOps
<1> HIDE DEF p
<1>6. QED
  BY <1>1, <1>4, <1>5, HandlerRearms

(* The copying relay's operations. *)
LEMMA CopyFit ==
  ASSUME Inv, NEW o \in {"Recv", "Send"}, Handle(o), Usable(o), cell' = cell, fdt' = fdt,
         NEW q \in {RecvOp(Cid, Dir), SendOp(Cid, Dir)}
  PROVE  FitNext(q) /\ Replaces(q, Head(cq).o) /\ q.op # "Close"
<1>1. o \in RelayOps /\ o # "RecvReq"
  BY DEF RelayOps
<1>2. Types /\ Shapes /\ Loop /\ Life
  BY InvParts
<1>3. /\ Cid \in Ids /\ conns[Cid] \in Ids /\ cell[conns[Cid]].id = Cid /\ Dir \in Dirs
      /\ Cc(Cid).client \in FDs /\ fdt[Cc(Cid).client] = Cid
      /\ Cc(Cid).up \in FDs /\ fdt[Cc(Cid).up] = Cid /\ cq # <<>>
      /\ Head(cq).o.op = o /\ Head(cq).o.id = Cid /\ Head(cq).o.dir = Dir
  BY <1>1, ServeFacts
<1>4. mode = "duplex"
  BY <1>1, <1>2, <1>3, StageRelay
<1>5. /\ From(Cc(Cid), Dir) \in FDs /\ fdt[From(Cc(Cid), Dir)] = Cid
      /\ To(Cc(Cid), Dir) \in FDs /\ fdt[To(Cc(Cid), Dir)] = Cid
  BY <1>3 DEF From, To
<1>6. FitNext(RecvOp(Cid, Dir)) /\ FitNext(SendOp(Cid, Dir))
  BY <1>2, <1>3, <1>4, <1>5, BufferedFit DEF RecvOp, SendOp
<1>7. /\ RecvOp(Cid, Dir).op = "Recv" /\ RecvOp(Cid, Dir).id = Cid /\ RecvOp(Cid, Dir).dir = Dir
      /\ SendOp(Cid, Dir).op = "Send" /\ SendOp(Cid, Dir).id = Cid /\ SendOp(Cid, Dir).dir = Dir
  BY DEF RecvOp, SendOp, Op
<1>8. QED
  BY <1>3, <1>6, <1>7 DEF Replaces

(* Copying: what was read is sent, all of it or in part.                   *)
LEMMA SendStep ==
  ASSUME Inv, OnSend
  PROVE  Inv'
<1>1. /\ Handle("Send") /\ Usable("Send")
      /\ ready' = ready /\ drained' = drained /\ Rest
  BY DEF OnSend, Serve, Rest
<1>2. Types /\ Shapes /\ Loop /\ Life
  BY InvParts
<1>3. cq # <<>> /\ Head(cq).o.op = "Send"
  BY <1>1, <1>2, HandleFacts
<1>4. ~Cc(Cid).done[Dir]
  BY <1>1, <1>2, <1>3, StageRelay DEF RelayOps
<1>5. \E q \in {RecvOp(Cid, Dir), SendOp(Cid, Dir)} : Post(<<q>>)
  BY <1>4 DEF OnSend
<1>6. PICK q \in {RecvOp(Cid, Dir), SendOp(Cid, Dir)} : Post(<<q>>)
  BY <1>5
<1>7. FitNext(q) /\ Replaces(q, Head(cq).o) /\ q.op # "Close"
  BY <1>1, CopyFit DEF Rest
<1>8. QED
  BY <1>1, <1>6, <1>7, HandlerRearms

(* Copying: data arrived and is passed on.                                 *)
LEMMA RecvDataStep ==
  ASSUME Inv, OnRecv, Res > 0
  PROVE  Inv'
<1>1. /\ Handle("Recv") /\ Usable("Recv") /\ Post(<<SendOp(Cid, Dir)>>)
      /\ ready' = ready /\ drained' = drained /\ Rest
  BY DEF OnRecv, Serve, Rest
<1>2. FitNext(SendOp(Cid, Dir)) /\ Replaces(SendOp(Cid, Dir), Head(cq).o)
      /\ SendOp(Cid, Dir).op # "Close"
  BY <1>1, CopyFit DEF Rest
<1>3. QED
  BY <1>1, <1>2, HandlerRearms

(* A splice arms itself again.                                             *)
LEMMA SpliceStep ==
  ASSUME Inv, NEW o \in {"SpliceIn", "SpliceOut"}, OnSplice(o)
  PROVE  Inv'
<1> DEFINE p == IF o = "SpliceIn" THEN FillOp(Cc(Cid), Cid, Dir) ELSE DrainOp(Cc(Cid), Cid, Dir)
<1>1. /\ Handle(o) /\ Usable(o) /\ Post(<<p>>)
      /\ ready' = ready /\ drained' = drained /\ Rest
  BY DEF OnSplice, Serve, Rest
<1>2. Types /\ Shapes /\ Loop /\ Life /\ Structs /\ Cap /\ Sockets
  BY InvParts
<1>3. o \in RelayOps /\ o # "RecvReq" /\ o # "Accept"
  BY DEF RelayOps
<1>4. /\ Cid \in Ids /\ Dir \in Dirs /\ Cid \in Serving
      /\ Cc(Cid).client \in FDs /\ Cc(Cid).up \in FDs /\ cq # <<>>
      /\ Head(cq).o.op = o /\ Head(cq).o.id = Cid /\ Head(cq).o.dir = Dir
  BY <1>1, <1>3, ServeFacts
<1>5. mode = "splice" /\ Splicing(Cid)
  BY <1>1, <1>2, <1>3, <1>4, StageRelay
<1>6. Cc(Cid).pipe[Dir].r \in FDs /\ Cc(Cid).pipe[Dir].w \in FDs
  <2>1. Cc(Cid).pipe[Dir].r # NoFD /\ Cc(Cid).pipe[Dir].w # NoFD
    BY <1>4, <1>5 DEF Splicing
  <2>2. Cc(Cid).pipe[Dir].r \in PipeEnds(Cc(Cid)) /\ Cc(Cid).pipe[Dir].w \in PipeEnds(Cc(Cid))
    BY <1>4, <2>1, InPipeEnds
  <2>3. QED
    BY <1>2, <1>4, <2>2, SocketsHeld
<1>7. From(Cc(Cid), Dir) \in FDs /\ To(Cc(Cid), Dir) \in FDs
  BY <1>4 DEF From, To
<1>8. FitNext(p)
  BY <1>2, <1>4, <1>5, <1>6, <1>7, SpliceFit DEF FillOp, DrainOp
<1>9. p.op = o /\ p.id = Cid /\ p.dir = Dir
  BY DEF FillOp, DrainOp, Op
<1> HIDE DEF p
<1>10. Replaces(p, Head(cq).o) /\ p.op # "Close"
  BY <1>4, <1>9 DEF Replaces
<1>11. QED
  BY <1>1, <1>3, <1>8, <1>10, HandlerRearms

-----------------------------------------------------------------------------
(* The other handlers that leave the table alone.                          *)

(* The counts of a connection after a handler that prepares nothing. *)
LEMMA WorkAfterNone ==
  ASSUME Types, cq # <<>>, cq' = Tail(cq), sq' = sq, kops' = kops, NEW j
  PROVE  /\ AskWork(j)' = AskWork(j) - Hit(Head(cq).o, j, ChurnOps, {NoDir})
         /\ RecvWork(j)' = RecvWork(j) - Hit(Head(cq).o, j, {"RecvReq"}, {NoDir})
         /\ CloseWork(j)' = CloseWork(j) - Hit(Head(cq).o, j, {"Close"}, {NoDir})
         /\ \A d \in Dirs :
              /\ RelayWork(j, RelayOps, d)'
                   = RelayWork(j, RelayOps, d) - Hit(Head(cq).o, j, RelayOps, {d})
              /\ RelayWork(j, {"SpliceIn"}, d)'
                   = RelayWork(j, {"SpliceIn"}, d) - Hit(Head(cq).o, j, {"SpliceIn"}, {d})
              /\ RelayWork(j, {"SpliceOut"}, d)'
                   = RelayWork(j, {"SpliceOut"}, d) - Hit(Head(cq).o, j, {"SpliceOut"}, {d})
<1>1. \A K, D : Count(OpsOf(j, K, D))' = Count(OpsOf(j, K, D)) - Hit(Head(cq).o, j, K, D)
  BY HandledNone
<1>2. QED
  BY <1>1 DEF AskWork, RecvWork, CloseWork, RelayWork

(* The derived counts after a step. *)
LEMMA DerivedNext ==
  ASSUME NEW j
  PROVE  /\ ChurnWork(j)' = HookWork(j)' + AskWork(j)'
         /\ EarlyWork(j)' = HookWork(j)' + RecvWork(j)'
  BY DEF ChurnWork, EarlyWork, AskWork, RecvWork

(* The request arrived: a job is queued.                                   *)
LEMMA RecvReqStep ==
  ASSUME Inv, OnRecvReq
  PROVE  Inv'
<1>1. /\ Handle("RecvReq") /\ Usable("RecvReq") /\ sq' = sq /\ jobs' = Append(jobs, Cid)
      /\ ready' = ready /\ drained' = drained
      /\ acceptVars' = acceptVars /\ completed' = completed
      /\ nextID' = nextID /\ made' = made /\ conns' = conns /\ cell' = cell
      /\ connFree' = connFree /\ fdt' = fdt
  BY DEF OnRecvReq, Serve
<1>2. Types /\ Shapes /\ Loop /\ Life
  BY InvParts
<1>3. <<>> \in Seq(Ops) /\ sq' = sq \o <<>>
  BY <1>1, <1>2, PostNothing, SeqTypes
<1>4. /\ RingStep(<<>>) /\ cq # <<>> /\ cq' = Tail(cq) /\ Head(cq).o.op = "RecvReq"
      /\ drained = <<>> /\ c' = c /\ running' = running /\ kops' = kops
  BY <1>1, <1>2, <1>3, HandlerStep
<1>5. Cid \in Ids /\ Head(cq).o.dir = NoDir /\ Head(cq).o.id = Cid
  BY <1>1, ServeFacts DEF ChurnOps
<1>6. /\ HookKeeps /\ \A f : AtResults(f)' = AtResults(f)
      /\ \A j : HookWork(j)' = HookWork(j) + Expect(j = Cid)
  BY <1>1, <1>2, <1>4, <1>5, HooksJob
<1>7. ASSUME NEW j \in Ids PROVE Steady(j)
  <2>1. /\ Hit(Head(cq).o, j, ChurnOps, {NoDir}) = Expect(j = Cid)
        /\ Hit(Head(cq).o, j, {"RecvReq"}, {NoDir}) = Expect(j = Cid)
        /\ Hit(Head(cq).o, j, {"Close"}, {NoDir}) = 0
        /\ \A d \in Dirs : /\ Hit(Head(cq).o, j, RelayOps, {d}) = 0
                           /\ Hit(Head(cq).o, j, {"SpliceIn"}, {d}) = 0
                           /\ Hit(Head(cq).o, j, {"SpliceOut"}, {d}) = 0
        /\ Expect(j = Cid) \in Nat
    BY <1>4, <1>5 DEF Hit, Expect, ChurnOps, RelayOps
  <2>2. /\ AskWork(j)' = AskWork(j) - Expect(j = Cid)
        /\ RecvWork(j)' = RecvWork(j) - Expect(j = Cid)
        /\ CloseWork(j)' = CloseWork(j) - 0
        /\ \A d \in Dirs :
             /\ RelayWork(j, RelayOps, d)' = RelayWork(j, RelayOps, d) - 0
             /\ RelayWork(j, {"SpliceIn"}, d)' = RelayWork(j, {"SpliceIn"}, d) - 0
             /\ RelayWork(j, {"SpliceOut"}, d)' = RelayWork(j, {"SpliceOut"}, d) - 0
    <3>1. /\ AskWork(j)' = AskWork(j) - Hit(Head(cq).o, j, ChurnOps, {NoDir})
          /\ RecvWork(j)' = RecvWork(j) - Hit(Head(cq).o, j, {"RecvReq"}, {NoDir})
          /\ CloseWork(j)' = CloseWork(j) - Hit(Head(cq).o, j, {"Close"}, {NoDir})
          /\ \A d \in Dirs :
               /\ RelayWork(j, RelayOps, d)'
                    = RelayWork(j, RelayOps, d) - Hit(Head(cq).o, j, RelayOps, {d})
               /\ RelayWork(j, {"SpliceIn"}, d)'
                    = RelayWork(j, {"SpliceIn"}, d) - Hit(Head(cq).o, j, {"SpliceIn"}, {d})
               /\ RelayWork(j, {"SpliceOut"}, d)'
                    = RelayWork(j, {"SpliceOut"}, d) - Hit(Head(cq).o, j, {"SpliceOut"}, {d})
      BY <1>1, <1>2, <1>4, WorkAfterNone
    <3>2. QED
      BY ONLY <2>1, <3>1
  <2>3. /\ HookWork(j) \in Nat /\ RecvWork(j) \in Nat /\ AskWork(j) \in Nat
        /\ ChurnWork(j) = HookWork(j) + AskWork(j)
        /\ EarlyWork(j) = HookWork(j) + RecvWork(j)
    BY <1>2, ChurnParts
  <2>4. ChurnWork(j)' = ChurnWork(j) /\ EarlyWork(j)' = EarlyWork(j)
    BY <1>6, <2>1, <2>2, <2>3, DerivedNext
  <2>5. CloseWork(j) \in Nat
        /\ \A d \in Dirs :
             /\ RelayWork(j, RelayOps, d) \in Nat
             /\ RelayWork(j, {"SpliceIn"}, d) \in Nat
             /\ RelayWork(j, {"SpliceOut"}, d) \in Nat
    BY <1>2, RelayParts
  <2>6. QED
    BY <2>2, <2>4, <2>5 DEF Steady
<1>8. Life'
  BY <1>1, <1>2, <1>4, <1>7, LifeSteady
<1>9. \A n \in DOMAIN (<<>>) : FitNext((<<>>)[n]) /\ (<<>>)[n].op # "Close"
  OBVIOUS
<1>10. QED
  BY <1>1, <1>4, <1>6, <1>8, <1>9, SameTable

(* A stale completion is of a relay operation whose connection is closing  *)
(* or gone, or of the close of a client that was turned away.              *)
LEMMA StaleStep ==
  ASSUME Inv, NEW o \in RelayOps \cup ChurnOps \cup {"Close"}, OnStale(o)
  PROVE  Inv'
<1>1. /\ Handle(o) /\ ~Usable(o) /\ sq' = sq /\ jobs' = jobs
      /\ ready' = ready /\ drained' = drained
      /\ acceptVars' = acceptVars /\ completed' = completed
      /\ nextID' = nextID /\ made' = made /\ conns' = conns /\ cell' = cell
      /\ connFree' = connFree /\ fdt' = fdt
  BY DEF OnStale, counters, tableVars, acceptVars
<1>2. Types /\ Shapes /\ Loop /\ Life
  BY InvParts
<1>3. <<>> \in Seq(Ops) /\ sq' = sq \o <<>> /\ o # "Accept"
  BY <1>1, <1>2, PostNothing, SeqTypes DEF RelayOps, ChurnOps
<1>4. /\ RingStep(<<>>) /\ cq # <<>> /\ cq' = Tail(cq) /\ Head(cq).o.op = o
      /\ drained = <<>> /\ c' = c /\ running' = running /\ kops' = kops
  BY <1>1, <1>2, <1>3, HandlerStep
<1>5. /\ HookKeeps /\ \A f : AtResults(f)' = AtResults(f)
      /\ \A j : HookWork(j)' = HookWork(j)
  BY <1>1, <1>2, <1>4, HooksSame
<1>6. Head(cq).o.id = Cid /\ Formed(Head(cq).o) /\ Head(cq).o.dir = Dir
  BY <1>2, <1>4, HeadFacts DEF Cid, Dir
<1>7. o \notin ChurnOps
  <2>1. o \in ChurnOps => o \notin RelayOps
    BY DEF ChurnOps, RelayOps
  <2>2. QED
    BY <1>1, <1>2, <1>4, <2>1, StageChurn DEF Usable
<1>8. \A j \in Ids : j # Cid => Steady(j)
  <2>1. \A j : j # Cid => Away(Head(cq).o, j)
    BY <1>6 DEF Away
  <2>2. \A n \in DOMAIN (<<>>) : \A j : Away((<<>>)[n], j)
    OBVIOUS
  <2>3. QED
    BY <1>2, <1>3, <1>4, <1>5, <2>1, <2>2, HandledUntouched, UntouchedSteady
<1>9. Live' = Live /\ \A j : Cc(j)' = Cc(j)
  BY <1>1, <1>4, TableStays
<1>10. Life'
  <2>1. CASE o = "Close"
    <3>1. Cid \notin Live
      BY <1>1, <2>1 DEF Usable, RelayOps
    <3>2. ASSUME Cid \in Ids PROVE FALSE
      <4>1. CloseWork(Cid) >= 1
        BY <1>2, <1>4, <1>6, <2>1, HeadCounted DEF CloseWork, Formed
      <4>2. LifeOf(Cid)
        BY <1>2, <3>2 DEF Life
      <4>3. QED
        BY <3>1, <4>1, <4>2 DEF LifeOf, Gone
    <3>3. QED
      BY <1>1, <1>2, <1>4, <1>8, <3>2, LifeSteady
  <2>2. CASE o \in RelayOps
    <3>1. PICK i : i = Cid
      OBVIOUS
    <3>2. i \in Ids /\ Dir \in Dirs
      BY <1>4, <1>6, <2>2, <3>1 DEF Formed, RelayOps
    <3>3. /\ Hit(Head(cq).o, i, ChurnOps, {NoDir}) = 0
          /\ Hit(Head(cq).o, i, {"Close"}, {NoDir}) = 0
      BY <1>4, <2>2, <3>1 DEF Hit, Expect, ChurnOps, RelayOps
    <3>4. /\ AskWork(i)' = AskWork(i) - 0
          /\ CloseWork(i)' = CloseWork(i) - 0
      <4>1. /\ AskWork(i)' = AskWork(i) - Hit(Head(cq).o, i, ChurnOps, {NoDir})
            /\ CloseWork(i)' = CloseWork(i) - Hit(Head(cq).o, i, {"Close"}, {NoDir})
        BY <1>1, <1>2, <1>4, WorkAfterNone
      <4>2. QED
        BY <3>3, <4>1
    <3>5. ChurnWork(i)' = ChurnWork(i) /\ CloseWork(i)' = CloseWork(i)
      <4>1. /\ AskWork(i) \in Nat /\ HookWork(i) \in Nat /\ CloseWork(i) \in Nat
            /\ ChurnWork(i) = HookWork(i) + AskWork(i) /\ HookWork(i)' = HookWork(i)
            /\ ChurnWork(i)' = HookWork(i)' + AskWork(i)'
        BY <1>2, <1>5, ChurnParts, RelayParts, DerivedNext
      <4>2. QED
        BY ONLY <3>4, <4>1
    <3>6. RelayWork(i, RelayOps, Dir) >= 1
      BY <1>2, <1>4, <1>6, <2>2, <3>1, HeadCounted DEF RelayWork
    <3>7. LifeOf(i)
      BY <1>2, <3>2 DEF Life
    <3>8. LifeOf(i)'
      <4>1. CASE i \notin Live
        <5>1. Gone(i)
          BY <3>7, <4>1 DEF LifeOf
        <5>2. ~(i > nextID)
          BY <3>2, <3>6, <5>1 DEF Gone
        <5>3. Gone(i)'
          BY <1>1, <3>5, <5>1, <5>2 DEF Gone
        <5>4. QED
          BY <1>9, <4>1, <5>3 DEF LifeOf
      <4>2. CASE i \in Live
        <5>1. Cc(i).closing
          BY <1>1, <2>2, <3>1, <4>2 DEF Usable
        <5>2. QED
          BY <1>9, <3>5, <3>7, <4>2, <5>1 DEF LifeOf, Closing
      <4>3. QED
        BY <4>1, <4>2
    <3>9. QED
      BY <1>1, <1>2, <1>4, <1>8, <1>9, <3>1, <3>8, LifeOne
  <2>3. QED
    BY <1>7, <2>1, <2>2
<1>11. \A n \in DOMAIN (<<>>) : FitNext((<<>>)[n]) /\ (<<>>)[n].op # "Close"
  OBVIOUS
<1>12. QED
  BY <1>1, <1>4, <1>5, <1>10, <1>11, SameTable

(* The request is sent: the copying relay starts in both directions. *)
LEMMA SendUpDuplexStep ==
  ASSUME Inv, OnSendUp, mode = "duplex"
  PROVE  Inv'
<1> DEFINE p == RecvOp(Cid, "c2u")
           q == RecvOp(Cid, "u2c")
           o == Head(cq).o
<1>1. /\ Handle("SendUp") /\ Usable("SendUp") /\ Post(<<p, q>>)
      /\ ready' = ready /\ drained' = drained /\ Rest
  BY DEF OnSendUp, Serve, Rest
<1>2. Types /\ Shapes /\ Loop /\ Life
  BY InvParts
<1>3. /\ Cid \in Ids /\ conns[Cid] \in Ids /\ cell[conns[Cid]].id = Cid
      /\ Cc(Cid).client \in FDs /\ fdt[Cc(Cid).client] = Cid
      /\ Cc(Cid).up \in FDs /\ fdt[Cc(Cid).up] = Cid
      /\ o.op = "SendUp" /\ o.id = Cid /\ o.dir = NoDir /\ cq # <<>>
  BY <1>1, ServeFacts DEF ChurnOps
<1>4. FitNext(p) /\ FitNext(q)
  BY <1>1, <1>2, <1>3, BufferedFit DEF Rest, RecvOp, From, Dirs
<1>5. /\ p.op = "Recv" /\ p.id = Cid /\ p.dir = "c2u"
      /\ q.op = "Recv" /\ q.id = Cid /\ q.dir = "u2c"
  BY DEF RecvOp, Op
<1> HIDE DEF p, q, o
<1>6. p \in Ops /\ q \in Ops /\ <<p, q>> \in Seq(Ops) /\ sq' = sq \o <<p, q>>
  BY <1>1, <1>4 DEF FitNext, Post
<1>7. /\ acceptVars' = acceptVars /\ completed' = completed
      /\ nextID' = nextID /\ made' = made /\ conns' = conns /\ cell' = cell
      /\ connFree' = connFree /\ fdt' = fdt /\ jobs' = jobs
  BY <1>1 DEF Rest
<1>8. /\ RingStep(<<p, q>>) /\ cq' = Tail(cq)
      /\ drained = <<>> /\ c' = c /\ running' = running /\ kops' = kops
  BY <1>1, <1>2, <1>6, <1>7, HandlerStep
<1>9. /\ HookKeeps /\ \A f : AtResults(f)' = AtResults(f)
      /\ \A j : HookWork(j)' = HookWork(j)
  BY <1>1, <1>2, <1>7, <1>8, HooksSame
<1>10. PICK i : i = Cid
  OBVIOUS
<1>11. /\ i \in Live /\ ~Cc(i).closing /\ CloseWork(i) = 0 /\ Asking(i)
       /\ HookWork(i) = 0 /\ AskWork(i) = 1 /\ Cc(i).up # NoFD
  BY <1>2, <1>3, <1>10, StageChurn DEF o, ChurnOps
<1>12. \A j \in Ids : j # i => Steady(j)
  <2>1. \A j : j # i => Away(Head(cq).o, j)
    BY <1>3, <1>10 DEF Away, o
  <2>2. \A n \in DOMAIN (<<p, q>>) : \A j : j # i => Away((<<p, q>>)[n], j)
    BY <1>5, <1>10 DEF Away
  <2>3. ASSUME NEW j \in Ids, j # i PROVE Untouched(j)
    <3>1. Away(Head(cq).o, j) /\ \A n \in DOMAIN (<<p, q>>) : Away((<<p, q>>)[n], j)
      BY <2>1, <2>2, <2>3
    <3>2. HookWork(j)' = HookWork(j)
      BY <1>9
    <3>3. QED
      BY <1>2, <1>3, <1>6, <1>8, <3>1, <3>2, HandledUntouched
  <2>4. QED
    BY <2>3, UntouchedSteady
<1>13. Live' = Live /\ \A j : Cc(j)' = Cc(j)
  BY <1>7, <1>8, TableStays
<1>14. \A K, D : Count(OpsOf(i, K, D))' = Count(OpsOf(i, K, D)) - Hit(o, i, K, D)
                                            + (Hit(p, i, K, D) + Hit(q, i, K, D))
  BY <1>2, <1>3, <1>6, <1>8, HandledTwo DEF o
<1>15. /\ AskWork(i)' = AskWork(i) - Hit(o, i, ChurnOps, {NoDir})
                          + (Hit(p, i, ChurnOps, {NoDir}) + Hit(q, i, ChurnOps, {NoDir}))
       /\ CloseWork(i)' = CloseWork(i) - Hit(o, i, {"Close"}, {NoDir})
                          + (Hit(p, i, {"Close"}, {NoDir}) + Hit(q, i, {"Close"}, {NoDir}))
       /\ \A d \in Dirs : RelayWork(i, RelayOps, d)'
            = RelayWork(i, RelayOps, d) - Hit(o, i, RelayOps, {d})
                + (Hit(p, i, RelayOps, {d}) + Hit(q, i, RelayOps, {d}))
  BY <1>14 DEF AskWork, CloseWork, RelayWork
<1>16. /\ Hit(o, i, ChurnOps, {NoDir}) = 1 /\ Hit(p, i, ChurnOps, {NoDir}) = 0
       /\ Hit(q, i, ChurnOps, {NoDir}) = 0
       /\ Hit(o, i, {"Close"}, {NoDir}) = 0 /\ Hit(p, i, {"Close"}, {NoDir}) = 0
       /\ Hit(q, i, {"Close"}, {NoDir}) = 0
       /\ \A d \in Dirs : /\ Hit(o, i, RelayOps, {d}) = 0
                          /\ Hit(p, i, RelayOps, {d}) + Hit(q, i, RelayOps, {d}) = 1
  BY <1>3, <1>5, <1>10 DEF Hit, Expect, ChurnOps, RelayOps, Dirs
<1>17. \A d \in Dirs : /\ RelayWork(i, RelayOps, d) = 0
                       /\ ~Cc(i).done[d] /\ Cc(i).pipe[d] = NoPipe
  BY <1>11 DEF Asking
<1>18. /\ AskWork(i)' = 0 /\ CloseWork(i)' = 0
       /\ \A d \in Dirs : RelayWork(i, RelayOps, d)' = 1
  <2>1. AskWork(i)' = 1 - 1 + (0 + 0) /\ CloseWork(i)' = 0 - 0 + (0 + 0)
    BY <1>11, <1>15, <1>16
  <2>2. ASSUME NEW d \in Dirs PROVE RelayWork(i, RelayOps, d)' = 0 - 0 + 1
    BY <1>15, <1>16, <1>17
  <2>3. QED
    BY <2>1, <2>2
<1>19. ChurnWork(i)' = 0
  BY <1>9, <1>11, <1>18, DerivedNext
<1>20. LifeOf(i)'
  <2>1. mode' = "duplex"
    BY <1>8, SameConfig
  <2>2. Copying(i)'
    BY <1>13, <1>17, <1>18, <2>1 DEF Copying, Expect, Dirs
  <2>3. Open(i)'
    BY <1>11, <1>13, <1>18, <1>19, <2>2 DEF Open
  <2>4. QED
    BY <1>11, <1>13, <2>3 DEF LifeOf
<1>21. Life'
  BY <1>2, <1>7, <1>8, <1>12, <1>13, <1>20, LifeOne
<1>22. \A n \in DOMAIN (<<p, q>>) : FitNext((<<p, q>>)[n]) /\ (<<p, q>>)[n].op # "Close"
  BY <1>4, <1>5
<1>23. QED
  BY <1>7, <1>8, <1>9, <1>21, <1>22, SameTable

-----------------------------------------------------------------------------
(* Steps that change one connection.                                       *)

HeldIn(x) == {x.client, x.up} \cup PipeEnds(x)

(* Two sets that differ in one element.                                    *)
LEMMA CardMove ==
  ASSUME NEW S, NEW T, IsFiniteSet(S), NEW i, S \ {i} = T \ {i}
  PROVE  /\ IsFiniteSet(T) /\ Cardinality(S) \in Nat /\ Cardinality(T) \in Nat
         /\ Cardinality(T) = Cardinality(S) - Expect(i \in S) + Expect(i \in T)
<1> DEFINE R == S \ {i}
<1>1. IsFiniteSet(R)
  BY FS_Subset
<1>2. R = T \ {i} /\ i \notin R
  OBVIOUS
<1>3. S = IF i \in S THEN R \cup {i} ELSE R
  OBVIOUS
<1>4. T = IF i \in T THEN R \cup {i} ELSE R
  BY <1>2
<1> HIDE DEF R
<1>5. /\ Cardinality(R) \in Nat /\ IsFiniteSet(R \cup {i})
      /\ Cardinality(R \cup {i}) = Cardinality(R) + 1
  BY <1>1, <1>2, FS_AddElement, FS_CardinalityType
<1>6. Cardinality(S) = Cardinality(R) + Expect(i \in S)
  <2>1. CASE i \in S
    BY <1>3, <1>5, <2>1 DEF Expect
  <2>2. CASE i \notin S
    <3>1. S = R
      BY <1>3, <2>2
    <3>2. QED
      BY <1>5, <2>2, <3>1 DEF Expect
  <2>3. QED
    BY <2>1, <2>2
<1>7. Cardinality(T) = Cardinality(R) + Expect(i \in T) /\ IsFiniteSet(T)
  <2>1. CASE i \in T
    BY <1>4, <1>5, <2>1 DEF Expect
  <2>2. CASE i \notin T
    <3>1. T = R
      BY <1>4, <2>2
    <3>2. QED
      BY <1>1, <1>5, <2>2, <3>1 DEF Expect
  <2>3. QED
    BY <2>1, <2>2
<1>8. Expect(i \in S) \in Nat /\ Expect(i \in T) \in Nat
  BY DEF Expect
<1>9. QED
  BY ONLY <1>5, <1>6, <1>7, <1>8

(* A prepared operation with a buffer belongs to a connection.             *)
LEMMA BufInIds ==
  ASSUME Types, Shapes, NEW o \in Prepared
  PROVE  /\ o \in Ops /\ Formed(o)
         /\ o.buf # 0 => /\ o.buf \in Ids /\ o.id \in Ids
                         /\ \/ o.op \in ChurnOps /\ o.dir = NoDir
                            \/ o.op \in {"Recv", "Send"} /\ mode = "duplex"
<1>1. o \in Ops
  <2>1. CASE \E j \in DOMAIN sq : o = sq[j]
    BY <2>1, SeqTypes
  <2>2. CASE \E h \in DOMAIN kops : o = h.o
    BY <2>2 DEF Types, HeldOps
  <2>3. QED
    BY <2>1, <2>2 DEF Prepared
<1>2. Formed(o)
  BY DEF Shapes, Prepared
<1>3. o.op \in OpNames
  BY <1>1 DEF Ops
<1>4. QED
  BY <1>1, <1>2, <1>3 DEF Formed, OpNames, RelayOps

(* One struct is rewritten, under its id.                                  *)
LEMMA TableUpdate ==
  ASSUME Types, Structs, Cap, c' = c, nextID' = nextID, made' = made, conns' = conns,
         connFree' = connFree, NEW i \in Live, NEW x \in Conn, x.id = i, InRange(x),
         cell' = [cell EXCEPT ![conns[i]] = x]
  PROVE  /\ Structs' /\ cell' \in [Ids -> Conn] /\ Live' = Live /\ Cc(i)' = x
         /\ \A j \in Live : j # i => Cc(j)' = Cc(j)
         /\ \A s \in Ids : cell'[s].id = cell[s].id
<1>1. Live' = Live /\ Cc(i)' = x /\ \A j \in Live : j # i => Cc(j)' = Cc(j)
  BY OthersUpdate
<1>2. /\ i \in Ids /\ conns[i] \in Ids /\ cell[conns[i]].id = i /\ conns[i] <= made
      /\ cell \in [Ids -> Conn] /\ Ids' = Ids /\ i # 0 /\ made \in Nat /\ conns[i] \in Nat
  BY IdsBound, StructInUse, SameConfig, Ranges DEF Types, Cc
<1>3. cell' \in [Ids -> Conn] /\ \A s \in Ids : cell'[s] = IF s = conns[i] THEN x ELSE cell[s]
  BY <1>2
<1>4. \A j \in Live' : conns'[j] \in 1..made' /\ Cc(j)'.id = j /\ j <= nextID'
  BY <1>1 DEF Structs
<1>5. ASSUME NEW s \in Ids
      PROVE  InRange(cell[s])' /\ (s > made' => cell'[s] = Blank)
  <2>1. InRange(cell[s]) /\ (s > made => cell[s] = Blank)
    BY DEF Structs
  <2>2. s \in Nat
    BY Ranges
  <2>3. InRange(cell[s])'
    BY <1>3, <2>1 DEF InRange
  <2>4. QED
    BY <1>2, <1>3, <2>1, <2>2, <2>3
<1>6. \A j \in DOMAIN connFree' : connFree'[j] \in 1..made' /\ cell'[connFree'[j]] = Blank
  <2> SUFFICES ASSUME NEW j \in DOMAIN connFree
               PROVE  connFree[j] \in 1..made /\ cell'[connFree[j]] = Blank
    OBVIOUS
  <2>1. connFree[j] \in 1..made /\ cell[connFree[j]] = Blank
    BY DEF Structs
  <2>2. connFree[j] # conns[i]
    BY <1>2, <2>1 DEF Blank
  <2>3. cell'[connFree[j]] = cell[connFree[j]]
    BY <1>2, <2>2
  <2>4. QED
    BY <2>1, <2>3
<1>7. \A j, k \in DOMAIN connFree' : connFree'[j] = connFree'[k] => j = k
  BY DEF Structs
<1>8. Structs'
  BY <1>2, <1>4, <1>5, <1>6, <1>7 DEF Structs
<1>9. QED
  BY <1>1, <1>2, <1>3, <1>8

(* Whose a number is after the update. *)
LEMMA OwnersUpdate ==
  ASSUME Types, NEW i \in Live, Live' = Live, \A j \in Live : j # i => Cc(j)' = Cc(j),
         NEW f
  PROVE  /\ Cardinality(Owners(f)') \in Nat
         /\ Cardinality(Owners(f)') = Cardinality(Owners(f)) - Expect(i \in Owners(f))
                                        + Expect(i \in Owners(f)')
         /\ (i \in Owners(f)' <=> ~Cc(i)'.closing /\ f \in HeldIn(Cc(i)'))
         /\ (i \in Owners(f) <=> ~Cc(i).closing /\ f \in HeldIn(Cc(i)))
<1>1. IsFiniteSet(Owners(f))
  BY HoldersParts
<1>2. Owners(f) \ {i} = Owners(f)' \ {i}
  BY DEF Owners, Serving, HeldBy
<1>3. /\ (i \in Owners(f)' <=> ~Cc(i)'.closing /\ f \in HeldIn(Cc(i)'))
      /\ (i \in Owners(f) <=> ~Cc(i).closing /\ f \in HeldIn(Cc(i)))
  BY DEF Owners, Serving, HeldBy, HeldIn
<1>4. /\ Cardinality(Owners(f)') \in Nat
      /\ Cardinality(Owners(f)') = Cardinality(Owners(f)) - Expect(i \in Owners(f))
                                     + Expect(i \in Owners(f)')
  <2> DEFINE S == Owners(f)
             T == Owners(f)'
  <2>1. IsFiniteSet(S) /\ S \ {i} = T \ {i}
    BY <1>1, <1>2
  <2> HIDE DEF S, T
  <2>2. /\ Cardinality(T) \in Nat
        /\ Cardinality(T) = Cardinality(S) - Expect(i \in S) + Expect(i \in T)
    BY <2>1, CardMove
  <2>3. QED
    BY <2>2 DEF S, T
<1>5. QED
  BY <1>3, <1>4

(* A handler rewrites the struct of its connection.                        *)
LEMMA UpdateStep ==
  ASSUME Inv, NEW ops, RingStep(ops), HookKeeps, NEW i \in Live, NEW x \in Conn, x.id = i,
         InRange(x), conns' = conns, connFree' = connFree,
         cell' = [cell EXCEPT ![conns[i]] = x], completed' \in Nat, fdt' \in [FDs -> Int],
         completed' + Cardinality(Serving') <= completed + Cardinality(Serving),
         \A n \in DOMAIN ops : FitNext(ops[n]),
         \A f \in FDs : \/ fdt'[f] = fdt[f]
                        \/ /\ Owners(f) \subseteq {i} /\ mode = "splice"
                           /\ fdt'[f] = Free \/ fdt'[f] \in 0..c.accepts
                           /\ AtClients(f) = 0 /\ AtResults(f)' = 0,
         ~x.closing => SocketsOf(i)',
         \A f \in FDs : Balance(f, ops),
         LifeOf(i)', \A j \in Ids : j # i => Steady(j)
  PROVE  Inv'
<1>1. /\ Types /\ Shapes /\ Loop /\ Cap /\ Structs /\ Life
      /\ BuffersNotShared /\ DescriptorsOwned /\ Sockets /\ Tags /\ Home
  BY InvParts
<1>2. /\ c' = c /\ nextID' = nextID /\ made' = made /\ ops \in Seq(Ops)
      /\ Ids' = Ids /\ FDs' = FDs
  BY SameConfig DEF RingStep
<1>3. /\ Structs' /\ cell' \in [Ids -> Conn] /\ Live' = Live /\ Cc(i)' = x
      /\ \A j \in Live : j # i => Cc(j)' = Cc(j)
      /\ \A s \in Ids : cell'[s].id = cell[s].id
  BY <1>1, <1>2, TableUpdate
<1>4. TableTypes' /\ HookShapes'
  BY <1>1, <1>2, <1>3 DEF TableTypes, Types, HookKeeps
<1>5. \A o \in Prepared : o.buf # 0 => cell'[o.buf].id = cell[o.buf].id
  BY <1>1, <1>3, BufInIds
<1>6. mode # "splice" => \A j \in DOMAIN sq : \A f \in sq[j].fds : fdt'[f] = fdt[f]
  <2>1. \A j \in DOMAIN sq : sq[j].fds \subseteq FDs
    BY <1>1 DEF Shapes, Formed
  <2>2. QED
    BY <2>1
<1>7. Types' /\ Shapes' /\ Loop' /\ Cap' /\ BuffersNotShared' /\ Home'
  BY <1>3, <1>4, <1>5, <1>6, RingFrame
<1>8. DescriptorsOwned'
  BY <1>1, <1>3, <1>4, RingOwned
<1>9. Sockets'
  <2>1. \A j \in Serving' : j # i => j \in Serving /\ Cc(j)' = Cc(j)
    BY <1>3 DEF Serving
  <2>2. \A f \in FDs : fdt'[f] = fdt[f] \/ Owners(f) \subseteq {i}
    OBVIOUS
  <2>3. i \in Serving' => SocketsOf(i)'
    BY <1>3 DEF Serving
  <2>4. QED
    BY <1>1, <2>1, <2>2, <2>3, SocketsKeep
<1>10. Tags'
  <2>1. \A j \in DOMAIN cq' : \E k \in DOMAIN cq : cq'[j] = cq[k]
    BY <1>1, RingQueue
  <2>2. \A f : AtClients(f)' = AtClients(f)
    BY <1>1, RingQueue DEF AtClients
  <2>3. QED
    BY <1>1, <1>2, <1>7, <2>1, <2>2, TagsKeep
<1>11. Life'
  BY <1>1, <1>2, <1>3, LifeOne
<1>12. QED
  BY <1>3, <1>7, <1>8, <1>9, <1>10, <1>11 DEF Inv

(* Nobody comes to hold f or stops holding it. *)
LEMMA BalanceSame ==
  ASSUME Types, NEW f, NEW ops \in Seq(Ops), Owners(f)' = Owners(f),
         AtResults(f)' = AtResults(f), fdt'[f] = fdt[f],
         \A n \in DOMAIN ops : ops[n].op # "Close"
  PROVE  Balance(f, ops)
<1>1. \A n \in DOMAIN ops : ops[n] \notin ClosesOf(f)
  BY DEF ClosesOf
<1>2. Occurs(ops, ClosesOf(f)) = 0
  BY <1>1, OccursNone
<1>3. Cardinality(Owners(f)) \in Nat /\ AtResults(f) \in Nat
  BY HoldersParts
<1>4. Expect(fdt[f] # Free) \in Nat /\ Expect(fdt'[f] # Free) = Expect(fdt[f] # Free)
  BY DEF Expect
<1>5. QED
  BY <1>2, <1>3, <1>4 DEF Balance

(* Nothing to count for the connections served. *)
LEMMA ServedKept ==
  ASSUME Types, completed' = completed, Serving' = Serving
  PROVE  /\ completed' \in Nat
         /\ completed' + Cardinality(Serving') <= completed + Cardinality(Serving)
<1>1. completed \in Nat /\ Cardinality(Serving) \in Nat
  BY LiveFinite DEF Types
<1>2. QED
  BY <1>1

(* The descriptor table stays well typed. *)
LEMMA TableTyped ==
  ASSUME Types PROVE fdt \in [FDs -> Int] /\ completed \in Nat
  BY DEF Types

(* The end of the first direction. *)
LEMMA RecvEndStep ==
  ASSUME Inv, OnRecv, ~(Res > 0), ~Cc(Cid).done[Other(Dir)]
  PROVE  Inv'
<1>1. Types /\ Shapes /\ Loop /\ Life /\ Structs /\ Cap /\ Sockets
  BY InvParts
<1>2. PICK i, d : i = Cid /\ d = Dir
  OBVIOUS
<1> DEFINE x == [Cc(i) EXCEPT !.done[d] = TRUE]
<1>3. /\ Handle("Recv") /\ Usable("Recv") /\ ready' = ready /\ drained' = drained
      /\ acceptVars' = acceptVars /\ completed' = completed /\ jobs' = jobs
      /\ nextID' = nextID /\ made' = made
  BY DEF OnRecv, Serve
<1>4. /\ i \in Serving /\ i \in Live /\ i \in Ids /\ Cc(i) \in Conn /\ Cc(i).id = i
      /\ cq # <<>> /\ Head(cq).o.op = "Recv" /\ Head(cq).o.id = i /\ Head(cq).o.dir = d
      /\ d \in Dirs
  BY <1>2, <1>3, ServeFacts DEF RelayOps
<1>5. /\ ~Cc(i).closing /\ CloseWork(i) = 0 /\ ChurnWork(i) = 0 /\ HookWork(i) = 0
      /\ AskWork(i) = 0 /\ Cc(i).up # NoFD
      /\ mode = "duplex" /\ Copying(i) /\ ~Cc(i).done[d]
  BY <1>1, <1>2, <1>3, <1>4, StageRelay DEF RelayOps
<1>6. d # Other(d) /\ Other(d) \in Dirs /\ x.done[Other(d)] = Cc(i).done[Other(d)]
      /\ x.done[d] = TRUE /\ x \in Conn /\ x.id = i /\ x.closing = Cc(i).closing
      /\ x.client = Cc(i).client /\ x.up = Cc(i).up /\ x.pipe = Cc(i).pipe
      /\ x.closesLeft = Cc(i).closesLeft /\ Dirs = {d, Other(d)}
  BY <1>4 DEF Conn, Other, Dirs
<1>7. sq' = sq /\ fdt' = fdt /\ conns' = conns /\ connFree' = connFree
      /\ cell' = [cell EXCEPT ![conns[i]] = x]
  BY <1>2, <1>6 DEF OnRecv
<1> HIDE DEF x
<1>8. <<>> \in Seq(Ops) /\ sq' = sq \o <<>>
  BY <1>1, <1>7, PostNothing, SeqTypes
<1>9. /\ RingStep(<<>>) /\ cq' = Tail(cq)
      /\ drained = <<>> /\ c' = c /\ running' = running /\ kops' = kops
  BY <1>1, <1>3, <1>8, HandlerStep
<1>10. /\ HookKeeps /\ \A f : AtResults(f)' = AtResults(f)
       /\ \A j : HookWork(j)' = HookWork(j)
  BY <1>1, <1>3, <1>9, HooksSame
<1>11. InRange(x)
  <2>1. InRange(Cc(i))
    BY <1>1, <1>4, IdsBound, StructInUse DEF Structs, Cc
  <2>2. QED
    BY <1>4, <1>6, <2>1 DEF InRange
<1>12. /\ Live' = Live /\ Cc(i)' = x /\ \A j \in Live : j # i => Cc(j)' = Cc(j)
  BY <1>1, <1>4, <1>7, <1>9, OthersUpdate
<1>13. Serving' = Serving
  BY <1>6, <1>12 DEF Serving
<1>14. \A f \in FDs : Balance(f, <<>>)
  <2> SUFFICES ASSUME NEW f \in FDs PROVE Balance(f, <<>>)
    OBVIOUS
  <2>1. \A j \in Live : HeldBy(j)' = HeldBy(j)
    BY <1>4, <1>6, <1>12 DEF HeldBy, PipeEnds
  <2>2. Owners(f)' = Owners(f)
    BY <1>13, <2>1 DEF Owners, Serving
  <2>3. \A n \in DOMAIN (<<>>) : (<<>>)[n].op # "Close"
    OBVIOUS
  <2>4. QED
    BY <1>1, <1>7, <1>8, <1>10, <2>2, <2>3, BalanceSame
<1>15. SocketsOf(i)'
  <2>1. SocketsOf(i)
    BY <1>1, <1>4 DEF Sockets
  <2>2. PipeEnds(x) = PipeEnds(Cc(i))
    BY <1>6 DEF PipeEnds
  <2>3. QED
    BY <1>6, <1>7, <1>12, <2>1, <2>2 DEF SocketsOf, PipeEnds
<1>16. \A j \in Ids : j # i => Steady(j)
  <2> SUFFICES ASSUME NEW j \in Ids, j # i PROVE Steady(j)
    OBVIOUS
  <2>1. Away(Head(cq).o, j)
    BY <1>4 DEF Away
  <2>2. \A n \in DOMAIN (<<>>) : Away((<<>>)[n], j)
    OBVIOUS
  <2>3. HookWork(j)' = HookWork(j)
    BY <1>10
  <2>4. QED
    BY <1>1, <1>4, <1>8, <1>9, <2>1, <2>2, <2>3, HandledUntouched, UntouchedSteady
<1>17. /\ ChurnWork(i)' = 0 /\ CloseWork(i)' = 0
       /\ RelayWork(i, RelayOps, d)' = 0
       /\ RelayWork(i, RelayOps, Other(d))' = RelayWork(i, RelayOps, Other(d))
  <2>1. /\ AskWork(i)' = AskWork(i) - Hit(Head(cq).o, i, ChurnOps, {NoDir})
        /\ CloseWork(i)' = CloseWork(i) - Hit(Head(cq).o, i, {"Close"}, {NoDir})
        /\ RelayWork(i, RelayOps, d)'
             = RelayWork(i, RelayOps, d) - Hit(Head(cq).o, i, RelayOps, {d})
        /\ RelayWork(i, RelayOps, Other(d))'
             = RelayWork(i, RelayOps, Other(d)) - Hit(Head(cq).o, i, RelayOps, {Other(d)})
    BY <1>1, <1>4, <1>6, <1>7, <1>9, WorkAfterNone
  <2>2. /\ Hit(Head(cq).o, i, ChurnOps, {NoDir}) = 0
        /\ Hit(Head(cq).o, i, {"Close"}, {NoDir}) = 0
        /\ Hit(Head(cq).o, i, RelayOps, {d}) = 1
        /\ Hit(Head(cq).o, i, RelayOps, {Other(d)}) = 0
    BY <1>4, <1>6 DEF Hit, Expect, ChurnOps, RelayOps
  <2>3. RelayWork(i, RelayOps, d) = 1
    BY <1>4, <1>5 DEF Copying, Expect
  <2>4. RelayWork(i, RelayOps, Other(d)) \in Nat
    BY <1>1, RelayParts
  <2>5. AskWork(i)' = 0 /\ CloseWork(i)' = 0
    BY <1>5, <2>1, <2>2
  <2>6. ChurnWork(i)' = 0
    BY <1>5, <1>10, <2>5, DerivedNext
  <2>7. QED
    BY <2>1, <2>2, <2>3, <2>4, <2>5, <2>6
<1>18. LifeOf(i)'
  <2>1. mode' = "duplex"
    BY <1>5, <1>9, SameConfig
  <2>2. \A e \in Dirs : RelayWork(i, RelayOps, e)' = Expect(~x.done[e])
    <3> SUFFICES ASSUME NEW e \in Dirs PROVE RelayWork(i, RelayOps, e)' = Expect(~x.done[e])
      OBVIOUS
    <3>1. CASE e = d
      BY <1>6, <1>17, <3>1 DEF Expect
    <3>2. CASE e = Other(d)
      BY <1>5, <1>6, <1>17, <3>2 DEF Copying
    <3>3. QED
      BY <1>6, <3>1, <3>2
  <2>3. Copying(i)'
    <3>1. \A e \in Dirs : x.pipe[e] = NoPipe
      BY <1>5, <1>6 DEF Copying
    <3>2. ~x.done[Other(d)]
      BY <1>2, <1>6
    <3>3. QED
      BY <1>6, <1>12, <2>1, <2>2, <3>1, <3>2 DEF Copying
  <2>4. Open(i)'
    BY <1>5, <1>6, <1>12, <1>17, <2>3 DEF Open
  <2>5. QED
    BY <1>4, <1>5, <1>6, <1>12, <2>4 DEF LifeOf
<1>19. completed' \in Nat /\ fdt' \in [FDs -> Int]
       /\ completed' + Cardinality(Serving') <= completed + Cardinality(Serving)
  BY <1>1, <1>3, <1>7, <1>13, ServedKept, TableTyped
<1>20. \A n \in DOMAIN (<<>>) : FitNext((<<>>)[n])
  OBVIOUS
<1>21. QED
  BY <1>4, <1>6, <1>7, <1>9, <1>10, <1>11, <1>14, <1>15, <1>16, <1>18, <1>19, <1>20, UpdateStep

(* A close that is not the last. *)
LEMMA CloseCountStep ==
  ASSUME Inv, OnClose, Cc(Cid).closesLeft > 1
  PROVE  Inv'
<1>1. Types /\ Shapes /\ Loop /\ Life /\ Structs /\ Cap /\ Sockets
  BY InvParts
<1>2. PICK i : i = Cid
  OBVIOUS
<1> DEFINE x == [Cc(i) EXCEPT !.closesLeft = @ - 1]
<1>3. /\ Handle("Close") /\ Usable("Close") /\ ready' = ready /\ drained' = drained
      /\ acceptVars' = acceptVars /\ completed' = completed /\ jobs' = jobs
      /\ nextID' = nextID /\ made' = made /\ sq' = sq /\ fdt' = fdt
  BY DEF OnClose, Serve
<1>4. cq # <<>> /\ Head(cq).o.op = "Close" /\ Head(cq).o.id = i /\ i \in Live
  BY <1>1, <1>2, <1>3, HandleFacts DEF Usable, Cid
<1>5. /\ i \in Ids /\ Head(cq).o.dir = NoDir /\ Cc(i).closing
      /\ ChurnWork(i) = 0 /\ Cc(i).closesLeft = CloseWork(i)
  BY <1>1, <1>2, <1>4, StageClose
<1>6. Cc(i) \in Conn /\ Cc(i).id = i /\ conns[i] \in Ids /\ InRange(Cc(i)) /\ cell \in [Ids -> Conn]
  BY <1>1, <1>4, IdsBound, StructInUse DEF Structs, Cc, Types
<1>7. Cc(i).closesLeft \in Nat /\ Cc(i).closesLeft > 1
  BY <1>2, <1>6 DEF Conn
<1>8. /\ x \in Conn /\ x.id = i /\ x.closing /\ x.closesLeft = Cc(i).closesLeft - 1
      /\ x.client = Cc(i).client /\ x.up = Cc(i).up /\ x.pipe = Cc(i).pipe
  BY <1>5, <1>6, <1>7 DEF Conn
<1>9. conns' = conns /\ connFree' = connFree /\ cell' = [cell EXCEPT ![conns[i]] = x]
  <2>1. ~(Cc(i).closesLeft <= 1)
    BY <1>7
  <2>2. QED
    BY <1>2, <1>6, <2>1 DEF OnClose, Cc
<1> HIDE DEF x
<1>10. <<>> \in Seq(Ops) /\ sq' = sq \o <<>>
  BY <1>1, <1>3, PostNothing, SeqTypes
<1>11. /\ RingStep(<<>>) /\ cq' = Tail(cq)
       /\ drained = <<>> /\ c' = c /\ running' = running /\ kops' = kops
  BY <1>1, <1>3, <1>10, HandlerStep
<1>12. /\ HookKeeps /\ \A f : AtResults(f)' = AtResults(f)
       /\ \A j : HookWork(j)' = HookWork(j)
  BY <1>1, <1>3, <1>11, HooksSame
<1>13. InRange(x)
  BY <1>6, <1>7, <1>8 DEF InRange
<1>14. /\ Live' = Live /\ Cc(i)' = x /\ \A j \in Live : j # i => Cc(j)' = Cc(j)
  BY <1>1, <1>4, <1>9, <1>11, OthersUpdate
<1>15. Serving' = Serving
  BY <1>5, <1>8, <1>14 DEF Serving
<1>16. \A f \in FDs : Balance(f, <<>>)
  <2> SUFFICES ASSUME NEW f \in FDs PROVE Balance(f, <<>>)
    OBVIOUS
  <2>1. \A j \in Live : HeldBy(j)' = HeldBy(j)
    BY <1>4, <1>8, <1>14 DEF HeldBy, PipeEnds
  <2>2. Owners(f)' = Owners(f)
    BY <1>15, <2>1 DEF Owners, Serving
  <2>3. \A n \in DOMAIN (<<>>) : (<<>>)[n].op # "Close"
    OBVIOUS
  <2>4. QED
    BY <1>1, <1>3, <1>10, <1>12, <2>2, <2>3, BalanceSame
<1>17. \A j \in Ids : j # i => Steady(j)
  <2> SUFFICES ASSUME NEW j \in Ids, j # i PROVE Steady(j)
    OBVIOUS
  <2>1. Away(Head(cq).o, j)
    BY <1>4 DEF Away
  <2>2. \A n \in DOMAIN (<<>>) : Away((<<>>)[n], j)
    OBVIOUS
  <2>3. HookWork(j)' = HookWork(j)
    BY <1>12
  <2>4. QED
    BY <1>1, <1>4, <1>10, <1>11, <2>1, <2>2, <2>3, HandledUntouched, UntouchedSteady
<1>18. ChurnWork(i)' = 0 /\ CloseWork(i)' = CloseWork(i) - 1
  <2>1. /\ AskWork(i)' = AskWork(i) - Hit(Head(cq).o, i, ChurnOps, {NoDir})
        /\ CloseWork(i)' = CloseWork(i) - Hit(Head(cq).o, i, {"Close"}, {NoDir})
    BY <1>1, <1>3, <1>4, <1>11, WorkAfterNone
  <2>2. /\ Hit(Head(cq).o, i, ChurnOps, {NoDir}) = 0
        /\ Hit(Head(cq).o, i, {"Close"}, {NoDir}) = 1
    BY <1>4, <1>5 DEF Hit, Expect, ChurnOps
  <2>3. AskWork(i) = 0 /\ HookWork(i) = 0
    BY <1>1, <1>5, ChurnParts
  <2>4. AskWork(i)' = 0 /\ HookWork(i)' = 0
    BY <1>12, <2>1, <2>2, <2>3
  <2>5. QED
    BY <2>1, <2>2, <2>4, DerivedNext
<1>19. LifeOf(i)'
  <2>1. Closing(i)'
    BY <1>5, <1>7, <1>8, <1>14, <1>18 DEF Closing
  <2>2. QED
    BY <1>4, <1>8, <1>14, <2>1 DEF LifeOf
<1>20. completed' \in Nat /\ fdt' \in [FDs -> Int]
       /\ completed' + Cardinality(Serving') <= completed + Cardinality(Serving)
  BY <1>1, <1>3, <1>15, ServedKept, TableTyped
<1>21. \A n \in DOMAIN (<<>>) : FitNext((<<>>)[n])
  OBVIOUS
<1>22. QED
  BY <1>3, <1>4, <1>8, <1>9, <1>11, <1>12, <1>13, <1>16, <1>17, <1>19, <1>20, <1>21, UpdateStep

(* A result is applied by the ring thread. *)
LEMMA ApplyingStep ==
  ASSUME Types, Loop, Applying, NEW ops \in Seq(Ops), sq' = sq \o ops
  PROVE  /\ RingStep(ops) /\ cq' = cq /\ drained # <<>> /\ drained' = Tail(drained)
         /\ c' = c /\ running' = running /\ kops' = kops /\ jobs' = jobs /\ ready' = ready
         /\ completed' = completed /\ nextID' = nextID /\ made' = made
<1>1. /\ drained # <<>> /\ drained' = Tail(drained)
      /\ c' = c /\ running' = running /\ kops' = kops /\ jobs' = jobs /\ ready' = ready
      /\ completed' = completed /\ nextID' = nextID /\ made' = made
      /\ cq' = cq /\ left' = left /\ waiting' = waiting /\ armed' = armed
      /\ acceptInflight' = acceptInflight /\ totalAccepts' = totalAccepts
      /\ accepted' = accepted
  BY DEF Applying, loopVars, counters, acceptVars, kernelVars
<1>2. ~waiting
  BY <1>1 DEF Loop
<1>3. QED
  BY <1>1, <1>2 DEF RingStep

(* The upstream of a connection is adopted. *)
LEMMA AdoptStep ==
  ASSUME Inv, Applying, NEW r, r = Head(drained), r.fd # NoFD, AdoptUpstream(r)
  PROVE  Inv'
<1>1. Types /\ Shapes /\ Loop /\ Life /\ Structs /\ Cap /\ Sockets /\ Tags /\ DescriptorsOwned
  BY InvParts
<1>2. PICK i : i = r.id
  OBVIOUS
<1> DEFINE x == [Cc(i) EXCEPT !.up = r.fd]
           p == Op("SendUp", NoDir, i, {r.fd}, conns[i])
<1>3. drained # <<>>
  BY DEF Applying
<1>4. /\ i \in Ids /\ i \in Live /\ ~Cc(i).closing /\ CloseWork(i) = 0 /\ Asking(i)
      /\ HookWork(i) = 1 /\ AskWork(i) = 0 /\ RecvWork(i) = 0
      /\ Cc(i).up = NoFD /\ r \in Results /\ r.fd \in 0..c.fds
  BY <1>1, <1>2, <1>3, StageResult
<1>5. i \in Serving
  BY <1>4 DEF Serving
<1>6. /\ Cc(i) \in Conn /\ Cc(i).id = i /\ conns[i] \in Ids /\ InRange(Cc(i))
      /\ cell \in [Ids -> Conn] /\ cell[conns[i]] = Cc(i)
  BY <1>1, <1>4, IdsBound, StructInUse DEF Structs, Cc, Types
<1>7. r.fd \in FDs /\ r.fd \in Nat /\ fdt[r.fd] = i
  <2>1. r = drained[1] /\ 1 \in DOMAIN drained
    BY <1>1, <1>3, SeqTypes
  <2>2. fdt[r.fd] = r.id
    BY <1>1, <2>1 DEF Tags
  <2>3. QED
    BY <1>1, <1>2, <1>4, <2>2, Ranges DEF FDs, NoFD
<1>8. /\ x \in Conn /\ x.id = i /\ ~x.closing /\ x.closesLeft = Cc(i).closesLeft
      /\ x.client = Cc(i).client /\ x.up = r.fd /\ x.pipe = Cc(i).pipe /\ x.done = Cc(i).done
  BY <1>4, <1>6, <1>7 DEF Conn
<1>9. /\ conns' = conns /\ connFree' = connFree /\ fdt' = fdt /\ sq' = sq \o <<p>>
      /\ cell' = [cell EXCEPT ![conns[i]] = x]
  BY <1>2, <1>6 DEF AdoptUpstream, Cc, Post
<1>10. cell'[conns[i]].id = i
  BY <1>6, <1>8, <1>9
<1>11. FitNext(p) /\ p.op = "SendUp" /\ p.id = i /\ p.dir = NoDir
  <2>1. FitNext(p)
    BY <1>1, <1>4, <1>6, <1>7, <1>9, <1>10, BufferedFit DEF ChurnOps
  <2>2. QED
    BY <2>1 DEF Op
<1> HIDE DEF x, p
<1>12. p \in Ops /\ <<p>> \in Seq(Ops)
  BY <1>11, OneOp DEF FitNext
<1>13. /\ RingStep(<<p>>) /\ cq' = cq /\ drained' = Tail(drained)
       /\ c' = c /\ running' = running /\ kops' = kops /\ jobs' = jobs /\ ready' = ready
       /\ completed' = completed /\ nextID' = nextID /\ made' = made
  BY <1>1, <1>9, <1>12, ApplyingStep
<1>14. /\ HookKeeps /\ \A f : AtResults(f)' = AtResults(f) - Expect(r.fd = f)
       /\ \A j : HookWork(j)' = HookWork(j) - Expect(j = i)
  BY <1>1, <1>2, <1>3, <1>13, HooksTail
<1>15. InRange(x)
  BY <1>4, <1>6, <1>8 DEF InRange
<1>16. /\ Live' = Live /\ Cc(i)' = x /\ \A j \in Live : j # i => Cc(j)' = Cc(j)
  BY <1>1, <1>4, <1>9, <1>13, OthersUpdate
<1>17. Serving' = Serving
  BY <1>4, <1>8, <1>16 DEF Serving
<1>18. PipeEnds(x) = PipeEnds(Cc(i)) /\ PipeEnds(x) = {}
  <2>1. PipeEnds(x) = PipeEnds(Cc(i))
    BY <1>8 DEF PipeEnds
  <2>2. \A f : f \notin PipeEnds(x)
    BY <1>4, <1>8, InPipeEnds DEF Asking, NoPipe
  <2>3. QED
    BY <2>1, <2>2
<1>19. AtResults(r.fd) >= 1
  <2>1. drained \in Seq(Results) /\ r = drained[1] /\ 1 \in DOMAIN drained
    BY <1>1, <1>3, SeqTypes
  <2>2. r \in ResultsAt(r.fd)
    BY <1>4 DEF ResultsAt
  <2>3. Occurs(drained, ResultsAt(r.fd)) >= 1
    BY <2>1, <2>2, OccursSome
  <2>4. Occurs(drained, ResultsAt(r.fd)) \in Nat /\ Occurs(ready, ResultsAt(r.fd)) \in Nat
    BY <1>1, SeqTypes, AtFinite
  <2>5. QED
    BY <2>3, <2>4 DEF AtResults
<1>20. Owners(r.fd) = {}
  <2>1. AtClients(r.fd) \in Nat /\ AtCloses(r.fd) \in Nat /\ AtResults(r.fd) \in Nat
    BY <1>1, HoldersParts
  <2>2. AtClients(r.fd) + AtCloses(r.fd) + AtResults(r.fd) >= 1
    BY <1>19, <2>1
  <2>3. QED
    BY <1>1, <1>7, <2>2, OwnedElsewhere
<1>21. \A f \in FDs : Balance(f, <<p>>)
  <2> SUFFICES ASSUME NEW f \in FDs PROVE Balance(f, <<p>>)
    OBVIOUS
  <2>1. /\ Cardinality(Owners(f)') = Cardinality(Owners(f)) - Expect(i \in Owners(f))
                                        + Expect(i \in Owners(f)')
        /\ (i \in Owners(f)' <=> ~x.closing /\ f \in HeldIn(x))
        /\ (i \in Owners(f) <=> ~Cc(i).closing /\ f \in HeldIn(Cc(i)))
    BY <1>1, <1>4, <1>16, OwnersUpdate
  <2>2. f # NoFD
    BY <1>1, Ranges DEF NoFD
  <2>3. (i \in Owners(f)' <=> f = Cc(i).client \/ f = r.fd)
        /\ (i \in Owners(f) <=> f = Cc(i).client)
    BY <1>4, <1>8, <1>18, <2>1, <2>2 DEF HeldIn
  <2>4. f = r.fd => i \notin Owners(f)
    BY <1>20
  <2>5. Expect(i \in Owners(f)') = Expect(i \in Owners(f)) + Expect(r.fd = f)
    BY <2>3, <2>4 DEF Expect
  <2>6. Occurs(<<p>>, ClosesOf(f)) = 0
    <3>1. \A n \in DOMAIN (<<p>>) : (<<p>>)[n] \notin ClosesOf(f)
      BY <1>11 DEF ClosesOf
    <3>2. QED
      BY <1>12, <3>1, OccursNone
  <2>7. /\ Cardinality(Owners(f)) \in Nat /\ AtResults(f) \in Nat
        /\ Expect(i \in Owners(f)) \in Nat /\ Expect(r.fd = f) \in Nat
        /\ Expect(fdt[f] # Free) \in Nat /\ Expect(fdt'[f] # Free) = Expect(fdt[f] # Free)
    BY <1>1, <1>9, HoldersParts DEF Expect
  <2>8. AtResults(f)' = AtResults(f) - Expect(r.fd = f)
    BY <1>14
  <2>9. QED
    BY <2>1, <2>5, <2>6, <2>7, <2>8 DEF Balance
<1>22. SocketsOf(i)'
  <2>1. SocketsOf(i)
    BY <1>1, <1>5 DEF Sockets
  <2>2. i \in Owners(Cc(i).client)
    BY <1>1, <1>5, SocketsHeld
  <2>3. Cc(i).client # r.fd
    BY <1>20, <2>2
  <2>4. /\ x.client # NoFD /\ x.client # x.up
        /\ x.client \notin PipeEnds(x) /\ x.up \notin PipeEnds(x)
        /\ fdt'[x.client] = i /\ fdt'[x.up] = i
    BY <1>7, <1>8, <1>9, <1>18, <2>1, <2>3 DEF SocketsOf
  <2>5. QED
    BY <1>16, <2>4 DEF SocketsOf, PipeEnds
<1>23. \A j \in Ids : j # i => Steady(j)
  <2> SUFFICES ASSUME NEW j \in Ids, j # i PROVE Steady(j)
    OBVIOUS
  <2>1. \A n \in DOMAIN (<<p>>) : Away((<<p>>)[n], j)
    BY <1>11 DEF Away
  <2>2. HookWork(j)' = HookWork(j)
    <3>1. HookWork(j)' = HookWork(j) - 0 /\ HookWork(j) \in Nat
      BY <1>1, <1>14, HookNat DEF Expect
    <3>2. QED
      BY <3>1
  <2>3. QED
    BY <1>1, <1>9, <1>12, <1>13, <2>1, <2>2, PostedUntouched, UntouchedSteady
<1>24. /\ AskWork(i)' = 1 /\ RecvWork(i)' = 0 /\ CloseWork(i)' = 0
       /\ \A d \in Dirs : RelayWork(i, RelayOps, d)' = 0
  <2>1. ASSUME NEW K, NEW D
        PROVE  Count(OpsOf(i, K, D))' = Count(OpsOf(i, K, D)) + Hit(p, i, K, D)
    <3>1. Count(OpsOf(i, K, D))' = Count(OpsOf(i, K, D)) + Occurs(<<p>>, OpsOf(i, K, D))
      BY <1>1, <1>9, <1>12, <1>13, CountPosted
    <3>2. Occurs(<<p>>, OpsOf(i, K, D)) = Expect(p \in OpsOf(i, K, D))
      BY <1>12, OccursOne
    <3>3. Expect(p \in OpsOf(i, K, D)) = Hit(p, i, K, D)
      BY <1>12, InOpsOf DEF Hit, Expect
    <3>4. QED
      BY <3>1, <3>2, <3>3
  <2>2. /\ AskWork(i)' = AskWork(i) + Hit(p, i, ChurnOps, {NoDir})
        /\ RecvWork(i)' = RecvWork(i) + Hit(p, i, {"RecvReq"}, {NoDir})
        /\ CloseWork(i)' = CloseWork(i) + Hit(p, i, {"Close"}, {NoDir})
        /\ \A d \in Dirs : RelayWork(i, RelayOps, d)'
                             = RelayWork(i, RelayOps, d) + Hit(p, i, RelayOps, {d})
    BY <2>1 DEF AskWork, RecvWork, CloseWork, RelayWork
  <2>3. /\ Hit(p, i, ChurnOps, {NoDir}) = 1 /\ Hit(p, i, {"RecvReq"}, {NoDir}) = 0
        /\ Hit(p, i, {"Close"}, {NoDir}) = 0
        /\ \A d \in Dirs : Hit(p, i, RelayOps, {d}) = 0
    BY <1>11 DEF Hit, Expect, ChurnOps, RelayOps
  <2>4. \A d \in Dirs : RelayWork(i, RelayOps, d) = 0
    BY <1>4 DEF Asking
  <2>5. /\ AskWork(i)' = 1 /\ RecvWork(i)' = 0 /\ CloseWork(i)' = 0
    BY <1>4, <2>2, <2>3
  <2>6. ASSUME NEW d \in Dirs PROVE RelayWork(i, RelayOps, d)' = 0
    <3>1. RelayWork(i, RelayOps, d)' = 0 + 0
      BY <2>2, <2>3, <2>4
    <3>2. QED
      BY <3>1
  <2>7. QED
    BY <2>5, <2>6
<1>25. ChurnWork(i)' = 1 /\ EarlyWork(i)' = 0
  <2>1. HookWork(i)' = 0
    BY <1>4, <1>14 DEF Expect
  <2>2. QED
    BY <1>24, <2>1, DerivedNext
<1>26. LifeOf(i)'
  <2>1. \A d \in Dirs : ~x.done[d] /\ x.pipe[d] = NoPipe
    BY <1>4, <1>8 DEF Asking
  <2>2. Asking(i)'
    BY <1>8, <1>16, <1>24, <1>25, <2>1 DEF Asking
  <2>3. Open(i)'
    BY <1>24, <2>2 DEF Open
  <2>4. QED
    BY <1>4, <1>8, <1>16, <2>3 DEF LifeOf
<1>27. completed' \in Nat /\ fdt' \in [FDs -> Int]
       /\ completed' + Cardinality(Serving') <= completed + Cardinality(Serving)
  BY <1>1, <1>9, <1>13, <1>17, ServedKept, TableTyped
<1>28. \A n \in DOMAIN (<<p>>) : FitNext((<<p>>)[n])
  BY <1>11
<1>29. QED
  BY <1>4, <1>8, <1>9, <1>13, <1>14, <1>15, <1>21, <1>22, <1>23, <1>26, <1>27, <1>28, UpdateStep

-----------------------------------------------------------------------------
(* closeConn.                                                              *)

(* A close of an open connection's socket. *)
LEMMA CloseFit ==
  ASSUME Types, NEW i \in Ids \cup {0}, NEW f \in FDs, mode # "splice" => fdt'[f] = i
  PROVE  /\ FitNext(CloseOp(i, f)) /\ CloseOp(i, f) \in Ops
         /\ CloseOp(i, f).op = "Close" /\ CloseOp(i, f).id = i /\ CloseOp(i, f).dir = NoDir
         /\ \A g : CloseOp(i, f) \in ClosesOf(g) <=> g = f
<1> DEFINE p == CloseOp(i, f)
<1>1. /\ p.op = "Close" /\ p.dir = NoDir /\ p.id = i /\ p.fds = {f} /\ p.buf = 0
  BY DEF CloseOp, Op
<1>2. i \in Nat /\ f \in Nat
  BY Ranges
<1>3. p \in Ops
  BY <1>2 DEF CloseOp, Op, Ops, OpNames, ChurnOps, RelayOps
<1> HIDE DEF p
<1>4. Formed(p)
  BY <1>1 DEF Formed, ChurnOps
<1>5. FitNext(p)
  BY <1>1, <1>3, <1>4 DEF FitNext
<1>6. \A g : p \in ClosesOf(g) <=> g = f
  BY <1>1, <1>3 DEF ClosesOf
<1>7. QED
  BY <1>1, <1>3, <1>5, <1>6 DEF p

(* Two batches of one make a batch of two.                                 *)
LEMMA OneAndOne ==
  ASSUME NEW a, NEW b
  PROVE  <<a>> \o <<b>> = <<a, b>>
<1> DEFINE s == <<a>> \o <<b>>
           T == {a, b}
<1>1. s \in Seq(T) /\ Len(s) = 2 /\ s[1] = a /\ s[2] = b
  OBVIOUS
<1>2. <<a, b>> \in Seq(T) /\ Len(<<a, b>>) = 2
  OBVIOUS
<1>3. \A n \in 1..2 : s[n] = (<<a, b>>)[n]
  BY <1>1
<1> HIDE DEF s
<1>4. s = <<a, b>>
  BY <1>1, <1>2, <1>3, SeqEqual
<1>5. QED
  BY <1>4 DEF s

(* The closes of an open connection. *)
LEMMA ClosesShape ==
  ASSUME Types, Structs, Cap, Sockets, NEW i \in Serving
  PROVE  /\ CloseOps(i) = IF Cc(i).up = NoFD THEN <<CloseOp(i, Cc(i).client)>>
                          ELSE <<CloseOp(i, Cc(i).client), CloseOp(i, Cc(i).up)>>
         /\ CloseOps(i) # <<>>
<1>1. Cc(i).client \in FDs /\ Cc(i) \in Conn
  BY SocketsHeld
<1>2. Cc(i).client \in Nat /\ Cc(i).client > 0 /\ Cc(i).up \in Nat
  BY <1>1, Ranges DEF Conn
<1>3. Cc(i).up > 0 <=> Cc(i).up # NoFD
  BY <1>2 DEF NoFD
<1> DEFINE a == CloseOp(i, Cc(i).client)
           b == CloseOp(i, Cc(i).up)
<1>4. CASE Cc(i).up = NoFD
  <2>1. CloseOps(i) = <<a>>
    BY <1>2, <1>3, <1>4 DEF CloseOps
  <2> HIDE DEF a
  <2>2. <<a>> # <<>>
    OBVIOUS
  <2>3. QED
    BY <1>4, <2>1, <2>2 DEF a
<1>5. CASE Cc(i).up # NoFD
  <2>1. CloseOps(i) = <<a>> \o <<b>>
    BY <1>2, <1>3, <1>5 DEF CloseOps
  <2> HIDE DEF a, b
  <2>2. <<a>> \o <<b>> = <<a, b>> /\ <<a, b>> # <<>>
    BY OneAndOne
  <2>3. QED
    BY <1>5, <2>1, <2>2 DEF a, b
<1>6. QED
  BY <1>4, <1>5

(* What they do to the counts. *)
LEMMA ClosesCount ==
  ASSUME Types, Structs, Cap, Sockets, NEW i \in Serving,
         mode # "splice" => \A f \in FDs : fdt'[f] = fdt[f]
  PROVE  /\ CloseOps(i) \in Seq(Ops) /\ CloseOps(i) # <<>> /\ Len(CloseOps(i)) \in 1..2
         /\ \A n \in DOMAIN CloseOps(i) :
              /\ FitNext(CloseOps(i)[n]) /\ CloseOps(i)[n].op = "Close"
              /\ CloseOps(i)[n].id = i /\ CloseOps(i)[n].dir = NoDir
         /\ \A f \in FDs : Occurs(CloseOps(i), ClosesOf(f))
                             = Expect(f = Cc(i).client \/ f = Cc(i).up)
         /\ Occurs(CloseOps(i), OpsOf(i, {"Close"}, {NoDir})) = Len(CloseOps(i))
<1> DEFINE a == CloseOp(i, Cc(i).client)
           b == CloseOp(i, Cc(i).up)
<1>1. /\ i \in Ids /\ Cc(i).client \in FDs /\ fdt[Cc(i).client] = i /\ Cc(i).client # Cc(i).up
      /\ (Cc(i).up # NoFD => Cc(i).up \in FDs /\ fdt[Cc(i).up] = i)
  BY SocketsHeld
<1>2. /\ FitNext(a) /\ a \in Ops /\ a.op = "Close" /\ a.id = i /\ a.dir = NoDir
      /\ \A g : a \in ClosesOf(g) <=> g = Cc(i).client
  BY <1>1, CloseFit
<1>3. Cc(i).up # NoFD =>
      /\ FitNext(b) /\ b \in Ops /\ b.op = "Close" /\ b.id = i /\ b.dir = NoDir
      /\ \A g : b \in ClosesOf(g) <=> g = Cc(i).up
  BY <1>1, CloseFit
<1>4. CloseOps(i) = IF Cc(i).up = NoFD THEN <<a>> ELSE <<a, b>>
  BY ClosesShape
<1> HIDE DEF a, b
<1>5. a \in OpsOf(i, {"Close"}, {NoDir})
      /\ (Cc(i).up # NoFD => b \in OpsOf(i, {"Close"}, {NoDir}))
  BY <1>2, <1>3, InOpsOf
<1>6. CASE Cc(i).up = NoFD
  <2>1. CloseOps(i) = <<a>> /\ <<a>> \in Seq(Ops) /\ <<a>> # <<>> /\ Len(<<a>>) = 1
    BY <1>2, <1>4, <1>6
  <2>2. \A n \in DOMAIN (<<a>>) :
          /\ FitNext((<<a>>)[n]) /\ (<<a>>)[n].op = "Close"
          /\ (<<a>>)[n].id = i /\ (<<a>>)[n].dir = NoDir
    BY <1>2
  <2>3. ASSUME NEW f \in FDs
        PROVE  Occurs(<<a>>, ClosesOf(f)) = Expect(f = Cc(i).client \/ f = Cc(i).up)
    <3>1. Occurs(<<a>>, ClosesOf(f)) = Expect(a \in ClosesOf(f))
      BY <1>2, OccursOne
    <3>2. f # NoFD
      BY Ranges DEF NoFD
    <3>3. QED
      BY <1>2, <1>6, <3>1, <3>2 DEF Expect
  <2>4. Occurs(<<a>>, OpsOf(i, {"Close"}, {NoDir})) = 1
    BY <1>2, <1>5, OccursOne DEF Expect
  <2>5. QED
    BY <2>1, <2>2, <2>3, <2>4
<1>7. CASE Cc(i).up # NoFD
  <2>1. /\ CloseOps(i) = <<a, b>> /\ <<a, b>> \in Seq(Ops) /\ <<a, b>> # <<>>
        /\ Len(<<a, b>>) = 2
    BY <1>2, <1>3, <1>4, <1>7
  <2>2. \A n \in DOMAIN (<<a, b>>) :
          /\ FitNext((<<a, b>>)[n]) /\ (<<a, b>>)[n].op = "Close"
          /\ (<<a, b>>)[n].id = i /\ (<<a, b>>)[n].dir = NoDir
    BY <1>2, <1>3, <1>7
  <2>3. ASSUME NEW f \in FDs
        PROVE  Occurs(<<a, b>>, ClosesOf(f)) = Expect(f = Cc(i).client \/ f = Cc(i).up)
    <3>1. Occurs(<<a, b>>, ClosesOf(f)) = Expect(a \in ClosesOf(f)) + Expect(b \in ClosesOf(f))
      BY <1>2, <1>3, <1>7, OccursTwo
    <3>2. QED
      BY <1>1, <1>2, <1>3, <1>7, <3>1 DEF Expect
  <2>4. Occurs(<<a, b>>, OpsOf(i, {"Close"}, {NoDir})) = 2
    <3>1. Occurs(<<a, b>>, OpsOf(i, {"Close"}, {NoDir}))
            = Expect(a \in OpsOf(i, {"Close"}, {NoDir})) + Expect(b \in OpsOf(i, {"Close"}, {NoDir}))
      BY <1>2, <1>3, <1>7, OccursTwo
    <3>2. QED
      BY <1>5, <1>7, <3>1 DEF Expect
  <2>5. QED
    BY <2>1, <2>2, <2>3, <2>4
<1>8. QED
  BY <1>6, <1>7

(* What closeConn is called with: the connection's struct, with pipes that *)
(* are its own or were made just now.                                      *)
Closable(i, cc) ==
  /\ cc \in Conn /\ cc.id = i /\ ~cc.closing /\ InRange(cc)
  /\ cc.client = Cc(i).client /\ cc.up = Cc(i).up
  /\ PipeEnds(Cc(i)) \subseteq PipeEnds(cc) /\ PipeEnds(cc) \subseteq FDs
  /\ \A f \in PipeEnds(cc) : f \in PipeEnds(Cc(i)) \/ fdt[f] = Free
  /\ mode # "splice" => PipeEnds(cc) = {}

(* What is done with the last thing the connection waited for. *)
Finishes(i) ==
  /\ CloseWork(i) = 0
  /\ \/ /\ cq # <<>> /\ cq' = Tail(cq) /\ Head(cq).o.id = i
        /\ Head(cq).o.op \in ChurnOps \cup RelayOps
        /\ \A j : HookWork(j)' = HookWork(j)
        /\ HookWork(i) = 0 /\ AskWork(i) = Hit(Head(cq).o, i, ChurnOps, {NoDir})
     \/ /\ cq' = cq /\ \A j : HookWork(j)' = HookWork(j) - Expect(j = i)
        /\ HookWork(i) = 1 /\ AskWork(i) = 0

(* The pipes of a connection that are closed by the handler. *)
LEMMA PipesClosed ==
  ASSUME Inv, NEW i \in Serving, NEW cc, Closable(i, cc), NEW f \in FDs
  PROVE  /\ f \in PipeEnds(cc) =>
              /\ Owners(f) \subseteq {i} /\ AtClients(f) = 0 /\ AtResults(f) = 0
              /\ f # Cc(i).client /\ f # Cc(i).up
              /\ mode = "splice" /\ Expect(i \in Owners(f)) = Expect(fdt[f] # Free)
         /\ f \notin PipeEnds(cc) =>
              (i \in Owners(f) <=> f = Cc(i).client \/ f = Cc(i).up)
<1>1. Types /\ Structs /\ Cap /\ Sockets /\ DescriptorsOwned
  BY InvParts
<1>2. /\ i \in Ids /\ fdt[Cc(i).client] = i
      /\ (Cc(i).up # NoFD => fdt[Cc(i).up] = i)
      /\ \A g \in PipeEnds(Cc(i)) : g \in FDs /\ i \in Owners(g)
  BY <1>1, SocketsHeld
<1>3. SocketsOf(i) /\ i # Free /\ f # NoFD
  BY <1>1, <1>2, Ranges DEF Sockets, Free, NoFD
<1>4. ASSUME f \in PipeEnds(cc)
      PROVE  /\ Owners(f) \subseteq {i} /\ AtClients(f) = 0 /\ AtResults(f) = 0
             /\ f # Cc(i).client /\ f # Cc(i).up
             /\ mode = "splice" /\ Expect(i \in Owners(f)) = Expect(fdt[f] # Free)
  <2>1. mode = "splice"
    BY <1>4 DEF Closable
  <2>2. CASE f \in PipeEnds(Cc(i))
    <3>1. /\ fdt[f] # Free /\ Owners(f) = {i} /\ AtClients(f) = 0 /\ AtResults(f) = 0
      BY <1>1, <1>2, <2>2, OwnedByConn
    <3>2. f # Cc(i).client /\ f # Cc(i).up
      BY <1>3, <2>2 DEF SocketsOf
    <3>3. QED
      BY <2>1, <3>1, <3>2 DEF Expect
  <2>3. CASE fdt[f] = Free
    <3>1. /\ Owners(f) = {} /\ AtClients(f) = 0 /\ AtResults(f) = 0
      BY <1>1, <2>3, OwnedByNobody
    <3>2. f # Cc(i).client /\ f # Cc(i).up
      BY <1>2, <1>3, <2>3
    <3>3. QED
      BY <2>1, <2>3, <3>1, <3>2 DEF Expect
  <2>4. QED
    BY <1>4, <2>2, <2>3 DEF Closable
<1>5. ASSUME f \notin PipeEnds(cc)
      PROVE  i \in Owners(f) <=> f = Cc(i).client \/ f = Cc(i).up
  <2>1. f \notin PipeEnds(Cc(i))
    BY <1>5 DEF Closable
  <2>2. QED
    BY <2>1 DEF Owners, HeldBy
<1>6. QED
  BY <1>4, <1>5

(* closeConn, by whichever handler: the pipes are closed, the sockets'     *)
(* closes are posted and counted.                                          *)
LEMMA CloseConnStep ==
  ASSUME Inv, NEW i \in Serving, NEW cc, Closable(i, cc), closeConn(i, cc), Finishes(i),
         RingStep(CloseOps(i)), HookKeeps, \A f \in FDs : AtResults(f)' = AtResults(f),
         completed' \in Nat, completed' <= completed + 1
  PROVE  Inv'
<1>1. Types /\ Shapes /\ Loop /\ Life /\ Structs /\ Cap /\ Sockets /\ DescriptorsOwned
  BY InvParts
<1>2. PICK ops, m : ops = CloseOps(i) /\ m = Len(ops)
  OBVIOUS
<1>3. /\ i \in Ids /\ i \in Live /\ Cc(i) \in Conn /\ ~Cc(i).closing /\ conns[i] \in Ids
  BY <1>1, SocketsHeld, IdsBound, StructInUse DEF Serving
<1>4. CloseOps(i) # <<>>
  BY <1>1, <1>3, ClosesShape
<1> DEFINE x == [cc EXCEPT !.closing = TRUE, !.closesLeft = m]
<1>5. /\ sq' = sq \o ops
      /\ fdt' = [f \in FDs |-> IF f \in PipeEnds(cc) THEN Free ELSE fdt[f]]
      /\ cell' = [cell EXCEPT ![conns[i]] = x] /\ conns' = conns /\ connFree' = connFree
  BY <1>2, <1>4 DEF closeConn, Closable, Post
<1>6. \A f \in FDs : fdt'[f] = IF f \in PipeEnds(cc) THEN Free ELSE fdt[f]
  BY <1>5
<1>7. /\ ops \in Seq(Ops) /\ m \in 1..2
      /\ \A n \in DOMAIN ops : FitNext(ops[n]) /\ ops[n].op = "Close"
                               /\ ops[n].id = i /\ ops[n].dir = NoDir
      /\ \A f \in FDs : Occurs(ops, ClosesOf(f)) = Expect(f = Cc(i).client \/ f = Cc(i).up)
      /\ Occurs(ops, OpsOf(i, {"Close"}, {NoDir})) = m
  <2>1. mode # "splice" => \A f \in FDs : fdt'[f] = fdt[f]
    BY <1>6 DEF Closable
  <2>2. QED
    BY <1>1, <1>2, <2>1, ClosesCount, ZenonT(60)
<1>8. /\ cc \in Conn /\ x \in Conn /\ x.id = i /\ x.closing /\ x.closesLeft = m
      /\ x.client = cc.client /\ x.up = cc.up /\ x.pipe = cc.pipe
  <2>1. cc \in Conn /\ cc.id = i
    BY DEF Closable
  <2>2. m \in Nat
    BY <1>7
  <2>3. QED
    BY <2>1, <2>2 DEF Conn
<1>9. InRange(x)
  BY <1>7, <1>8 DEF Closable, InRange
<1> HIDE DEF x
<1>10. RingStep(ops) /\ c' = c /\ kops' = kops /\ nextID' = nextID /\ made' = made
  BY <1>2 DEF RingStep
<1>11. /\ Live' = Live /\ Cc(i)' = x /\ \A j \in Live : j # i => Cc(j)' = Cc(j)
  BY <1>1, <1>3, <1>5, <1>10, OthersUpdate
<1>12. completed' + Cardinality(Serving') <= completed + Cardinality(Serving)
  <2> DEFINE S == Serving
             T == Serving'
  <2>1. IsFiniteSet(S) /\ S \ {i} = T \ {i} /\ i \in S /\ i \notin T
    BY <1>1, <1>3, <1>8, <1>11, LiveFinite DEF Serving
  <2> HIDE DEF S, T
  <2>2. /\ Cardinality(S) \in Nat /\ Cardinality(T) \in Nat
        /\ Cardinality(T) = Cardinality(S) - Expect(i \in S) + Expect(i \in T)
    BY <2>1, CardMove
  <2>3. Cardinality(T) = Cardinality(S) - 1
    BY <2>1, <2>2 DEF Expect
  <2>4. completed \in Nat
    BY <1>1, TableTyped
  <2>5. completed' + Cardinality(T) <= completed + Cardinality(S)
    BY <2>2, <2>3, <2>4
  <2>6. QED
    BY <2>5 DEF S, T
<1>13. \A f \in FDs : Balance(f, ops)
  <2> SUFFICES ASSUME NEW f \in FDs PROVE Balance(f, ops)
    OBVIOUS
  <2>1. /\ Cardinality(Owners(f)') = Cardinality(Owners(f)) - Expect(i \in Owners(f))
                                        + Expect(i \in Owners(f)')
        /\ (i \in Owners(f)' <=> ~x.closing /\ f \in HeldIn(x))
    BY <1>1, <1>3, <1>11, OwnersUpdate
  <2>2. Expect(i \in Owners(f)') = 0
    BY <1>8, <2>1 DEF Expect
  <2>3. /\ Cardinality(Owners(f)) \in Nat /\ AtResults(f) \in Nat
        /\ Expect(i \in Owners(f)) \in Nat /\ Expect(fdt[f] # Free) \in Nat
        /\ AtResults(f)' = AtResults(f)
    BY <1>1, HoldersParts DEF Expect
  <2>4. Occurs(ops, ClosesOf(f)) + Expect(fdt[f] # Free)
          = Expect(i \in Owners(f)) + Expect(fdt'[f] # Free)
    <3>1. Occurs(ops, ClosesOf(f)) = Expect(f = Cc(i).client \/ f = Cc(i).up)
      BY <1>7
    <3>2. CASE f \in PipeEnds(cc)
      <4>1. /\ Occurs(ops, ClosesOf(f)) = 0 /\ Expect(fdt'[f] # Free) = 0
            /\ Expect(i \in Owners(f)) = Expect(fdt[f] # Free)
        BY <1>6, <3>1, <3>2, PipesClosed DEF Expect
      <4>2. QED
        BY <2>3, <4>1
    <3>3. CASE f \notin PipeEnds(cc)
      <4>1. /\ Occurs(ops, ClosesOf(f)) = Expect(i \in Owners(f))
            /\ Expect(fdt'[f] # Free) = Expect(fdt[f] # Free)
        BY <1>6, <3>1, <3>3, PipesClosed DEF Expect
      <4>2. QED
        BY <2>3, <4>1
    <3>4. QED
      BY <3>2, <3>3
  <2>5. Occurs(ops, ClosesOf(f)) \in Nat /\ Expect(fdt'[f] # Free) \in Nat
    BY <1>7, AtFinite DEF Expect
  <2>6. QED
    BY <2>1, <2>2, <2>3, <2>4, <2>5 DEF Balance
<1>14. \A f \in FDs : \/ fdt'[f] = fdt[f]
                      \/ /\ Owners(f) \subseteq {i} /\ mode = "splice"
                         /\ fdt'[f] = Free \/ fdt'[f] \in 0..c.accepts
                         /\ AtClients(f) = 0 /\ AtResults(f)' = 0
  BY <1>6, PipesClosed
<1>15. \A j \in Ids : j # i => Steady(j)
  <2> SUFFICES ASSUME NEW j \in Ids, j # i PROVE Steady(j)
    OBVIOUS
  <2>1. \A n \in DOMAIN ops : Away(ops[n], j)
    BY <1>7 DEF Away
  <2>2. HookWork(j)' = HookWork(j)
    <3>1. HookWork(j) \in Nat /\ Expect(j = i) = 0
      BY <1>1, HookNat DEF Expect
    <3>2. HookWork(j)' = HookWork(j) \/ HookWork(j)' = HookWork(j) - Expect(j = i)
      BY DEF Finishes
    <3>3. QED
      BY <3>1, <3>2
  <2>3. CASE cq # <<>> /\ cq' = Tail(cq) /\ Head(cq).o.id = i
    <3>1. Away(Head(cq).o, j)
      BY <2>3 DEF Away
    <3>2. QED
      BY <1>1, <1>5, <1>7, <1>10, <2>1, <2>2, <2>3, <3>1, HandledUntouched, UntouchedSteady
  <2>4. CASE cq' = cq
    BY <1>1, <1>5, <1>7, <1>10, <2>1, <2>2, <2>4, PostedUntouched, UntouchedSteady
  <2>5. QED
    BY <2>3, <2>4 DEF Finishes
<1>16. Occurs(ops, OpsOf(i, ChurnOps, {NoDir})) = 0
  <2>1. \A n \in DOMAIN ops : ops[n] \notin OpsOf(i, ChurnOps, {NoDir})
    BY <1>7 DEF OpsOf, ChurnOps
  <2>2. QED
    BY <1>7, <2>1, OccursNone
<1>17. HookWork(i)' = 0 /\ AskWork(i)' = 0 /\ CloseWork(i)' = m
  <2>1. CASE /\ cq # <<>> /\ cq' = Tail(cq) /\ Head(cq).o.id = i
             /\ Head(cq).o.op \in ChurnOps \cup RelayOps
             /\ \A j : HookWork(j)' = HookWork(j)
             /\ HookWork(i) = 0 /\ AskWork(i) = Hit(Head(cq).o, i, ChurnOps, {NoDir})
    <3>1. /\ AskWork(i)' = AskWork(i) - Expect(Head(cq).o \in OpsOf(i, ChurnOps, {NoDir})) + 0
          /\ CloseWork(i)' = CloseWork(i) - Expect(Head(cq).o \in OpsOf(i, {"Close"}, {NoDir}))
                                + m
      BY <1>1, <1>5, <1>7, <1>10, <1>16, <2>1, CountHandled DEF AskWork, CloseWork
    <3>2. /\ Expect(Head(cq).o \in OpsOf(i, ChurnOps, {NoDir})) = AskWork(i)
          /\ Expect(Head(cq).o \in OpsOf(i, {"Close"}, {NoDir})) = 0
      BY <1>1, <2>1, HeadOp, InOpsOf DEF Hit, Expect, ChurnOps, RelayOps
    <3>3. AskWork(i) \in Nat /\ CloseWork(i) = 0 /\ m \in Nat
      BY <1>1, <1>7, ChurnParts DEF Finishes
    <3>4. QED
      BY <2>1, <3>1, <3>2, <3>3
  <2>2. CASE /\ cq' = cq /\ \A j : HookWork(j)' = HookWork(j) - Expect(j = i)
             /\ HookWork(i) = 1 /\ AskWork(i) = 0
    <3>1. AskWork(i)' = AskWork(i) + 0 /\ CloseWork(i)' = CloseWork(i) + m
      BY <1>1, <1>5, <1>7, <1>10, <1>16, <2>2, CountPosted DEF AskWork, CloseWork
    <3>2. CloseWork(i) = 0 /\ m \in Nat
      BY <1>7 DEF Finishes
    <3>3. HookWork(i)' = 0
      BY <2>2 DEF Expect
    <3>4. QED
      BY <2>2, <3>1, <3>2, <3>3
  <2>3. QED
    BY <2>1, <2>2 DEF Finishes
<1>18. LifeOf(i)'
  <2>1. ChurnWork(i)' = 0
    BY <1>17, DerivedNext
  <2>2. Closing(i)'
    BY <1>7, <1>8, <1>11, <1>17, <2>1 DEF Closing
  <2>3. QED
    BY <1>3, <1>8, <1>11, <2>2 DEF LifeOf
<1>19. fdt' \in [FDs -> Int]
  BY <1>1, <1>5, TableTyped DEF Free
<1>20. ~x.closing => SocketsOf(i)'
  BY <1>8
<1>21. QED
  BY <1>3, <1>5, <1>7, <1>8, <1>9, <1>10, <1>12, <1>13, <1>14, <1>15, <1>18, <1>19, <1>20, UpdateStep

(* Only the splicing relay has pipes. *)
LEMMA NoPipes ==
  ASSUME Inv, NEW i \in Serving, mode # "splice"
  PROVE  PipeEnds(Cc(i)) = {}
<1>1. Types /\ Life
  BY InvParts
<1>2. i \in Ids /\ i \in Live /\ ~Cc(i).closing
  BY <1>1, LiveFinite DEF Serving
<1>3. Open(i)
  BY <1>1, <1>2 DEF Life, LifeOf
<1>4. \A d \in Dirs : Cc(i).pipe[d] = NoPipe
  BY <1>3 DEF Open, Asking, Copying, Splicing
<1>5. \A f : f \notin PipeEnds(Cc(i))
  BY <1>4, InPipeEnds DEF NoPipe
<1>6. QED
  BY <1>5

(* A connection's own struct. *)
LEMMA ClosableOwn ==
  ASSUME Inv, NEW i \in Serving, NEW cc \in Conn, cc.id = i, ~cc.closing,
         cc.closesLeft = Cc(i).closesLeft, cc.client = Cc(i).client, cc.up = Cc(i).up,
         cc.pipe = Cc(i).pipe
  PROVE  Closable(i, cc)
<1>1. Types /\ Structs /\ Cap /\ Sockets
  BY InvParts
<1>2. PipeEnds(cc) = PipeEnds(Cc(i))
  BY DEF PipeEnds
<1>3. PipeEnds(Cc(i)) \subseteq FDs
  BY <1>1, SocketsHeld
<1>4. InRange(cc)
  <2>1. InRange(Cc(i)) /\ Cc(i).id = i
    BY <1>1, IdsBound, StructInUse DEF Structs, Cc, Serving
  <2>2. QED
    BY <2>1 DEF InRange
<1>5. mode # "splice" => PipeEnds(cc) = {}
  BY <1>2, NoPipes
<1>6. QED
  BY <1>2, <1>3, <1>4, <1>5 DEF Closable

(* closeConn prepares its closes. *)
LEMMA ClosesPosted ==
  ASSUME Inv, NEW i \in Serving, NEW cc, Closable(i, cc), closeConn(i, cc)
  PROVE  CloseOps(i) \in Seq(Ops) /\ sq' = sq \o CloseOps(i)
<1>1. Types /\ Structs /\ Cap /\ Sockets
  BY InvParts
<1>2. /\ sq' = sq \o CloseOps(i)
      /\ fdt' = [f \in FDs |-> IF f \in PipeEnds(cc) THEN Free ELSE fdt[f]]
  BY DEF closeConn, Closable, Post
<1>3. mode # "splice" => \A f \in FDs : fdt'[f] = fdt[f]
  BY <1>2 DEF Closable
<1>4. QED
  BY <1>1, <1>2, <1>3, ClosesCount

(* A handler ends its connection. *)
LEMMA HandlerCloses ==
  ASSUME Inv, NEW o \in ChurnOps \cup RelayOps, Handle(o), Usable(o),
         acceptVars' = acceptVars, jobs' = jobs, ready' = ready, drained' = drained,
         made' = made, nextID' = nextID, completed' \in Nat, completed' <= completed + 1,
         NEW i, i = Cid, NEW cc, Closable(i, cc), closeConn(i, cc)
  PROVE  Inv'
<1>1. Types /\ Shapes /\ Loop /\ Life
  BY InvParts
<1>2. /\ i \in Serving /\ cq # <<>> /\ Head(cq).o.op = o /\ Head(cq).o.id = i
      /\ (o \in ChurnOps => Head(cq).o.dir = NoDir)
  BY ServeFacts
<1>3. CloseOps(i) \in Seq(Ops) /\ sq' = sq \o CloseOps(i)
  BY <1>2, ClosesPosted
<1>4. o # "Accept"
  BY DEF ChurnOps, RelayOps
<1>5. /\ RingStep(CloseOps(i)) /\ cq' = Tail(cq) /\ c' = c /\ running' = running
  BY <1>1, <1>3, <1>4, HandlerStep
<1>6. /\ HookKeeps /\ \A f : AtResults(f)' = AtResults(f)
      /\ \A j : HookWork(j)' = HookWork(j)
  BY <1>1, <1>5, HooksSame
<1>7. CloseWork(i) = 0 /\ HookWork(i) = 0 /\ AskWork(i) = Hit(Head(cq).o, i, ChurnOps, {NoDir})
  <2>1. CASE o \in ChurnOps
    <3>1. CloseWork(i) = 0 /\ HookWork(i) = 0 /\ AskWork(i) = 1
      BY <1>1, <1>2, <2>1, StageChurn
    <3>2. Hit(Head(cq).o, i, ChurnOps, {NoDir}) = 1
      BY <1>2, <2>1 DEF Hit, Expect
    <3>3. QED
      BY <3>1, <3>2
  <2>2. CASE o \in RelayOps
    <3>1. CloseWork(i) = 0 /\ HookWork(i) = 0 /\ AskWork(i) = 0
      BY <1>1, <1>2, <2>2, StageRelay
    <3>2. Hit(Head(cq).o, i, ChurnOps, {NoDir}) = 0
      BY <1>2, <2>2 DEF Hit, Expect, ChurnOps, RelayOps
    <3>3. QED
      BY <3>1, <3>2
  <2>3. QED
    BY <2>1, <2>2
<1>8. Finishes(i)
  BY <1>2, <1>5, <1>6, <1>7 DEF Finishes
<1>9. QED
  BY <1>2, <1>5, <1>6, <1>8, CloseConnStep

(* The connection cannot go on and is closed.                              *)
LEMMA FatalStep ==
  ASSUME Inv, NEW o \in RelayOps \cup ChurnOps, OnFatal(o)
  PROVE  Inv'
<1>1. /\ Handle(o) /\ Usable(o) /\ closeConn(Cid, Cc(Cid)) /\ jobs' = jobs
      /\ ready' = ready /\ drained' = drained /\ made' = made /\ nextID' = nextID
      /\ acceptVars' = acceptVars /\ completed' = completed
  BY DEF OnFatal, counters, acceptVars
<1>2. PICK i, cc : i = Cid /\ cc = Cc(Cid)
  OBVIOUS
<1>3. i \in Serving /\ cc \in Conn /\ cc.id = i /\ ~cc.closing
  BY <1>1, <1>2, ServeFacts DEF Serving
<1>4. Closable(i, cc)
  BY <1>2, <1>3, ClosableOwn
<1>5. completed' \in Nat /\ completed' <= completed + 1
  BY <1>1, InvParts, TableTyped
<1>6. closeConn(i, cc)
  BY <1>1, <1>2
<1>7. QED
  BY <1>1, <1>2, <1>4, <1>5, <1>6, HandlerCloses

(* The client has its response, or not, and the connection is closed.      *)
LEMMA SendClientStep ==
  ASSUME Inv, OnSendClient
  PROVE  Inv'
<1>1. /\ Handle("SendClient") /\ Usable("SendClient") /\ closeConn(Cid, Cc(Cid)) /\ jobs' = jobs
      /\ ready' = ready /\ drained' = drained /\ made' = made /\ nextID' = nextID
      /\ acceptVars' = acceptVars
      /\ completed' = IF Res < 0 THEN completed ELSE completed + 1
  BY DEF OnSendClient, Serve
<1>2. PICK i, cc : i = Cid /\ cc = Cc(Cid)
  OBVIOUS
<1>3. i \in Serving /\ cc \in Conn /\ cc.id = i /\ ~cc.closing
  BY <1>1, <1>2, ServeFacts DEF Serving, ChurnOps
<1>4. Closable(i, cc)
  BY <1>2, <1>3, ClosableOwn
<1>5. completed' \in Nat /\ completed' <= completed + 1
  BY <1>1, InvParts, TableTyped
<1>6. closeConn(i, cc) /\ "SendClient" \in ChurnOps
  BY <1>1, <1>2 DEF ChurnOps
<1>7. QED
  BY <1>1, <1>2, <1>4, <1>5, <1>6, HandlerCloses

(* The end of the second direction. *)
LEMMA RecvLastStep ==
  ASSUME Inv, OnRecv, ~(Res > 0), Cc(Cid).done[Other(Dir)]
  PROVE  Inv'
<1>1. /\ Handle("Recv") /\ Usable("Recv") /\ ~Fatal("Recv") /\ jobs' = jobs
      /\ ready' = ready /\ drained' = drained /\ made' = made /\ nextID' = nextID
      /\ acceptVars' = acceptVars /\ completed' = completed
  BY DEF OnRecv, Serve
<1>2. PICK i, cc : i = Cid /\ cc = [Cc(Cid) EXCEPT !.done[Dir] = TRUE]
  OBVIOUS
<1>3. i \in Serving /\ Cc(i) \in Conn /\ Cc(i).id = i /\ ~Cc(i).closing /\ Dir \in Dirs
  BY <1>1, <1>2, ServeFacts DEF Serving, RelayOps
<1>4. /\ cc \in Conn /\ cc.id = i /\ ~cc.closing /\ cc.closesLeft = Cc(i).closesLeft
      /\ cc.client = Cc(i).client /\ cc.up = Cc(i).up /\ cc.pipe = Cc(i).pipe
      /\ cc.done[Other(Dir)]
  BY <1>2, <1>3 DEF Conn, Other, Dirs
<1>5. Closable(i, cc)
  BY <1>3, <1>4, ClosableOwn
<1>6. completed' \in Nat /\ completed' <= completed + 1
  BY <1>1, InvParts, TableTyped
<1>7. Res = 0
  <2>1. ~(Res < 0)
    BY <1>1 DEF Fatal
  <2>2. Res \in Int
    BY <1>1, InvParts, HandleFacts, HeadFacts
  <2>3. QED
    BY <2>1, <2>2
<1>8. closeConn(i, cc) /\ "Recv" \in RelayOps
  BY <1>2, <1>4, <1>7 DEF OnRecv, RelayOps
<1>9. QED
  BY <1>1, <1>2, <1>5, <1>6, <1>8, HandlerCloses

(* The hook refused. *)
LEMMA FailedStep ==
  ASSUME Inv, Applying, NEW r, r = Head(drained), r.fd = NoFD, FailedResult(r)
  PROVE  Inv'
<1>1. Types /\ Shapes /\ Loop /\ Life /\ Structs /\ Cap /\ Sockets
  BY InvParts
<1>2. PICK i, cc : i = r.id /\ cc = Cc(i)
  OBVIOUS
<1>3. drained # <<>>
  BY DEF Applying
<1>4. /\ i \in Live /\ ~Cc(i).closing /\ CloseWork(i) = 0 /\ HookWork(i) = 1 /\ AskWork(i) = 0
  BY <1>1, <1>2, <1>3, StageResult
<1>5. i \in Serving
  BY <1>4 DEF Serving
<1>6. cc \in Conn /\ cc.id = i
  BY <1>1, <1>2, <1>5, SocketsHeld
<1>7. Closable(i, cc)
  BY <1>2, <1>4, <1>5, <1>6, ClosableOwn
<1>8. closeConn(i, cc)
  BY <1>2 DEF FailedResult
<1>9. CloseOps(i) \in Seq(Ops) /\ sq' = sq \o CloseOps(i)
  BY <1>5, <1>7, <1>8, ClosesPosted
<1>10. /\ RingStep(CloseOps(i)) /\ cq' = cq /\ drained' = Tail(drained)
       /\ c' = c /\ running' = running /\ jobs' = jobs /\ ready' = ready
       /\ completed' = completed
  BY <1>1, <1>9, ApplyingStep
<1>11. /\ HookKeeps /\ \A f : AtResults(f)' = AtResults(f) - Expect(r.fd = f)
       /\ \A j : HookWork(j)' = HookWork(j) - Expect(j = i)
  BY <1>1, <1>2, <1>3, <1>10, HooksTail
<1>12. ASSUME NEW f \in FDs PROVE AtResults(f)' = AtResults(f)
  <2>1. Expect(r.fd = f) = 0
    BY <1>1, Ranges DEF Expect, NoFD
  <2>2. AtResults(f) \in Nat
    BY <1>1, HoldersParts
  <2>3. QED
    BY <1>11, <2>1, <2>2
<1>13. Finishes(i)
  BY <1>4, <1>10, <1>11 DEF Finishes
<1>14. completed' \in Nat /\ completed' <= completed + 1
  BY <1>1, <1>10, TableTyped
<1>15. QED
  BY <1>5, <1>7, <1>8, <1>10, <1>11, <1>12, <1>13, <1>14, CloseConnStep

(* A result of a hook is applied.                                          *)
LEMMA ApplyResultStep ==
  ASSUME Inv, ApplyResult
  PROVE  Inv'
<1>1. PICK r : r = Head(drained)
  OBVIOUS
<1>2. Applying /\ drained # <<>>
  BY DEF ApplyResult, Applying
<1>3. r.id \in Live
  BY <1>1, <1>2, InvParts, StageResult
<1>4. CASE r.fd = NoFD
  BY <1>1, <1>2, <1>3, <1>4, FailedStep DEF ApplyResult
<1>5. CASE r.fd # NoFD
  BY <1>1, <1>2, <1>3, <1>5, AdoptStep DEF ApplyResult
<1>6. QED
  BY <1>4, <1>5

-----------------------------------------------------------------------------
(* The pipes of the splicing relay.                                        *)

(* The lowest number of a set, and the rest of it.                         *)
LEMMA LowestNext ==
  ASSUME NEW S \in SUBSET Nat, IsFiniteSet(S), Cardinality(S) >= 1
  PROVE  /\ Lowest(S) \in S /\ S \ {Lowest(S)} \in SUBSET Nat /\ IsFiniteSet(S \ {Lowest(S)})
         /\ Cardinality(S \ {Lowest(S)}) = Cardinality(S) - 1 /\ Cardinality(S) \in Nat
<1>1. S # {} /\ Cardinality(S) \in Nat
  BY FS_EmptySet, FS_CardinalityType
<1>2. Lowest(S) \in S
  BY <1>1, LowestIsThere
<1>3. IsFiniteSet(S \ {Lowest(S)}) /\ Cardinality(S \ {Lowest(S)}) = Cardinality(S) - 1
  BY <1>2, FS_RemoveElement
<1>4. QED
  BY <1>1, <1>2, <1>3

(* The two lowest numbers.                                                 *)
LEMMA LowestTwo ==
  ASSUME NEW S \in SUBSET Nat, IsFiniteSet(S), Cardinality(S) >= 2,
         NEW e1, e1 = Lowest(S), NEW e2, e2 = Lowest(S \ {e1})
  PROVE  /\ e1 \in S /\ e2 \in S /\ e1 # e2
         /\ S \ {e1, e2} \in SUBSET Nat /\ IsFiniteSet(S \ {e1, e2})
         /\ Cardinality(S \ {e1, e2}) = Cardinality(S) - 2 /\ Cardinality(S) \in Nat
<1>1. Cardinality(S) \in Nat
  BY FS_CardinalityType
<1> DEFINE T == S \ {e1}
<1>2. e1 \in S /\ T \in SUBSET Nat /\ IsFiniteSet(T) /\ Cardinality(T) = Cardinality(S) - 1
  BY <1>1, LowestNext
<1> HIDE DEF T
<1>3. Cardinality(T) >= 1
  BY <1>1, <1>2
<1>4. /\ e2 \in T /\ T \ {e2} \in SUBSET Nat /\ IsFiniteSet(T \ {e2})
      /\ Cardinality(T \ {e2}) = Cardinality(T) - 1
  BY <1>2, <1>3, LowestNext DEF T
<1>5. T \ {e2} = S \ {e1, e2} /\ (e2 \in T <=> e2 \in S /\ e2 # e1)
  BY DEF T
<1>6. Cardinality(S \ {e1, e2}) = Cardinality(S) - 2
  <2>1. PICK n \in Nat : n = Cardinality(S)
    BY <1>1
  <2>2. PICK m : m = Cardinality(T)
    OBVIOUS
  <2>3. PICK k : k = Cardinality(T \ {e2})
    OBVIOUS
  <2>4. m = n - 1 /\ k = m - 1
    BY <1>2, <1>4, <2>1, <2>2, <2>3
  <2>5. k = n - 2
    BY ONLY <2>4, n \in Nat
  <2>6. QED
    BY <1>5, <2>1, <2>3, <2>5
<1>7. QED
  BY <1>1, <1>2, <1>4, <1>5, <1>6

(* The four lowest numbers.                                                *)
LEMMA LowestFour ==
  ASSUME NEW S \in SUBSET Nat, IsFiniteSet(S), Cardinality(S) >= 4,
         NEW e1, e1 = Lowest(S), NEW e2, e2 = Lowest(S \ {e1}),
         NEW e3, e3 = Lowest(S \ {e1, e2}), NEW e4, e4 = Lowest(S \ {e1, e2, e3})
  PROVE  e1 \in S /\ e2 \in S /\ e3 \in S /\ e4 \in S
<1>1. Cardinality(S) \in Nat
  BY FS_CardinalityType
<1>2. Cardinality(S) >= 2
  BY <1>1
<1> DEFINE T == S \ {e1, e2}
<1>3. /\ e1 \in S /\ e2 \in S /\ T \in SUBSET Nat /\ IsFiniteSet(T)
      /\ Cardinality(T) = Cardinality(S) - 2
  BY <1>2, LowestTwo
<1>4. T \ {e3} = S \ {e1, e2, e3} /\ T \subseteq S
  OBVIOUS
<1>5. e3 = Lowest(T) /\ e4 = Lowest(T \ {e3})
  BY <1>4
<1> HIDE DEF T
<1>6. Cardinality(T) >= 2
  BY <1>1, <1>3
<1>7. e3 \in T /\ e4 \in T
  BY <1>3, <1>5, <1>6, LowestTwo
<1>8. QED
  BY <1>3, <1>4, <1>7

(* The free numbers are finitely many.                                     *)
LEMMA FreeFinite ==
  ASSUME Types
  PROVE  FreeFDs \in SUBSET Nat /\ IsFiniteSet(FreeFDs) /\ FreeFDs \subseteq FDs
         /\ \A f \in FreeFDs : f \in FDs /\ fdt[f] = Free /\ f # NoFD
<1>1. FreeFDs \subseteq FDs /\ \A f \in FreeFDs : fdt[f] = Free
  BY DEF FreeFDs
<1>2. QED
  BY <1>1, Ranges, FS_Subset DEF NoFD

(* What the splice handler starts from. *)
LEMMA SpliceStart ==
  ASSUME Inv, OnSendUpSplice, NEW i, i = Cid
  PROVE  /\ Handle("SendUp") /\ Usable("SendUp") /\ jobs' = jobs /\ mode = "splice"
         /\ ready' = ready /\ drained' = drained /\ made' = made /\ nextID' = nextID
         /\ acceptVars' = acceptVars /\ completed' = completed
         /\ i \in Serving /\ i \in Live /\ i \in Ids /\ Cc(i) \in Conn /\ Cc(i).id = i
         /\ ~Cc(i).closing /\ PipeEnds(Cc(i)) = {} /\ Asking(i) /\ InRange(Cc(i))
         /\ \A d \in Dirs : Cc(i).pipe[d] = NoPipe
         /\ Cc(i).client \in FDs /\ fdt[Cc(i).client] = i
         /\ Cc(i).up \in FDs /\ fdt[Cc(i).up] = i /\ Cc(i).client # Cc(i).up
         /\ cq # <<>> /\ Head(cq).o.op = "SendUp" /\ Head(cq).o.id = i /\ Head(cq).o.dir = NoDir
         /\ CloseWork(i) = 0 /\ HookWork(i) = 0 /\ AskWork(i) = 1
<1>1. /\ Handle("SendUp") /\ Usable("SendUp") /\ jobs' = jobs /\ mode = "splice"
      /\ ready' = ready /\ drained' = drained /\ made' = made /\ nextID' = nextID
      /\ acceptVars' = acceptVars /\ completed' = completed
  BY DEF OnSendUpSplice, Serve
<1>2. Types /\ Shapes /\ Loop /\ Life /\ Structs /\ Cap
  BY InvParts
<1>3. /\ i \in Serving /\ i \in Live /\ i \in Ids /\ Cc(i) \in Conn /\ Cc(i).id = i
      /\ Cc(i).client \in FDs /\ fdt[Cc(i).client] = i /\ conns[i] \in Ids
      /\ Cc(i).up \in FDs /\ fdt[Cc(i).up] = i /\ Cc(i).client # Cc(i).up
      /\ cq # <<>> /\ Head(cq).o.op = "SendUp" /\ Head(cq).o.id = i /\ Head(cq).o.dir = NoDir
  BY <1>1, ServeFacts DEF ChurnOps
<1>4. /\ ~Cc(i).closing /\ Asking(i) /\ CloseWork(i) = 0 /\ HookWork(i) = 0 /\ AskWork(i) = 1
  BY <1>2, <1>3, StageChurn DEF ChurnOps
<1>5. \A d \in Dirs : Cc(i).pipe[d] = NoPipe
  BY <1>4 DEF Asking
<1>6. \A f : f \notin PipeEnds(Cc(i))
  BY <1>5, InPipeEnds DEF NoPipe
<1>7. InRange(Cc(i))
  BY <1>2, <1>3 DEF Structs, Cc
<1>8. PipeEnds(Cc(i)) = {}
  BY <1>6
<1>9. QED
  BY <1>1, <1>3, <1>4, <1>5, <1>7, <1>8

(* Pipes made of free numbers. *)
WithPipes(cc, y, p1, p2) ==
  /\ y \in Conn /\ InRange(y) /\ p1 \in Pipe /\ p2 \in Pipe
  /\ {p1.r, p1.w, p2.r, p2.w} \subseteq FreeFDs \cup {NoFD}
  /\ cc = [y EXCEPT !.pipe["c2u"] = p1, !.pipe["u2c"] = p2]

(* The struct with the pipes that were made.                               *)
LEMMA MadePipes ==
  ASSUME Types, NEW cc, NEW y, NEW p1, NEW p2, WithPipes(cc, y, p1, p2)
  PROVE  /\ cc \in Conn /\ InRange(cc) /\ cc.id = y.id /\ cc.closing = y.closing
         /\ cc.client = y.client /\ cc.up = y.up /\ cc.closesLeft = y.closesLeft
         /\ cc.pipe["c2u"] = p1 /\ cc.pipe["u2c"] = p2 /\ cc.done = y.done
         /\ PipeEnds(cc) \subseteq FreeFDs
         /\ PipeEnds(cc) = {p1.r, p1.w, p2.r, p2.w} \ {NoFD}
<1> y \in Conn /\ InRange(y) /\ p1 \in Pipe /\ p2 \in Pipe
    /\ {p1.r, p1.w, p2.r, p2.w} \subseteq FreeFDs \cup {NoFD}
  BY DEF WithPipes
<1>1. /\ cc \in Conn /\ cc.id = y.id /\ cc.closing = y.closing
      /\ cc.client = y.client /\ cc.up = y.up /\ cc.closesLeft = y.closesLeft
      /\ cc.pipe["c2u"] = p1 /\ cc.pipe["u2c"] = p2 /\ cc.done = y.done
  <2>1. cc = [y EXCEPT !.pipe["c2u"] = p1, !.pipe["u2c"] = p2]
    BY DEF WithPipes
  <2>2. QED
    BY <2>1 DEF Conn, Dirs
<1>2. ASSUME NEW f
      PROVE  f \in PipeEnds(cc) <=> f \in {p1.r, p1.w, p2.r, p2.w} /\ f # NoFD
  <2>1. f \in PipeEnds(cc)
          <=> f # NoFD /\ \E d \in {"c2u", "u2c"} : f = cc.pipe[d].r \/ f = cc.pipe[d].w
    <3>1. f \in PipeEnds(cc)
          <=> f # NoFD /\ \E d \in Dirs : f = cc.pipe[d].r \/ f = cc.pipe[d].w
      BY ONLY InPipeEnds
    <3>2. QED
      BY <3>1 DEF Dirs
  <2>2. f \in PipeEnds(cc)
          <=> f # NoFD /\ (f = cc.pipe["c2u"].r \/ f = cc.pipe["c2u"].w
                          \/ f = cc.pipe["u2c"].r \/ f = cc.pipe["u2c"].w)
    BY <2>1
  <2>3. QED
    BY <1>1, <2>2
<1>3. PipeEnds(cc) = {p1.r, p1.w, p2.r, p2.w} \ {NoFD}
  BY <1>2
<1>4. \A f \in FreeFDs \cup {NoFD} : f <= c.fds
  BY FreeFinite, Ranges DEF FDs, NoFD
<1>5. InRange(cc)
  <2>1. \A d \in Dirs : cc.pipe[d].r <= c.fds /\ cc.pipe[d].w <= c.fds
    BY <1>1, <1>4 DEF Dirs
  <2>2. QED
    BY <1>1, <2>1 DEF InRange
<1>6. QED
  BY <1>1, <1>3, <1>5

(* Splicing: the pipes cannot be made, and what was made is closed with    *)
(* the connection.                                                         *)
LEMMA SpliceFailsStep ==
  ASSUME Inv, OnSendUpSplice, Cardinality(FreeFDs) < 4
  PROVE  Inv'
<1>1. PICK i : i = Cid
  OBVIOUS
<1> DEFINE n == Cardinality(FreeFDs)
           e1 == Lowest(FreeFDs)
           e2 == Lowest(FreeFDs \ {e1})
           p1 == IF n < 2 THEN Cc(i).pipe["c2u"] ELSE [r |-> e1, w |-> e2]
           p2 == Cc(i).pipe["u2c"]
           cc == [Cc(i) EXCEPT !.pipe["c2u"] = p1, !.pipe["u2c"] = p2]
<1>2. /\ Handle("SendUp") /\ Usable("SendUp") /\ jobs' = jobs /\ mode = "splice"
      /\ ready' = ready /\ drained' = drained /\ made' = made /\ nextID' = nextID
      /\ acceptVars' = acceptVars /\ completed' = completed
      /\ i \in Serving /\ Cc(i) \in Conn /\ Cc(i).id = i
      /\ ~Cc(i).closing /\ PipeEnds(Cc(i)) = {} /\ InRange(Cc(i))
      /\ \A d \in Dirs : Cc(i).pipe[d] = NoPipe
  BY <1>1, SpliceStart
<1>3. Types /\ FreeFDs \in SUBSET Nat /\ IsFiniteSet(FreeFDs)
      /\ \A f \in FreeFDs : f \in FDs /\ fdt[f] = Free /\ f # NoFD
  BY InvParts, FreeFinite
<1>4. n \in Nat
  BY <1>3, FS_CardinalityType
<1>5. n >= 2 => e1 \in FreeFDs /\ e2 \in FreeFDs
  BY <1>3, LowestTwo
<1>6. closeConn(i, cc)
  <2>1. n < 4
    OBVIOUS
  <2>2. QED
    BY <1>1, <2>1 DEF OnSendUpSplice
<1>7. p2 = NoPipe /\ (n < 2 => p1 = NoPipe) /\ (~(n < 2) => p1 = [r |-> e1, w |-> e2])
  BY <1>2 DEF Dirs
<1>8. /\ p1 \in Pipe /\ p2 \in Pipe
      /\ {p1.r, p1.w, p2.r, p2.w} \subseteq FreeFDs \cup {NoFD}
  <2>1. NoPipe \in Pipe /\ NoPipe.r = NoFD /\ NoPipe.w = NoFD
    BY DEF NoPipe, Pipe, NoFD
  <2>2. CASE n < 2
    BY <1>7, <2>1, <2>2
  <2>3. CASE ~(n < 2)
    <3>1. e1 \in FreeFDs /\ e2 \in FreeFDs
      BY <1>4, <1>5, <2>3
    <3> HIDE DEF e1, e2
    <3>2. p1 \in Pipe /\ p1.r = e1 /\ p1.w = e2
      BY <1>3, <1>7, <2>3, <3>1 DEF Pipe
    <3>3. QED
      BY <1>7, <2>1, <3>1, <3>2
  <2>4. QED
    BY <2>2, <2>3
<1> HIDE DEF p1, p2
<1>9. PICK x : x = cc
  OBVIOUS
<1>10. PICK y : y = Cc(i)
  OBVIOUS
<1>11. PICK q1, q2 : q1 = p1 /\ q2 = p2
  OBVIOUS
<1>12. x = [y EXCEPT !.pipe["c2u"] = q1, !.pipe["u2c"] = q2]
  BY <1>9, <1>10, <1>11
<1>13. /\ y \in Conn /\ InRange(y) /\ y.id = i /\ q1 \in Pipe /\ q2 \in Pipe
       /\ {q1.r, q1.w, q2.r, q2.w} \subseteq FreeFDs \cup {NoFD}
  BY <1>2, <1>8, <1>10, <1>11
<1>14. /\ x \in Conn /\ InRange(x) /\ x.id = i /\ x.closing = y.closing
       /\ x.client = y.client /\ x.up = y.up /\ PipeEnds(x) \subseteq FreeFDs
  <2>1. WithPipes(x, y, q1, q2)
    BY <1>12, <1>13 DEF WithPipes
  <2>2. QED
    BY <1>3, <1>13, <2>1, MadePipes
<1>15. /\ x \in Conn /\ InRange(x) /\ x.id = i /\ x.closing = Cc(i).closing
       /\ x.client = Cc(i).client /\ x.up = Cc(i).up /\ PipeEnds(x) \subseteq FreeFDs
  BY <1>10, <1>14
<1>16. Closable(i, x)
  BY <1>2, <1>3, <1>15 DEF Closable
<1>17. closeConn(i, x) /\ "SendUp" \in ChurnOps
  BY <1>6, <1>9 DEF ChurnOps
<1>18. completed' \in Nat /\ completed' <= completed + 1
  BY <1>2, <1>3, TableTyped
<1>19. QED
  BY <1>1, <1>2, <1>16, <1>17, <1>18, HandlerCloses

(* A connection with its two pipes. *)
LEMMA FourSplices ==
  ASSUME Types, mode = "splice", NEW i \in Ids, NEW x, x.client \in FDs, x.up \in FDs,
         NEW p1, NEW p2, x.pipe["c2u"] = p1, x.pipe["u2c"] = p2,
         {p1.r, p1.w, p2.r, p2.w} \subseteq FDs
  PROVE  LET p == FillOp(x, i, "c2u")
             q == DrainOp(x, i, "c2u")
             r == FillOp(x, i, "u2c")
             s == DrainOp(x, i, "u2c")
         IN  /\ FitNext(p) /\ FitNext(q) /\ FitNext(r) /\ FitNext(s)
             /\ p.op = "SpliceIn" /\ q.op = "SpliceOut" /\ r.op = "SpliceIn" /\ s.op = "SpliceOut"
             /\ p.id = i /\ q.id = i /\ r.id = i /\ s.id = i
             /\ p.dir = "c2u" /\ q.dir = "c2u" /\ r.dir = "u2c" /\ s.dir = "u2c"
<1>1. /\ "c2u" \in Dirs /\ "u2c" \in Dirs /\ p1.r \in FDs /\ p1.w \in FDs
      /\ p2.r \in FDs /\ p2.w \in FDs
  BY DEF Dirs
<1>2. /\ FillOp(x, i, "c2u") = Op("SpliceIn", "c2u", i, {x.client, p1.w}, 0)
      /\ DrainOp(x, i, "c2u") = Op("SpliceOut", "c2u", i, {p1.r, x.up}, 0)
      /\ FillOp(x, i, "u2c") = Op("SpliceIn", "u2c", i, {x.up, p2.w}, 0)
      /\ DrainOp(x, i, "u2c") = Op("SpliceOut", "u2c", i, {p2.r, x.client}, 0)
  BY DEF FillOp, DrainOp, From, To
<1>3. FitNext(FillOp(x, i, "c2u"))
  BY <1>1, <1>2, SpliceFit
<1>4. FitNext(DrainOp(x, i, "c2u"))
  BY <1>1, <1>2, SpliceFit
<1>5. FitNext(FillOp(x, i, "u2c"))
  BY <1>1, <1>2, SpliceFit
<1>6. FitNext(DrainOp(x, i, "u2c"))
  BY <1>1, <1>2, SpliceFit
<1>7. QED
  BY <1>3, <1>4, <1>5, <1>6 DEF FillOp, DrainOp, Op

(* The work of the connection after its four splices are prepared. *)
LEMMA SplicesCount ==
  ASSUME Inv, NEW i, Asking(i), CloseWork(i) = 0, HookWork(i) = 0, AskWork(i) = 1, cq # <<>>,
         cq' = Tail(cq), Head(cq).o.op = "SendUp", Head(cq).o.id = i, Head(cq).o.dir = NoDir,
         NEW p \in Ops, NEW q \in Ops, NEW r \in Ops, NEW s \in Ops,
         sq' = sq \o <<p, q, r, s>>, kops' = kops, HookWork(i)' = HookWork(i),
         p.op = "SpliceIn", q.op = "SpliceOut", r.op = "SpliceIn", s.op = "SpliceOut",
         p.id = i, q.id = i, r.id = i, s.id = i,
         p.dir = "c2u", q.dir = "c2u", r.dir = "u2c", s.dir = "u2c"
  PROVE  /\ ChurnWork(i)' = 0 /\ CloseWork(i)' = 0
         /\ \A d \in Dirs : /\ RelayWork(i, {"SpliceIn"}, d)' = 1
                            /\ RelayWork(i, {"SpliceOut"}, d)' = 1
<1> DEFINE o == Head(cq).o
<1>1. Types
  BY InvParts
<1>2. ASSUME NEW K, NEW D
      PROVE  Count(OpsOf(i, K, D))' = Count(OpsOf(i, K, D)) - Hit(o, i, K, D)
               + (Hit(p, i, K, D) + Hit(q, i, K, D) + Hit(r, i, K, D) + Hit(s, i, K, D))
  <2>1. cq # <<>> /\ cq' = Tail(cq) /\ sq' = sq \o <<p, q, r, s>> /\ kops' = kops
    OBVIOUS
  <2>2. p \in Ops /\ q \in Ops /\ r \in Ops /\ s \in Ops
    OBVIOUS
  <2>3. QED
    BY ONLY <1>1, <2>1, <2>2, HandledFour, SMTT(30)
<1>3. AskWork(i)' = 0
  <2>1. /\ Hit(o, i, ChurnOps, {NoDir}) = 1 /\ Hit(p, i, ChurnOps, {NoDir}) = 0
        /\ Hit(q, i, ChurnOps, {NoDir}) = 0 /\ Hit(r, i, ChurnOps, {NoDir}) = 0
        /\ Hit(s, i, ChurnOps, {NoDir}) = 0
    BY DEF Hit, Expect, ChurnOps
  <2>2. AskWork(i)' = AskWork(i) - 1 + (0 + 0 + 0 + 0)
    BY <1>2, <2>1 DEF AskWork
  <2>3. QED
    BY <2>2
<1>4. CloseWork(i)' = 0
  <2>1. /\ Hit(o, i, {"Close"}, {NoDir}) = 0 /\ Hit(p, i, {"Close"}, {NoDir}) = 0
        /\ Hit(q, i, {"Close"}, {NoDir}) = 0 /\ Hit(r, i, {"Close"}, {NoDir}) = 0
        /\ Hit(s, i, {"Close"}, {NoDir}) = 0
    BY DEF Hit, Expect
  <2>2. CloseWork(i)' = CloseWork(i) - 0 + (0 + 0 + 0 + 0)
    BY <1>2, <2>1 DEF CloseWork
  <2>3. QED
    BY <2>2
<1>5. ASSUME NEW d \in Dirs, NEW k \in {"SpliceIn", "SpliceOut"}
      PROVE  RelayWork(i, {k}, d)' = 1
  <2>1. RelayWork(i, {k}, d) = 0
    <3>1. RelayWork(i, RelayOps, d) = 0
      BY DEF Asking
    <3>2. /\ RelayWork(i, {"SpliceIn"}, d) \in Nat /\ RelayWork(i, {"SpliceOut"}, d) \in Nat
          /\ RelayWork(i, {"SpliceIn"}, d) <= RelayWork(i, RelayOps, d)
          /\ RelayWork(i, {"SpliceOut"}, d) <= RelayWork(i, RelayOps, d)
      BY <1>1, RelayParts
    <3>3. RelayWork(i, {"SpliceIn"}, d) = 0
      BY <3>1, <3>2
    <3>4. RelayWork(i, {"SpliceOut"}, d) = 0
      BY <3>1, <3>2
    <3>5. QED
      BY <3>3, <3>4
  <2>2. /\ Hit(o, i, {k}, {d}) = 0
        /\ Hit(p, i, {k}, {d}) + Hit(q, i, {k}, {d}) + Hit(r, i, {k}, {d}) + Hit(s, i, {k}, {d}) = 1
    BY DEF Hit, Expect, Dirs
  <2>3. RelayWork(i, {k}, d)' = RelayWork(i, {k}, d) - 0 + 1
    BY <1>2, <2>2 DEF RelayWork
  <2>4. QED
    BY <2>1, <2>3
<1>6. ChurnWork(i)' = 0
  BY <1>3, DerivedNext
<1>7. QED
  BY <1>4, <1>5, <1>6

(* Splicing: two pipes and four splices.                                   *)
LEMMA SpliceStartsStep ==
  ASSUME Inv, OnSendUpSplice, ~(Cardinality(FreeFDs) < 4)
  PROVE  Inv'
<1>1. PICK i : i = Cid
  OBVIOUS
<1>2. /\ Handle("SendUp") /\ Usable("SendUp") /\ jobs' = jobs /\ mode = "splice"
      /\ ready' = ready /\ drained' = drained /\ made' = made /\ nextID' = nextID
      /\ acceptVars' = acceptVars /\ completed' = completed
      /\ i \in Serving /\ i \in Live /\ i \in Ids /\ Cc(i) \in Conn /\ Cc(i).id = i
      /\ ~Cc(i).closing /\ PipeEnds(Cc(i)) = {} /\ Asking(i) /\ InRange(Cc(i))
      /\ Cc(i).client \in FDs /\ fdt[Cc(i).client] = i
      /\ Cc(i).up \in FDs /\ fdt[Cc(i).up] = i /\ Cc(i).client # Cc(i).up
      /\ cq # <<>> /\ Head(cq).o.op = "SendUp" /\ Head(cq).o.id = i /\ Head(cq).o.dir = NoDir
      /\ CloseWork(i) = 0 /\ HookWork(i) = 0 /\ AskWork(i) = 1
  BY <1>1, SpliceStart
<1>3. Types /\ Shapes /\ Loop /\ Cap /\ Structs /\ Life /\ DescriptorsOwned
  BY InvParts
<1>4. FreeFDs \in SUBSET Nat /\ IsFiniteSet(FreeFDs) /\ Cardinality(FreeFDs) \in Nat
      /\ \A f \in FreeFDs : f \in FDs /\ fdt[f] = Free /\ f # NoFD
  BY <1>3, FreeFinite, FS_CardinalityType
<1>5. PICK e1, e2, e3, e4 :
         /\ e1 = Lowest(FreeFDs) /\ e2 = Lowest(FreeFDs \ {e1})
         /\ e3 = Lowest(FreeFDs \ {e1, e2}) /\ e4 = Lowest(FreeFDs \ {e1, e2, e3})
  OBVIOUS
<1>6. e1 \in FreeFDs /\ e2 \in FreeFDs /\ e3 \in FreeFDs /\ e4 \in FreeFDs
  <2>1. Cardinality(FreeFDs) >= 4
    BY <1>4
  <2>2. QED
    BY <1>4, <1>5, <2>1, LowestFour
<1>7. PICK p1, p2 : p1 = [r |-> e1, w |-> e2] /\ p2 = [r |-> e3, w |-> e4]
  OBVIOUS
<1>8. PICK y : y = Cc(i)
  OBVIOUS
<1>9. PICK x : x = [y EXCEPT !.pipe["c2u"] = p1, !.pipe["u2c"] = p2]
  OBVIOUS
<1>10. /\ cell' = [cell EXCEPT ![conns[i]] = x]
       /\ fdt' = [f \in FDs |-> IF f \in PipeEnds(x) THEN i ELSE fdt[f]]
       /\ sq' = sq \o <<FillOp(x, i, "c2u"), DrainOp(x, i, "c2u"),
                        FillOp(x, i, "u2c"), DrainOp(x, i, "u2c")>>
       /\ conns' = conns /\ connFree' = connFree
  <2>1. ~(Cardinality(FreeFDs) < 4) /\ ~(Cardinality(FreeFDs) < 2)
    BY <1>4
  <2>2. x = [Cc(Cid) EXCEPT !.pipe["c2u"] = [r |-> e1, w |-> e2],
                            !.pipe["u2c"] = [r |-> e3, w |-> e4]]
    BY <1>1, <1>7, <1>8, <1>9
  <2>3. QED
    BY <1>1, <1>5, <2>1, <2>2 DEF OnSendUpSplice, Post
<1>11. /\ p1.r = e1 /\ p1.w = e2 /\ p2.r = e3 /\ p2.w = e4 /\ p1 \in Pipe /\ p2 \in Pipe
  BY <1>4, <1>6, <1>7 DEF Pipe
<1>12. WithPipes(x, y, p1, p2)
  BY <1>2, <1>6, <1>8, <1>9, <1>11 DEF WithPipes
<1>13. /\ x \in Conn /\ InRange(x) /\ x.id = y.id /\ x.closing = y.closing
       /\ x.client = y.client /\ x.up = y.up
       /\ x.pipe["c2u"] = p1 /\ x.pipe["u2c"] = p2 /\ PipeEnds(x) \subseteq FreeFDs
  BY <1>3, <1>12, MadePipes
<1>14. /\ x.id = i /\ ~x.closing /\ x.client = Cc(i).client /\ x.up = Cc(i).up
       /\ x.client \in FDs /\ x.up \in FDs /\ x.client # x.up
       /\ \A f \in PipeEnds(x) : f \in FDs /\ fdt[f] = Free
       /\ {p1.r, p1.w, p2.r, p2.w} \subseteq FDs
  BY <1>2, <1>4, <1>6, <1>8, <1>11, <1>13
<1>15. PICK p, q, r, s : /\ p = FillOp(x, i, "c2u") /\ q = DrainOp(x, i, "c2u")
                         /\ r = FillOp(x, i, "u2c") /\ s = DrainOp(x, i, "u2c")
  OBVIOUS
<1>16. /\ FitNext(p) /\ FitNext(q) /\ FitNext(r) /\ FitNext(s)
       /\ p.op = "SpliceIn" /\ q.op = "SpliceOut" /\ r.op = "SpliceIn" /\ s.op = "SpliceOut"
       /\ p.id = i /\ q.id = i /\ r.id = i /\ s.id = i
       /\ p.dir = "c2u" /\ q.dir = "c2u" /\ r.dir = "u2c" /\ s.dir = "u2c"
  BY <1>2, <1>3, <1>13, <1>14, <1>15, FourSplices
<1>17. PICK ops : ops = <<p, q, r, s>>
  OBVIOUS
<1>18. /\ p \in Ops /\ q \in Ops /\ r \in Ops /\ s \in Ops /\ ops \in Seq(Ops)
       /\ sq' = sq \o ops
       /\ \A n \in DOMAIN ops : FitNext(ops[n]) /\ ops[n].op # "Close" /\ ops[n].id = i
  <2>1. p \in Ops /\ q \in Ops /\ r \in Ops /\ s \in Ops
    BY <1>16 DEF FitNext
  <2>2. sq' = sq \o ops
    BY <1>10, <1>15, <1>17
  <2>3. \A n \in DOMAIN ops : ops[n] \in {p, q, r, s}
    BY <1>17
  <2>4. ops \in Seq(Ops)
    BY <1>17, <2>1
  <2>5. QED
    BY <1>16, <2>1, <2>2, <2>3, <2>4
<1>19. /\ RingStep(ops) /\ cq' = Tail(cq) /\ c' = c /\ running' = running /\ kops' = kops
  BY <1>2, <1>3, <1>18, HandlerStep
<1>20. /\ HookKeeps /\ \A f : AtResults(f)' = AtResults(f)
       /\ \A j : HookWork(j)' = HookWork(j)
  BY <1>2, <1>3, <1>19, HooksSame
<1>21. /\ ChurnWork(i)' = 0 /\ CloseWork(i)' = 0
       /\ \A d \in Dirs : /\ RelayWork(i, {"SpliceIn"}, d)' = 1
                          /\ RelayWork(i, {"SpliceOut"}, d)' = 1
  <2>1. sq' = sq \o <<p, q, r, s>> /\ HookWork(i)' = HookWork(i)
    BY <1>17, <1>18, <1>20
  <2>2. QED
    BY <1>2, <1>16, <1>18, <1>19, <2>1, SplicesCount
<1>22. \A j \in Ids : j # i => Steady(j)
  <2> SUFFICES ASSUME NEW j \in Ids, j # i PROVE Steady(j)
    OBVIOUS
  <2>1. Away(Head(cq).o, j) /\ \A n \in DOMAIN ops : Away(ops[n], j)
    BY <1>2, <1>18 DEF Away
  <2>2. Untouched(j)
    BY <1>2, <1>3, <1>18, <1>19, <1>20, <2>1, HandledUntouched
  <2>3. QED
    BY <2>2, UntouchedSteady
<1>23. /\ Live' = Live /\ Cc(i)' = x /\ \A j \in Live : j # i => Cc(j)' = Cc(j)
  BY <1>2, <1>3, <1>10, <1>19, OthersUpdate
<1>24. LifeOf(i)'
  <2>1. mode' = "splice"
    BY <1>2, <1>19, SameConfig
  <2>2. \A d \in Dirs : x.pipe[d].r # NoFD /\ x.pipe[d].w # NoFD
    BY <1>4, <1>6, <1>11, <1>13 DEF Dirs
  <2>3. Splicing(i)'
    BY <1>21, <1>23, <2>1, <2>2 DEF Splicing
  <2>4. x.up # NoFD
    BY <1>3, <1>14, Ranges DEF NoFD
  <2>5. Open(i)'
    BY <1>21, <1>23, <2>3, <2>4 DEF Open
  <2>6. QED
    BY <1>2, <1>14, <1>23, <2>5 DEF LifeOf
<1>25. \A f \in FDs : fdt'[f] = IF f \in PipeEnds(x) THEN i ELSE fdt[f]
  BY <1>10
<1>26. SocketsOf(i)'
  <2>1. i # Free /\ i \in Nat
    BY <1>2, <1>3, Ranges DEF Free
  <2>2. x.client \notin PipeEnds(x) /\ x.up \notin PipeEnds(x) /\ x.client # NoFD
    BY <1>2, <1>3, <1>14, <2>1, Ranges DEF NoFD
  <2>3. fdt'[x.client] = i /\ fdt'[x.up] = i
    BY <1>2, <1>14, <1>25, <2>2
  <2>4. QED
    BY <1>14, <1>23, <2>2, <2>3 DEF SocketsOf, PipeEnds
<1>27. \A f \in FDs : Balance(f, ops)
  <2> SUFFICES ASSUME NEW f \in FDs PROVE Balance(f, ops)
    OBVIOUS
  <2>1. /\ Cardinality(Owners(f)') = Cardinality(Owners(f)) - Expect(i \in Owners(f))
                                        + Expect(i \in Owners(f)')
        /\ (i \in Owners(f)' <=> ~x.closing /\ f \in HeldIn(x))
        /\ (i \in Owners(f) <=> ~Cc(i).closing /\ f \in HeldIn(Cc(i)))
    BY <1>2, <1>3, <1>23, OwnersUpdate
  <2>2. (i \in Owners(f)' <=> f = Cc(i).client \/ f = Cc(i).up \/ f \in PipeEnds(x))
        /\ (i \in Owners(f) <=> f = Cc(i).client \/ f = Cc(i).up)
    BY <1>2, <1>14, <2>1 DEF HeldIn
  <2>3. i # Free
    BY <1>2, <1>3, Ranges DEF Free
  <2>4. Expect(i \in Owners(f)') + Expect(fdt[f] # Free)
          = Expect(i \in Owners(f)) + Expect(fdt'[f] # Free)
    <3>1. CASE f \in PipeEnds(x)
      <4>1. fdt[f] = Free /\ fdt'[f] = i
        BY <1>14, <1>25, <3>1
      <4>2. i \notin Owners(f) /\ i \in Owners(f)'
        BY <1>2, <2>2, <2>3, <3>1, <4>1
      <4>3. QED
        BY <2>3, <4>1, <4>2 DEF Expect
    <3>2. CASE f \notin PipeEnds(x)
      BY <1>25, <2>2, <3>2 DEF Expect
    <3>3. QED
      BY <3>1, <3>2
  <2>5. Occurs(ops, ClosesOf(f)) = 0
    <3>1. \A n \in DOMAIN ops : ops[n] \notin ClosesOf(f)
      BY <1>18 DEF ClosesOf
    <3>2. QED
      BY <1>18, <3>1, OccursNone
  <2>6. /\ Cardinality(Owners(f)) \in Nat /\ AtResults(f) \in Nat
        /\ Expect(i \in Owners(f)) \in Nat /\ Expect(i \in Owners(f)') \in Nat
        /\ Expect(fdt[f] # Free) \in Nat /\ Expect(fdt'[f] # Free) \in Nat
    BY <1>3, HoldersParts DEF Expect
  <2>7. AtResults(f)' = AtResults(f)
    BY <1>20
  <2>8. QED
    BY <2>1, <2>4, <2>5, <2>6, <2>7 DEF Balance
<1>28. \A f \in FDs : \/ fdt'[f] = fdt[f]
                      \/ /\ Owners(f) \subseteq {i} /\ mode = "splice"
                         /\ fdt'[f] = Free \/ fdt'[f] \in 0..c.accepts
                         /\ AtClients(f) = 0 /\ AtResults(f)' = 0
  <2> SUFFICES ASSUME NEW f \in FDs, f \in PipeEnds(x)
               PROVE  /\ Owners(f) \subseteq {i} /\ fdt'[f] \in 0..c.accepts
                      /\ AtClients(f) = 0 /\ AtResults(f)' = 0
    BY <1>2, <1>25
  <2>1. fdt[f] = Free /\ fdt'[f] = i
    BY <1>14, <1>25
  <2>2. Owners(f) = {} /\ AtClients(f) = 0 /\ AtResults(f) = 0
    BY <1>3, <2>1, OwnedByNobody
  <2>3. i \in 0..c.accepts
    BY <1>2, <1>3, Ranges DEF Ids
  <2>4. QED
    BY <1>20, <2>1, <2>2, <2>3
<1>29. fdt' \in [FDs -> Int] /\ completed' \in Nat
       /\ completed' + Cardinality(Serving') <= completed + Cardinality(Serving)
  <2>1. Serving' = Serving
    BY <1>2, <1>14, <1>23 DEF Serving
  <2>2. i \in Int /\ fdt \in [FDs -> Int]
    BY <1>2, <1>3, Ranges, TableTyped
  <2>3. fdt' \in [FDs -> Int]
    BY <1>10, <2>2
  <2>4. QED
    BY <1>2, <1>3, <2>1, <2>3, ServedKept
<1>30. QED
  BY <1>2, <1>10, <1>13, <1>14, <1>18, <1>19, <1>20, <1>22, <1>24, <1>26, <1>27, <1>28, <1>29, UpdateStep

-----------------------------------------------------------------------------
(* The last close of a connection.                                         *)

(* A connection is removed and its struct is recycled, or dropped.         *)
LEMMA TableForget ==
  ASSUME Types, Structs, Cap, c' = c, nextID' = nextID, made' = made, NEW i \in Live, Forget(i)
  PROVE  /\ Structs' /\ conns' \in [Ids -> Nat] /\ cell' \in [Ids -> Conn]
         /\ connFree' \in Seq(Nat)
         /\ \A s \in Ids : s # conns[i] \/ mode # "churn" => cell'[s] = cell[s]
<1>1. Live' = Live \ {i} /\ \A j \in Live : j # i => Cc(j)' = Cc(j)
  BY OthersForget
<1>2. /\ i \in Ids /\ conns[i] \in Ids /\ cell[conns[i]].id = i /\ conns[i] <= made
      /\ cell \in [Ids -> Conn] /\ Ids' = Ids /\ i # 0 /\ made \in Nat /\ conns[i] \in Nat \ {0}
      /\ conns \in [Ids -> Nat] /\ connFree \in Seq(Nat) /\ conns' = [conns EXCEPT ![i] = 0]
  BY IdsBound, StructInUse, SameConfig, Ranges DEF Types, Cc, Forget
<1>3. Blank \in Conn /\ Blank.id = 0 /\ Blank.closesLeft = 0 /\ Blank.client = 0 /\ Blank.up = 0
      /\ \A d \in Dirs : Blank.pipe[d].r = 0 /\ Blank.pipe[d].w = 0
  BY DEF Blank, Conn, Pipe, NoPipe, NoFD
<1>4. c.fds \in Nat /\ nextID \in Nat
  BY Ranges DEF Types
<1>5. InRange(Blank)
  BY <1>3, <1>4 DEF InRange
<1>6. cell' = cell \/ cell' = [cell EXCEPT ![conns[i]] = Blank]
  BY DEF Forget
<1>7. /\ cell' \in [Ids -> Conn]
      /\ \A s \in Ids : cell'[s] = cell[s] \/ cell'[s] = Blank
      /\ \A s \in Ids : s # conns[i] \/ mode # "churn" => cell'[s] = cell[s]
  <2>1. cell' \in [Ids -> Conn] /\ \A s \in Ids : cell'[s] = cell[s] \/ cell'[s] = Blank
    BY <1>2, <1>3, <1>6
  <2>2. \A s \in Ids : s # conns[i] => cell'[s] = cell[s]
    BY <1>2, <1>6
  <2>3. QED
    BY <2>1, <2>2 DEF Forget
<1>8. \A j \in Live' : conns'[j] \in 1..made' /\ Cc(j)'.id = j /\ j <= nextID'
  <2> SUFFICES ASSUME NEW j \in Live, j # i
               PROVE  conns'[j] \in 1..made /\ Cc(j)'.id = j /\ j <= nextID
    BY <1>1
  <2>1. conns[j] \in 1..made /\ Cc(j).id = j /\ j <= nextID
    BY DEF Structs
  <2>2. conns'[j] = conns[j] /\ Cc(j)' = Cc(j)
    BY <1>1, <1>2 DEF Live
  <2>3. QED
    BY <2>1, <2>2
<1>9. ASSUME NEW s \in Ids
      PROVE  InRange(cell[s])' /\ (s > made' => cell'[s] = Blank)
  <2>1. InRange(cell[s]) /\ (s > made => cell[s] = Blank)
    BY DEF Structs
  <2>2. cell'[s] = cell[s] \/ cell'[s] = Blank
    BY <1>7
  <2>3. InRange(cell[s])'
    BY <1>5, <2>1, <2>2 DEF InRange
  <2>4. QED
    BY <2>1, <2>2, <2>3
<1>10. connFree' \in Seq(Nat)
  <2>1. connFree' = connFree \/ connFree' = Append(connFree, conns[i])
    BY DEF Forget
  <2>2. conns[i] \in Nat /\ connFree \in Seq(Nat)
    BY <1>2
  <2>3. Append(connFree, conns[i]) \in Seq(Nat)
    BY ONLY <2>2
  <2>4. QED
    BY <2>1, <2>2, <2>3
<1>11. /\ \A j \in DOMAIN connFree' : connFree'[j] \in 1..made' /\ cell'[connFree'[j]] = Blank
       /\ \A j, k \in DOMAIN connFree' : connFree'[j] = connFree'[k] => j = k
  <2>1. \A j \in DOMAIN connFree : connFree[j] \in 1..made /\ cell[connFree[j]] = Blank
    BY DEF Structs
  <2>2. \A j, k \in DOMAIN connFree : connFree[j] = connFree[k] => j = k
    BY DEF Structs
  <2>3. \A j \in DOMAIN connFree : connFree[j] # conns[i]
    BY <1>2, <1>3, <2>1
  <2>4. CASE mode # "churn"
    <3>1. cell' = cell /\ connFree' = connFree
      BY <2>4 DEF Forget
    <3>2. QED
      BY <2>1, <2>2, <3>1
  <2>5. CASE mode = "churn"
    <3>1. cell' = [cell EXCEPT ![conns[i]] = Blank] /\ connFree' = Append(connFree, conns[i])
      BY <2>5 DEF Forget
    <3>2. PICK n \in Nat : n = Len(connFree)
      BY <1>2
    <3>3. /\ DOMAIN connFree = 1..n /\ DOMAIN connFree' = 1..(n + 1)
          /\ \A j \in 1..n : connFree'[j] = connFree[j]
          /\ connFree'[n + 1] = conns[i]
      BY <1>2, <3>1, <3>2
    <3>4. \A j \in 1..(n + 1) : j \in 1..n \/ j = n + 1
      OBVIOUS
    <3>5. ASSUME NEW j \in DOMAIN connFree'
          PROVE  connFree'[j] \in 1..made' /\ cell'[connFree'[j]] = Blank
      <4>1. CASE j = n + 1
        BY <1>2, <3>1, <3>3, <4>1
      <4>2. CASE j \in 1..n
        <5>1. connFree'[j] = connFree[j] /\ connFree[j] # conns[i]
              /\ connFree[j] \in 1..made /\ cell[connFree[j]] = Blank
          BY <2>1, <2>3, <3>3, <4>2
        <5>2. cell'[connFree[j]] = cell[connFree[j]]
          BY <1>2, <3>1, <5>1
        <5>3. QED
          BY <5>1, <5>2
      <4>3. QED
        BY <3>3, <3>4, <4>1, <4>2
    <3>6. ASSUME NEW j \in DOMAIN connFree', NEW k \in DOMAIN connFree', connFree'[j] = connFree'[k]
          PROVE  j = k
      <4>1. (j \in 1..n \/ j = n + 1) /\ (k \in 1..n \/ k = n + 1)
        BY <3>3, <3>4
      <4>2. CASE j \in 1..n /\ k \in 1..n
        BY <2>2, <3>3, <3>6, <4>2
      <4>3. CASE j \in 1..n /\ k = n + 1
        BY <2>3, <3>3, <3>6, <4>3
      <4>4. CASE j = n + 1 /\ k \in 1..n
        BY <2>3, <3>3, <3>6, <4>4
      <4>5. QED
        BY <4>1, <4>2, <4>3, <4>4
    <3>7. QED
      BY <3>5, <3>6
  <2>6. QED
    BY <2>4, <2>5
<1>12. Structs'
  BY <1>2, <1>8, <1>9, <1>11 DEF Structs
<1>13. conns' \in [Ids -> Nat]
  BY <1>2
<1>14. QED
  BY <1>7, <1>10, <1>12, <1>13

(* The struct goes back to the freelist with no operation on its buffer. *)
LEMMA BufferLetGo ==
  ASSUME Types, Shapes, BuffersNotShared, Structs, Cap, NEW i \in Live, AskWork(i) = 0,
         mode = "churn", NEW o \in Prepared, o.buf # 0
  PROVE  o.buf \in Ids /\ o.buf # conns[i]
<1>1. /\ o \in Ops /\ o.buf \in Ids /\ (o.op \in ChurnOps /\ o.dir = NoDir)
  BY BufInIds
<1>2. cell[o.buf].id = o.id
  BY DEF BuffersNotShared
<1>3. cell[conns[i]].id = i
  BY DEF Structs, Cc
<1>4. o.id # i
  <2> SUFFICES ASSUME o.id = i PROVE FALSE
    OBVIOUS
  <2>1. o \in OpsOf(i, ChurnOps, {NoDir})
    BY <1>1 DEF OpsOf
  <2>2. /\ \A j \in DOMAIN sq : sq[j] \notin OpsOf(i, ChurnOps, {NoDir})
        /\ \A h \in DOMAIN kops : h.o \notin OpsOf(i, ChurnOps, {NoDir})
    BY CountNone DEF AskWork
  <2>3. QED
    BY <2>1, <2>2 DEF Prepared
<1>5. QED
  BY <1>1, <1>2, <1>3, <1>4

(* The last close of a connection removes it.                              *)
LEMMA CloseLastStep ==
  ASSUME Inv, OnClose, ~(Cc(Cid).closesLeft > 1)
  PROVE  Inv'
<1>1. /\ Types /\ Shapes /\ Loop /\ Life /\ Structs /\ Cap /\ Sockets
      /\ BuffersNotShared /\ DescriptorsOwned /\ Tags /\ Home
  BY InvParts
<1>2. PICK i : i = Cid
  OBVIOUS
<1>3. /\ Handle("Close") /\ Usable("Close") /\ ready' = ready /\ drained' = drained
      /\ acceptVars' = acceptVars /\ completed' = completed /\ jobs' = jobs
      /\ nextID' = nextID /\ made' = made /\ sq' = sq /\ fdt' = fdt
  BY DEF OnClose, Serve
<1>4. cq # <<>> /\ Head(cq).o.op = "Close" /\ Head(cq).o.id = i /\ i \in Live
  BY <1>1, <1>2, <1>3, HandleFacts DEF Usable, Cid
<1>5. /\ i \in Ids /\ Head(cq).o.dir = NoDir /\ Cc(i).closing /\ Cc(i).closesLeft > 0
      /\ ChurnWork(i) = 0 /\ Cc(i).closesLeft = CloseWork(i)
  BY <1>1, <1>2, <1>4, StageClose
<1>6. Cc(i) \in Conn /\ i <= nextID /\ i \in Nat /\ nextID \in Nat
  BY <1>1, <1>4, IdsBound, StructInUse, Ranges DEF Types
<1>7. Cc(i).closesLeft \in Nat /\ Cc(i).closesLeft <= 1 /\ CloseWork(i) = 1
  <2>1. Cc(i).closesLeft \in Nat /\ ~(Cc(i).closesLeft > 1)
    BY <1>2, <1>6 DEF Conn
  <2>2. QED
    BY <1>5, <2>1
<1>8. Forget(i)
  BY <1>2, <1>7 DEF OnClose
<1>9. <<>> \in Seq(Ops) /\ sq' = sq \o <<>>
  BY <1>1, <1>3, PostNothing, SeqTypes
<1>10. /\ RingStep(<<>>) /\ cq' = Tail(cq)
       /\ drained = <<>> /\ c' = c /\ running' = running /\ kops' = kops
  BY <1>1, <1>3, <1>9, HandlerStep
<1>11. /\ HookKeeps /\ \A f : AtResults(f)' = AtResults(f)
       /\ \A j : HookWork(j)' = HookWork(j)
  BY <1>1, <1>3, <1>10, HooksSame
<1>12. Live' = Live \ {i} /\ \A j \in Live : j # i => Cc(j)' = Cc(j)
  BY <1>1, <1>4, <1>8, <1>10, OthersForget
<1>13. /\ Structs' /\ conns' \in [Ids -> Nat] /\ cell' \in [Ids -> Conn]
       /\ connFree' \in Seq(Nat)
       /\ \A s \in Ids : s # conns[i] \/ mode # "churn" => cell'[s] = cell[s]
  BY <1>1, <1>3, <1>4, <1>8, <1>10, TableForget
<1>14. Serving' = Serving /\ \A j \in Serving : j \in Live /\ j # i /\ Cc(j)' = Cc(j)
  BY <1>5, <1>12 DEF Serving
<1>15. AskWork(i) = 0 /\ HookWork(i) = 0
  BY <1>1, <1>5, ChurnParts
<1>16. \A o \in Prepared : o.buf # 0 => cell'[o.buf].id = cell[o.buf].id
  <2> SUFFICES ASSUME NEW o \in Prepared, o.buf # 0 PROVE cell'[o.buf].id = cell[o.buf].id
    OBVIOUS
  <2>1. o.buf \in Ids
    BY <1>1, BufInIds
  <2>2. mode = "churn" => o.buf # conns[i]
    BY <1>1, <1>4, <1>15, BufferLetGo
  <2>3. QED
    BY <1>13, <2>1, <2>2
<1>17. TableTypes' /\ HookShapes'
  BY <1>1, <1>3, <1>10, <1>11, <1>13, TableTyped, SameConfig DEF TableTypes, HookKeeps
<1>18. completed' \in Nat
       /\ completed' + Cardinality(Serving') <= completed + Cardinality(Serving)
  BY <1>1, <1>3, <1>14, ServedKept
<1>19. \A n \in DOMAIN (<<>>) : FitNext((<<>>)[n])
  OBVIOUS
<1>20. Types' /\ Shapes' /\ Loop' /\ Cap' /\ BuffersNotShared' /\ Home'
  <2>1. Live' \subseteq Live
    BY <1>12
  <2>2. mode # "splice" => \A j \in DOMAIN sq : \A f \in sq[j].fds : fdt'[f] = fdt[f]
    BY <1>3
  <2>3. QED
    BY <1>10, <1>16, <1>17, <1>18, <1>19, <2>1, <2>2, RingFrame
<1>21. DescriptorsOwned'
  <2>1. ASSUME NEW f \in FDs PROVE Balance(f, <<>>)
    <3>1. Owners(f)' = Owners(f)
      BY <1>14 DEF Owners, HeldBy
    <3>2. \A n \in DOMAIN (<<>>) : (<<>>)[n].op # "Close"
      OBVIOUS
    <3>3. QED
      BY <1>1, <1>3, <1>9, <1>11, <3>1, <3>2, BalanceSame
  <2>2. Live' \subseteq Live
    BY <1>12
  <2>3. QED
    BY <1>1, <1>10, <1>17, <2>1, <2>2, RingOwned
<1>22. Sockets'
  BY <1>1, <1>3, <1>14 DEF Sockets, SocketsOf
<1>23. Tags'
  <2>1. \A j \in DOMAIN cq' : \E k \in DOMAIN cq : cq'[j] = cq[k]
    BY <1>1, <1>10, RingQueue
  <2>2. QED
    BY <1>1, <1>3, <1>10, <1>11, <1>20, <2>1, TagsKeep
<1>24. \A j \in Ids : j # i => Steady(j) /\ ((j \in Live)' <=> j \in Live)
  <2> SUFFICES ASSUME NEW j \in Ids, j # i PROVE Steady(j)
    BY <1>12
  <2>1. Away(Head(cq).o, j)
    BY <1>4 DEF Away
  <2>2. \A n \in DOMAIN (<<>>) : Away((<<>>)[n], j)
    OBVIOUS
  <2>3. HookWork(j)' = HookWork(j)
    BY <1>11
  <2>4. QED
    BY <1>1, <1>4, <1>9, <1>10, <2>1, <2>2, <2>3, HandledUntouched, UntouchedSteady
<1>25. ChurnWork(i)' = 0 /\ CloseWork(i)' = 0
  <2>1. /\ AskWork(i)' = AskWork(i) - Hit(Head(cq).o, i, ChurnOps, {NoDir})
        /\ CloseWork(i)' = CloseWork(i) - Hit(Head(cq).o, i, {"Close"}, {NoDir})
    BY <1>1, <1>3, <1>4, <1>10, WorkAfterNone
  <2>2. /\ Hit(Head(cq).o, i, ChurnOps, {NoDir}) = 0
        /\ Hit(Head(cq).o, i, {"Close"}, {NoDir}) = 1
    BY <1>4, <1>5 DEF Hit, Expect, ChurnOps
  <2>3. AskWork(i)' = 0 /\ HookWork(i)' = 0 /\ CloseWork(i)' = 0
    BY <1>7, <1>11, <1>15, <2>1, <2>2
  <2>4. QED
    BY <2>3, DerivedNext
<1>26. LifeOf(i)'
  <2>1. Gone(i)'
    BY <1>3, <1>6, <1>25 DEF Gone
  <2>2. i \notin Live'
    BY <1>12
  <2>3. QED
    BY <2>1, <2>2 DEF LifeOf
<1>27. Life'
  BY <1>1, <1>3, <1>10, <1>12, <1>24, <1>26, LifeOne
<1>28. QED
  BY <1>13, <1>20, <1>21, <1>22, <1>23, <1>27 DEF Inv

(* A close of a connection is done.                                        *)
LEMMA CloseStep ==
  ASSUME Inv, OnClose
  PROVE  Inv'
  BY CloseCountStep, CloseLastStep

(* The request is sent, without pipes.                                     *)
LEMMA SendUpStep ==
  ASSUME Inv, OnSendUp
  PROVE  Inv'
  BY SendUpChurnStep, SendUpDuplexStep

(* The request is sent, with pipes.                                        *)
LEMMA SendUpSpliceStep ==
  ASSUME Inv, OnSendUpSplice
  PROVE  Inv'
  BY SpliceStartsStep, SpliceFailsStep

(* Copying: a read is done.                                                *)
LEMMA RecvStep ==
  ASSUME Inv, OnRecv
  PROVE  Inv'
  BY RecvDataStep, RecvEndStep, RecvLastStep

-----------------------------------------------------------------------------
(* Accepted clients.                                                       *)

(* The completion of an accept is taken. *)
LEMMA HarvestFacts ==
  ASSUME Inv, Harvest
  PROVE  /\ cq # <<>> /\ cq' = Tail(cq) /\ Head(cq).o.op = "Accept" /\ drained = <<>>
         /\ c' = c /\ waiting' = waiting /\ ~waiting /\ kops' = kops /\ armed' = armed
         /\ running' = running /\ left' = left - 1 /\ left > 0
         /\ jobs' = jobs /\ ready' = ready /\ drained' = drained /\ completed' = completed
         /\ Cid \in Listeners /\ Head(cq).o.id = Cid /\ Res \in Int
         /\ acceptInflight' = [acceptInflight EXCEPT ![Cid] = @ - 1]
         /\ totalAccepts' = totalAccepts - 1
<1>1. Types /\ Shapes /\ Loop
  BY InvParts
<1>2. /\ Handle("Accept") /\ jobs' = jobs /\ ready' = ready /\ drained' = drained
      /\ completed' = completed
      /\ acceptInflight' = [acceptInflight EXCEPT ![Cid] = @ - 1]
      /\ totalAccepts' = totalAccepts - 1
  BY DEF Harvest
<1>3. /\ cq # <<>> /\ cq' = Tail(cq) /\ Head(cq).o.op = "Accept" /\ drained = <<>>
      /\ c' = c /\ waiting' = waiting /\ ~waiting /\ kops' = kops /\ armed' = armed
      /\ running' = running /\ left' = left - 1 /\ left > 0
  BY <1>1, <1>2, HandleFacts
<1>4. Formed(Head(cq).o) /\ Res \in Int
  BY <1>1, <1>3, HeadFacts
<1>5. Cid \in Listeners /\ Head(cq).o.id = Cid
  BY <1>3, <1>4 DEF Formed, Cid
<1>6. QED
  BY <1>2, <1>3, <1>4, <1>5

(* The completion of an accept leaves the queue.                           *)
LEMMA HarvestQueue ==
  ASSUME Inv, Harvest
  PROVE  /\ \A k : Occurs(cq', AcceptsOf(k)) = Occurs(cq, AcceptsOf(k)) - Expect(k = Cid)
         /\ Occurs(cq', Clients) = Occurs(cq, Clients) - Expect(Res > 0)
         /\ \A f : AtClients(f)' = AtClients(f) - Expect(f = Res)
         /\ \A k : Occurs(cq, AcceptsOf(k)) \in Nat
         /\ Occurs(cq, Clients) \in Nat
         /\ (Res > 0 => Occurs(cq, Clients) >= 1)
         /\ AtClients(Res) >= 1 /\ AtClients(Res) \in Nat
         /\ Occurs(cq, AcceptsOf(Cid)) >= 1
<1>1. Types
  BY InvParts
<1>2. /\ cq # <<>> /\ cq' = Tail(cq) /\ Head(cq).o.op = "Accept" /\ Head(cq).o.id = Cid
      /\ Head(cq).res = Res
  BY HarvestFacts DEF Res
<1>3. cq \in Seq(Completions) /\ Head(cq) \in Completions /\ Head(cq) = cq[1] /\ 1 \in DOMAIN cq
  <2>1. cq \in Seq(Completions)
    BY <1>1, SeqTypes
  <2>2. QED
    BY <1>2, <2>1
<1>4. ASSUME NEW V
      PROVE  Occurs(cq', V) = Occurs(cq, V) - Expect(Head(cq) \in V) /\ Occurs(cq, V) \in Nat
  BY <1>2, <1>3, OccursTail, AtFinite
<1>5. ASSUME NEW V, Head(cq) \in V PROVE Occurs(cq, V) >= 1
  BY <1>3, <1>5, OccursSome
<1>6. /\ \A k : Head(cq) \in AcceptsOf(k) <=> k = Cid
      /\ Head(cq) \in Clients <=> Res > 0
      /\ \A f : Head(cq) \in ClientAt(f) <=> f = Res
  BY <1>2, <1>3 DEF AcceptsOf, Clients, ClientAt
<1>7. \A k : Expect(Head(cq) \in AcceptsOf(k)) = Expect(k = Cid)
  BY <1>6 DEF Expect
<1>8. Expect(Head(cq) \in Clients) = Expect(Res > 0)
  BY <1>6 DEF Expect
<1>9. \A f : Expect(Head(cq) \in ClientAt(f)) = Expect(f = Res)
  BY <1>6 DEF Expect
<1>10. \A f : AtClients(f)' = AtClients(f) - Expect(f = Res)
  BY <1>4, <1>9 DEF AtClients
<1>11. AtClients(Res) >= 1 /\ AtClients(Res) \in Nat
  BY <1>4, <1>5, <1>6 DEF AtClients
<1>12. Occurs(cq', Clients) = Occurs(cq, Clients) - Expect(Res > 0)
  BY <1>4, <1>8
<1>13. \A k : Occurs(cq', AcceptsOf(k)) = Occurs(cq, AcceptsOf(k)) - Expect(k = Cid)
  BY <1>4, <1>7
<1>14. Occurs(cq, AcceptsOf(Cid)) >= 1 /\ (Res > 0 => Occurs(cq, Clients) >= 1)
  BY <1>5, <1>6
<1>15. QED
  BY <1>4, <1>10, <1>11, <1>12, <1>13, <1>14

(* The accept that completed is discounted from its listener and from the  *)
(* total.                                                                  *)
LEMMA HarvestCounts ==
  ASSUME Inv, Harvest
  PROVE  /\ acceptInflight' \in [Listeners -> Nat] /\ totalAccepts' \in Nat
         /\ totalAccepts' = Cardinality(Accepts') /\ totalAccepts = totalAccepts' + 1
         /\ \A k \in Listeners :
              acceptInflight'[k] = armed'[k] + Occurs(cq', AcceptsOf(k))
<1>1. Types /\ Cap
  BY InvParts
<1>2. PICK k : k = Cid
  OBVIOUS
<1>3. /\ k \in Listeners /\ acceptInflight' = [acceptInflight EXCEPT ![k] = @ - 1]
      /\ totalAccepts' = totalAccepts - 1 /\ armed' = armed /\ c' = c
  BY <1>2, HarvestFacts
<1>4. /\ \A j : Occurs(cq', AcceptsOf(j)) = Occurs(cq, AcceptsOf(j)) - Expect(j = k)
      /\ \A j : Occurs(cq, AcceptsOf(j)) \in Nat
      /\ Occurs(cq, AcceptsOf(k)) >= 1
  BY <1>2, HarvestQueue
<1>5. /\ \A j \in Listeners : acceptInflight[j] = armed[j] + Occurs(cq, AcceptsOf(j))
      /\ totalAccepts = Cardinality(Accepts)
      /\ acceptInflight \in [Listeners -> Nat] /\ armed \in [Listeners -> Nat]
      /\ totalAccepts \in Nat
  BY <1>1 DEF Cap, Types
<1>6. acceptInflight[k] > 0
  BY <1>3, <1>4, <1>5
<1>7. Listeners = 1..NListeners /\ NListeners \in Nat /\ Listeners' = Listeners
  BY <1>1, <1>3, Ranges, SameConfig DEF Listeners
<1>8. Accepts = Pairs(acceptInflight) /\ Accepts' = Pairs(acceptInflight')
  <2>1. DOMAIN acceptInflight = Listeners /\ DOMAIN acceptInflight' = Listeners
    BY <1>3, <1>5
  <2>2. QED
    BY <1>7, <2>1 DEF Accepts, Pairs
<1>9. /\ acceptInflight' \in [Listeners -> Nat]
      /\ Cardinality(Pairs(acceptInflight')) = Cardinality(Pairs(acceptInflight)) - 1
  BY <1>3, <1>5, <1>6, <1>7, PairsDrop
<1>10. totalAccepts' = Cardinality(Accepts') /\ totalAccepts' = totalAccepts - 1
  BY <1>3, <1>5, <1>8, <1>9
<1>11. Cardinality(Accepts') \in Nat
  <2>1. IsFiniteSet(Listeners)
    BY <1>7, FS_Interval
  <2>2. IsFiniteSet(Pairs(acceptInflight'))
    BY <1>9, <2>1, PairsFinite
  <2>3. QED
    BY <1>8, <2>2, FS_CardinalityType
<1>12. ASSUME NEW j \in Listeners
       PROVE  acceptInflight'[j] = armed'[j] + Occurs(cq', AcceptsOf(j))
  <2>1. /\ Occurs(cq', AcceptsOf(j)) = Occurs(cq, AcceptsOf(j)) - Expect(j = k)
        /\ Occurs(cq, AcceptsOf(j)) \in Nat /\ armed[j] \in Nat
        /\ acceptInflight[j] = armed[j] + Occurs(cq, AcceptsOf(j))
    BY <1>4, <1>5
  <2>2. acceptInflight'[j] = acceptInflight[j] - Expect(j = k)
    BY <1>3, <1>5 DEF Expect
  <2>3. Expect(j = k) \in Nat
    BY DEF Expect
  <2>4. QED
    BY <1>3, <2>1, <2>2, <2>3
<1>13. QED
  BY <1>5, <1>9, <1>10, <1>11, <1>12

(* The parts that do not depend on what becomes of the client. *)
LEMMA HarvestFrame ==
  ASSUME Inv, Harvest, NEW ops \in Seq(Ops), sq' = sq \o ops,
         \A n \in DOMAIN ops : FitNext(ops[n]), TableTypes',
         accepted' \in Nat, nextID' \in Nat, made' \in Nat,
         \A o \in Prepared : o.buf # 0 => cell'[o.buf].id = cell[o.buf].id,
         mode # "splice" => \A j \in DOMAIN sq : \A f \in sq[j].fds : fdt'[f] = fdt[f]
  PROVE  /\ Types' /\ Shapes' /\ Loop' /\ BuffersNotShared' /\ Home' /\ HookKeeps
         /\ \A f : AtResults(f)' = AtResults(f)
         /\ \A j : HookWork(j)' = HookWork(j)
<1>1. Types /\ Shapes /\ Loop /\ Cap /\ BuffersNotShared /\ Home
  BY InvParts
<1>2. /\ cq # <<>> /\ cq' = Tail(cq) /\ c' = c /\ waiting' = waiting /\ ~waiting /\ kops' = kops
      /\ armed' = armed /\ running' = running /\ left' = left - 1 /\ left > 0
      /\ jobs' = jobs /\ ready' = ready /\ drained' = drained
  BY HarvestFacts
<1>3. /\ sq' \in Seq(Ops)
      /\ \A j \in DOMAIN sq' : Formed(sq'[j]) /\ sq'[j].op # "Accept"
      /\ BuffersNotShared' /\ Home'
  BY <1>1, <1>2, PreparedKept
<1>4. /\ cq' \in Seq(Completions) /\ Len(cq') = Len(cq) - 1
      /\ \A j \in DOMAIN cq' : Formed(cq'[j].o)
           /\ (cq'[j].o.op = "Accept" /\ cq'[j].res > 0 => cq'[j].res \in FDs)
  BY <1>1, <1>2, ShapesTail
<1>5. /\ HookKeeps /\ \A f : AtResults(f)' = AtResults(f)
      /\ \A j : HookWork(j)' = HookWork(j)
  BY <1>1, <1>2, HooksSame
<1>6. Ids' = Ids /\ FDs' = FDs /\ Listeners' = Listeners
  BY <1>2, SameConfig
<1>7. left' \in Nat /\ left' <= Len(cq')
  <2>1. left \in Nat /\ left <= Len(cq) /\ Len(cq) \in Nat
    BY <1>1 DEF Types, Loop
  <2>2. QED
    BY <1>2, <1>4, <2>1
<1>8. Types'
  BY <1>1, <1>2, <1>3, <1>4, <1>5, <1>6, <1>7, HarvestCounts
     DEF Types, HookKeeps, HookShapes, TableTypes
<1>9. Shapes'
  <2>1. \A o : Formed(o)' <=> Formed(o)
    BY <1>2, FormedSame
  <2>2. \A h \in DOMAIN kops' : Formed(h.o)' /\ h.o.op # "Accept"
    BY <1>1, <1>2, <2>1 DEF Shapes
  <2>3. \A j \in DOMAIN cq' : Formed(cq[j].o)'
              /\ (cq'[j].o.op = "Accept" /\ cq'[j].res > 0 => cq'[j].res \in FDs')
    BY <1>2, <1>4, <1>6 DEF Formed, mode
  <2>4. \A j \in DOMAIN sq' : Formed(sq[j])' /\ sq'[j].op # "Accept"
    BY <1>2, <1>3, <1>6 DEF Formed, mode
  <2>5. QED
    BY <1>5, <2>2, <2>3, <2>4 DEF Shapes, HookKeeps, HookShapes
<1>10. Loop'
  BY <1>2, <1>7 DEF Loop
<1>11. QED
  BY <1>3, <1>5, <1>8, <1>9, <1>10

(* Nobody is admitted. *)
LEMMA HarvestAlone ==
  ASSUME Inv, Harvest, NEW ops \in Seq(Ops), sq' = sq \o ops,
         \A n \in DOMAIN ops : FitNext(ops[n]) /\ \A j \in Ids : Away(ops[n], j),
         accepted' = accepted + Expect(Res > 0), fdt' = fdt, UNCHANGED tableVars,
         \A f \in FDs : Occurs(ops, ClosesOf(f)) = Expect(f = Res)
  PROVE  Inv'
<1>1. /\ Types /\ Shapes /\ Loop /\ Life /\ Structs /\ Cap /\ Sockets
      /\ BuffersNotShared /\ DescriptorsOwned /\ Tags /\ Home
  BY InvParts
<1>2. /\ cq # <<>> /\ cq' = Tail(cq) /\ Head(cq).o.op = "Accept" /\ c' = c /\ kops' = kops
      /\ completed' = completed /\ drained' = drained /\ ready' = ready
  BY HarvestFacts
<1>3. /\ conns' = conns /\ cell' = cell /\ made' = made /\ connFree' = connFree
      /\ nextID' = nextID
  BY DEF tableVars
<1>4. Ids' = Ids /\ FDs' = FDs /\ MaxConns' = MaxConns /\ NListeners' = NListeners
      /\ Listeners' = Listeners
  BY <1>2, SameConfig
<1>5. Live' = Live /\ Serving' = Serving /\ \A j : Cc(j)' = Cc(j)
  BY <1>2, <1>3, TableStays
<1>6. /\ Occurs(cq', Clients) = Occurs(cq, Clients) - Expect(Res > 0)
      /\ \A f : AtClients(f)' = AtClients(f) - Expect(f = Res)
      /\ Occurs(cq, Clients) \in Nat
  BY HarvestQueue
<1>7. accepted' \in Nat /\ accepted' >= accepted /\ accepted \in Nat
      /\ Expect(Res > 0) \in Nat
  <2>1. accepted \in Nat
    BY <1>1 DEF Types
  <2>2. Expect(Res > 0) \in Nat
    BY DEF Expect
  <2>3. QED
    BY <2>1, <2>2
<1>8. /\ Types' /\ Shapes' /\ Loop' /\ BuffersNotShared' /\ Home' /\ HookKeeps
      /\ \A f : AtResults(f)' = AtResults(f)
      /\ \A j : HookWork(j)' = HookWork(j)
  <2>1. TableTypes' /\ nextID' \in Nat /\ made' \in Nat
    BY <1>1, <1>2, <1>3, <1>4 DEF Types, TableTypes
  <2>2. QED
    BY <1>3, <1>7, <2>1, HarvestFrame
<1>9. Cap'
  <2>1. /\ totalAccepts' \in Nat
        /\ totalAccepts' = Cardinality(Accepts') /\ totalAccepts = totalAccepts' + 1
        /\ \A k \in Listeners :
             acceptInflight'[k] = armed'[k] + Occurs(cq', AcceptsOf(k))
    BY HarvestCounts
  <2>2. Cardinality(Live) \in Nat /\ MaxConns \in Nat /\ NListeners \in Nat
        /\ Larger(MaxConns, NListeners) \in Nat
        /\ nextID \in Nat /\ c.accepts \in Nat
    BY <1>1, Ranges, LiveFinite DEF Types, Larger
  <2>3. /\ Cardinality(Live) <= MaxConns
        /\ Cardinality(Live) + totalAccepts <= Larger(MaxConns, NListeners)
        /\ accepted + Occurs(cq, Clients) <= c.accepts
        /\ nextID <= accepted /\ made <= nextID
        /\ completed + Cardinality(Serving) <= nextID
    BY <1>1 DEF Cap
  <2>4. Cardinality(Live') + totalAccepts' <= Larger(MaxConns', NListeners')
    <3>1. Larger(MaxConns', NListeners') = Larger(MaxConns, NListeners)
      BY <1>4
    <3>2. Cardinality(Live') = Cardinality(Live)
      BY <1>5
    <3>3. QED
      BY ONLY <2>1, <2>2, <2>3, <3>1, <3>2
  <2>5. accepted' + Occurs(cq', Clients) <= c'.accepts /\ nextID' <= accepted'
    BY <1>2, <1>3, <1>6, <1>7, <2>2, <2>3, SMTT(30)
  <2>6. completed' + Cardinality(Serving') <= nextID' /\ Cardinality(Live') <= MaxConns'
        /\ made' <= nextID'
    BY <1>2, <1>3, <1>4, <1>5, <2>3
  <2>7. QED
    BY <1>4, <2>1, <2>4, <2>5, <2>6 DEF Cap
<1>10. Structs'
  BY <1>1, <1>2, <1>3, <1>4, <1>5 DEF Structs, InRange
<1>11. Life'
  <2>1. ASSUME NEW j \in Ids PROVE Steady(j)
    <3>1. Away(Head(cq).o, j)
      BY <1>2 DEF Away, WorkOps, ChurnOps, RelayOps
    <3>2. HookWork(j)' = HookWork(j)
      BY <1>8
    <3>3. QED
      BY <1>1, <1>2, <3>1, <3>2, HandledUntouched, UntouchedSteady
  <2>2. QED
    BY <1>1, <1>2, <1>3, <2>1, LifeSteady
<1>12. DescriptorsOwned'
  <2>1. ASSUME NEW f \in FDs PROVE Holders(f)' = Holders(f)
    <3>1. Owners(f)' = Owners(f)
      BY <1>5 DEF Owners, HeldBy
    <3>2. Occurs(sq', ClosesOf(f)) = Occurs(sq, ClosesOf(f)) + Expect(f = Res)
      BY <1>1, SeqTypes, OccursConcat
    <3>3. InKernel(ClosesOf(f))' = InKernel(ClosesOf(f))
      BY <1>2, InKernelIsInBag
    <3>4. /\ Occurs(ready', ResultsAt(f)) = Occurs(ready, ResultsAt(f))
          /\ Occurs(drained', ResultsAt(f)) = Occurs(drained, ResultsAt(f))
      BY <1>2
    <3>5. AtClients(f)' = AtClients(f) - Expect(f = Res)
      BY <1>6
    <3>6. /\ AtClients(f) \in Nat /\ Cardinality(Owners(f)) \in Nat
          /\ Occurs(sq, ClosesOf(f)) \in Nat /\ InKernel(ClosesOf(f)) \in Nat
          /\ Occurs(ready, ResultsAt(f)) \in Nat /\ Occurs(drained, ResultsAt(f)) \in Nat
          /\ Expect(f = Res) \in Nat
      BY <1>1, HoldersParts, CountNat, SeqTypes, AtFinite DEF Expect
    <3>7. QED
      BY <3>1, <3>2, <3>3, <3>4, <3>5, <3>6, HoldersSum
  <2>2. QED
    BY <1>1, <1>2, <2>1, OwnedKeeps
<1>13. Sockets'
  BY <1>1, <1>5 DEF Sockets, SocketsOf
<1>14. Tags'
  <2>1. \A j \in DOMAIN cq' : \E k \in DOMAIN cq : cq'[j] = cq[k]
    BY <1>1, <1>2, ShapesTail
  <2>2. QED
    BY <1>1, <1>2, <1>8, <2>1, TagsKeep
<1>15. QED
  BY <1>8, <1>9, <1>10, <1>11, <1>12, <1>13, <1>14 DEF Inv

(* An accept failed.                                                       *)
LEMMA AcceptErrorStep ==
  ASSUME Inv, OnAcceptError
  PROVE  Inv'
<1>1. /\ Harvest /\ Res < 0 /\ accepted' = accepted /\ sq' = sq /\ fdt' = fdt
      /\ UNCHANGED tableVars
  BY DEF OnAcceptError
<1>2. Types /\ Res \in Int
  BY <1>1, InvParts, HarvestFacts
<1>3. <<>> \in Seq(Ops) /\ sq' = sq \o <<>>
  BY <1>1, <1>2, PostNothing, SeqTypes
<1>4. accepted' = accepted + Expect(Res > 0)
  <2>1. ~(Res > 0) /\ accepted \in Nat
    BY <1>1, <1>2 DEF Types
  <2>2. QED
    BY <1>1, <2>1 DEF Expect
<1>5. \A f \in FDs : Occurs(<<>>, ClosesOf(f)) = Expect(f = Res)
  <2>1. \A f \in FDs : f # Res
    BY <1>1, <1>2, Ranges
  <2>2. QED
    BY <2>1, OccursEmpty DEF Expect
<1>6. \A n \in DOMAIN (<<>>) : FitNext((<<>>)[n]) /\ \A j \in Ids : Away((<<>>)[n], j)
  OBVIOUS
<1>7. QED
  BY <1>1, <1>3, <1>4, <1>5, <1>6, HarvestAlone

(* A client is turned away at the cap.                                     *)
LEMMA AcceptShedStep ==
  ASSUME Inv, OnAcceptShed
  PROVE  Inv'
<1>1. /\ Harvest /\ Res > 0 /\ accepted' = accepted + 1 /\ fdt' = fdt
      /\ sq' = sq \o <<CloseOp(0, Res)>> /\ UNCHANGED tableVars
  BY DEF OnAcceptShed, Post
<1>2. Types /\ Shapes /\ Tags
  BY InvParts
<1>3. cq # <<>> /\ Head(cq).o.op = "Accept"
  BY <1>1, HarvestFacts
<1>4. PICK f \in FDs : f = Res
  BY <1>1, <1>2, <1>3, HeadFacts
<1>5. fdt[f] = 0
  <2>1. Head(cq) \in Clients /\ Head(cq) = cq[1] /\ 1 \in DOMAIN cq
    BY <1>1, <1>2, <1>3, HeadFacts DEF Clients, Res
  <2>2. QED
    BY <1>2, <1>4, <2>1 DEF Tags, Res
<1>6. PICK p : p = CloseOp(0, f)
  OBVIOUS
<1>7. /\ FitNext(p) /\ p \in Ops /\ p.id = 0 /\ \A g : p \in ClosesOf(g) <=> g = f
  BY <1>1, <1>2, <1>5, <1>6, CloseFit
<1>8. <<p>> \in Seq(Ops) /\ sq' = sq \o <<p>>
  BY <1>1, <1>4, <1>6, <1>7
<1>9. \A n \in DOMAIN (<<p>>) : FitNext((<<p>>)[n]) /\ \A j \in Ids : Away((<<p>>)[n], j)
  BY <1>2, <1>7, Ranges DEF Away
<1>10. \A g \in FDs : Occurs(<<p>>, ClosesOf(g)) = Expect(g = Res)
  <2>1. \A g : Occurs(<<p>>, ClosesOf(g)) = Expect(p \in ClosesOf(g))
    BY <1>7, OccursOne
  <2>2. \A g : Expect(p \in ClosesOf(g)) = Expect(g = Res)
    BY <1>4, <1>7 DEF Expect
  <2>3. QED
    BY <2>1, <2>2
<1>11. accepted' = accepted + Expect(Res > 0)
  BY <1>1 DEF Expect
<1>12. QED
  BY <1>1, <1>8, <1>9, <1>10, <1>11, HarvestAlone

(* The struct for a new connection is blank and in no list any more. *)
LEMMA StructFound ==
  ASSUME Types, Structs, Cap, nextID + 1 <= c.accepts, NEW s, s = getConn.struct,
         made' = getConn.made, connFree' = getConn.rest
  PROVE  /\ s \in Ids /\ cell[s] = Blank /\ made' \in Nat /\ s <= made' /\ made <= made'
         /\ made' <= nextID + 1 /\ connFree' \in Seq(Nat)
         /\ \A j \in DOMAIN connFree' : j \in DOMAIN connFree /\ connFree'[j] = connFree[j]
         /\ \A j \in DOMAIN connFree' : connFree'[j] # s
<1>1. /\ connFree \in Seq(Nat) /\ made \in Nat /\ made <= nextID /\ nextID \in Nat
      /\ c.accepts \in Nat /\ Ids = 1..c.accepts
  BY Ranges, IdsBound DEF Types, Ids
<1>2. /\ \A j \in DOMAIN connFree : connFree[j] \in 1..made /\ cell[connFree[j]] = Blank
      /\ \A j, k \in DOMAIN connFree : connFree[j] = connFree[k] => j = k
      /\ \A t \in Ids : t > made => cell[t] = Blank
  BY DEF Structs
<1>3. CASE mode = "churn" /\ connFree # <<>>
  <2>1. PICK n \in Nat : n = Len(connFree)
    BY <1>1
  <2>2. n # 0 /\ DOMAIN connFree = 1..n
    BY <1>1, <1>3, <2>1
  <2>3. s = connFree[n] /\ connFree' = SubSeq(connFree, 1, n - 1) /\ made' = made
    BY <1>3, <2>1 DEF getConn
  <2>4. n \in DOMAIN connFree
    BY <2>2
  <2>5. s \in 1..made /\ cell[s] = Blank
    BY <1>2, <2>3, <2>4
  <2>6. /\ connFree' \in Seq(Nat) /\ DOMAIN connFree' = 1..(n - 1)
        /\ \A j \in 1..(n - 1) : connFree'[j] = connFree[j]
    BY <1>1, <2>1, <2>2, <2>3
  <2>7. \A j \in DOMAIN connFree' : j \in DOMAIN connFree /\ connFree'[j] = connFree[j] /\ j # n
    BY <2>2, <2>6
  <2>8. \A j \in DOMAIN connFree' : connFree'[j] # s
    BY <1>2, <2>3, <2>4, <2>7
  <2>9. s \in Ids /\ s <= made' /\ made' \in Nat /\ made <= made' /\ made' <= nextID + 1
    BY <1>1, <2>3, <2>5
  <2>10. QED
    BY <2>5, <2>6, <2>7, <2>8, <2>9
<1>4. CASE ~(mode = "churn" /\ connFree # <<>>)
  <2>1. s = made + 1 /\ connFree' = connFree /\ made' = made + 1
    BY <1>4 DEF getConn
  <2>2. s \in Ids /\ s > made /\ made' \in Nat /\ s <= made' /\ made <= made' /\ made' <= nextID + 1
    BY <1>1, <2>1
  <2>3. \A j \in DOMAIN connFree : connFree[j] # s
    BY <1>1, <1>2, <2>2
  <2>4. QED
    BY <1>1, <1>2, <2>1, <2>2, <2>3
<1>5. QED
  BY <1>3, <1>4

(* A connection as it starts. *)
NewConn(n, f) == [Blank EXCEPT !.id = n, !.client = f]

Adds(n, s, f) ==
  /\ n = nextID + 1 /\ n \in Ids /\ nextID' = n /\ f \in FDs
  /\ s = getConn.struct /\ made' = getConn.made /\ connFree' = getConn.rest
  /\ conns' = [conns EXCEPT ![n] = s] /\ cell' = [cell EXCEPT ![s] = NewConn(n, f)]

(* The table with the new connection. *)
LEMMA TableAdd ==
  ASSUME Types, Structs, Cap, c' = c, NEW n, NEW s, NEW f, Adds(n, s, f)
  PROVE  /\ Structs' /\ conns' \in [Ids -> Nat] /\ cell' \in [Ids -> Conn]
         /\ n \notin Live /\ Live' = Live \cup {n} /\ Cc(n)' = NewConn(n, f)
         /\ \A j \in Live : j # n /\ Cc(j)' = Cc(j)
         /\ s \in Ids /\ cell[s] = Blank /\ \A t \in Ids : t # s => cell'[t] = cell[t]
<1> DEFINE x == NewConn(n, f)
<1> /\ n = nextID + 1 /\ n \in Ids /\ nextID' = n /\ f \in FDs
    /\ s = getConn.struct /\ made' = getConn.made /\ connFree' = getConn.rest
    /\ conns' = [conns EXCEPT ![n] = s] /\ cell' = [cell EXCEPT ![s] = x]
  BY DEF Adds
<1>1. /\ made \in Nat /\ made <= nextID /\ nextID \in Nat /\ c.accepts \in Nat /\ Ids = 1..c.accepts
      /\ f \in Nat /\ f <= c.fds /\ c.fds \in Nat /\ Ids' = Ids
      /\ conns \in [Ids -> Nat] /\ cell \in [Ids -> Conn]
  <2>1. made \in Nat /\ nextID \in Nat /\ conns \in [Ids -> Nat] /\ cell \in [Ids -> Conn]
    BY DEF Types
  <2>2. made <= nextID /\ Ids' = Ids /\ c.accepts \in Nat /\ Ids = 1..c.accepts
    BY Ranges, IdsBound, SameConfig DEF Ids
  <2>3. f \in Nat /\ f <= c.fds /\ c.fds \in Nat
    <3>1. c.fds \in Nat /\ f \in 1..c.fds
      BY Ranges DEF FDs
    <3>2. QED
      BY <3>1
  <2>4. QED
    BY <2>1, <2>2, <2>3
<1>2. /\ s \in Ids /\ cell[s] = Blank /\ made' \in Nat /\ s <= made' /\ made <= made'
      /\ made' <= nextID + 1 /\ connFree' \in Seq(Nat)
      /\ \A j \in DOMAIN connFree' : j \in DOMAIN connFree /\ connFree'[j] = connFree[j]
      /\ \A j \in DOMAIN connFree' : connFree'[j] # s
  <2>1. nextID + 1 <= c.accepts
    BY <1>1
  <2>2. QED
    BY <2>1, StructFound
<1>3. /\ x \in Conn /\ x.id = n /\ x.closesLeft = 0 /\ x.client = f /\ x.up = 0
      /\ \A d \in Dirs : x.pipe[d].r = 0 /\ x.pipe[d].w = 0
  <2>1. Blank \in Conn /\ Blank.closesLeft = 0 /\ Blank.up = 0
        /\ \A d \in Dirs : Blank.pipe[d].r = 0 /\ Blank.pipe[d].w = 0
    BY DEF Blank, Conn, Pipe, NoPipe, NoFD
  <2>2. n \in Nat
    BY <1>1
  <2>3. QED
    BY <1>1, <2>1, <2>2 DEF Conn, NewConn
<1>4. \A j \in Live : /\ conns[j] \in 1..made /\ Cc(j).id = j /\ j <= nextID /\ j \in Ids
                      /\ cell[conns[j]].id = j
  BY DEF Structs, Live, Cc
<1>5. n \notin Live /\ n \in Nat /\ n # 0
  BY <1>1, <1>4
<1>6. s # 0 /\ conns'[n] = s
  BY <1>1, <1>2
<1>7. Live' = Live \cup {n}
  BY <1>1, <1>6 DEF Live
<1>8. \A t \in Ids : cell'[t] = IF t = s THEN x ELSE cell[t]
  BY <1>1
<1>9. cell' \in [Ids -> Conn] /\ conns' \in [Ids -> Nat]
  BY <1>1, <1>2, <1>3
<1>10. Cc(n)' = x
  BY <1>2, <1>6, <1>8 DEF Cc
<1>11. ASSUME NEW j \in Live
       PROVE  j # n /\ conns'[j] = conns[j] /\ Cc(j)' = Cc(j)
  <2>1. j # n /\ j \in Ids /\ conns[j] \in Ids /\ cell[conns[j]].id = j /\ j # 0
    BY <1>1, <1>4, <1>5
  <2>2. conns'[j] = conns[j]
    BY <1>1, <2>1
  <2>3. conns[j] # s
    BY <1>2, <2>1 DEF Blank
  <2>4. QED
    BY <1>8, <2>1, <2>2, <2>3 DEF Cc
<1>12. \A j \in Live' : conns'[j] \in 1..made' /\ Cc(j)'.id = j /\ j <= nextID'
  <2>1. conns'[n] \in 1..made' /\ Cc(n)'.id = n /\ n <= nextID'
    <3>1. s \in 1..made'
      BY <1>1, <1>2
    <3>2. n <= nextID'
      BY <1>1
    <3>3. QED
      BY <1>3, <1>6, <1>10, <3>1, <3>2
  <2>2. ASSUME NEW j \in Live PROVE conns'[j] \in 1..made' /\ Cc(j)'.id = j /\ j <= nextID'
    <3>1. conns[j] \in 1..made /\ Cc(j).id = j /\ j <= nextID /\ j \in Nat
      BY <1>1, <1>4
    <3>2. QED
      BY <1>1, <1>2, <1>11, <3>1
  <2>3. QED
    BY <1>7, <2>1, <2>2
<1>13. ASSUME NEW t \in Ids
       PROVE  InRange(cell[t])' /\ (t > made' => cell'[t] = Blank)
  <2>1. InRange(cell[t]) /\ (t > made => cell[t] = Blank)
    BY DEF Structs
  <2>2. CASE t = s
    <3>1. cell'[t] = x /\ ~(t > made')
      BY <1>1, <1>2, <1>8, <2>2
    <3>2. InRange(x)'
      BY <1>1, <1>3, <1>5 DEF InRange
    <3>3. InRange(cell[t])'
      BY <3>1, <3>2 DEF InRange
    <3>4. QED
      BY <3>1, <3>3
  <2>3. CASE t # s
    <3>1. cell'[t] = cell[t]
      BY <1>8, <2>3
    <3>2. cell[t].id <= n
      <4>1. cell[t].id <= nextID /\ cell[t].id \in Nat
        BY <1>1, <2>1 DEF InRange, Conn
      <4>2. QED
        BY <1>1, <4>1
    <3>3. InRange(cell[t])'
      BY <2>1, <3>1, <3>2 DEF InRange
    <3>4. t > made' => t > made
      BY <1>1, <1>2
    <3>5. QED
      BY <2>1, <3>1, <3>3, <3>4
  <2>4. QED
    BY <2>2, <2>3
<1>14. \A j \in DOMAIN connFree' : connFree'[j] \in 1..made' /\ cell'[connFree'[j]] = Blank
  <2> SUFFICES ASSUME NEW j \in DOMAIN connFree'
               PROVE  connFree'[j] \in 1..made' /\ cell'[connFree'[j]] = Blank
    OBVIOUS
  <2>1. j \in DOMAIN connFree /\ connFree'[j] = connFree[j] /\ connFree'[j] # s
    BY <1>2
  <2>2. connFree[j] \in 1..made /\ cell[connFree[j]] = Blank
    BY <2>1 DEF Structs
  <2>3. connFree[j] \in Ids /\ connFree[j] \in 1..made'
    BY <1>1, <1>2, <2>2, SMTT(30)
  <2>4. QED
    BY <1>8, <2>1, <2>2, <2>3
<1>15. \A j, k \in DOMAIN connFree' : connFree'[j] = connFree'[k] => j = k
  BY <1>2 DEF Structs
<1>16. Structs'
  BY <1>1, <1>12, <1>13, <1>14, <1>15 DEF Structs
<1>17. QED
  BY <1>2, <1>5, <1>7, <1>8, <1>9, <1>10, <1>11, <1>16

(* The number of a new client is held by its completion only, and nothing  *)
(* that is prepared names it.                                              *)
LEMMA ClientNumber ==
  ASSUME Inv, Harvest, Res > 0
  PROVE  /\ Res \in FDs /\ fdt[Res] = 0 /\ Owners(Res) = {} /\ AtCloses(Res) = 0
         /\ AtResults(Res) = 0 /\ AtClients(Res) = 1
         /\ mode # "splice" => \A j \in DOMAIN sq : Res \notin sq[j].fds
<1>1. Types /\ Shapes /\ Tags /\ DescriptorsOwned /\ Home
  BY InvParts
<1>2. cq # <<>> /\ Head(cq).o.op = "Accept"
  BY HarvestFacts
<1>3. PICK f \in FDs : f = Res
  BY <1>1, <1>2, HeadFacts
<1>4. fdt[f] = 0
  <2>1. Head(cq) \in Clients /\ Head(cq) = cq[1] /\ 1 \in DOMAIN cq
    BY <1>1, <1>2, HeadFacts DEF Clients, Res
  <2>2. QED
    BY <1>1, <1>3, <2>1 DEF Tags, Res
<1>5. Owners(f) = {} /\ AtCloses(f) = 0 /\ AtResults(f) = 0 /\ AtClients(f) = 1
  <2>1. AtClients(f) >= 1
    BY <1>3, HarvestQueue
  <2>2. AtClients(f) \in Nat /\ AtCloses(f) \in Nat /\ AtResults(f) \in Nat
    BY <1>1, HoldersParts
  <2>3. AtClients(f) + AtCloses(f) + AtResults(f) >= 1
    BY <2>1, <2>2
  <2>4. Owners(f) = {} /\ AtClients(f) + AtCloses(f) + AtResults(f) = 1
    BY <1>1, <2>3, OwnedElsewhere
  <2>5. QED
    BY <2>1, <2>2, <2>4
<1>6. ASSUME mode # "splice", NEW j \in DOMAIN sq, f \in sq[j].fds PROVE FALSE
  <2>1. sq[j].id = 0
    BY <1>1, <1>4, <1>6 DEF Home
  <2>2. sq[j] \in Ops /\ Formed(sq[j]) /\ sq[j].op \in OpNames
    <3>1. sq \in Seq(Ops) /\ Formed(sq[j])
      BY <1>1, SeqTypes DEF Shapes
    <3>2. sq[j] \in Ops
      BY <3>1
    <3>3. QED
      BY <3>1, <3>2 DEF Ops
  <2>3. 0 \notin Ids
    BY <1>1, Ranges
  <2>4. sq[j].op = "Close"
    BY <1>6, <2>1, <2>2, <2>3 DEF Formed, OpNames, RelayOps
  <2>5. sq[j] \in ClosesOf(f)
    BY <1>6, <2>2, <2>4 DEF ClosesOf
  <2>6. Occurs(sq, ClosesOf(f)) >= 1
    BY <1>1, <2>5, SeqTypes, OccursSome
  <2>7. Occurs(sq, ClosesOf(f)) \in Nat /\ InKernel(ClosesOf(f)) \in Nat
    BY <1>1, CountNat
  <2>8. QED
    BY <1>5, <2>6, <2>7 DEF AtCloses
<1>7. QED
  BY <1>3, <1>4, <1>5, <1>6

(* A client is admitted: an id, a struct and a read.                       *)
LEMMA AcceptStep ==
  ASSUME Inv, OnAccept
  PROVE  Inv'
<1>1. PICK n : n = nextID'
  OBVIOUS
<1>2. PICK s : s = getConn.struct
  OBVIOUS
<1>3. PICK f : f = Res
  OBVIOUS
<1>4. PICK x : x = NewConn(n, f)
  OBVIOUS
<1>5. PICK p : p = Op("RecvReq", NoDir, n, {f}, s)
  OBVIOUS
<1>6. /\ Harvest /\ f > 0 /\ Cardinality(Live) < MaxConns
      /\ accepted' = accepted + 1 /\ nextID' = nextID + 1 /\ n = nextID + 1
      /\ conns' = [conns EXCEPT ![n] = s]
      /\ made' = getConn.made /\ connFree' = getConn.rest
      /\ cell' = [cell EXCEPT ![s] = [@ EXCEPT !.id = n, !.client = f]]
      /\ fdt' = [fdt EXCEPT ![f] = n] /\ sq' = sq \o <<p>>
  BY <1>1, <1>2, <1>3, <1>5 DEF OnAccept, Post
<1>7. /\ Types /\ Shapes /\ Loop /\ Life /\ Structs /\ Cap /\ Sockets
      /\ BuffersNotShared /\ DescriptorsOwned /\ Tags /\ Home
  BY InvParts
<1>8. /\ cq # <<>> /\ cq' = Tail(cq) /\ Head(cq).o.op = "Accept" /\ c' = c /\ kops' = kops
      /\ completed' = completed /\ drained' = drained /\ ready' = ready
  BY <1>6, HarvestFacts
<1>9. /\ f \in FDs /\ fdt[f] = 0 /\ Owners(f) = {} /\ AtCloses(f) = 0
      /\ AtResults(f) = 0 /\ AtClients(f) = 1
      /\ mode # "splice" => \A j \in DOMAIN sq : f \notin sq[j].fds
  BY <1>3, <1>6, ClientNumber
<1>10. /\ Occurs(cq', Clients) = Occurs(cq, Clients) - 1
       /\ \A g : AtClients(g)' = AtClients(g) - Expect(g = f)
       /\ Occurs(cq, Clients) \in Nat /\ Occurs(cq, Clients) >= 1
  <2>1. Expect(Res > 0) = 1
    BY <1>3, <1>6 DEF Expect
  <2>2. QED
    BY <1>3, <1>6, <2>1, HarvestQueue
<1>11. /\ accepted \in Nat /\ nextID \in Nat /\ made \in Nat /\ c.accepts \in Nat
       /\ nextID <= accepted /\ made <= nextID /\ accepted + Occurs(cq, Clients) <= c.accepts
  BY <1>7, Ranges DEF Types, Cap
<1>12. n \in Ids /\ n \in Nat /\ n # 0
  <2>1. n \in 1..c.accepts
    BY <1>6, <1>10, <1>11
  <2>2. QED
    BY <2>1 DEF Ids
<1>13. s \in Ids /\ cell[s] = Blank /\ made' \in Nat /\ made' <= nextID + 1 /\ connFree' \in Seq(Nat)
  <2>1. nextID + 1 <= c.accepts
    BY <1>10, <1>11
  <2>2. QED
    BY <1>2, <1>6, <1>7, <2>1, StructFound
<1>14. cell' = [cell EXCEPT ![s] = x]
  BY <1>4, <1>6, <1>13 DEF NewConn
<1>15. Adds(n, s, f)
  BY <1>1, <1>2, <1>4, <1>6, <1>9, <1>12, <1>14 DEF Adds
<1>16. /\ Structs' /\ conns' \in [Ids -> Nat] /\ cell' \in [Ids -> Conn]
       /\ n \notin Live /\ Live' = Live \cup {n} /\ Cc(n)' = x
       /\ \A j \in Live : j # n /\ Cc(j)' = Cc(j)
       /\ \A t \in Ids : t # s => cell'[t] = cell[t]
  BY <1>4, <1>7, <1>8, <1>13, <1>15, TableAdd
<1>17. /\ x.id = n /\ x.client = f /\ x.up = NoFD /\ ~x.closing
       /\ \A d \in Dirs : ~x.done[d] /\ x.pipe[d] = NoPipe
  BY <1>4 DEF Blank, NewConn
<1>18. PipeEnds(x) = {}
  <2>1. \A g : g \notin PipeEnds(x)
    BY <1>17, InPipeEnds DEF NoPipe
  <2>2. QED
    BY <2>1
<1>19. /\ fdt' \in [FDs -> Int] /\ fdt'[f] = n /\ \A g \in FDs : g # f => fdt'[g] = fdt[g]
  <2>1. fdt \in [FDs -> Int]
    BY <1>7, TableTyped
  <2>2. QED
    BY <1>6, <1>9, <1>12, <2>1
<1>20. FitNext(p) /\ p.op = "RecvReq" /\ p.id = n /\ p.dir = NoDir /\ p \in Ops
  <2>1. cell'[s].id = n
    BY <1>7, <1>13, <1>14, <1>17 DEF Types
  <2>2. FitNext(p)
    BY <1>5, <1>7, <1>9, <1>12, <1>13, <1>19, <2>1, BufferedFit DEF ChurnOps
  <2>3. QED
    BY <1>5, <2>2 DEF Op, FitNext
<1>21. PICK ops : ops = <<p>>
  OBVIOUS
<1>22. /\ ops \in Seq(Ops) /\ sq' = sq \o ops
       /\ \A m \in DOMAIN ops : ops[m] = p
  BY <1>6, <1>20, <1>21
<1>23. \A o \in Prepared : o.buf # 0 => cell'[o.buf].id = cell[o.buf].id
  <2> SUFFICES ASSUME NEW o \in Prepared, o.buf # 0 PROVE cell'[o.buf].id = cell[o.buf].id
    OBVIOUS
  <2>1. o.buf \in Ids /\ o.id \in Ids
    BY <1>7, BufInIds
  <2>2. cell[o.buf].id = o.id
    BY <1>7 DEF BuffersNotShared
  <2>3. 0 \notin Ids /\ Blank.id = 0
    BY <1>7, Ranges DEF Blank
  <2>4. o.buf # s
    BY <1>13, <2>1, <2>2, <2>3
  <2>5. QED
    BY <1>16, <2>1, <2>4
<1>24. mode # "splice" => \A j \in DOMAIN sq : \A g \in sq[j].fds : fdt'[g] = fdt[g]
  <2>1. \A j \in DOMAIN sq : sq[j].fds \subseteq FDs
    BY <1>7 DEF Shapes, Formed
  <2>2. QED
    BY <1>9, <1>19, <2>1
<1>25. /\ Types' /\ Shapes' /\ Loop' /\ BuffersNotShared' /\ Home' /\ HookKeeps
       /\ \A g : AtResults(g)' = AtResults(g)
       /\ \A j : HookWork(j)' = HookWork(j)
  <2>1. TableTypes'
    BY <1>7, <1>8, <1>13, <1>16, <1>19, TableTyped, SameConfig DEF TableTypes
  <2>2. accepted' \in Nat /\ nextID' \in Nat
    BY <1>6, <1>11
  <2>3. \A m \in DOMAIN ops : FitNext(ops[m])
    BY <1>20, <1>22
  <2>4. QED
    BY <1>6, <1>13, <1>22, <1>23, <1>24, <2>1, <2>2, <2>3, HarvestFrame
<1>26. Serving' = Serving \cup {n} /\ n \notin Serving
  BY <1>16, <1>17 DEF Serving
<1>27. /\ Cardinality(Live') = Cardinality(Live) + 1 /\ Cardinality(Live) \in Nat
       /\ Cardinality(Serving') = Cardinality(Serving) + 1 /\ Cardinality(Serving) \in Nat
  <2>1. IsFiniteSet(Live) /\ IsFiniteSet(Serving)
    BY <1>7, LiveFinite
  <2>2. QED
    BY <1>16, <1>26, <2>1, FS_AddElement, FS_CardinalityType
<1>28. Cap'
  <2>1. /\ totalAccepts' \in Nat
        /\ totalAccepts' = Cardinality(Accepts') /\ totalAccepts = totalAccepts' + 1
        /\ \A k \in Listeners :
             acceptInflight'[k] = armed'[k] + Occurs(cq', AcceptsOf(k))
    BY <1>6, HarvestCounts
  <2>2. MaxConns \in Nat /\ NListeners \in Nat /\ Larger(MaxConns, NListeners) \in Nat
        /\ completed \in Nat
    BY <1>7, Ranges DEF Types, Larger
  <2>3. /\ Cardinality(Live) + totalAccepts <= Larger(MaxConns, NListeners)
        /\ completed + Cardinality(Serving) <= nextID
    BY <1>7 DEF Cap
  <2>4. MaxConns' = MaxConns /\ NListeners' = NListeners /\ Listeners' = Listeners
    BY <1>8, SameConfig
  <2>5. Cardinality(Live') + totalAccepts' <= Larger(MaxConns', NListeners')
    <3>1. Larger(MaxConns', NListeners') = Larger(MaxConns, NListeners)
      BY <2>4
    <3>2. QED
      BY ONLY <1>27, <2>1, <2>2, <2>3, <3>1
  <2>6. Cardinality(Live') <= MaxConns'
    BY ONLY <1>6, <1>27, <2>2, <2>4
  <2>7. accepted' + Occurs(cq', Clients) <= c'.accepts /\ nextID' <= accepted'
        /\ made' <= nextID'
    BY <1>6, <1>8, <1>10, <1>11, <1>13
  <2>8. completed' + Cardinality(Serving') <= nextID'
    <3>1. completed' = completed /\ nextID' = nextID + 1
      BY <1>6, <1>8
    <3>2. QED
      BY ONLY <1>11, <1>27, <2>2, <2>3, <3>1
  <2>9. QED
    BY <2>1, <2>4, <2>5, <2>6, <2>7, <2>8 DEF Cap
<1>29. ASSUME NEW j \in Ids, j # n PROVE LifeOf(j)'
  <2>1. Away(Head(cq).o, j)
    BY <1>8 DEF Away, WorkOps, ChurnOps, RelayOps
  <2>2. \A m \in DOMAIN ops : Away(ops[m], j)
    BY <1>20, <1>22, <1>29 DEF Away
  <2>3. Steady(j)
    <3>1. HookWork(j)' = HookWork(j)
      BY <1>25
    <3>2. QED
      BY <1>7, <1>8, <1>22, <2>1, <2>2, <3>1, HandledUntouched, UntouchedSteady
  <2>4. mode' = mode /\ ((j \in Live)' <=> j \in Live) /\ (j \in Live => Cc(j)' = Cc(j))
    BY <1>8, <1>16, <1>29, SameConfig
  <2>5. j > nextID' => j > nextID
    <3>1. j \in Nat
      BY <1>7, Ranges
    <3>2. QED
      BY <1>6, <1>11, <3>1
  <2>6. LifeOf(j)
    BY <1>7 DEF Life
  <2>7. QED
    BY <2>3, <2>4, <2>5, <2>6, LifeFrame
<1>30. /\ AskWork(n) = 0 /\ HookWork(n) = 0 /\ RecvWork(n) = 0 /\ CloseWork(n) = 0
       /\ \A d \in Dirs : RelayWork(n, RelayOps, d) = 0
  <2>1. Gone(n)
    BY <1>7, <1>12, <1>16 DEF Life, LifeOf
  <2>2. n > nextID
    BY <1>6, <1>11
  <2>3. ChurnWork(n) = 0 /\ CloseWork(n) = 0 /\ \A d \in Dirs : RelayWork(n, RelayOps, d) = 0
    BY <2>1, <2>2 DEF Gone
  <2>4. AskWork(n) = 0 /\ HookWork(n) = 0 /\ RecvWork(n) = 0
    BY <1>7, <2>3, ChurnParts
  <2>5. QED
    BY <2>3, <2>4
<1>31. /\ AskWork(n)' = 1 /\ RecvWork(n)' = 1 /\ CloseWork(n)' = 0 /\ HookWork(n)' = 0
       /\ \A d \in Dirs : RelayWork(n, RelayOps, d)' = 0
  <2>1. ASSUME NEW K, NEW D
        PROVE  Count(OpsOf(n, K, D))' = Count(OpsOf(n, K, D)) - Hit(Head(cq).o, n, K, D)
                                          + Hit(p, n, K, D)
    <3>1. p \in Ops /\ sq' = sq \o <<p>> /\ cq # <<>> /\ cq' = Tail(cq) /\ kops' = kops
      BY <1>6, <1>8, <1>20
    <3>2. QED
      BY ONLY <1>7, <3>1, HandledOne
  <2>2. /\ Hit(Head(cq).o, n, ChurnOps, {NoDir}) = 0 /\ Hit(p, n, ChurnOps, {NoDir}) = 1
        /\ Hit(Head(cq).o, n, {"RecvReq"}, {NoDir}) = 0 /\ Hit(p, n, {"RecvReq"}, {NoDir}) = 1
        /\ Hit(Head(cq).o, n, {"Close"}, {NoDir}) = 0 /\ Hit(p, n, {"Close"}, {NoDir}) = 0
        /\ \A d \in Dirs : /\ Hit(Head(cq).o, n, RelayOps, {d}) = 0
                           /\ Hit(p, n, RelayOps, {d}) = 0
    BY <1>8, <1>20 DEF Hit, Expect, ChurnOps, RelayOps
  <2>3. AskWork(n)' = 0 - 0 + 1
    BY <1>30, <2>1, <2>2 DEF AskWork
  <2>4. RecvWork(n)' = 0 - 0 + 1
    BY <1>30, <2>1, <2>2 DEF RecvWork
  <2>5. CloseWork(n)' = 0 - 0 + 0
    BY <1>30, <2>1, <2>2 DEF CloseWork
  <2>6. \A d \in Dirs : RelayWork(n, RelayOps, d)' = 0 - 0 + 0
    BY <1>30, <2>1, <2>2, ZenonT(60) DEF RelayWork
  <2>7. QED
    BY <1>25, <1>30, <2>3, <2>4, <2>5, <2>6
<1>32. LifeOf(n)'
  <2>1. ChurnWork(n)' = 1 /\ EarlyWork(n)' = 1
    BY <1>31, DerivedNext
  <2>2. Asking(n)'
    BY <1>16, <1>17, <1>31, <2>1 DEF Asking
  <2>3. Open(n)'
    BY <1>31, <2>2 DEF Open
  <2>4. QED
    BY <1>16, <1>17, <2>3 DEF LifeOf
<1>33. Life'
  <2>1. Ids' = Ids
    BY <1>8, SameConfig
  <2>2. QED
    BY <1>29, <1>32, <2>1 DEF Life
<1>34. \A g \in FDs : Owners(g)' = Owners(g) \cup (IF g = f THEN {n} ELSE {})
  <2> SUFFICES ASSUME NEW g \in FDs PROVE Owners(g)' = Owners(g) \cup (IF g = f THEN {n} ELSE {})
    OBVIOUS
  <2>1. g # NoFD
    BY <1>7, Ranges DEF NoFD
  <2>2. HeldBy(n)' = {x.client, x.up} \cup PipeEnds(x)
    BY <1>16 DEF HeldBy, PipeEnds
  <2>3. g \in HeldBy(n)' <=> g = f
    BY <1>17, <1>18, <2>1, <2>2
  <2>4. \A j \in Serving : HeldBy(j)' = HeldBy(j)
    BY <1>16 DEF HeldBy, PipeEnds, Serving
  <2>5. QED
    BY <1>26, <2>3, <2>4 DEF Owners
<1>35. DescriptorsOwned'
  <2>1. ASSUME NEW g \in FDs
        PROVE  Holders(g)' = Holders(g) /\ (fdt'[g] = Free <=> fdt[g] = Free)
    <3>1. Cardinality(Owners(g)') = Cardinality(Owners(g)) + Expect(g = f)
      <4>1. CASE g = f
        <5>1. Owners(g)' = {n} /\ Owners(g) = {}
          BY <1>9, <1>34, <4>1
        <5>2. Cardinality(Owners(g)') = 1 /\ Cardinality(Owners(g)) = 0
          BY <5>1, FS_Singleton, FS_EmptySet
        <5>3. QED
          BY <4>1, <5>2 DEF Expect
      <4>2. CASE g # f
        <5>1. Owners(g)' = Owners(g) /\ Cardinality(Owners(g)) \in Nat
          BY <1>7, <1>34, <4>2, HoldersParts
        <5>2. QED
          BY <4>2, <5>1 DEF Expect
      <4>3. QED
        BY <4>1, <4>2
    <3>2. Occurs(sq', ClosesOf(g)) = Occurs(sq, ClosesOf(g))
      <4>1. \A m \in DOMAIN ops : ops[m] \notin ClosesOf(g)
        BY <1>20, <1>22 DEF ClosesOf
      <4>2. Occurs(ops, ClosesOf(g)) = 0
        BY <1>22, <4>1, OccursNone
      <4>3. Occurs(sq', ClosesOf(g)) = Occurs(sq, ClosesOf(g)) + 0
        BY <1>7, <1>22, <4>2, SeqTypes, OccursConcat
      <4>4. QED
        BY <1>7, <4>3, CountNat
    <3>3. InKernel(ClosesOf(g))' = InKernel(ClosesOf(g))
      BY <1>8, InKernelIsInBag
    <3>4. /\ Occurs(ready', ResultsAt(g)) = Occurs(ready, ResultsAt(g))
          /\ Occurs(drained', ResultsAt(g)) = Occurs(drained, ResultsAt(g))
      BY <1>8
    <3>5. AtClients(g)' = AtClients(g) - Expect(g = f)
      BY <1>10
    <3>6. /\ AtClients(g) \in Nat /\ Cardinality(Owners(g)) \in Nat
          /\ Occurs(sq, ClosesOf(g)) \in Nat /\ InKernel(ClosesOf(g)) \in Nat
          /\ Occurs(ready, ResultsAt(g)) \in Nat /\ Occurs(drained, ResultsAt(g)) \in Nat
          /\ Expect(g = f) \in Nat
      BY <1>7, HoldersParts, CountNat, SeqTypes, AtFinite DEF Expect
    <3>7. Holders(g)' = Holders(g)
      BY <3>1, <3>2, <3>3, <3>4, <3>5, <3>6, HoldersSum
    <3>8. fdt'[g] = Free <=> fdt[g] = Free
      BY <1>9, <1>12, <1>19 DEF Free
    <3>9. QED
      BY <3>7, <3>8
  <2>2. QED
    BY <1>7, <1>8, <2>1, OwnedKeeps
<1>36. Sockets'
  <2>1. \A j \in Serving' : j # n => j \in Serving /\ Cc(j)' = Cc(j)
    BY <1>16, <1>26 DEF Serving
  <2>2. \A g \in FDs : fdt'[g] = fdt[g] \/ Owners(g) \subseteq {n}
    BY <1>9, <1>19
  <2>3. SocketsOf(n)'
    <3>1. f # NoFD
      BY <1>7, <1>9, Ranges DEF NoFD
    <3>2. QED
      BY <1>16, <1>17, <1>18, <1>19, <3>1 DEF SocketsOf, PipeEnds
  <2>4. QED
    BY <1>7, <2>1, <2>2, <2>3, SocketsKeep
<1>37. Tags'
  <2>1. \A j \in DOMAIN cq' : \E k \in DOMAIN cq : cq'[j] = cq[k]
    BY <1>7, <1>8, ShapesTail
  <2>2. AtClients(f)' = 0 /\ AtResults(f)' = 0
    <3>1. AtClients(f)' = 1 - 1
      BY <1>9, <1>10 DEF Expect
    <3>2. QED
      BY <1>9, <1>25, <3>1
  <2>3. n \in 0..c.accepts
    BY <1>11, <1>12 DEF Ids
  <2>4. \A g \in FDs : \/ fdt'[g] = fdt[g]
                       \/ /\ fdt'[g] = Free \/ fdt'[g] \in 0..c.accepts
                          /\ AtClients(g)' = 0 /\ AtResults(g)' = 0
    BY <1>19, <2>2, <2>3
  <2>5. QED
    BY <1>7, <1>8, <1>25, <2>1, <2>4, TagsKeep
<1>38. QED
  BY <1>16, <1>25, <1>28, <1>33, <1>35, <1>36, <1>37 DEF Inv

-----------------------------------------------------------------------------
(* The kernel.                                                             *)

(* What a completion leaves alone. *)
LEMMA CompleteFacts ==
  ASSUME Inv, NEW o \in Ops, NEW res \in Int, Complete(o, res)
  PROVE  /\ waiting /\ waiting' = waiting /\ c' = c /\ left' = left /\ sq' = sq /\ sq = <<>>
         /\ drained = <<>> /\ left = 0
         /\ acceptInflight' = acceptInflight /\ totalAccepts' = totalAccepts
         /\ accepted' = accepted /\ completed' = completed
         /\ conns' = conns /\ cell' = cell /\ made' = made /\ connFree' = connFree
         /\ nextID' = nextID /\ jobs' = jobs /\ running' = running /\ ready' = ready
         /\ drained' = drained
         /\ cq' = Append(cq, [o |-> o, res |-> res]) /\ [o |-> o, res |-> res] \in Completions
<1>1. /\ waiting /\ waiting' = waiting /\ c' = c /\ left' = left /\ sq' = sq
      /\ acceptInflight' = acceptInflight /\ totalAccepts' = totalAccepts
      /\ accepted' = accepted /\ completed' = completed
      /\ conns' = conns /\ cell' = cell /\ made' = made /\ connFree' = connFree
      /\ nextID' = nextID /\ jobs' = jobs /\ running' = running /\ ready' = ready
      /\ drained' = drained
      /\ cq' = Append(cq, [o |-> o, res |-> res])
  BY DEF Complete, loopVars, counters, acceptVars, tableVars, hookVars
<1>2. sq = <<>> /\ drained = <<>> /\ left = 0
  BY <1>1, InvParts DEF Loop
<1>3. [o |-> o, res |-> res] \in Completions
  BY DEF Completions
<1>4. QED
  BY <1>1, <1>2, <1>3

(* The parts that do not depend on what completes. *)
LEMMA CompleteFrame ==
  ASSUME Inv, NEW o \in Ops, NEW res \in Int, Complete(o, res), Formed(o),
         o.op = "Accept" /\ res > 0 => res \in FDs,
         kops' \in [DOMAIN kops' -> Nat \ {0}], IsFiniteSet(DOMAIN kops'),
         DOMAIN kops' \subseteq DOMAIN kops,
         armed' \in [Listeners -> Nat], fdt' \in [FDs -> Int]
  PROVE  /\ Types' /\ Shapes' /\ Loop' /\ Structs' /\ BuffersNotShared' /\ Home'
         /\ Live' = Live /\ Serving' = Serving /\ \A j : Cc(j)' = Cc(j)
         /\ HookKeeps /\ \A f : AtResults(f)' = AtResults(f)
         /\ \A j : HookWork(j)' = HookWork(j)
         /\ \A V : Occurs(cq', V) = Occurs(cq, V) + Expect([o |-> o, res |-> res] \in V)
                   /\ Occurs(cq, V) \in Nat
         /\ \A j \in DOMAIN cq' : (j \in DOMAIN cq /\ cq'[j] = cq[j])
                                   \/ cq'[j] = [o |-> o, res |-> res]
<1> DEFINE e == [o |-> o, res |-> res]
<1>1. /\ waiting /\ waiting' = waiting /\ c' = c /\ left' = left /\ sq' = sq /\ sq = <<>>
      /\ drained = <<>> /\ left = 0
      /\ acceptInflight' = acceptInflight /\ totalAccepts' = totalAccepts
      /\ accepted' = accepted /\ completed' = completed
      /\ conns' = conns /\ cell' = cell /\ made' = made /\ connFree' = connFree
      /\ nextID' = nextID /\ jobs' = jobs /\ running' = running /\ ready' = ready
      /\ drained' = drained /\ cq' = Append(cq, e) /\ e \in Completions
  BY CompleteFacts
<1>2. Types /\ Shapes /\ Loop /\ Structs /\ BuffersNotShared /\ Home
  BY InvParts
<1>3. /\ Ids' = Ids /\ FDs' = FDs /\ Listeners' = Listeners /\ mode' = mode
  BY <1>1, SameConfig
<1>4. Live' = Live /\ Serving' = Serving /\ \A j : Cc(j)' = Cc(j)
  BY <1>1, TableStays
<1>5. cq \in Seq(Completions) /\ e.o = o /\ e.res = res
  BY <1>2, SeqTypes
<1>6. /\ cq' \in Seq(Completions) /\ Len(cq') = Len(cq) + 1
      /\ \A j \in DOMAIN cq' : (j \in DOMAIN cq /\ cq'[j] = cq[j]) \/ cq'[j] = e
  <2> HIDE DEF e
  <2>1. QED
    BY <1>1, <1>5
<1>7. \A V : Occurs(cq', V) = Occurs(cq, V) + Expect(e \in V) /\ Occurs(cq, V) \in Nat
  <2> HIDE DEF e
  <2>1. QED
    BY <1>1, <1>5, OccursAppend, AtFinite
<1>8. /\ HookKeeps /\ \A f : AtResults(f)' = AtResults(f)
      /\ \A j : HookWork(j)' = HookWork(j)
  BY <1>1, <1>2, HooksSame
<1>9. Types'
  <2>1. DOMAIN kops' \in SUBSET HeldOps
    BY <1>2 DEF Types
  <2>2. left' \in Nat
    BY <1>1, <1>2 DEF Types
  <2>3. c' \in Configs /\ waiting' \in BOOLEAN
        /\ acceptInflight' \in [Listeners' -> Nat] /\ armed' \in [Listeners' -> Nat]
        /\ totalAccepts' \in Nat /\ accepted' \in Nat /\ completed' \in Nat
        /\ nextID' \in Nat /\ made' \in Nat
        /\ conns' \in [Ids' -> Nat] /\ cell' \in [Ids' -> Conn] /\ connFree' \in Seq(Nat)
        /\ sq' \in Seq(Ops) /\ fdt' \in [FDs' -> Int]
        /\ jobs' \in Seq(Nat) /\ running' \in SUBSET Ids'
        /\ ready' \in Seq(Results) /\ drained' \in Seq(Results)
    BY <1>1, <1>2, <1>3 DEF Types
  <2>4. QED
    BY <1>6, <2>1, <2>2, <2>3 DEF Types
<1>10. Shapes'
  <2>1. \A p : Formed(p)' <=> Formed(p)
    BY <1>1, FormedSame
  <2>2. \A h \in DOMAIN kops' : Formed(h.o)' /\ h.o.op # "Accept"
    BY <1>2, <2>1 DEF Shapes
  <2>3. ASSUME NEW j \in DOMAIN cq'
        PROVE  /\ Formed(cq[j].o)'
               /\ (cq'[j].o.op = "Accept" /\ cq'[j].res > 0 => cq'[j].res \in FDs')
    <3>1. Formed(cq'[j].o) /\ (cq'[j].o.op = "Accept" /\ cq'[j].res > 0 => cq'[j].res \in FDs)
      <4>1. CASE j \in DOMAIN cq /\ cq'[j] = cq[j]
        BY <1>2, <4>1 DEF Shapes
      <4>2. CASE cq'[j] = e
        BY <1>5, <4>2
      <4>3. QED
        BY <1>6, <4>1, <4>2
    <3>2. QED
      BY <1>1, <1>3, <3>1 DEF Formed, mode
  <2>4. \A j \in DOMAIN sq' : Formed(sq[j])' /\ sq'[j].op # "Accept"
    BY <1>1
  <2>5. QED
    BY <1>8, <2>2, <2>3, <2>4 DEF Shapes, HookKeeps, HookShapes
<1>11. Loop'
  <2>1. Len(cq') \in Nat
    BY <1>6
  <2>2. QED
    BY <1>1, <2>1 DEF Loop
<1>12. Structs'
  BY <1>1, <1>2, <1>3, <1>4 DEF Structs, InRange
<1>13. BuffersNotShared'
  <2>1. Prepared' \subseteq Prepared
    BY <1>1 DEF Prepared
  <2>2. QED
    BY <1>1, <1>2, <2>1 DEF BuffersNotShared
<1>14. Home'
  BY <1>1, <1>2, <1>3 DEF Home, OpsStayHome
<1>15. QED
  BY <1>4, <1>6, <1>7, <1>8, <1>9, <1>10, <1>11, <1>12, <1>13, <1>14

(* An operation of the bag completes. *)
LEMMA TakeStep ==
  ASSUME Inv, NEW h \in DOMAIN kops, Take(h), NEW res \in Int, Complete(h.o, res),
         fdt' \in [FDs -> Int],
         \A f \in FDs : \/ fdt'[f] = fdt[f] /\ h.o \notin ClosesOf(f)
                        \/ fdt'[f] = Free /\ h.o \in ClosesOf(f)
  PROVE  Inv'
<1> DEFINE e == [o |-> h.o, res |-> res]
<1>1. /\ Types /\ Shapes /\ Loop /\ Life /\ Structs /\ Cap /\ Sockets
      /\ BuffersNotShared /\ DescriptorsOwned /\ Tags /\ Home
  BY InvParts
<1>2. h.o \in Ops /\ Formed(h.o) /\ h.o.op # "Accept"
  BY <1>1 DEF Types, HeldOps, Shapes
<1>3. /\ c' = c /\ sq' = sq /\ acceptInflight' = acceptInflight /\ totalAccepts' = totalAccepts
      /\ accepted' = accepted /\ completed' = completed
      /\ conns' = conns /\ cell' = cell /\ made' = made /\ connFree' = connFree
      /\ nextID' = nextID /\ ready' = ready /\ drained' = drained
      /\ cq' = Append(cq, e)
  BY <1>2, CompleteFacts
<1>4. armed' = armed
  BY DEF Take
<1>5. \A V : /\ Count(V)' = Count(V)
             /\ InKernel(V)' = InKernel(V) - Expect(h.o \in V)
  BY <1>1, <1>3, CountTaken
<1>6. kops' \in [DOMAIN kops' -> Nat \ {0}] /\ IsFiniteSet(DOMAIN kops')
      /\ DOMAIN kops' \subseteq DOMAIN kops
  BY <1>1, <1>3, CountTaken
<1>7. armed' \in [Listeners -> Nat]
  BY <1>1, <1>4 DEF Types
<1>8. /\ Types' /\ Shapes' /\ Loop' /\ Structs' /\ BuffersNotShared' /\ Home'
      /\ Live' = Live /\ Serving' = Serving /\ \A j : Cc(j)' = Cc(j)
      /\ HookKeeps /\ \A f : AtResults(f)' = AtResults(f)
      /\ \A j : HookWork(j)' = HookWork(j)
      /\ \A V : Occurs(cq', V) = Occurs(cq, V) + Expect(e \in V) /\ Occurs(cq, V) \in Nat
      /\ \A j \in DOMAIN cq' : (j \in DOMAIN cq /\ cq'[j] = cq[j]) \/ cq'[j] = e
  BY <1>2, <1>6, <1>7, CompleteFrame
<1>9. e.o = h.o
  OBVIOUS
<1> HIDE DEF e
<1>10. ASSUME NEW V, e \notin V PROVE Occurs(cq', V) = Occurs(cq, V)
  BY <1>8, <1>10 DEF Expect
<1>11. e \notin Clients /\ \A k : e \notin AcceptsOf(k) /\ e \notin ClientAt(k)
  BY <1>2, <1>9 DEF Clients, AcceptsOf, ClientAt
<1>12. Cap'
  <2>1. completed' \in Nat
        /\ completed' + Cardinality(Serving') <= completed + Cardinality(Serving)
    BY <1>1, <1>3, <1>8, ServedKept
  <2>2. Live' \subseteq Live
    BY <1>8
  <2>3. QED
    BY <1>1, <1>3, <1>4, <1>10, <1>11, <2>1, <2>2, CapKeeps
<1>13. Life'
  <2>1. ASSUME NEW j \in Ids PROVE Steady(j)
    <3>1. HookWork(j)' = HookWork(j)
      BY <1>8
    <3>2. QED
      BY <1>5, <3>1, UntouchedSteady DEF Untouched
  <2>2. QED
    BY <1>1, <1>3, <2>1, LifeSteady
<1>14. DescriptorsOwned'
  <2> SUFFICES ASSUME NEW f \in FDs PROVE Holders(f)' = IF fdt'[f] = Free THEN 0 ELSE 1
    BY <1>3, SameConfig DEF DescriptorsOwned
  <2>1. Owners(f)' = Owners(f)
    BY <1>8 DEF Owners, HeldBy
  <2>2. AtClients(f)' = AtClients(f)
    BY <1>10, <1>11 DEF AtClients
  <2>3. Holders(f)' = Holders(f) - Expect(h.o \in ClosesOf(f)) /\ Holders(f) \in Nat
    <3>1. InKernel(ClosesOf(f))' = InKernel(ClosesOf(f)) - Expect(h.o \in ClosesOf(f))
      BY <1>5
    <3>2. /\ AtClients(f) \in Nat /\ Cardinality(Owners(f)) \in Nat
          /\ Occurs(sq, ClosesOf(f)) \in Nat /\ InKernel(ClosesOf(f)) \in Nat
          /\ Occurs(ready, ResultsAt(f)) \in Nat /\ Occurs(drained, ResultsAt(f)) \in Nat
          /\ Expect(h.o \in ClosesOf(f)) \in Nat
      BY <1>1, HoldersParts, CountNat, SeqTypes, AtFinite DEF Expect
    <3>3. /\ Occurs(ready', ResultsAt(f)) = Occurs(ready, ResultsAt(f))
          /\ Occurs(drained', ResultsAt(f)) = Occurs(drained, ResultsAt(f))
          /\ Occurs(sq', ClosesOf(f)) = Occurs(sq, ClosesOf(f))
      BY <1>3
    <3>4. QED
      BY <2>1, <2>2, <3>1, <3>2, <3>3, HoldersSum
  <2>4. Holders(f) = IF fdt[f] = Free THEN 0 ELSE 1
    BY <1>1 DEF DescriptorsOwned
  <2>5. CASE h.o \notin ClosesOf(f)
    BY <2>3, <2>4, <2>5 DEF Expect
  <2>6. CASE h.o \in ClosesOf(f)
    <3>1. InKernel(ClosesOf(f)) # 0
      BY <1>1, <2>6, KopsBag, InBagNone, InKernelIsInBag
    <3>2. Holders(f) # 0
      <4>1. /\ AtClients(f) \in Nat /\ Cardinality(Owners(f)) \in Nat
            /\ Occurs(sq, ClosesOf(f)) \in Nat /\ InKernel(ClosesOf(f)) \in Nat
            /\ Occurs(ready, ResultsAt(f)) \in Nat /\ Occurs(drained, ResultsAt(f)) \in Nat
        BY <1>1, HoldersParts, CountNat, SeqTypes, AtFinite
      <4>2. Holders(f) = AtClients(f) + Cardinality(Owners(f)) + Occurs(sq, ClosesOf(f))
                         + InKernel(ClosesOf(f)) + Occurs(ready, ResultsAt(f))
                         + Occurs(drained, ResultsAt(f))
        BY HoldersSum
      <4>3. QED
        BY ONLY <3>1, <4>1, <4>2
    <3>3. Holders(f) = 1
      BY <2>4, <3>2
    <3>4. QED
      BY <2>3, <2>6, <3>3 DEF Expect
  <2>7. QED
    BY <2>5, <2>6
<1>15. ASSUME NEW f \in FDs, h.o \in ClosesOf(f)
       PROVE  Owners(f) = {} /\ AtClients(f)' = 0 /\ AtResults(f)' = 0
  <2>1. InKernel(ClosesOf(f)) # 0
    BY <1>1, <1>15, KopsBag, InBagNone, InKernelIsInBag
  <2>2. Occurs(sq, ClosesOf(f)) \in Nat /\ InKernel(ClosesOf(f)) \in Nat
        /\ AtClients(f) \in Nat /\ AtResults(f) \in Nat
    BY <1>1, CountNat, HoldersParts
  <2>3. AtCloses(f) >= 1 /\ AtCloses(f) \in Nat
    BY <2>1, <2>2 DEF AtCloses
  <2>4. AtClients(f) + AtCloses(f) + AtResults(f) >= 1
    BY <2>2, <2>3
  <2>5. Owners(f) = {} /\ AtClients(f) + AtCloses(f) + AtResults(f) = 1
    BY <1>1, <2>4, OwnedElsewhere
  <2>6. AtClients(f) = 0 /\ AtResults(f) = 0
    BY <2>2, <2>3, <2>5
  <2>7. AtClients(f)' = AtClients(f)
    BY <1>10, <1>11 DEF AtClients
  <2>8. QED
    BY <1>8, <2>5, <2>6, <2>7
<1>16. Sockets'
  <2>1. \A j \in Serving' : j # 0 => j \in Serving /\ Cc(j)' = Cc(j)
    BY <1>8
  <2>2. \A f \in FDs : fdt'[f] = fdt[f] \/ Owners(f) \subseteq {0}
    BY <1>15
  <2>3. 0 \notin Serving'
    BY <1>1, <1>8, LiveFinite, Ranges
  <2>4. QED
    BY <1>1, <2>1, <2>2, <2>3, SocketsKeep
<1>17. Tags'
  <2>1. FDs' = FDs
    BY <1>3, SameConfig
  <2>2. ASSUME NEW j \in DOMAIN cq', cq'[j] \in Clients PROVE fdt'[cq'[j].res] = 0
    <3>1. j \in DOMAIN cq /\ cq'[j] = cq[j]
      BY <1>8, <1>11, <2>2
    <3>2. PICK f \in FDs : f = cq[j].res
      BY <1>1, <2>2, <3>1 DEF Shapes, Clients
    <3>3. fdt[f] = 0
      BY <1>1, <2>2, <3>1, <3>2 DEF Tags
    <3>4. AtClients(f)' # 0
      <4>1. cq' \in Seq(Completions)
        BY <1>8 DEF Types
      <4>2. cq'[j] \in ClientAt(f)
        BY <2>2, <3>1, <3>2 DEF Clients, ClientAt
      <4>3. QED
        BY <4>1, <4>2, OccursNone DEF AtClients
    <3>5. h.o \notin ClosesOf(f)
      BY <1>15, <3>4
    <3>6. QED
      BY <3>1, <3>2, <3>3, <3>5
  <2>3. ASSUME NEW s, s \in {ready, drained}, NEW j \in DOMAIN s, s[j].fd # NoFD
        PROVE  fdt'[s[j].fd] = s[j].id
    <3>1. s[j].fd \in FDs /\ fdt[s[j].fd] = s[j].id /\ s \in Seq(Results)
      BY <1>1, <2>3, SeqTypes DEF Shapes, Tags, FDs, NoFD
    <3>2. PICK f \in FDs : f = s[j].fd
      BY <3>1
    <3>3. AtResults(f)' # 0
      <4>1. s[j] \in ResultsAt(f)
        BY <3>1, <3>2 DEF ResultsAt
      <4>2. Occurs(s, ResultsAt(f)) # 0
        BY <3>1, <4>1, OccursNone
      <4>3. Occurs(ready, ResultsAt(f)) \in Nat /\ Occurs(drained, ResultsAt(f)) \in Nat
        BY <1>1, SeqTypes, AtFinite
      <4>4. AtResults(f) # 0
        <5>1. CASE s = ready
          BY <4>2, <4>3, <5>1 DEF AtResults
        <5>2. CASE s = drained
          BY <4>2, <4>3, <5>2 DEF AtResults
        <5>3. QED
          BY <2>3, <5>1, <5>2
      <4>5. QED
        BY <1>8, <4>4
    <3>4. h.o \notin ClosesOf(f)
      BY <1>15, <3>3
    <3>5. QED
      BY <3>1, <3>2, <3>4
  <2>4. \A f \in FDs : fdt'[f] = Free \/ fdt'[f] \in 0..c.accepts
    BY <1>1 DEF Tags
  <2>5. /\ \A j \in DOMAIN ready' : ready'[j].fd # NoFD => fdt'[ready'[j].fd] = ready'[j].id
        /\ \A j \in DOMAIN drained' :
             drained'[j].fd # NoFD => fdt'[drained'[j].fd] = drained'[j].id
    BY <1>3, <2>3
  <2>6. QED
    BY <1>3, <2>1, <2>2, <2>4, <2>5 DEF Tags
<1>18. QED
  BY <1>8, <1>12, <1>13, <1>14, <1>16, <1>17 DEF Inv

(* The accept of a listener completes: with an error, or with a client and *)
(* a number that was free.                                                 *)
LEMMA AcceptArrives ==
  ASSUME Inv, NEW k \in Listeners, TakeAccept(k), NEW res \in Int, Complete(AcceptOp(k), res),
         \/ res = -1 /\ fdt' = fdt
         \/ /\ res \in FDs /\ fdt[res] = Free /\ fdt' = [fdt EXCEPT ![res] = 0]
            /\ accepted + Occurs(cq, Clients) < c.accepts
  PROVE  Inv'
<1> DEFINE e == [o |-> AcceptOp(k), res |-> res]
<1>1. /\ Types /\ Shapes /\ Loop /\ Life /\ Structs /\ Cap /\ Sockets
      /\ BuffersNotShared /\ DescriptorsOwned /\ Tags /\ Home
  BY InvParts
<1>2. /\ AcceptOp(k) \in Ops /\ Formed(AcceptOp(k)) /\ AcceptOp(k).op = "Accept"
      /\ AcceptOp(k).id = k /\ AcceptOp(k).fds = {}
  BY <1>1, Ranges DEF AcceptOp, Op, Ops, OpNames, Formed, ChurnOps
<1>3. /\ c' = c /\ sq' = sq /\ acceptInflight' = acceptInflight /\ totalAccepts' = totalAccepts
      /\ accepted' = accepted /\ completed' = completed
      /\ conns' = conns /\ cell' = cell /\ made' = made /\ connFree' = connFree
      /\ nextID' = nextID /\ ready' = ready /\ drained' = drained
      /\ cq' = Append(cq, e) /\ e \in Completions
  BY <1>2, CompleteFacts
<1>4. kops' = kops /\ armed[k] > 0 /\ armed' = [armed EXCEPT ![k] = @ - 1]
  BY DEF TakeAccept
<1>5. armed' \in [Listeners -> Nat] /\ armed \in [Listeners -> Nat]
  <2>1. armed \in [Listeners -> Nat]
    BY <1>1 DEF Types
  <2>2. QED
    BY ONLY <1>4, <2>1, k \in Listeners
<1>6. fdt' \in [FDs -> Int] /\ fdt \in [FDs -> Int]
  BY <1>1, TableTyped
<1>7. FDs \subseteq Nat \ {0} /\ FDs' = FDs /\ Listeners' = Listeners /\ Listeners \subseteq Nat \ {0}
  BY <1>1, <1>3, Ranges, SameConfig
<1>8. /\ Types' /\ Shapes' /\ Loop' /\ Structs' /\ BuffersNotShared' /\ Home'
      /\ Live' = Live /\ Serving' = Serving /\ \A j : Cc(j)' = Cc(j)
      /\ HookKeeps /\ \A f : AtResults(f)' = AtResults(f)
      /\ \A j : HookWork(j)' = HookWork(j)
      /\ \A V : Occurs(cq', V) = Occurs(cq, V) + Expect(e \in V) /\ Occurs(cq, V) \in Nat
      /\ \A j \in DOMAIN cq' : (j \in DOMAIN cq /\ cq'[j] = cq[j]) \/ cq'[j] = e
  <2>1. kops' \in [DOMAIN kops' -> Nat \ {0}] /\ IsFiniteSet(DOMAIN kops')
        /\ DOMAIN kops' \subseteq DOMAIN kops
    BY <1>1, <1>4, KopsBag
  <2>2. AcceptOp(k).op = "Accept" /\ res > 0 => res \in FDs
    OBVIOUS
  <2>3. QED
    BY <1>2, <1>5, <1>6, <2>1, <2>2, CompleteFrame
<1>9. e.o = AcceptOp(k) /\ e.res = res
  OBVIOUS
<1> HIDE DEF e
<1>10. /\ e \in Clients <=> res > 0
       /\ \A j : e \in AcceptsOf(j) <=> j = k
       /\ \A f : e \in ClientAt(f) <=> f = res
  BY <1>2, <1>3, <1>9 DEF Clients, AcceptsOf, ClientAt
<1>11. \A f : AtClients(f)' = AtClients(f) + Expect(f = res) /\ AtClients(f) \in Nat
  BY <1>8, <1>10 DEF AtClients
<1>12. Cap'
  <2>1. ASSUME NEW j \in Listeners
        PROVE  acceptInflight'[j] = armed'[j] + Occurs(cq', AcceptsOf(j))
    <3>1. acceptInflight[j] = armed[j] + Occurs(cq, AcceptsOf(j))
      BY <1>1 DEF Cap
    <3>2. Occurs(cq', AcceptsOf(j)) = Occurs(cq, AcceptsOf(j)) + Expect(j = k)
          /\ Occurs(cq, AcceptsOf(j)) \in Nat
      BY <1>8, <1>10
    <3>3. CASE j = k
      <4>1. armed'[j] = armed[j] - 1 /\ armed[j] \in Nat
        BY <1>4, <1>5, <3>3
      <4>2. Expect(j = k) = 1
        BY <3>3 DEF Expect
      <4>3. QED
        BY <1>3, <3>1, <3>2, <4>1, <4>2
    <3>4. CASE j # k
      <4>1. armed'[j] = armed[j] /\ armed[j] \in Nat
        BY <1>4, <1>5, <3>4
      <4>2. Expect(j = k) = 0
        BY <3>4 DEF Expect
      <4>3. QED
        BY <1>3, <3>1, <3>2, <4>1, <4>2
    <3>5. QED
      BY <3>3, <3>4
  <2>2. accepted' + Occurs(cq', Clients) <= c.accepts
    <3>1. Occurs(cq', Clients) = Occurs(cq, Clients) + Expect(res > 0)
          /\ Occurs(cq, Clients) \in Nat /\ accepted \in Nat /\ c.accepts \in Nat
      <4>1. accepted \in Nat /\ c.accepts \in Nat
        BY <1>1, Ranges DEF Types
      <4>2. Expect(e \in Clients) = Expect(res > 0)
        BY <1>10 DEF Expect
      <4>3. QED
        BY <1>8, <4>1, <4>2
    <3>2. accepted + Occurs(cq, Clients) <= c.accepts
      BY <1>1 DEF Cap
    <3>3. QED
      BY <1>3, <3>1, <3>2 DEF Expect
  <2>3. Accepts' = Accepts /\ MaxConns' = MaxConns /\ NListeners' = NListeners
    BY <1>3, SameConfig DEF Accepts
  <2>4. /\ totalAccepts = Cardinality(Accepts)
        /\ Cardinality(Live) <= MaxConns
        /\ Cardinality(Live) + totalAccepts <= Larger(MaxConns, NListeners)
        /\ nextID <= accepted /\ made <= nextID
        /\ completed + Cardinality(Serving) <= nextID
    BY <1>1 DEF Cap
  <2>5. /\ totalAccepts' = Cardinality(Accepts')
        /\ Cardinality(Live') <= MaxConns'
        /\ Cardinality(Live') + totalAccepts' <= Larger(MaxConns', NListeners')
        /\ nextID' <= accepted' /\ made' <= nextID'
        /\ completed' + Cardinality(Serving') <= nextID'
    BY <1>3, <1>8, <2>3, <2>4 DEF Larger
  <2>6. QED
    BY <1>3, <1>7, <2>1, <2>2, <2>5 DEF Cap
<1>13. Life'
  <2>1. ASSUME NEW j \in Ids PROVE Steady(j)
    <3>1. HookWork(j)' = HookWork(j)
      BY <1>8
    <3>2. ASSUME NEW K \in SUBSET WorkOps, NEW D
          PROVE  Count(OpsOf(j, K, D))' = Count(OpsOf(j, K, D))
      <4>1. Away(AcceptOp(k), j)
        BY <1>2 DEF Away, WorkOps, ChurnOps, RelayOps
      <4>2. e.o \notin OpsOf(j, K, D)
        BY <1>9, <4>1, AwayNot
      <4>3. QED
        BY <1>1, <1>3, <1>4, <4>2, CountAccepted
    <3>3. QED
      BY <3>1, <3>2, UntouchedSteady DEF Untouched
  <2>2. QED
    BY <1>1, <1>3, <2>1, LifeSteady
<1>14. DescriptorsOwned'
  <2> SUFFICES ASSUME NEW f \in FDs PROVE Holders(f)' = IF fdt'[f] = Free THEN 0 ELSE 1
    BY <1>7 DEF DescriptorsOwned
  <2>1. Owners(f)' = Owners(f)
    BY <1>8 DEF Owners, HeldBy
  <2>2. InKernel(ClosesOf(f))' = InKernel(ClosesOf(f))
    BY <1>4 DEF InKernel, Copies
  <2>3. Holders(f)' = Holders(f) + Expect(f = res)
    <3>1. /\ AtClients(f) \in Nat /\ Cardinality(Owners(f)) \in Nat
          /\ Occurs(sq, ClosesOf(f)) \in Nat /\ InKernel(ClosesOf(f)) \in Nat
          /\ Occurs(ready, ResultsAt(f)) \in Nat /\ Occurs(drained, ResultsAt(f)) \in Nat
          /\ Expect(f = res) \in Nat
      BY <1>1, HoldersParts, CountNat, SeqTypes, AtFinite DEF Expect
    <3>2. /\ Occurs(ready', ResultsAt(f)) = Occurs(ready, ResultsAt(f))
          /\ Occurs(drained', ResultsAt(f)) = Occurs(drained, ResultsAt(f))
          /\ Occurs(sq', ClosesOf(f)) = Occurs(sq, ClosesOf(f))
      BY <1>3
    <3>3. QED
      BY <1>11, <2>1, <2>2, <3>1, <3>2, HoldersSum
  <2>4. Holders(f) = IF fdt[f] = Free THEN 0 ELSE 1
    BY <1>1 DEF DescriptorsOwned
  <2>5. CASE f # res
    <3>1. fdt'[f] = fdt[f]
      BY <1>6, <2>5
    <3>2. QED
      BY <2>3, <2>4, <2>5, <3>1 DEF Expect
  <2>6. CASE f = res
    <3>1. fdt[f] = Free /\ fdt'[f] = 0
      BY <1>6, <1>7, <2>6
    <3>2. QED
      BY <2>3, <2>4, <2>6, <3>1 DEF Expect, Free
  <2>7. QED
    BY <2>5, <2>6
<1>15. Sockets'
  <2>1. \A j \in Serving' : j # 0 => j \in Serving /\ Cc(j)' = Cc(j)
    BY <1>8
  <2>2. ASSUME NEW f \in FDs PROVE fdt'[f] = fdt[f] \/ Owners(f) \subseteq {0}
    <3>1. CASE fdt[f] = Free
      BY <1>1, <3>1, OwnedByNobody
    <3>2. CASE fdt[f] # Free
      BY <1>6, <3>2
    <3>3. QED
      BY <3>1, <3>2
  <2>3. 0 \notin Serving'
    BY <1>1, <1>8, LiveFinite, Ranges
  <2>4. QED
    BY <1>1, <2>1, <2>2, <2>3, SocketsKeep
<1>16. ASSUME NEW f \in FDs, fdt[f] # Free PROVE fdt'[f] = fdt[f]
  BY <1>6, <1>16
<1>17. Tags'
  <2>1. \A f \in FDs : fdt'[f] = Free \/ fdt'[f] \in 0..c.accepts
    <3>1. 0 \in 0..c.accepts
      BY <1>1, Ranges
    <3>2. \A f \in FDs : fdt[f] = Free \/ fdt[f] \in 0..c.accepts
      BY <1>1 DEF Tags
    <3>3. QED
      BY <1>6, <3>1, <3>2
  <2>2. ASSUME NEW j \in DOMAIN cq', cq'[j] \in Clients PROVE fdt'[cq'[j].res] = 0
    <3>1. CASE j \in DOMAIN cq /\ cq'[j] = cq[j]
      <4>1. cq[j].res \in FDs /\ fdt[cq[j].res] = 0
        BY <1>1, <2>2, <3>1 DEF Tags, Shapes, Clients
      <4>2. QED
        BY <1>16, <3>1, <4>1 DEF Free
    <3>2. CASE cq'[j] = e
      <4>1. res > 0
        BY <1>10, <2>2, <3>2
      <4>2. res \in FDs /\ fdt' = [fdt EXCEPT ![res] = 0]
        BY <4>1
      <4>3. QED
        BY <1>6, <1>9, <3>2, <4>2
    <3>3. QED
      BY <1>8, <3>1, <3>2
  <2>3. ASSUME NEW s, s \in {ready, drained}, NEW j \in DOMAIN s, s[j].fd # NoFD
        PROVE  fdt'[s[j].fd] = s[j].id
    <3>1. s[j].fd \in FDs /\ fdt[s[j].fd] = s[j].id /\ s \in Seq(Results)
      BY <1>1, <2>3, SeqTypes DEF Shapes, Tags, FDs, NoFD
    <3>2. s[j].id \in Nat
      <4>1. s[j] \in Results
        BY <2>3, <3>1
      <4>2. QED
        BY <4>1 DEF Results
    <3>3. fdt[s[j].fd] # Free
      BY <3>1, <3>2 DEF Free
    <3>4. QED
      BY <1>16, <3>1, <3>3
  <2>4. /\ \A j \in DOMAIN ready' : ready'[j].fd # NoFD => fdt'[ready'[j].fd] = ready'[j].id
        /\ \A j \in DOMAIN drained' :
             drained'[j].fd # NoFD => fdt'[drained'[j].fd] = drained'[j].id
    BY <1>3, <2>3
  <2>5. QED
    BY <1>3, <1>7, <2>1, <2>2, <2>4 DEF Tags
<1>18. QED
  BY <1>8, <1>12, <1>13, <1>14, <1>15, <1>17 DEF Inv

(* A free number. *)
LEMMA LowestFree ==
  ASSUME Types, FreeFDs # {}
  PROVE  Lowest(FreeFDs) \in FDs /\ fdt[Lowest(FreeFDs)] = Free /\ Lowest(FreeFDs) \in Nat \ {0}
<1>1. FDs \subseteq Nat \ {0} /\ FreeFDs \subseteq FDs
  BY Ranges DEF FreeFDs
<1>2. Lowest(FreeFDs) \in FreeFDs
  BY <1>1, LowestIsThere
<1>3. QED
  BY <1>1, <1>2 DEF FreeFDs

(* A client arrives. *)
LEMMA KernelAcceptStep ==
  ASSUME Inv, NEW k \in Listeners, KernelAccept(k)
  PROVE  Inv'
<1>1. Types
  BY InvParts
<1>2. PICK f : f = Lowest(FreeFDs)
  OBVIOUS
<1>3. f \in FDs /\ fdt[f] = Free /\ f \in Int
  BY <1>1, <1>2, LowestFree DEF KernelAccept
<1>4. /\ accepted + Occurs(cq, Clients) < c.accepts
      /\ TakeAccept(k) /\ Complete(AcceptOp(k), f) /\ fdt' = [fdt EXCEPT ![f] = 0]
  BY <1>2 DEF KernelAccept
<1>5. QED
  BY <1>3, <1>4, AcceptArrives

(* An accept fails. *)
LEMMA KernelAcceptFailsStep ==
  ASSUME Inv, NEW k \in Listeners, KernelAcceptFails(k)
  PROVE  Inv'
<1>1. -1 \in Int /\ TakeAccept(k) /\ Complete(AcceptOp(k), -1) /\ fdt' = fdt
  BY DEF KernelAcceptFails
<1>2. PICK res \in Int : res = -1
  BY <1>1
<1>3. QED
  BY <1>1, <1>2, AcceptArrives

(* The read of the eventfd or the timer completes. *)
LEMMA KernelWakesStep ==
  ASSUME Inv, NEW h \in DOMAIN kops, KernelWakes(h)
  PROVE  Inv'
<1>1. Types /\ fdt \in [FDs -> Int]
  BY InvParts, TableTyped
<1>2. /\ h.o.op \in {"Timeout", "Eventfd"} /\ Take(h) /\ Complete(h.o, 1) /\ fdt' = fdt
  BY DEF KernelWakes
<1>3. \A f \in FDs : fdt'[f] = fdt[f] /\ h.o \notin ClosesOf(f)
  BY <1>2 DEF ClosesOf
<1>4. PICK res \in Int : res = 1
  OBVIOUS
<1>5. QED
  BY <1>1, <1>2, <1>3, <1>4, TakeStep

(* A close is done: its number is free. *)
LEMMA KernelCloseStep ==
  ASSUME Inv, NEW h \in DOMAIN kops, KernelClose(h)
  PROVE  Inv'
<1>1. Types /\ fdt \in [FDs -> Int]
  BY InvParts, TableTyped
<1>2. h.o.op = "Close" /\ Take(h) /\ Complete(h.o, 0)
      /\ fdt' = [f \in FDs |-> IF f \in h.o.fds THEN Free ELSE fdt[f]]
  BY DEF KernelClose
<1>3. h.o \in Ops
  BY <1>1 DEF Types, HeldOps
<1>4. \A f : h.o \in ClosesOf(f) <=> f \in h.o.fds
  BY <1>2, <1>3 DEF ClosesOf
<1>5. \A f \in FDs : \/ fdt'[f] = fdt[f] /\ h.o \notin ClosesOf(f)
                     \/ fdt'[f] = Free /\ h.o \in ClosesOf(f)
  BY <1>2, <1>4
<1>6. fdt' \in [FDs -> Int]
  BY <1>1, <1>2 DEF Free
<1>7. PICK res \in Int : res = 0
  OBVIOUS
<1>8. QED
  BY <1>2, <1>5, <1>6, <1>7, TakeStep

(* A read, a send or a splice ends. *)
LEMMA KernelMovesStep ==
  ASSUME Inv, NEW h \in DOMAIN kops, KernelMoves(h)
  PROVE  Inv'
<1>1. Types /\ fdt \in [FDs -> Int]
  BY InvParts, TableTyped
<1>2. h.o.op # "Close" /\ Take(h) /\ fdt' = fdt
  BY DEF KernelMoves
<1>3. PICK res \in Outcomes(h) : Complete(h.o, res)
  BY DEF KernelMoves
<1>4. Outcomes(h) \subseteq Int
  BY DEF Outcomes
<1>5. \A f \in FDs : fdt'[f] = fdt[f] /\ h.o \notin ClosesOf(f)
  BY <1>2 DEF ClosesOf
<1>6. QED
  BY <1>1, <1>2, <1>3, <1>4, <1>5, TakeStep

(* The kernel.                                                             *)
LEMMA KernelStep ==
  ASSUME Inv, Kernel
  PROVE  Inv'
BY KernelAcceptStep, KernelAcceptFailsStep, KernelWakesStep, KernelCloseStep, KernelMovesStep
   DEF Kernel

-----------------------------------------------------------------------------
(* The hook goroutines.                                                    *)

(* A hook that is due, in progress or answered is the only work of an open *)
(* connection without an upstream.                                         *)
LEMMA HookStage ==
  ASSUME Types, Life, NEW i \in Ids, HookWork(i) > 0
  PROVE  /\ i \in Live /\ ~Cc(i).closing /\ Cc(i).up = NoFD
         /\ HookWork(i) = 1
<1>1. HookWork(i) \in Nat /\ ChurnWork(i) # 0
  BY ChurnParts
<1>2. LifeOf(i)
  BY DEF Life
<1>3. i \in Live /\ ~Cc(i).closing /\ Open(i)
  BY <1>1, <1>2 DEF LifeOf, Gone, Closing
<1>4. Asking(i) /\ ChurnWork(i) = 1
  BY <1>1, <1>3 DEF Open, Asking
<1>5. HookWork(i) = 1 /\ EarlyWork(i) > 0
  BY <1>1, <1>4, ChurnParts
<1>6. QED
  BY <1>3, <1>4, <1>5 DEF Asking

(* What the hooks leave alone. *)
HookFrame ==
  /\ c' = c /\ acceptInflight' = acceptInflight
  /\ totalAccepts' = totalAccepts /\ accepted' = accepted /\ completed' = completed
  /\ sq' = sq /\ kops' = kops /\ armed' = armed /\ cq' = cq /\ drained' = drained
  /\ conns' = conns /\ cell' = cell /\ made' = made /\ connFree' = connFree
  /\ nextID' = nextID

(* The number that a result carries, 0 for none: it was free.              *)
Dialled(g) ==
  /\ fdt' \in [FDs -> Int]
  /\ \A f \in FDs : \/ f # g /\ fdt'[f] = fdt[f]
                    \/ f = g /\ fdt[f] = Free /\ fdt'[f] \in 0..c.accepts
  /\ \A f \in FDs : Occurs(ready', ResultsAt(f)) = Occurs(ready, ResultsAt(f)) + Expect(f = g)
  /\ \A j \in DOMAIN ready' : ready'[j].fd # NoFD => fdt'[ready'[j].fd] = ready'[j].id

(* A step of a hook moves the work of its connection on. *)
LEMMA HookStep ==
  ASSUME Inv, HookFrame, waiting' \in BOOLEAN, left' \in Nat, Loop', NEW g \in Nat,
         Dialled(g), HookShapes', running' \in SUBSET Ids,
         \A j \in Ids : HookWork(j)' = HookWork(j)
  PROVE  Inv'
<1>1. /\ Types /\ Shapes /\ Loop /\ Life /\ Structs /\ Cap /\ Sockets
      /\ BuffersNotShared /\ DescriptorsOwned /\ Tags /\ Home
  BY InvParts
<1>2. /\ c' = c /\ acceptInflight' = acceptInflight
      /\ totalAccepts' = totalAccepts /\ accepted' = accepted /\ completed' = completed
      /\ sq' = sq /\ kops' = kops /\ armed' = armed /\ cq' = cq /\ drained' = drained
      /\ conns' = conns /\ cell' = cell /\ made' = made /\ connFree' = connFree
      /\ nextID' = nextID
  BY DEF HookFrame
<1>3. /\ Ids' = Ids /\ FDs' = FDs /\ Listeners' = Listeners /\ mode' = mode
      /\ NListeners' = NListeners /\ MaxConns' = MaxConns
  BY <1>2, SameConfig
<1>4. Live' = Live /\ Serving' = Serving /\ \A j : Cc(j)' = Cc(j)
  BY <1>2, TableStays
<1>5. fdt' \in [FDs -> Int] /\ fdt \in [FDs -> Int]
  BY <1>1, TableTyped DEF Dialled
<1>6. Types'
  <2>1. jobs' \in Seq(Nat) /\ ready' \in Seq(Results) /\ drained' \in Seq(Results)
    BY DEF HookShapes
  <2>2. /\ c \in Configs
        /\ acceptInflight \in [Listeners -> Nat] /\ armed \in [Listeners -> Nat]
        /\ totalAccepts \in Nat /\ accepted \in Nat /\ completed \in Nat
        /\ nextID \in Nat /\ made \in Nat
        /\ conns \in [Ids -> Nat] /\ cell \in [Ids -> Conn] /\ connFree \in Seq(Nat)
        /\ sq \in Seq(Ops) /\ cq \in Seq(Completions)
        /\ kops \in [DOMAIN kops -> Nat \ {0}]
        /\ DOMAIN kops \in SUBSET HeldOps /\ IsFiniteSet(DOMAIN kops)
    BY <1>1 DEF Types
  <2>3. QED
    BY <1>2, <1>3, <1>5, <2>1, <2>2 DEF Types
<1>7. Shapes'
  <2>1. \A p : Formed(p)' <=> Formed(p)
    BY <1>2, FormedSame
  <2>2. /\ \A j \in DOMAIN sq' : Formed(sq[j])' /\ sq'[j].op # "Accept"
        /\ \A h \in DOMAIN kops' : Formed(h.o)' /\ h.o.op # "Accept"
        /\ \A j \in DOMAIN cq' : Formed(cq[j].o)'
              /\ (cq'[j].o.op = "Accept" /\ cq'[j].res > 0 => cq'[j].res \in FDs')
    BY <1>1, <1>2, <1>3, <2>1 DEF Shapes
  <2>3. QED
    BY <2>2 DEF Shapes, HookShapes
<1>8. Cap'
  <2>1. completed' \in Nat
        /\ completed' + Cardinality(Serving') <= completed + Cardinality(Serving)
    BY <1>1, <1>2, <1>4, ServedKept
  <2>2. QED
    BY <1>1, <1>2, <1>4, <2>1, CapKeeps
<1>9. Structs'
  BY <1>1, <1>2, <1>3, <1>4 DEF Structs, InRange
<1>10. BuffersNotShared'
  BY <1>1, <1>2 DEF BuffersNotShared, Prepared
<1>11. Life'
  <2>1. ASSUME NEW j \in Ids PROVE Steady(j)
    <3>1. \A V : Count(V)' = Count(V)
      BY <1>2, CountSame
    <3>2. QED
      BY <3>1, UntouchedSteady DEF Untouched
  <2>2. QED
    BY <1>1, <1>2, <2>1, LifeSteady
<1>12. ASSUME NEW f \in FDs, fdt[f] # Free PROVE fdt'[f] = fdt[f]
  BY <1>12 DEF Dialled
<1>13. Home'
  <2>1. SUFFICES ASSUME mode # "splice"
                 PROVE  /\ \A j \in DOMAIN sq : \A f \in sq[j].fds : fdt'[f] = sq[j].id
                        /\ OpsStayHome'
    BY <1>2, <1>3 DEF Home
  <2>2. OpsStayHome'
    BY <1>1, <1>2, <2>1 DEF Home, OpsStayHome
  <2>3. ASSUME NEW j \in DOMAIN sq, NEW f \in sq[j].fds PROVE fdt'[f] = sq[j].id
    <3>1. fdt[f] = sq[j].id
      BY <1>1, <2>1 DEF Home
    <3>2. f \in FDs
      BY <1>1 DEF Shapes, Formed
    <3>3. sq[j] \in Ops
      BY <1>1, SeqTypes
    <3>4. sq[j].id \in Nat
      BY <3>3 DEF Ops
    <3>5. fdt[f] # Free
      BY <3>1, <3>4 DEF Free
    <3>6. QED
      BY <1>12, <3>1, <3>2, <3>5
  <2>4. QED
    BY <2>2, <2>3
<1>14. DescriptorsOwned'
  <2> SUFFICES ASSUME NEW f \in FDs PROVE Holders(f)' = IF fdt'[f] = Free THEN 0 ELSE 1
    BY <1>3 DEF DescriptorsOwned
  <2>1. Owners(f)' = Owners(f)
    BY <1>4 DEF Owners, HeldBy
  <2>2. InKernel(ClosesOf(f))' = InKernel(ClosesOf(f)) /\ AtClients(f)' = AtClients(f)
    BY <1>2 DEF InKernel, Copies, AtClients
  <2>3. Holders(f)' = Holders(f) + Expect(f = g)
    <3>1. /\ AtClients(f) \in Nat /\ Cardinality(Owners(f)) \in Nat
          /\ Occurs(sq, ClosesOf(f)) \in Nat /\ InKernel(ClosesOf(f)) \in Nat
          /\ Occurs(ready, ResultsAt(f)) \in Nat /\ Occurs(drained, ResultsAt(f)) \in Nat
          /\ Expect(f = g) \in Nat
      BY <1>1, HoldersParts, CountNat, SeqTypes, AtFinite DEF Expect
    <3>2. /\ Occurs(ready', ResultsAt(f)) = Occurs(ready, ResultsAt(f)) + Expect(f = g)
          /\ Occurs(drained', ResultsAt(f)) = Occurs(drained, ResultsAt(f))
          /\ Occurs(sq', ClosesOf(f)) = Occurs(sq, ClosesOf(f))
      BY <1>2 DEF Dialled
    <3>3. QED
      BY <2>1, <2>2, <3>1, <3>2, HoldersSum
  <2>4. Holders(f) = IF fdt[f] = Free THEN 0 ELSE 1
    BY <1>1 DEF DescriptorsOwned
  <2>5. CASE f # g
    <3>1. fdt'[f] = fdt[f]
      BY <2>5 DEF Dialled
    <3>2. QED
      BY <2>3, <2>4, <2>5, <3>1 DEF Expect
  <2>6. CASE f = g
    <3>1. fdt[f] = Free /\ fdt'[f] # Free
      BY <2>6 DEF Dialled, Free
    <3>2. QED
      BY <2>3, <2>4, <2>6, <3>1 DEF Expect
  <2>7. QED
    BY <2>5, <2>6
<1>15. Sockets'
  <2>1. \A j \in Serving' : j # 0 => j \in Serving /\ Cc(j)' = Cc(j)
    BY <1>4
  <2>2. ASSUME NEW f \in FDs PROVE fdt'[f] = fdt[f] \/ Owners(f) \subseteq {0}
    <3>1. CASE fdt[f] = Free
      BY <1>1, <3>1, OwnedByNobody
    <3>2. CASE fdt[f] # Free
      BY <1>12, <3>2
    <3>3. QED
      BY <3>1, <3>2
  <2>3. 0 \notin Serving'
    BY <1>1, <1>4, LiveFinite, Ranges
  <2>4. QED
    BY <1>1, <2>1, <2>2, <2>3, SocketsKeep
<1>16. Tags'
  <2>1. \A f \in FDs : fdt'[f] = Free \/ fdt'[f] \in 0..c.accepts
    BY <1>1 DEF Tags, Dialled
  <2>2. ASSUME NEW j \in DOMAIN cq, cq[j] \in Clients PROVE fdt'[cq[j].res] = 0
    <3>1. cq[j].res \in FDs /\ fdt[cq[j].res] = 0
      BY <1>1, <2>2 DEF Tags, Shapes, Clients
    <3>2. QED
      BY <1>12, <3>1 DEF Free
  <2>3. ASSUME NEW j \in DOMAIN drained, drained[j].fd # NoFD
        PROVE  fdt'[drained[j].fd] = drained[j].id
    <3>1. drained[j].fd \in FDs /\ fdt[drained[j].fd] = drained[j].id
      BY <1>1, <2>3 DEF Shapes, Tags, FDs, NoFD
    <3>2. drained[j] \in Results
      BY <1>1, SeqTypes
    <3>3. drained[j].id \in Nat
      BY <3>2 DEF Results
    <3>4. fdt[drained[j].fd] # Free
      BY <3>1, <3>3 DEF Free
    <3>5. QED
      BY <1>12, <3>1, <3>4
  <2>4. \A j \in DOMAIN ready' : ready'[j].fd # NoFD => fdt'[ready'[j].fd] = ready'[j].id
    BY DEF Dialled
  <2>5. QED
    BY <1>2, <1>3, <2>1, <2>2, <2>3, <2>4 DEF Tags
<1>17. QED
  BY <1>6, <1>7, <1>8, <1>9, <1>10, <1>11, <1>13, <1>14, <1>15, <1>16 DEF Inv

(* The loop stands where it stood. *)
LEMMA LoopStays ==
  ASSUME Inv, waiting' = waiting, left' = left, cq' = cq, sq' = sq, drained' = drained
  PROVE  waiting' \in BOOLEAN /\ left' \in Nat /\ Loop'
<1>1. waiting \in BOOLEAN /\ left \in Nat /\ Loop
  BY InvParts DEF Types
<1>2. QED
  BY <1>1 DEF Loop

(* A worker takes a job: nobody else has a hook for that connection. *)
LEMMA HookTakeStep ==
  ASSUME Inv, HookTake
  PROVE  Inv'
<1>1. Types /\ Shapes /\ Life /\ Tags
  BY InvParts
<1>2. /\ jobs # <<>> /\ running' = running \cup {Head(jobs)} /\ jobs' = Tail(jobs)
      /\ fdt' = fdt /\ ready' = ready
  BY DEF HookTake
<1>3. HookFrame
  BY DEF HookTake, HookFrame, loopVars, counters, acceptVars, kernelVars, tableVars
<1>4. c' = c /\ drained' = drained
  BY <1>3 DEF HookFrame
<1>5. waiting' \in BOOLEAN /\ left' \in Nat /\ Loop'
  <2>1. waiting' = waiting /\ left' = left
    BY DEF HookTake, loopVars
  <2>2. QED
    BY <1>3, <2>1, LoopStays DEF HookFrame
<1>6. PICK i : i = Head(jobs)
  OBVIOUS
<1>7. jobs \in Seq(Nat) /\ i = jobs[1] /\ 1 \in DOMAIN jobs
  BY <1>1, <1>2, <1>6, SeqTypes
<1>8. i \in Ids
  BY <1>1, <1>7 DEF Shapes
<1>9. /\ \A j : Occurs(jobs, {j}) \in Nat /\ Occurs(ready, ResultsFor(j)) \in Nat
                /\ Occurs(drained, ResultsFor(j)) \in Nat /\ HookWork(j) \in Nat
  BY <1>1, HookNat
<1>10. Occurs(jobs, {i}) >= 1
  BY <1>7, OccursSome
<1>11. HookWork(i) > 0
  BY <1>9, <1>10 DEF HookWork
<1>12. HookWork(i) = 1
  BY <1>1, <1>8, <1>11, HookStage
<1>13. i \notin running
  BY <1>9, <1>10, <1>12 DEF HookWork
<1>14. \A j : Occurs(jobs', {j}) = Occurs(jobs, {j}) - Expect(i \in {j})
  BY <1>2, <1>6, <1>7, OccursTail
<1>15. ASSUME NEW j \in Ids PROVE HookWork(j)' = HookWork(j)
  <2>1. CASE j = i
    <3>1. Occurs(jobs', {j}) = Occurs(jobs, {j}) - 1
      BY <1>14, <2>1 DEF Expect
    <3>2. j \in running' /\ j \notin running
      BY <1>2, <1>6, <1>13, <2>1
    <3>3. QED
      BY <1>2, <1>4, <1>9, <3>1, <3>2 DEF HookWork
  <2>2. CASE j # i
    <3>1. Occurs(jobs', {j}) = Occurs(jobs, {j})
      BY <1>9, <1>14, <2>2 DEF Expect
    <3>2. j \in running' <=> j \in running
      BY <1>2, <1>6, <2>2
    <3>3. QED
      BY <1>2, <1>4, <3>1, <3>2 DEF HookWork
  <2>3. QED
    BY <2>1, <2>2
<1>16. running' \in SUBSET Ids
  BY <1>1, <1>2, <1>6, <1>8 DEF Types
<1>17. HookShapes'
  <2>1. Ids' = Ids
    BY <1>4, SameConfig
  <2>2. jobs' \in Seq(Nat) /\ \A j \in DOMAIN jobs' : jobs'[j] \in Ids
    <3>1. \A n \in DOMAIN jobs : jobs[n] \in Ids
      BY <1>1 DEF Shapes
    <3>2. QED
      BY <1>2, <1>7, <3>1
  <2>3. HookShapes
    BY <1>1, HookShapesNow
  <2>4. QED
    BY <1>2, <1>4, <2>1, <2>2, <2>3 DEF HookShapes
<1>18. Dialled(0)
  <2>1. fdt \in [FDs -> Int] /\ 0 \notin FDs
    BY <1>1, TableTyped, Ranges
  <2>2. \A f \in FDs : Occurs(ready', ResultsAt(f)) = Occurs(ready, ResultsAt(f)) + Expect(f = 0)
    <3>1. \A f \in FDs : Expect(f = 0) = 0 /\ Occurs(ready, ResultsAt(f)) \in Nat
      BY <1>1, <2>1, SeqTypes, AtFinite DEF Expect
    <3>2. QED
      BY <1>2, <3>1
  <2>3. QED
    BY <1>1, <1>2, <2>1, <2>2 DEF Dialled, Tags
<1>19. QED
  BY <1>3, <1>15, <1>16, <1>17, <1>18, <1>5, HookStep

(* A hook answers, with a number that was free or with none. *)
LEMMA PushStep ==
  ASSUME Inv, NEW i \in running, NEW g \in 0..c.fds, Push(i, g), fdt' \in [FDs -> Int],
         \A f \in FDs : \/ f # g /\ fdt'[f] = fdt[f]
                        \/ f = g /\ fdt[f] = Free /\ fdt'[f] = i
  PROVE  Inv'
<1>1. Types /\ Shapes /\ Life /\ Tags
  BY InvParts
<1>2. /\ running' = running \ {i} /\ ready' = Append(ready, [id |-> i, fd |-> g])
      /\ jobs' = jobs
  BY DEF Push
<1>3. HookFrame
  BY DEF Push, HookFrame, loopVars, counters, acceptVars, kernelVars, tableVars
<1>4. c' = c /\ drained' = drained
  BY <1>3 DEF HookFrame
<1>5. waiting' \in BOOLEAN /\ left' \in Nat /\ Loop'
  <2>1. waiting' = waiting /\ left' = left
    BY DEF Push, loopVars
  <2>2. QED
    BY <1>3, <2>1, LoopStays DEF HookFrame
<1>6. PICK r : r = [id |-> i, fd |-> g]
  OBVIOUS
<1>7. i \in Ids /\ g \in Nat /\ c.fds \in Nat /\ FDs \subseteq Nat \ {0} /\ i \in Nat \ {0}
  <2>1. running \in SUBSET Ids /\ Ids \subseteq Nat \ {0} /\ FDs \subseteq Nat \ {0} /\ c.fds \in Nat
    BY <1>1, Ranges DEF Types
  <2>2. QED
    BY <2>1
<1>8. r \in Results /\ r.id = i /\ r.fd = g
  BY <1>6, <1>7 DEF Results
<1>9. ready \in Seq(Results) /\ ready' = Append(ready, r)
  BY <1>1, <1>2, <1>6, SeqTypes
<1>10. /\ ready' \in Seq(Results)
       /\ \A j \in DOMAIN ready' : (j \in DOMAIN ready /\ ready'[j] = ready[j]) \/ ready'[j] = r
  BY ONLY <1>8, <1>9
<1>11. \A V : Occurs(ready', V) = Occurs(ready, V) + Expect(r \in V) /\ Occurs(ready, V) \in Nat
  BY <1>8, <1>9, OccursAppend, AtFinite
<1>12. ASSUME NEW j \in Ids PROVE HookWork(j)' = HookWork(j)
  <2>1. Occurs(jobs, {j}) \in Nat /\ Occurs(ready, ResultsFor(j)) \in Nat
        /\ Occurs(drained, ResultsFor(j)) \in Nat
    BY <1>1, HookNat
  <2>2. r \in ResultsFor(j) <=> j = i
    BY <1>8 DEF ResultsFor
  <2>3. CASE j = i
    <3>1. Occurs(ready', ResultsFor(j)) = Occurs(ready, ResultsFor(j)) + 1
      BY <1>11, <2>2, <2>3 DEF Expect
    <3>2. j \notin running' /\ j \in running
      BY <1>2, <2>3
    <3>3. QED
      BY <1>2, <1>4, <2>1, <3>1, <3>2 DEF HookWork
  <2>4. CASE j # i
    <3>1. Occurs(ready', ResultsFor(j)) = Occurs(ready, ResultsFor(j))
      BY <1>11, <2>2, <2>4 DEF Expect
    <3>2. j \in running' <=> j \in running
      BY <1>2, <2>4
    <3>3. QED
      BY <1>2, <1>4, <3>1, <3>2 DEF HookWork
  <2>5. QED
    BY <2>3, <2>4
<1>13. HookShapes'
  <2>1. Ids' = Ids
    BY <1>4, SameConfig
  <2>2. HookShapes
    BY <1>1, HookShapesNow
  <2>3. \A j \in DOMAIN ready' : ready'[j].id \in Ids /\ ready'[j].fd \in 0..c.fds
    BY <1>7, <1>8, <1>10, <2>2 DEF HookShapes
  <2>4. QED
    BY <1>2, <1>4, <1>10, <2>1, <2>2, <2>3 DEF HookShapes
<1>14. running' \in SUBSET Ids
  BY <1>1, <1>2 DEF Types
<1>15. Dialled(g)
  <2>1. \A f \in FDs : \/ f # g /\ fdt'[f] = fdt[f]
                       \/ f = g /\ fdt[f] = Free /\ fdt'[f] \in 0..c.accepts
    <3>1. i \in 0..c.accepts
      BY <1>7 DEF Ids
    <3>2. QED
      BY <3>1
  <2>2. ASSUME NEW f \in FDs
        PROVE  Occurs(ready', ResultsAt(f)) = Occurs(ready, ResultsAt(f)) + Expect(f = g)
    <3>1. r \in ResultsAt(f) <=> f = g
      BY <1>8 DEF ResultsAt
    <3>2. QED
      BY <1>11, <3>1 DEF Expect
  <2>3. ASSUME NEW j \in DOMAIN ready', ready'[j].fd # NoFD
        PROVE  fdt'[ready'[j].fd] = ready'[j].id
    <3>1. CASE ready'[j] = r
      <4>1. g \in FDs
        BY <1>8, <2>3, <3>1 DEF FDs, NoFD
      <4>2. QED
        BY <1>8, <3>1, <4>1
    <3>2. CASE j \in DOMAIN ready /\ ready'[j] = ready[j]
      <4>1. ready[j].fd \in FDs /\ fdt[ready[j].fd] = ready[j].id
        BY <1>1, <2>3, <3>2 DEF Shapes, Tags, FDs, NoFD
      <4>2. ready[j] \in Results
        BY <1>9, <3>2
      <4>3. ready[j].id \in Nat
        BY <4>2 DEF Results
      <4>4. fdt[ready[j].fd] # Free
        BY <4>1, <4>3 DEF Free
      <4>5. fdt'[ready[j].fd] = fdt[ready[j].fd]
        BY <4>1, <4>4
      <4>6. QED
        BY <3>2, <4>1, <4>5
    <3>3. QED
      BY <1>10, <3>1, <3>2
  <2>4. QED
    BY <2>1, <2>2, <2>3 DEF Dialled
<1>16. QED
  BY <1>3, <1>7, <1>12, <1>13, <1>14, <1>15, <1>5, HookStep

(* A hook dials. *)
LEMMA HookDialsStep ==
  ASSUME Inv, NEW i \in running, HookDials(i)
  PROVE  Inv'
<1>1. Types /\ fdt \in [FDs -> Int]
  BY InvParts, TableTyped
<1>2. PICK g : g = Lowest(FreeFDs)
  OBVIOUS
<1>3. g \in FDs /\ fdt[g] = Free
  BY <1>1, <1>2, LowestFree DEF HookDials
<1>4. Push(i, g) /\ fdt' = [fdt EXCEPT ![g] = i]
  BY <1>2 DEF HookDials
<1>5. g \in 0..c.fds /\ i \in Int
  <2>1. running \in SUBSET Ids /\ Ids \subseteq Nat \ {0} /\ c.fds \in Nat
    BY <1>1, Ranges DEF Types
  <2>2. QED
    BY <1>3, <2>1 DEF FDs
<1>6. fdt' \in [FDs -> Int]
      /\ \A f \in FDs : \/ f # g /\ fdt'[f] = fdt[f]
                        \/ f = g /\ fdt[f] = Free /\ fdt'[f] = i
  BY <1>1, <1>3, <1>4, <1>5
<1>7. QED
  BY <1>4, <1>5, <1>6, PushStep

(* A hook fails. *)
LEMMA HookFailsStep ==
  ASSUME Inv, NEW i \in running, HookFails(i)
  PROVE  Inv'
<1>1. Types /\ fdt \in [FDs -> Int]
  BY InvParts, TableTyped
<1>2. Push(i, 0) /\ fdt' = fdt
  BY DEF HookFails, NoFD
<1>3. 0 \in 0..c.fds /\ 0 \notin FDs
  BY <1>1, Ranges
<1>4. \A f \in FDs : f # 0 /\ fdt'[f] = fdt[f]
  BY <1>2, <1>3
<1>5. PICK g \in 0..c.fds : g = 0
  BY <1>3
<1>6. QED
  BY <1>1, <1>2, <1>4, <1>5, PushStep

(* The hooks.                                                              *)
LEMMA HooksStep ==
  ASSUME Inv, Hooks
  PROVE  Inv'
BY HookTakeStep, HookDialsStep, HookFailsStep DEF Hooks

-----------------------------------------------------------------------------
(* The loop.                                                               *)

(* A step that moves the loop only. *)
LEMMA IdleStep ==
  ASSUME Inv, HookFrame, waiting' \in BOOLEAN, left' \in Nat, Loop', fdt' = fdt,
         jobs' = jobs, running' = running, ready' = ready
  PROVE  Inv'
<1>1. Types /\ Shapes /\ Tags
  BY InvParts
<1>2. c' = c /\ drained' = drained
  BY DEF HookFrame
<1>3. fdt \in [FDs -> Int] /\ FDs \subseteq Nat \ {0} /\ Ids' = Ids
  BY <1>1, <1>2, TableTyped, Ranges, SameConfig
<1>4. \A f \in FDs : Occurs(ready', ResultsAt(f)) = Occurs(ready, ResultsAt(f)) + Expect(f = 0)
  <2>1. \A f \in FDs : Expect(f = 0) = 0 /\ Occurs(ready, ResultsAt(f)) \in Nat
    BY <1>1, <1>3, SeqTypes, AtFinite DEF Expect
  <2>2. QED
    BY <2>1
<1>5. Dialled(0)
  BY <1>1, <1>3, <1>4 DEF Dialled, Tags
<1>6. HookShapes'
  BY <1>1, <1>2, <1>3, HookShapesNow DEF HookShapes
<1>7. running' \in SUBSET Ids
  BY <1>1 DEF Types
<1>8. \A j \in Ids : HookWork(j)' = HookWork(j)
  BY <1>2, HookSame
<1>9. QED
  BY <1>5, <1>6, <1>7, <1>8, HookStep

(* Submit(1) returns. *)
LEMMA WakeStep ==
  ASSUME Inv, Wake
  PROVE  Inv'
<1>1. /\ waiting' = FALSE /\ left' = Len(cq) /\ cq' = cq
      /\ fdt' = fdt /\ jobs' = jobs /\ running' = running /\ ready' = ready
      /\ HookFrame
  BY DEF Wake, HookFrame, counters, acceptVars, kernelVars, tableVars, hookVars
<1>2. cq \in Seq(Completions)
  BY InvParts, SeqTypes
<1>3. Len(cq) \in Nat
  BY <1>2
<1>4. waiting' \in BOOLEAN /\ left' \in Nat /\ Loop'
  <2>1. ~waiting' /\ waiting' \in BOOLEAN
    BY <1>1
  <2>2. left' \in Nat /\ left' <= Len(cq')
    BY <1>1, <1>3
  <2>3. QED
    BY <2>1, <2>2 DEF Loop
<1>5. QED
  BY <1>1, <1>4, IdleStep

(* Nothing happens. *)
LEMMA StutterStep ==
  ASSUME Inv, UNCHANGED vars
  PROVE  Inv'
<1>1. /\ waiting' = waiting /\ left' = left /\ cq' = cq /\ sq' = sq /\ drained' = drained
      /\ fdt' = fdt /\ jobs' = jobs /\ running' = running /\ ready' = ready
      /\ HookFrame
  BY DEF vars, HookFrame
<1>2. waiting' \in BOOLEAN /\ left' \in Nat /\ Loop'
  BY <1>1, LoopStays
<1>3. QED
  BY <1>1, <1>2, IdleStep

(* The top-up adds no more than there is room for, to all listeners        *)
(* together, although each is looked at on its own.                        *)
LEMMA TopUpFits ==
  ASSUME Types, NEW u \in [0..NListeners -> Nat], TopUp(u), Room \in Int
  PROVE  /\ \A k \in 0..NListeners : \A l \in 0..k : u[l] <= u[k]
         /\ u[0] = 0 /\ u[NListeners] <= Larger(0, Room) /\ u[NListeners] \in Nat
<1>1. NListeners \in Nat /\ PerLn \in Nat /\ acceptInflight \in [Listeners -> Nat]
  BY Ranges DEF Types
<1>2. PICK n \in Nat : n = NListeners
  BY <1>1
<1>3. PICK top \in Nat : top = Larger(0, Room)
  BY DEF Larger
<1>4. u[0] = 0
  BY DEF TopUp
<1>5. ASSUME NEW k \in 1..n
      PROVE  u[k - 1] <= u[k] /\ (u[k] = u[k - 1] \/ u[k] <= top)
  <2>1. u[k] \in Nat /\ u[k - 1] \in Nat
    BY <1>2
  <2>2. acceptInflight[k] \in Nat
    BY <1>1, <1>2 DEF Listeners
  <2>3. u[k] = u[k - 1] + Larger(0, Smaller(PerLn - acceptInflight[k], Room - u[k - 1]))
    BY <1>2 DEF TopUp, Listeners
  <2>4. PICK x \in Int : x = PerLn - acceptInflight[k]
    BY <1>1, <2>2
  <2>5. PICK r \in Int : r = Room
    OBVIOUS
  <2>6. u[k] = u[k - 1] + Larger(0, Smaller(x, r - u[k - 1])) /\ top = Larger(0, r)
    BY <1>3, <2>3, <2>4, <2>5
  <2>7. QED
    BY ONLY <2>1, <2>6, x \in Int, r \in Int, top \in Nat DEF Larger, Smaller
<1>6. u \in [0..n -> Nat]
  BY <1>2
<1>7. \A k \in 0..n : u[k] <= top /\ \A l \in 0..k : u[l] <= u[k]
  BY <1>4, <1>5, <1>6, Stairs
<1>8. n \in 0..n
  OBVIOUS
<1>9. QED
  BY <1>2, <1>3, <1>4, <1>6, <1>7, <1>8

(* The accepts that a turn adds keep to the cap. *)
LEMMA TurnCap ==
  ASSUME Inv, Turn
  PROVE  /\ Cap' /\ acceptInflight' \in [Listeners -> Nat] /\ armed' \in [Listeners -> Nat]
         /\ totalAccepts' \in Nat
<1>1. Types /\ Cap
  BY InvParts
<1>2. PICK u \in [0..NListeners -> 0..(NListeners * PerLn)] :
        /\ TopUp(u)
        /\ acceptInflight' = [k \in Listeners |-> acceptInflight[k] + u[k] - u[k - 1]]
        /\ totalAccepts' = totalAccepts + u[NListeners]
        /\ armed' = [k \in Listeners |-> armed[k] + u[k] - u[k - 1]]
  BY DEF Turn
<1>3. /\ c' = c /\ accepted' = accepted /\ completed' = completed /\ cq' = cq
      /\ conns' = conns /\ cell' = cell /\ made' = made /\ nextID' = nextID
  BY DEF Turn, tableVars
<1>4. /\ acceptInflight \in [Listeners -> Nat] /\ armed \in [Listeners -> Nat]
      /\ totalAccepts \in Nat
  BY <1>1 DEF Types
<1>5. /\ NListeners \in Nat /\ PerLn \in Nat /\ MaxConns \in Nat
      /\ Listeners = 1..NListeners /\ Listeners' = Listeners
      /\ MaxConns' = MaxConns /\ NListeners' = NListeners
  BY <1>1, <1>3, Ranges, SameConfig DEF Listeners
<1>6. Live' = Live /\ Serving' = Serving
  BY <1>3, TableStays
<1>7. Cardinality(Live) \in Nat /\ Room \in Int
  BY <1>1, <1>4, <1>5, LiveFinite DEF Room
<1>8. u \in [0..NListeners -> Nat]
  OBVIOUS
<1>9. /\ \A k \in 0..NListeners : \A l \in 0..k : u[l] <= u[k]
      /\ u[0] = 0 /\ u[NListeners] <= Larger(0, Room) /\ u[NListeners] \in Nat
  BY <1>1, <1>2, <1>7, <1>8, TopUpFits
<1>10. acceptInflight' \in [Listeners -> Nat]
       /\ Cardinality(Pairs(acceptInflight')) = Cardinality(Pairs(acceptInflight)) + u[NListeners]
  BY <1>2, <1>4, <1>5, <1>8, <1>9, StairsCount, ZenonT(60)
<1>11. armed' \in [Listeners -> Nat]
  BY <1>2, <1>4, <1>5, <1>8, <1>9, StairsCount, ZenonT(60)
<1>12. Accepts = Pairs(acceptInflight) /\ Accepts' = Pairs(acceptInflight')
  <2>1. DOMAIN acceptInflight = Listeners /\ DOMAIN acceptInflight' = Listeners
    BY <1>4, <1>10
  <2>2. QED
    BY <1>5, <2>1 DEF Accepts, Pairs
<1>13. /\ \A k \in Listeners : acceptInflight[k] = armed[k] + Occurs(cq, AcceptsOf(k))
       /\ totalAccepts = Cardinality(Accepts)
       /\ Cardinality(Live) <= MaxConns
       /\ Cardinality(Live) + totalAccepts <= Larger(MaxConns, NListeners)
       /\ accepted + Occurs(cq, Clients) <= c.accepts
       /\ nextID <= accepted /\ made <= nextID
       /\ completed + Cardinality(Serving) <= nextID
  BY <1>1 DEF Cap
<1>14. ASSUME NEW k \in Listeners
       PROVE  acceptInflight'[k] = armed'[k] + Occurs(cq', AcceptsOf(k))
  <2>1. acceptInflight[k] \in Nat /\ armed[k] \in Nat /\ u[k] \in Nat /\ u[k - 1] \in Nat
        /\ acceptInflight[k] = armed[k] + Occurs(cq, AcceptsOf(k))
    BY <1>4, <1>5, <1>13
  <2>2. Occurs(cq, AcceptsOf(k)) \in Nat
    BY <1>1, SeqTypes, AtFinite
  <2>3. acceptInflight'[k] = acceptInflight[k] + u[k] - u[k - 1]
        /\ armed'[k] = armed[k] + u[k] - u[k - 1]
    BY <1>2
  <2>4. QED
    BY <1>3, <2>1, <2>2, <2>3
<1>15. totalAccepts' = Cardinality(Accepts') /\ totalAccepts' \in Nat
  BY <1>2, <1>4, <1>9, <1>10, <1>12, <1>13
<1>16. Cardinality(Live') + totalAccepts' <= Larger(MaxConns', NListeners')
  <2>1. PICK l \in Nat, t \in Nat, m \in Nat, n \in Nat, v \in Nat :
          /\ l = Cardinality(Live) /\ t = totalAccepts /\ m = MaxConns /\ n = NListeners
          /\ v = u[NListeners]
    BY <1>4, <1>5, <1>7, <1>9
  <2>2. v <= Larger(0, m - l - t) /\ l + t <= Larger(m, n)
    BY <1>9, <1>13, <2>1 DEF Room
  <2>3. l + (t + v) <= Larger(m, n)
    BY ONLY <2>2, l \in Nat, t \in Nat, m \in Nat, n \in Nat, v \in Nat DEF Larger
  <2>4. QED
    BY <1>2, <1>5, <1>6, <2>1, <2>3
<1>17. Cap'
  BY <1>3, <1>5, <1>6, <1>13, <1>14, <1>15, <1>16 DEF Cap
<1>18. QED
  BY <1>10, <1>11, <1>15, <1>17

(* Everything that was prepared goes to the kernel with its files. *)
LEMMA TurnStep ==
  ASSUME Inv, Turn
  PROVE  Inv'
<1>1. /\ Types /\ Shapes /\ Loop /\ Life /\ Structs /\ Cap /\ Sockets
      /\ BuffersNotShared /\ DescriptorsOwned /\ Tags /\ Home
  BY InvParts
<1>2. /\ c' = c /\ left' = left /\ left = 0 /\ drained = <<>> /\ sq' = <<>> /\ waiting' = TRUE
      /\ accepted' = accepted /\ completed' = completed /\ cq' = cq /\ fdt' = fdt
      /\ conns' = conns /\ cell' = cell /\ made' = made /\ connFree' = connFree
      /\ nextID' = nextID /\ jobs' = jobs /\ running' = running /\ ready' = ready
      /\ drained' = drained
  BY DEF Turn, tableVars, hookVars
<1>3. /\ Ids' = Ids /\ FDs' = FDs /\ Listeners' = Listeners /\ mode' = mode
  BY <1>2, SameConfig
<1>4. Live' = Live /\ Serving' = Serving /\ \A j : Cc(j)' = Cc(j)
  BY <1>2, TableStays
<1>5. /\ Cap' /\ acceptInflight' \in [Listeners -> Nat] /\ armed' \in [Listeners -> Nat]
      /\ totalAccepts' \in Nat
  BY TurnCap
<1>6. /\ kops' \in [DOMAIN kops' -> Nat \ {0}] /\ IsFiniteSet(DOMAIN kops')
      /\ DOMAIN kops' = DOMAIN kops \cup {Held(sq[j]) : j \in DOMAIN sq}
  BY <1>1, CountTurned
<1>7. \A V : Count(V)' = Count(V) /\ InKernel(V)' = InKernel(V) + Occurs(sq, V)
  BY <1>1, CountTurned
<1>8. ASSUME NEW j \in DOMAIN sq
      PROVE  /\ sq[j] \in Ops /\ Formed(sq[j]) /\ sq[j].op # "Accept"
             /\ Held(sq[j]).o = sq[j] /\ Held(sq[j]).files = {fdt[f] : f \in sq[j].fds}
             /\ Held(sq[j]) \in HeldOps
  <2>1. sq \in Seq(Ops) /\ fdt \in [FDs -> Int]
    BY <1>1, SeqTypes, TableTyped
  <2>2. sq[j] \in Ops /\ Formed(sq[j]) /\ sq[j].op # "Accept"
    BY <1>1, <2>1 DEF Shapes
  <2>3. Held(sq[j]).o = sq[j] /\ Held(sq[j]).files = {fdt[f] : f \in sq[j].fds}
    BY DEF Held
  <2>4. sq[j].fds \subseteq FDs
    BY <2>2 DEF Formed
  <2>5. {fdt[f] : f \in sq[j].fds} \in SUBSET Int
    BY <2>1, <2>4
  <2>6. QED
    BY <2>2, <2>3, <2>5 DEF Held, HeldOps
<1>9. Types'
  <2>1. DOMAIN kops' \in SUBSET HeldOps
    <3>1. DOMAIN kops \in SUBSET HeldOps
      BY <1>1 DEF Types
    <3>2. QED
      BY <1>6, <1>8, <3>1
  <2>2. /\ c \in Configs /\ left \in Nat
        /\ accepted \in Nat /\ completed \in Nat /\ nextID \in Nat /\ made \in Nat
        /\ conns \in [Ids -> Nat] /\ cell \in [Ids -> Conn] /\ connFree \in Seq(Nat)
        /\ cq \in Seq(Completions) /\ fdt \in [FDs -> Int]
        /\ jobs \in Seq(Nat) /\ running \in SUBSET Ids
        /\ ready \in Seq(Results) /\ drained \in Seq(Results)
    BY <1>1 DEF Types
  <2>3. <<>> \in Seq(Ops)
    BY <1>1, SeqTypes
  <2>4. QED
    BY <1>2, <1>3, <1>5, <1>6, <2>1, <2>2, <2>3 DEF Types
<1>10. Shapes'
  <2>1. \A p : Formed(p)' <=> Formed(p)
    BY <1>2, FormedSame
  <2>2. \A h \in DOMAIN kops' : Formed(h.o)' /\ h.o.op # "Accept"
    BY <1>1, <1>6, <1>8, <2>1 DEF Shapes
  <2>3. /\ \A j \in DOMAIN cq' : Formed(cq[j].o)'
              /\ (cq'[j].o.op = "Accept" /\ cq'[j].res > 0 => cq'[j].res \in FDs')
    BY <1>1, <1>2, <1>3, <2>1 DEF Shapes
  <2>4. HookShapes'
    BY <1>1, <1>2, <1>3, HookShapesNow DEF HookShapes
  <2>5. DOMAIN sq' = {}
    BY <1>2
  <2>6. QED
    BY <2>2, <2>3, <2>4, <2>5 DEF Shapes, HookShapes
<1>11. Loop'
  BY <1>1, <1>2 DEF Loop
<1>12. Structs'
  BY <1>1, <1>2, <1>3, <1>4 DEF Structs, InRange
<1>13. Life'
  <2>1. ASSUME NEW j \in Ids PROVE Steady(j)
    <3>1. HookWork(j)' = HookWork(j)
      BY <1>2, HookSame
    <3>2. QED
      BY <1>7, <3>1, UntouchedSteady DEF Untouched
  <2>2. QED
    BY <1>1, <1>2, <2>1, LifeSteady
<1>14. BuffersNotShared'
  <2>1. Prepared' \subseteq Prepared
    <3>1. DOMAIN sq' = {}
      BY <1>2
    <3>2. QED
      BY <1>6, <1>8, <3>1 DEF Prepared
  <2>2. QED
    BY <1>1, <1>2, <2>1 DEF BuffersNotShared
<1>15. DescriptorsOwned'
  <2>1. ASSUME NEW f \in FDs PROVE Holders(f)' = Holders(f)
    <3>1. Owners(f)' = Owners(f)
      BY <1>4 DEF Owners, HeldBy
    <3>2. AtClients(f)' = AtClients(f)
      BY <1>2 DEF AtClients
    <3>3. InKernel(ClosesOf(f))' = InKernel(ClosesOf(f)) + Occurs(sq, ClosesOf(f))
      BY <1>7
    <3>4. Occurs(sq', ClosesOf(f)) = 0
      BY <1>2, OccursEmpty
    <3>5. /\ AtClients(f) \in Nat /\ Cardinality(Owners(f)) \in Nat
          /\ Occurs(sq, ClosesOf(f)) \in Nat /\ InKernel(ClosesOf(f)) \in Nat
          /\ Occurs(ready, ResultsAt(f)) \in Nat /\ Occurs(drained, ResultsAt(f)) \in Nat
      BY <1>1, HoldersParts, CountNat, SeqTypes, AtFinite
    <3>6. /\ Occurs(ready', ResultsAt(f)) = Occurs(ready, ResultsAt(f))
          /\ Occurs(drained', ResultsAt(f)) = Occurs(drained, ResultsAt(f))
      BY <1>2
    <3>7. QED
      BY <3>1, <3>2, <3>3, <3>4, <3>5, <3>6, HoldersSum
  <2>2. QED
    BY <1>1, <1>2, <2>1, OwnedKeeps
<1>16. Sockets'
  <2>1. \A j \in Serving' : j # 0 => j \in Serving /\ Cc(j)' = Cc(j)
    BY <1>4
  <2>2. \A f \in FDs : fdt'[f] = fdt[f]
    BY <1>2
  <2>3. 0 \notin Serving'
    BY <1>1, <1>4, LiveFinite, Ranges
  <2>4. QED
    BY <1>1, <2>1, <2>2, <2>3, SocketsKeep
<1>17. Tags'
  BY <1>1, <1>2, <1>3 DEF Tags
<1>18. Home'
  <2>1. SUFFICES ASSUME mode # "splice" PROVE OpsStayHome'
    <3>1. DOMAIN sq' = {}
      BY <1>2
    <3>2. QED
      BY <1>3, <3>1 DEF Home
  <2>2. ASSUME NEW j \in DOMAIN sq
        PROVE  Held(sq[j]).files \subseteq {Free, Held(sq[j]).o.id}
    <3>1. \A f \in sq[j].fds : fdt[f] = sq[j].id
      BY <1>1, <2>1 DEF Home
    <3>2. QED
      BY <1>8, <3>1
  <2>3. QED
    BY <1>1, <1>6, <2>1, <2>2 DEF Home, OpsStayHome
<1>19. QED
  BY <1>5, <1>9, <1>10, <1>11, <1>12, <1>13, <1>14, <1>15, <1>16, <1>17, <1>18 DEF Inv

(* The ring thread. *)
LEMMA RingThreadStep ==
  ASSUME Inv, RingThread
  PROVE  Inv'
<1>1. CASE Wake \/ Turn \/ ApplyResult
  BY <1>1, WakeStep, TurnStep, ApplyResultStep
<1>2. CASE OnAcceptError \/ OnAcceptShed \/ OnAccept \/ OnTimeout \/ OnEventfd
  BY <1>2, AcceptErrorStep, AcceptShedStep, AcceptStep, TimeoutStep, EventfdStep
<1>3. CASE \E o \in RelayOps \cup ChurnOps \cup {"Close"} : OnStale(o)
  BY <1>3, StaleStep
<1>4. CASE \E o \in RelayOps \cup ChurnOps : OnFatal(o)
  BY <1>4, FatalStep
<1>5. CASE OnRecvReq \/ OnSendUp \/ OnSendUpSplice \/ OnRecv \/ OnSend
  BY <1>5, RecvReqStep, SendUpStep, SendUpSpliceStep, RecvStep, SendStep
<1>6. CASE OnSplice("SpliceIn") \/ OnSplice("SpliceOut")
  BY <1>6, SpliceStep
<1>7. CASE OnRecvResp \/ OnSendClient \/ OnClose
  BY <1>7, RecvRespStep, SendClientStep, CloseStep
<1>8. QED
  BY <1>1, <1>2, <1>3, <1>4, <1>5, <1>6, <1>7 DEF RingThread

(* Every step keeps the invariant. *)
LEMMA NextStep ==
  ASSUME Inv, [Next]_vars
  PROVE  Inv'
BY KernelStep, HooksStep, RingThreadStep, StutterStep DEF Next

-----------------------------------------------------------------------------
(* The worker before its first wait.                                       *)

(* A blank struct. *)
LEMMA BlankConn ==
  /\ Blank \in Conn /\ Blank.id = 0 /\ Blank.closesLeft = 0
  /\ Blank.client = 0 /\ Blank.up = 0
  /\ \A d \in Dirs : Blank.pipe[d].r = 0 /\ Blank.pipe[d].w = 0
<1>1. /\ Blank.id = 0 /\ Blank.closesLeft = 0 /\ Blank.client = 0 /\ Blank.up = 0
      /\ \A d \in Dirs : Blank.pipe[d] = NoPipe
  BY DEF Blank, NoFD
<1>2. NoPipe \in Pipe /\ NoPipe.r = 0 /\ NoPipe.w = 0
  BY DEF NoPipe, Pipe, NoFD
<1>3. [d \in Dirs |-> FALSE] \in [Dirs -> BOOLEAN] /\ [d \in Dirs |-> NoPipe] \in [Dirs -> Pipe]
  BY <1>2
<1>4. Blank \in Conn
  BY <1>3 DEF Blank, Conn, NoFD
<1>5. QED
  BY <1>1, <1>2, <1>4

(* The first state is well typed.                                          *)
LEMMA InitTypes ==
  ASSUME Init
  PROVE  Types
<1>1. /\ c \in Configs /\ c \in relayCfg
      /\ waiting = TRUE /\ left = 0
      /\ acceptInflight = [k \in Listeners |-> 1] /\ totalAccepts = NListeners
      /\ accepted = 0 /\ completed = 0 /\ nextID = 0
      /\ conns = [i \in Ids |-> 0] /\ cell = [s \in Ids |-> Blank]
      /\ made = 0 /\ connFree = <<>> /\ sq = <<>> /\ cq = <<>>
      /\ fdt = [f \in FDs |-> Free] /\ armed = [k \in Listeners |-> 1]
      /\ jobs = <<>> /\ running = {} /\ ready = <<>> /\ drained = <<>>
  BY RelayAssumption DEF Init
<1>2. NListeners \in Nat
  BY <1>1 DEF relayCfg, NListeners
<1>3. kops = [h \in {Held(EventfdOp), Held(TimeoutOp)} |-> 1]
  BY DEF Init
<1>4. EventfdOp \in Ops /\ TimeoutOp \in Ops /\ EventfdOp.fds = {} /\ TimeoutOp.fds = {}
  BY DEF EventfdOp, TimeoutOp, Op, Ops, OpNames, Dirs
<1>5. Held(EventfdOp) \in HeldOps /\ Held(TimeoutOp) \in HeldOps
  <2>1. \A x : {fdt[f] : f \in {}} = {}
    OBVIOUS
  <2>2. QED
    BY <1>4, <2>1 DEF Held, HeldOps
<1>6. /\ DOMAIN kops = {Held(EventfdOp), Held(TimeoutOp)}
      /\ kops \in [DOMAIN kops -> Nat \ {0}]
  BY <1>3
<1>7. IsFiniteSet(DOMAIN kops)
  <2>1. IsFiniteSet({Held(EventfdOp)})
    BY FS_Singleton
  <2>2. IsFiniteSet({Held(EventfdOp)} \cup {Held(TimeoutOp)})
    BY <2>1, FS_AddElement
  <2>3. {Held(EventfdOp)} \cup {Held(TimeoutOp)} = DOMAIN kops
    BY <1>6
  <2>4. QED
    BY <2>2, <2>3
<1>8. DOMAIN kops \in SUBSET HeldOps
  BY <1>5, <1>6
<1>9. /\ waiting \in BOOLEAN /\ left \in Nat
      /\ acceptInflight \in [Listeners -> Nat] /\ armed \in [Listeners -> Nat]
      /\ totalAccepts \in Nat /\ accepted \in Nat /\ completed \in Nat
      /\ nextID \in Nat /\ made \in Nat
  BY <1>1, <1>2
<1>10. /\ conns \in [Ids -> Nat] /\ cell \in [Ids -> Conn] /\ connFree \in Seq(Nat)
       /\ sq \in Seq(Ops) /\ cq \in Seq(Completions) /\ fdt \in [FDs -> Int]
       /\ jobs \in Seq(Nat) /\ running \in SUBSET Ids
       /\ ready \in Seq(Results) /\ drained \in Seq(Results)
  BY <1>1, BlankConn DEF Free
<1>11. QED
  BY <1>1, <1>6, <1>7, <1>8, <1>9, <1>10 DEF Types

(* The first state has the invariant.                                      *)
LEMMA InitInv ==
  ASSUME Init
  PROVE  Inv
<1>1. Types
  BY InitTypes
<1>2. /\ waiting = TRUE /\ left = 0
      /\ acceptInflight = [k \in Listeners |-> 1] /\ totalAccepts = NListeners
      /\ accepted = 0 /\ completed = 0 /\ nextID = 0
      /\ conns = [i \in Ids |-> 0] /\ cell = [s \in Ids |-> Blank]
      /\ made = 0 /\ connFree = <<>> /\ sq = <<>> /\ cq = <<>>
      /\ fdt = [f \in FDs |-> Free] /\ armed = [k \in Listeners |-> 1]
      /\ jobs = <<>> /\ running = {} /\ ready = <<>> /\ drained = <<>>
      /\ kops = [h \in {Held(EventfdOp), Held(TimeoutOp)} |-> 1]
  BY DEF Init
<1>3. /\ NListeners \in Nat /\ MaxConns \in Nat /\ c.accepts \in Nat /\ c.fds \in Nat
      /\ Ids \subseteq Nat \ {0} /\ Listeners = 1..NListeners
  BY <1>1, Ranges DEF Listeners
<1>4. Live = {} /\ Serving = {} /\ Cardinality(Live) = 0 /\ Cardinality(Serving) = 0
  <2>1. Live = {} /\ Serving = {}
    BY <1>2 DEF Live, Serving
  <2>2. QED
    BY <2>1, FS_EmptySet
<1>5. ASSUME NEW h \in DOMAIN kops
      PROVE  /\ h.o = EventfdOp \/ h.o = TimeoutOp
             /\ h.o.op \in {"Eventfd", "Timeout"} /\ h.o.dir = NoDir /\ h.o.id = 0
             /\ h.o.fds = {} /\ h.o.buf = 0 /\ h.files = {}
  <2>1. h = Held(EventfdOp) \/ h = Held(TimeoutOp)
    BY <1>2
  <2>2. /\ h.o = EventfdOp \/ h.o = TimeoutOp
        /\ h.files = {fdt[f] : f \in h.o.fds}
    BY <2>1 DEF Held
  <2>3. /\ h.o.op \in {"Eventfd", "Timeout"} /\ h.o.dir = NoDir /\ h.o.id = 0
        /\ h.o.fds = {} /\ h.o.buf = 0
    BY <2>2 DEF EventfdOp, TimeoutOp, Op
  <2>4. QED
    BY <2>2, <2>3
<1>6. Shapes
  <2>1. \A h \in DOMAIN kops : Formed(h.o) /\ h.o.op # "Accept"
    BY <1>5 DEF Formed, ChurnOps
  <2>2. QED
    BY <1>2, <2>1 DEF Shapes
<1>7. Loop
  BY <1>2 DEF Loop
<1>8. \A V : Occurs(cq, V) = 0 /\ Occurs(sq, V) = 0
             /\ Occurs(ready, V) = 0 /\ Occurs(drained, V) = 0
  BY <1>2, OccursEmpty
<1>9. Cap
  <2>1. \A k \in Listeners : acceptInflight[k] = armed[k] + Occurs(cq, AcceptsOf(k))
    BY <1>2, <1>8
  <2>2. totalAccepts = Cardinality(Accepts)
    <3>1. Cardinality(Pairs([k \in 1..NListeners |-> 1])) = NListeners
      BY <1>3, PairsOnes
    <3>2. Accepts = Pairs([k \in 1..NListeners |-> 1])
      BY <1>2, <1>3 DEF Accepts, Pairs
    <3>3. QED
      BY <1>2, <3>1, <3>2
  <2>3. QED
    BY <1>2, <1>3, <1>4, <1>8, <2>1, <2>2 DEF Cap, Larger
<1>10. Structs
  <2>1. \A s \in Ids : InRange(cell[s])
    BY <1>2, <1>3, BlankConn DEF InRange
  <2>2. QED
    BY <1>2, <1>4, <2>1 DEF Structs
<1>11. \A V : (\A h \in DOMAIN kops : h.o \notin V) => Count(V) = 0 /\ InKernel(V) = 0
  <2> SUFFICES ASSUME NEW V, \A h \in DOMAIN kops : h.o \notin V
               PROVE  Count(V) = 0 /\ InKernel(V) = 0
    OBVIOUS
  <2>1. Count(V) = 0
    BY <1>1, <1>2, CountNone
  <2>2. QED
    BY <1>1, <2>1, CountNat DEF Count
<1>12. Life
  <2> SUFFICES ASSUME NEW i \in Ids PROVE LifeOf(i)
    BY DEF Life
  <2>1. HookWork(i) = 0
    BY <1>1, <1>2, HookNone
  <2>2. ASSUME NEW K \in SUBSET WorkOps, NEW D PROVE Count(OpsOf(i, K, D)) = 0
    <3>1. \A h \in DOMAIN kops : h.o.op \notin WorkOps
      BY <1>5 DEF WorkOps, ChurnOps, RelayOps
    <3>2. \A h \in DOMAIN kops : h.o \notin OpsOf(i, K, D)
      BY <3>1 DEF OpsOf
    <3>3. QED
      BY <1>11, <3>2
  <2>3. ChurnOps \in SUBSET WorkOps /\ RelayOps \in SUBSET WorkOps /\ {"Close"} \in SUBSET WorkOps
    BY DEF WorkOps
  <2>4. CloseWork(i) = 0
    BY <2>2, <2>3 DEF CloseWork
  <2>5. \A d \in Dirs : RelayWork(i, RelayOps, d) = 0
    BY <2>2, <2>3 DEF RelayWork
  <2>6. ChurnWork(i) = 0
    <3>1. Count(OpsOf(i, ChurnOps, {NoDir})) = 0
      BY <2>2, <2>3
    <3>2. QED
      BY <2>1, <3>1 DEF ChurnWork
  <2>7. Gone(i)
    BY <2>4, <2>5, <2>6 DEF Gone
  <2>8. QED
    BY <1>4, <2>7 DEF LifeOf
<1>13. BuffersNotShared
  <2>1. \A o \in Prepared : o.buf = 0
    BY <1>2, <1>5 DEF Prepared
  <2>2. QED
    BY <2>1 DEF BuffersNotShared
<1>14. DescriptorsOwned
  <2> SUFFICES ASSUME NEW f \in FDs PROVE Holders(f) = IF fdt[f] = Free THEN 0 ELSE 1
    BY DEF DescriptorsOwned
  <2>1. InKernel(ClosesOf(f)) = 0
    BY <1>5, <1>11 DEF ClosesOf
  <2>2. Cardinality(Owners(f)) = 0
    <3>1. Owners(f) = {}
      BY <1>4 DEF Owners
    <3>2. QED
      BY <3>1, FS_EmptySet
  <2>3. Holders(f) = 0
    BY <1>8, <2>1, <2>2, HoldersSum DEF AtClients
  <2>4. QED
    BY <1>2, <2>3
<1>15. Sockets
  BY <1>4 DEF Sockets
<1>16. Tags
  BY <1>2 DEF Tags
<1>17. Home
  BY <1>2, <1>5 DEF Home, OpsStayHome
<1>18. QED
  BY <1>1, <1>6, <1>7, <1>9, <1>10, <1>12, <1>13, <1>14, <1>15, <1>16, <1>17 DEF Inv

-----------------------------------------------------------------------------
(* The results.                                                            *)

(* The invariant holds in every state.                                     *)
THEOREM RelayHolds == Spec => []Inv
<1>1. Init => Inv
  BY InitInv
<1>2. Inv /\ [Next]_vars => Inv'
  BY NextStep
<1>3. QED
  BY <1>1, <1>2, PTL DEF Spec

(* A sequence whose elements are in a set. *)
LEMMA SeqWithin ==
  ASSUME NEW S, NEW T, NEW s \in Seq(S), \A j \in DOMAIN s : s[j] \in T
  PROVE  s \in Seq(T)
<1>1. Len(s) \in Nat /\ DOMAIN s = 1..Len(s) /\ s = [j \in 1..Len(s) |-> s[j]]
  OBVIOUS
<1>2. s \in [1..Len(s) -> T]
  BY <1>1
<1>3. QED
  BY <1>1, <1>2, SeqDef

(* The state is well typed, within the ranges of its configuration.        *)
LEMMA WellTyped ==
  ASSUME Inv
  PROVE  TypeOK
<1>1. Types /\ Shapes /\ Loop /\ Cap /\ Structs /\ Tags
  BY InvParts
<1>2. /\ c.accepts \in Nat /\ c.fds \in Nat /\ Ids \subseteq Nat \ {0} /\ Ids = 1..c.accepts
  BY <1>1, Ranges DEF Ids
<1>3. /\ accepted \in Nat /\ nextID \in Nat /\ made \in Nat /\ completed \in Nat
      /\ Cardinality(Serving) \in Nat /\ Occurs(cq, Clients) \in Nat
  BY <1>1, LiveFinite, SeqTypes, AtFinite DEF Types
<1>4. /\ accepted + Occurs(cq, Clients) <= c.accepts /\ nextID <= accepted /\ made <= nextID
      /\ completed + Cardinality(Serving) <= nextID
  BY <1>1 DEF Cap
<1>5. /\ accepted \in 0..c.accepts /\ nextID \in 0..accepted
      /\ completed \in 0..nextID /\ made \in 0..nextID
  BY <1>2, <1>3, <1>4
<1>6. /\ c \in Configs /\ waiting \in BOOLEAN
      /\ acceptInflight \in [Listeners -> Nat] /\ armed \in [Listeners -> Nat]
      /\ running \in SUBSET Ids
  BY <1>1 DEF Types
<1>7. left \in 0..Len(cq)
  <2>1. left \in Nat /\ cq \in Seq(Completions) /\ left <= Len(cq)
    BY <1>1 DEF Types, Loop
  <2>2. QED
    BY <2>1
<1>8. conns \in [Ids -> 0..made]
  <2>1. conns \in [Ids -> Nat] /\ \A i \in Live : conns[i] \in 1..made
    BY <1>1 DEF Types, Structs
  <2>2. ASSUME NEW i \in Ids PROVE conns[i] \in 0..made
    <3>1. CASE conns[i] = 0
      BY <1>3, <3>1
    <3>2. CASE conns[i] # 0
      BY <1>3, <2>1, <3>2 DEF Live
    <3>3. QED
      BY <3>1, <3>2
  <2>3. QED
    BY <2>1, <2>2
<1>9. ASSUME NEW s \in Ids
      PROVE  /\ cell[s].id \in 0..nextID
             /\ {cell[s].client, cell[s].up} \cup PipeEnds(cell[s]) \subseteq 0..c.fds
             /\ cell[s].closesLeft \in 0..2
  <2>1. PICK x : x = cell[s]
    OBVIOUS
  <2>2. x \in Conn /\ InRange(x)
    BY <1>1, <2>1 DEF Types, Structs
  <2>3. /\ x.id \in Nat /\ x.client \in Nat /\ x.up \in Nat /\ x.closesLeft \in Nat
        /\ \A d \in Dirs : x.pipe[d] \in Pipe
    BY <2>2 DEF Conn
  <2>4. \A d \in Dirs : x.pipe[d].r \in Nat /\ x.pipe[d].w \in Nat
    BY <2>3 DEF Pipe
  <2>5. \A f \in PipeEnds(x) : f \in 0..c.fds
    BY <1>2, <2>2, <2>4, InPipeEnds DEF InRange
  <2>6. x.id \in 0..nextID /\ x.client \in 0..c.fds /\ x.up \in 0..c.fds /\ x.closesLeft \in 0..2
    BY <1>2, <1>3, <2>2, <2>3 DEF InRange
  <2>7. QED
    BY <2>1, <2>5, <2>6
<1>10. connFree \in Seq(1..made)
  <2>1. connFree \in Seq(Nat) /\ \A j \in DOMAIN connFree : connFree[j] \in 1..made
    BY <1>1 DEF Types, Structs
  <2>2. QED
    BY <2>1, SeqWithin
<1>11. fdt \in [FDs -> {Free} \cup 0..c.accepts]
  <2>1. fdt \in [FDs -> Int] /\ \A f \in FDs : fdt[f] = Free \/ fdt[f] \in 0..c.accepts
    BY <1>1, TableTyped DEF Tags
  <2>2. QED
    BY <2>1
<1>12. jobs \in Seq(Ids)
  <2>1. jobs \in Seq(Nat) /\ \A j \in DOMAIN jobs : jobs[j] \in Ids
    BY <1>1 DEF Types, Shapes
  <2>2. QED
    BY <2>1, SeqWithin
<1>13. ASSUME NEW s, s \in {ready, drained} PROVE s \in Seq([id : Ids, fd : 0..c.fds])
  <2>1. s \in Seq(Results) /\ \A j \in DOMAIN s : s[j].id \in Ids /\ s[j].fd \in 0..c.fds
    BY <1>1, <1>13, SeqTypes DEF Shapes
  <2>2. ASSUME NEW j \in DOMAIN s PROVE s[j] \in [id : Ids, fd : 0..c.fds]
    <3>1. s[j] \in Results
      BY <2>1
    <3>2. QED
      BY <2>1, <3>1 DEF Results
  <2>3. QED
    BY <2>1, <2>2, SeqWithin
<1>14. QED
  BY <1>5, <1>6, <1>7, <1>8, <1>9, <1>10, <1>11, <1>12, <1>13 DEF TypeOK

(* However the accepts of several listeners interleave with arrivals,      *)
(* errors and sheds, the table keeps to -maxconns, and live connections    *)
(* with accepts in flight to the cap (main.go:724).                        *)
THEOREM CapIsKept == Spec => []CapHolds
<1>1. Inv => CapHolds
  BY WellTyped, InvParts DEF Cap, CapHolds
<1>2. QED
  BY <1>1, RelayHolds, PTL

(* No descriptor is leaked and none is closed twice: closeConn, the late   *)
(* result, the shed client and the failed splice each release what they    *)
(* alone hold.                                                             *)
THEOREM DescriptorsAreOwned == Spec => []DescriptorsOwned
<1>1. Inv => DescriptorsOwned
  BY InvParts
<1>2. QED
  BY <1>1, RelayHolds, PTL

(* The work of one connection. *)
LEMMA WorkOfOne ==
  ASSUME Inv, NEW i \in Live
  PROVE  IF Cc(i).closing
         THEN Cc(i).closesLeft > 0 /\ Cc(i).closesLeft = CloseWork(i)
         ELSE CASE ChurnWork(i) = 1 -> \A d \in Dirs : RelayWork(i, RelayOps, d) = 0
                [] ChurnWork(i) = 0 /\ mode = "duplex" ->
                     /\ \E d \in Dirs : ~Cc(i).done[d]
                     /\ \A d \in Dirs : RelayWork(i, RelayOps, d)
                                           = IF Cc(i).done[d] THEN 0 ELSE 1
                [] ChurnWork(i) = 0 /\ mode = "splice" ->
                     \A d \in Dirs : RelayWork(i, {"SpliceIn"}, d) = 1
                                     /\ RelayWork(i, {"SpliceOut"}, d) = 1
                [] OTHER -> FALSE
<1>1. Types /\ LifeOf(i)
  <2>1. Types /\ Life
    BY InvParts
  <2>2. i \in Ids
    BY DEF Live
  <2>3. QED
    BY <2>1, <2>2 DEF Life
<1>2. CASE Cc(i).closing
  BY <1>1, <1>2 DEF LifeOf, Closing
<1>3. CASE ~Cc(i).closing
  <2>1. Open(i)
    BY <1>1, <1>3 DEF LifeOf
  <2>2. CASE Asking(i)
    <3>1. ChurnWork(i) = 1 /\ \A d \in Dirs : RelayWork(i, RelayOps, d) = 0
      BY <2>2 DEF Asking
    <3>2. QED
      BY <1>3, <3>1
  <2>3. CASE ChurnWork(i) = 0 /\ Copying(i)
    <3>1. /\ ChurnWork(i) = 0 /\ mode = "duplex" /\ \E d \in Dirs : ~Cc(i).done[d]
          /\ \A d \in Dirs : RelayWork(i, RelayOps, d) = Expect(~Cc(i).done[d])
      BY <2>3 DEF Copying
    <3>2. \A d \in Dirs : RelayWork(i, RelayOps, d) = IF Cc(i).done[d] THEN 0 ELSE 1
      BY <3>1 DEF Expect
    <3>3. QED
      BY <1>3, <3>1, <3>2
  <2>4. CASE ChurnWork(i) = 0 /\ Splicing(i)
    <3>1. /\ ChurnWork(i) = 0 /\ mode = "splice"
          /\ \A d \in Dirs : RelayWork(i, {"SpliceIn"}, d) = 1
                             /\ RelayWork(i, {"SpliceOut"}, d) = 1
      BY <2>4 DEF Splicing
    <3>2. QED
      BY <1>3, <3>1
  <2>5. QED
    BY <2>1, <2>2, <2>3, <2>4 DEF Open
<1>4. QED
  BY <1>2, <1>3

(* Every connection has the operations, hooks or closes its stage calls    *)
(* for: none is forgotten and none is served twice.                        *)
THEOREM WorkIsPending == Spec => []WorkPending
<1>1. Inv => WorkPending
  BY WorkOfOne DEF WorkPending
<1>2. QED
  BY <1>1, RelayHolds, PTL

(* A hook's result always finds its connection, open and without an        *)
(* upstream, although opEventfd does not look (main.go:474).               *)
THEOREM ResultsFindConns == Spec => []ResultFindsConn
<1>1. Inv => ResultFindsConn
  <2>1. ASSUME Inv, NEW i \in Ids, HookWork(i) > 0
        PROVE  i \in Live /\ ~Cc(i).closing /\ Cc(i).up = NoFD
    BY <2>1, InvParts, HookStage
  <2>2. QED
    BY <2>1 DEF ResultFindsConn
<1>2. QED
  BY <1>1, RelayHolds, PTL

(* A recycled struct is never the buffer of an operation of its former     *)
(* connection (main.go:325).                                               *)
THEOREM BuffersAreOwn == Spec => []BuffersNotShared
<1>1. Inv => BuffersNotShared
  BY InvParts
<1>2. QED
  BY <1>1, RelayHolds, PTL

(* Without pipes, no operation works on the file of another connection.    *)
THEOREM CopiesAreHome == Spec => []CopiesStayHome
<1>1. Inv => CopiesStayHome
  BY InvParts DEF Home, CopiesStayHome
<1>2. QED
  BY <1>1, RelayHolds, PTL
============================================================================
