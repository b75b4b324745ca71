----------------------------- MODULE RingProofs ------------------------------
(***************************************************************************)
(* Proofs about Ring.tla, for rings of any size and indices of any width   *)
(* that is a multiple of it: the rings implement the queues of IoQueue     *)
(* whatever the indices wrap around to, and the ring thread never waits    *)
(* for a completion that cannot come.                                      *)
(*                                                                         *)
(* Indices are compared modulo IndexMod and slots are chosen modulo the    *)
(* size of the ring.  The first lemmas turn both into linear arithmetic;   *)
(* the next ones say what writing behind and reading from the front of a   *)
(* window of a ring do to the sequence it holds.                           *)
(***************************************************************************)
EXTENDS Ring, Integers, FiniteSetTheorems, SequenceTheorems, TLAPS

Idx == 0..(IndexMod - 1)
Words == Reqs \cup {0}

Waiting == Dist(sqTailLocal, sqHead)

Types ==
  /\ sqes \in [0..(SQEntries - 1) -> Words]
  /\ cqes \in [0..(CQEntries - 1) -> Words]
  /\ sqHead \in Idx /\ sqTail \in Idx /\ sqTailLocal \in Idx
  /\ cqHead \in Idx /\ cqTail \in Idx /\ cqHeadLocal \in Idx
  /\ toSubmit \in Nat /\ n \in Nat /\ i \in Nat /\ todo \in Nat
  /\ inflight \in SUBSET Words
  /\ backlog \in Seq(Words)
  /\ pc \in {"top", "wait", "body"}

(* The submission ring is never overrun, and no more is asked of the       *)
(* kernel than there is; all of it, when the kernel takes what it is asked *)
(* to.                                                                     *)
Submission ==
  /\ Waiting <= SQEntries
  /\ toSubmit <= Waiting
  /\ ~ShortSubmits => toSubmit = Waiting

(* The completion ring is never overrun, and the batch is in it. *)
Completion ==
  /\ cqHead = cqHeadLocal
  /\ CQReady <= CQEntries
  /\ i <= n /\ n <= CQReady
  /\ pc # "body" => n = 0 /\ i = 0 /\ todo = 0

(* Something is alive or about to be posted, and a thread that waits has   *)
(* submitted all of it.                                                    *)
Activity ==
  /\ Alive # {} \/ todo > 0
  /\ pc = "wait" /\ ~ShortSubmits => Waiting = 0

Inv == Types /\ Submission /\ Completion /\ Activity

-----------------------------------------------------------------------------
(***************************************************************************)
(* Arithmetic modulo m.                                                    *)
(***************************************************************************)
(* Quotient and remainder. *)
LEMMA ModBasics ==
  ASSUME NEW x \in Nat, NEW m \in Nat \ {0}
  PROVE  /\ x % m \in 0..(m - 1)
         /\ x \div m \in Nat
         /\ x = m * (x \div m) + (x % m)
<1>1. x % m \in 0..(m - 1)
  OBVIOUS
<1>2. x \div m \in Nat
  OBVIOUS
<1>3. PICK q \in Nat : q = x \div m
  BY <1>2
<1>4. x = m * q + (x % m)
  BY <1>3
<1>5. x = m * (x \div m) + (x % m)
  BY <1>3, <1>4, Zenon
<1>6. QED
  BY <1>1, <1>2, <1>5, Zenon

(* They are determined by the number. *)
LEMMA QuotientUnique ==
  ASSUME NEW m \in Nat \ {0}, NEW p \in Nat, NEW q \in Nat,
         NEW a \in 0..(m - 1), NEW b \in 0..(m - 1),
         m * p + a = m * q + b
  PROVE  p = q /\ a = b
<1>1. ASSUME NEW u \in Nat, NEW v \in Nat, u < v
      PROVE  m * v >= m * u + m
  <2>1. PICK d \in Nat : v = u + 1 + d
    <3>1. v - u - 1 \in Nat /\ v = u + 1 + (v - u - 1)
      BY <1>1
    <3>2. QED
      BY <3>1
  <2>2. m * v = m * u + m + m * d
    BY <2>1
  <2>3. m * d \in Nat /\ m * u \in Nat
    OBVIOUS
  <2>4. QED
    BY <2>2, <2>3
<1>2. m * p \in Nat /\ m * q \in Nat
  OBVIOUS
<1>3. ~(p < q)
  BY <1>1, <1>2
<1>4. ~(q < p)
  BY <1>1, <1>2
<1>5. QED
  BY <1>3, <1>4

(* A number written with a remainder has that remainder. *)
LEMMA ModUnique ==
  ASSUME NEW m \in Nat \ {0}, NEW x \in Nat, NEW q \in Nat, NEW a \in 0..(m - 1),
         x = m * q + a
  PROVE  x % m = a
<1>1. x % m \in 0..(m - 1) /\ x \div m \in Nat /\ x = m * (x \div m) + (x % m)
  BY ModBasics
<1>2. PICK p \in Nat : p = x \div m
  BY <1>1
<1>3. PICK b \in 0..(m - 1) : b = x % m
  BY <1>1
<1>4. m * q + a = m * p + b
  BY <1>1, <1>2, <1>3, Zenon
<1>5. a = b
  BY <1>4, QuotientUnique
<1>6. QED
  BY <1>3, <1>5

(* Remainders at most one turn away. *)
LEMMA ModSmall ==
  ASSUME NEW m \in Nat \ {0}, NEW x \in 0..(m - 1)
  PROVE  x % m = x /\ (x + m) % m = x
<1>1. x % m = x
  OBVIOUS
<1>2. PICK q \in Nat : q = 1
  OBVIOUS
<1>3. x + m = m * q + x /\ x + m \in Nat
  BY <1>2
<1>4. (x + m) % m = x
  BY <1>3, ModUnique, Zenon
<1>5. QED
  BY <1>1, <1>4

(* A multiple of m does not change the remainder. *)
LEMMA ModShift ==
  ASSUME NEW m \in Nat \ {0}, NEW x \in Nat, NEW k \in Nat, k % m = 0
  PROVE  (x + k) % m = x % m
<1>1. x % m \in 0..(m - 1) /\ x \div m \in Nat /\ x = m * (x \div m) + (x % m)
  BY ModBasics
<1>2. k \div m \in Nat /\ k = m * (k \div m) + (k % m)
  BY ModBasics
<1>3. PICK a \in Nat : a = x \div m
  BY <1>1
<1>4. PICK b \in Nat : b = k \div m
  BY <1>2
<1>5. m * (a + b) = m * a + m * b
  OBVIOUS
<1>6. x + k = m * (a + b) + (x % m)
  BY <1>1, <1>2, <1>3, <1>4, <1>5
<1>7. a + b \in Nat /\ x + k \in Nat
  OBVIOUS
<1>8. QED
  BY <1>1, <1>6, <1>7, ModUnique, Zenon

(* Numbers less than m apart have different remainders. *)
LEMMA ModApart ==
  ASSUME NEW m \in Nat \ {0}, NEW x \in Nat, NEW d \in 1..(m - 1)
  PROVE  (x + d) % m # x % m
<1>1. x % m \in 0..(m - 1) /\ x \div m \in Nat /\ x = m * (x \div m) + (x % m)
  BY ModBasics
<1>2. CASE (x % m) + d < m
  <2>1. x + d = m * (x \div m) + ((x % m) + d)
    BY <1>1
  <2>2. (x + d) % m = (x % m) + d
    <3>1. x + d \in Nat /\ (x % m) + d \in 0..(m - 1)
      BY <1>1, <1>2
    <3>2. QED
      BY <1>1, <2>1, <3>1, ModUnique, Zenon
  <2>3. QED
    BY <1>1, <2>2
<1>3. CASE (x % m) + d >= m
  <2>1. PICK q \in Nat : q = x \div m
    BY <1>1
  <2>2. m * (q + 1) = m * q + m
    OBVIOUS
  <2>3. x + d = m * (q + 1) + ((x % m) + d - m)
    BY <1>1, <2>1, <2>2
  <2>4. (x + d) % m = (x % m) + d - m
    <3>1. x + d \in Nat /\ q + 1 \in Nat /\ (x % m) + d - m \in 0..(m - 1)
      BY <1>1, <1>3
    <3>2. QED
      BY <2>3, <3>1, ModUnique, Zenon
  <2>5. QED
    BY <1>1, <2>4
<1>4. QED
  BY <1>1, <1>2, <1>3

-----------------------------------------------------------------------------
(***************************************************************************)
(* Indices.                                                                *)
(***************************************************************************)
(* What an index is moved to. *)
LEMMA IncValue ==
  ASSUME NEW x \in Idx, NEW k \in 0..IndexMod
  PROVE  /\ Inc(x, k) \in Idx
         /\ Inc(x, k) = IF x + k < IndexMod THEN x + k ELSE x + k - IndexMod
<1>1. IndexMod \in Nat \ {0}
  BY RingAssumption
<1>2. CASE x + k < IndexMod
  <2>1. x + k \in 0..(IndexMod - 1)
    BY <1>1, <1>2 DEF Idx
  <2>2. (x + k) % IndexMod = x + k
    BY <1>1, <2>1, ModSmall
  <2>3. QED
    BY <1>2, <2>1, <2>2 DEF Inc, Idx
<1>3. CASE ~(x + k < IndexMod)
  <2>1. PICK y \in 0..(IndexMod - 1) : y = x + k - IndexMod
    BY <1>1, <1>3 DEF Idx
  <2>2. (y + IndexMod) % IndexMod = y
    BY <1>1, ModSmall
  <2>3. y + IndexMod = x + k
    BY <1>1, <2>1 DEF Idx
  <2>4. QED
    BY <1>3, <2>1, <2>2, <2>3 DEF Inc, Idx
<1>4. QED
  BY <1>2, <1>3

(* The difference of two indices, full and empty told apart. *)
LEMMA DistValue ==
  ASSUME NEW hi \in Idx, NEW lo \in Idx
  PROVE  /\ Dist(hi, lo) \in Idx
         /\ Dist(hi, lo) = IF lo <= hi THEN hi - lo ELSE hi + IndexMod - lo
<1>1. IndexMod \in Nat \ {0}
  BY RingAssumption
<1>2. CASE lo <= hi
  <2>1. PICK y \in 0..(IndexMod - 1) : y = hi - lo
    BY <1>1, <1>2 DEF Idx
  <2>2. (y + IndexMod) % IndexMod = y
    BY <1>1, ModSmall
  <2>3. y + IndexMod = hi + IndexMod - lo
    BY <1>1, <2>1 DEF Idx
  <2>4. QED
    BY <1>2, <2>1, <2>2, <2>3 DEF Dist, Idx
<1>3. CASE ~(lo <= hi)
  <2>1. hi + IndexMod - lo \in 0..(IndexMod - 1)
    BY <1>1, <1>3 DEF Idx
  <2>2. (hi + IndexMod - lo) % IndexMod = hi + IndexMod - lo
    BY <1>1, <2>1, ModSmall
  <2>3. QED
    BY <1>3, <2>1, <2>2 DEF Dist, Idx
<1>4. QED
  BY <1>2, <1>3

(* Moving either end of a window, and in steps. *)
LEMMA DistMoves ==
  ASSUME NEW hi \in Idx, NEW lo \in Idx
  PROVE  /\ Dist(lo, lo) = 0
         /\ Inc(lo, 0) = lo
         /\ hi = Inc(lo, Dist(hi, lo))
         /\ Dist(hi, lo) + 1 < IndexMod => Dist(Inc(hi, 1), lo) = Dist(hi, lo) + 1
         /\ \A k \in 0..Dist(hi, lo) : Dist(hi, Inc(lo, k)) = Dist(hi, lo) - k
<1>1. IndexMod \in Nat \ {0}
  BY RingAssumption
<1>2. Dist(lo, lo) = 0 /\ Inc(lo, 0) = lo
  BY <1>1, IncValue, DistValue DEF Idx
<1>3. /\ Dist(hi, lo) \in 0..(IndexMod - 1)
      /\ Dist(hi, lo) = IF lo <= hi THEN hi - lo ELSE hi + IndexMod - lo
  BY DistValue DEF Idx
<1>4. hi = Inc(lo, Dist(hi, lo))
  <2>1. PICK d \in 0..IndexMod : d = Dist(hi, lo)
    BY <1>1, <1>3
  <2>2. Inc(lo, d) = IF lo + d < IndexMod THEN lo + d ELSE lo + d - IndexMod
    BY IncValue
  <2>3. QED
    BY <1>1, <1>3, <2>1, <2>2 DEF Idx
<1>5. ASSUME Dist(hi, lo) + 1 < IndexMod
      PROVE  Dist(Inc(hi, 1), lo) = Dist(hi, lo) + 1
  <2>1. /\ Inc(hi, 1) \in Idx
        /\ Inc(hi, 1) = IF hi + 1 < IndexMod THEN hi + 1 ELSE hi + 1 - IndexMod
    BY <1>1, IncValue
  <2>2. Dist(Inc(hi, 1), lo) = IF lo <= Inc(hi, 1) THEN Inc(hi, 1) - lo
                               ELSE Inc(hi, 1) + IndexMod - lo
    BY <2>1, DistValue
  <2>3. QED
    BY <1>1, <1>3, <1>5, <2>1, <2>2 DEF Idx
<1>6. ASSUME NEW k \in 0..Dist(hi, lo)
      PROVE  Dist(hi, Inc(lo, k)) = Dist(hi, lo) - k
  <2>1. k \in 0..IndexMod
    BY <1>1, <1>3
  <2>2. /\ Inc(lo, k) \in Idx
        /\ Inc(lo, k) = IF lo + k < IndexMod THEN lo + k ELSE lo + k - IndexMod
    BY <2>1, IncValue
  <2>3. Dist(hi, Inc(lo, k)) = IF Inc(lo, k) <= hi THEN hi - Inc(lo, k)
                               ELSE hi + IndexMod - Inc(lo, k)
    BY <2>2, DistValue
  <2>4. QED
    BY <1>1, <1>3, <2>2, <2>3 DEF Idx
<1>7. QED
  BY <1>2, <1>4, <1>5, <1>6

(* Two moves are one. *)
LEMMA IncTwice ==
  ASSUME NEW x \in Idx, NEW a \in Nat, NEW b \in Nat, a + b <= IndexMod
  PROVE  Inc(Inc(x, a), b) = Inc(x, a + b)
<1>1. IndexMod \in Nat \ {0}
  BY RingAssumption
<1>2. a \in 0..IndexMod /\ b \in 0..IndexMod /\ a + b \in 0..IndexMod
  BY <1>1
<1>3. /\ Inc(x, a) \in Idx
      /\ Inc(x, a) = IF x + a < IndexMod THEN x + a ELSE x + a - IndexMod
  BY <1>2, IncValue
<1>4. Inc(Inc(x, a), b) = IF Inc(x, a) + b < IndexMod THEN Inc(x, a) + b
                          ELSE Inc(x, a) + b - IndexMod
  BY <1>2, <1>3, IncValue
<1>5. Inc(x, a + b) = IF x + (a + b) < IndexMod THEN x + (a + b)
                      ELSE x + (a + b) - IndexMod
  BY <1>2, IncValue
<1>6. QED
  BY <1>1, <1>2, <1>3, <1>4, <1>5 DEF Idx

-----------------------------------------------------------------------------
(***************************************************************************)
(* Windows of a ring of E entries.                                         *)
(***************************************************************************)
Size(E) == E \in Nat \ {0} /\ E < IndexMod /\ IndexMod % E = 0

(* The wrap-around of the index does not move a slot. *)
LEMMA SlotValue ==
  ASSUME NEW E, Size(E), NEW x \in Idx, NEW k \in 0..IndexMod
  PROVE  /\ Inc(x, k) % E = (x + k) % E
         /\ Inc(x, k) % E \in 0..(E - 1)
         /\ x % E \in 0..(E - 1)
<1>1. IndexMod \in Nat \ {0} /\ E \in Nat \ {0} /\ IndexMod % E = 0
  BY RingAssumption DEF Size
<1>2. /\ Inc(x, k) \in Idx
      /\ Inc(x, k) = IF x + k < IndexMod THEN x + k ELSE x + k - IndexMod
  BY IncValue
<1>3. x \in Nat /\ Inc(x, k) \in Nat
  BY <1>2 DEF Idx
<1>4. Inc(x, k) % E \in 0..(E - 1) /\ x % E \in 0..(E - 1)
  BY <1>1, <1>3, ModBasics
<1>5. CASE x + k < IndexMod
  BY <1>2, <1>4, <1>5
<1>6. CASE ~(x + k < IndexMod)
  <2>1. PICK y \in Nat : y = x + k - IndexMod
    BY <1>1, <1>6 DEF Idx
  <2>2. (y + IndexMod) % E = y % E
    BY <1>1, ModShift
  <2>3. y + IndexMod = x + k
    BY <1>1, <2>1 DEF Idx
  <2>4. QED
    BY <1>2, <1>4, <1>6, <2>1, <2>2, <2>3
<1>7. QED
  BY <1>5, <1>6

(* Positions less than a ring apart are in different slots. *)
LEMMA SlotsApart ==
  ASSUME NEW E, Size(E), NEW x \in Idx, NEW a \in Nat, NEW b \in Nat,
         a < b, b - a < E, b <= IndexMod
  PROVE  Inc(x, a) % E # Inc(x, b) % E
<1>1. IndexMod \in Nat \ {0} /\ E \in Nat \ {0}
  BY RingAssumption DEF Size
<1>2. a \in 0..IndexMod /\ b \in 0..IndexMod
  BY <1>1
<1>3. Inc(x, a) % E = (x + a) % E /\ Inc(x, b) % E = (x + b) % E
  BY <1>2, SlotValue
<1>4. PICK d \in 1..(E - 1) : d = b - a
  BY <1>1
<1>5. PICK y \in Nat : y = x + a
  BY DEF Idx
<1>6. (y + d) % E # y % E
  BY <1>1, ModApart
<1>7. y + d = x + b
  BY <1>4, <1>5 DEF Idx
<1>8. QED
  BY <1>3, <1>5, <1>6, <1>7

(* A window is a sequence. *)
LEMMA WindowSeq ==
  ASSUME NEW E, Size(E), NEW slots \in [0..(E - 1) -> Words],
         NEW lo \in Idx, NEW hi \in Idx
  PROVE  /\ Window(slots, E, lo, hi) \in Seq(Words)
         /\ Len(Window(slots, E, lo, hi)) = Dist(hi, lo)
         /\ \A k \in 1..Dist(hi, lo) :
              Window(slots, E, lo, hi)[k] = slots[Inc(lo, k - 1) % E]
<1>1. IndexMod \in Nat \ {0}
  BY RingAssumption
<1>2. Dist(hi, lo) \in 0..(IndexMod - 1)
  BY DistValue DEF Idx
<1>3. ASSUME NEW k \in 1..Dist(hi, lo)
      PROVE  slots[Inc(lo, k - 1) % E] \in Words
  <2>1. k - 1 \in 0..IndexMod
    BY <1>1, <1>2
  <2>2. Inc(lo, k - 1) % E \in 0..(E - 1)
    BY <2>1, SlotValue
  <2>3. QED
    BY <2>2
<1>4. Window(slots, E, lo, hi) \in [1..Dist(hi, lo) -> Words]
  BY <1>3 DEF Window
<1>5. /\ Window(slots, E, lo, hi) \in Seq(Words)
      /\ Len(Window(slots, E, lo, hi)) = Dist(hi, lo)
  BY <1>2, <1>4
<1>6. ASSUME NEW k \in 1..Dist(hi, lo)
      PROVE  Window(slots, E, lo, hi)[k] = slots[Inc(lo, k - 1) % E]
  BY DEF Window
<1>7. QED
  BY <1>5, <1>6

(* Writing behind a window that does not fill the ring appends to it. *)
LEMMA WindowPut ==
  ASSUME NEW E, Size(E), NEW slots \in [0..(E - 1) -> Words],
         NEW lo \in Idx, NEW hi \in Idx, Dist(hi, lo) < E, NEW r \in Words
  PROVE  Window([slots EXCEPT ![hi % E] = r], E, lo, Inc(hi, 1))
           = Append(Window(slots, E, lo, hi), r)
<1> DEFINE d == Dist(hi, lo)
           s == [slots EXCEPT ![hi % E] = r]
           w == Window(slots, E, lo, hi)
           v == Window(s, E, lo, Inc(hi, 1))
<1>1. IndexMod \in Nat \ {0} /\ E \in Nat \ {0} /\ E < IndexMod
  BY RingAssumption DEF Size
<1>2. d \in Nat /\ d < E /\ d \in 0..IndexMod
  <2>1. Dist(hi, lo) \in Idx
    BY DistValue
  <2>2. QED
    BY <1>1, <2>1 DEF Idx
<1>3. Inc(hi, 1) \in Idx /\ Dist(Inc(hi, 1), lo) = d + 1
  <2>1. 1 \in 0..IndexMod /\ d + 1 < IndexMod
    BY <1>1, <1>2
  <2>2. QED
    BY <2>1, IncValue, DistMoves
<1>4. hi = Inc(lo, d)
  BY DistMoves
<1>5. hi % E \in 0..(E - 1)
  BY <1>1, SlotValue
<1>6. s \in [0..(E - 1) -> Words]
  BY <1>5
<1>7. w \in Seq(Words) /\ Len(w) = d
      /\ \A k \in 1..d : w[k] = slots[Inc(lo, k - 1) % E]
  BY WindowSeq
<1>8. v \in Seq(Words) /\ Len(v) = d + 1
      /\ \A k \in 1..(d + 1) : v[k] = s[Inc(lo, k - 1) % E]
  <2> HIDE DEF s, d
  <2>1. /\ v \in Seq(Words) /\ Len(v) = Dist(Inc(hi, 1), lo)
        /\ \A k \in 1..Dist(Inc(hi, 1), lo) : v[k] = s[Inc(lo, k - 1) % E]
    BY <1>3, <1>6, WindowSeq
  <2>2. QED
    BY <1>3, <2>1
<1>9. ASSUME NEW k \in 1..d
      PROVE  v[k] = w[k]
  <2>1. k - 1 \in Nat /\ k - 1 < d /\ d - (k - 1) < E /\ d <= IndexMod
        /\ k - 1 \in 0..IndexMod /\ k \in 1..(d + 1)
    BY <1>1, <1>2
  <2>2. Inc(lo, k - 1) % E # Inc(lo, d) % E
    BY <1>2, <2>1, SlotsApart
  <2>3. Inc(lo, k - 1) % E \in 0..(E - 1)
    BY <2>1, SlotValue
  <2>4. s[Inc(lo, k - 1) % E] = slots[Inc(lo, k - 1) % E]
    BY <1>4, <2>2, <2>3
  <2>5. QED
    BY <1>7, <1>8, <2>1, <2>4
<1>10. v[d + 1] = r
  <2>1. d + 1 \in 1..(d + 1) /\ (d + 1) - 1 = d
    BY <1>2
  <2>2. v[d + 1] = s[Inc(lo, d) % E]
    BY <1>8, <2>1
  <2>3. QED
    BY <1>4, <1>5, <2>2
<1> HIDE DEF v, w, d
<1>11. v = Append(w, r)
  <2>1. Append(w, r) \in Seq(Words) /\ Len(Append(w, r)) = d + 1
    BY <1>2, <1>7
  <2>2. \A k \in 1..(d + 1) : v[k] = Append(w, r)[k]
    BY <1>2, <1>7, <1>9, <1>10
  <2>3. QED
    BY <1>8, <2>1, <2>2
<1>12. QED
  BY <1>11 DEF v, w

(* Moving the front of a window drops what it passes. *)
LEMMA WindowDrop ==
  ASSUME NEW E, Size(E), NEW slots \in [0..(E - 1) -> Words],
         NEW lo \in Idx, NEW hi \in Idx, NEW k \in 0..Dist(hi, lo)
  PROVE  LET w == Window(slots, E, lo, hi) IN
         Window(slots, E, Inc(lo, k), hi) = SubSeq(w, k + 1, Len(w))
<1> DEFINE d == Dist(hi, lo)
           w == Window(slots, E, lo, hi)
           v == Window(slots, E, Inc(lo, k), hi)
<1>1. IndexMod \in Nat \ {0}
  BY RingAssumption
<1>2. d \in 0..(IndexMod - 1) /\ k \in 0..d /\ k \in 0..IndexMod
  BY <1>1, DistValue DEF Idx
<1>3. Inc(lo, k) \in Idx /\ Dist(hi, Inc(lo, k)) = d - k
  BY <1>2, IncValue, DistMoves
<1>4. w \in Seq(Words) /\ Len(w) = d
      /\ \A j \in 1..d : w[j] = slots[Inc(lo, j - 1) % E]
  BY WindowSeq
<1>5. v \in Seq(Words) /\ Len(v) = d - k
      /\ \A j \in 1..(d - k) : v[j] = slots[Inc(Inc(lo, k), j - 1) % E]
  <2> HIDE DEF d
  <2>1. /\ v \in Seq(Words) /\ Len(v) = Dist(hi, Inc(lo, k))
        /\ \A j \in 1..Dist(hi, Inc(lo, k)) :
             v[j] = slots[Inc(Inc(lo, k), j - 1) % E]
    BY <1>3, WindowSeq
  <2>2. QED
    BY <1>3, <2>1
<1>6. ASSUME NEW j \in 1..(d - k)
      PROVE  v[j] = w[k + j]
  <2>1. j - 1 \in Nat /\ k \in Nat /\ k + (j - 1) <= IndexMod
        /\ k + j \in 1..d /\ k + (j - 1) = (k + j) - 1
    BY <1>1, <1>2
  <2>2. Inc(Inc(lo, k), j - 1) = Inc(lo, (k + j) - 1)
    BY <2>1, IncTwice
  <2>3. QED
    BY <1>4, <1>5, <2>1, <2>2
<1> HIDE DEF v, w, d
<1>7. v = SubSeq(w, k + 1, Len(w))
  <2>1. SubSeq(w, k + 1, d) \in Seq(Words) /\ Len(SubSeq(w, k + 1, d)) = d - k
    BY <1>2, <1>4
  <2>2. \A j \in 1..(d - k) : SubSeq(w, k + 1, d)[j] = w[k + j]
    BY <1>2, <1>4
  <2>3. QED
    BY <1>2, <1>4, <1>5, <1>6, <2>1, <2>2
<1>8. QED
  BY <1>7 DEF v, w

-----------------------------------------------------------------------------
(***************************************************************************)
(* The two queues that the rings hold.                                     *)
(***************************************************************************)
Front == Inc(cqHeadLocal, i)
Unread == Window(cqes, CQEntries, Front, cqTail)

(* What RingAssumption says of the sizes. *)
LEMMA Sizes ==
  /\ Size(SQEntries) /\ Size(CQEntries)
  /\ IndexMod \in Nat \ {0} /\ SQEntries \in Nat \ {0} /\ CQEntries \in Nat \ {0}
  /\ SQEntries < IndexMod /\ CQEntries < IndexMod
BY RingAssumption DEF Size

(* The submission ring holds the prepared entries. *)
LEMMA PreparedSeq ==
  ASSUME Types
  PROVE  /\ Waiting \in Idx /\ Waiting \in Nat
         /\ Prepared \in Seq(Words) /\ Len(Prepared) = Waiting
<1>1. sqTailLocal \in Idx /\ sqHead \in Idx /\ sqes \in [0..(SQEntries - 1) -> Words]
  BY DEF Types
<1>2. Waiting \in Idx
  BY <1>1, DistValue DEF Waiting
<1>3. Waiting \in Nat
  BY <1>2, Sizes DEF Idx
<1>4. QED
  BY <1>1, <1>2, <1>3, Sizes, WindowSeq DEF Waiting, Prepared

(* The completion ring and the kernel's buffer hold the completed ones.    *)
LEMMA CompletedSeq ==
  ASSUME Types, Completion
  PROVE  /\ CQReady \in Nat /\ Front \in Idx
         /\ Dist(cqTail, Front) = CQReady - i
         /\ Unread \in Seq(Words) /\ Len(Unread) = CQReady - i
         /\ Completed = Unread \o backlog
         /\ Completed \in Seq(Words)
<1>1. /\ cqTail \in Idx /\ cqHeadLocal \in Idx /\ i \in Nat /\ n \in Nat
      /\ cqes \in [0..(CQEntries - 1) -> Words] /\ backlog \in Seq(Words)
      /\ i <= n /\ n <= CQReady
  BY DEF Types, Completion
<1>2. CQReady \in Idx /\ CQReady \in Nat
  <2>1. CQReady \in Idx
    BY <1>1, DistValue DEF CQReady
  <2>2. QED
    BY <2>1, Sizes DEF Idx
<1>3. i \in 0..CQReady /\ i \in 0..IndexMod
  BY <1>1, <1>2, Sizes DEF Idx
<1>4. Front \in Idx
  BY <1>1, <1>3, IncValue DEF Front
<1>5. Dist(cqTail, Front) = CQReady - i
  BY <1>1, <1>3, DistMoves DEF Front, CQReady
<1>6. Unread \in Seq(Words) /\ Len(Unread) = CQReady - i
  BY <1>1, <1>4, <1>5, Sizes, WindowSeq DEF Unread
<1>7. Completed = Unread \o backlog
  BY DEF Completed, Unread, Front
<1>8. Completed \in Seq(Words)
  BY <1>1, <1>6, <1>7
<1>9. QED
  BY <1>2, <1>4, <1>5, <1>6, <1>7, <1>8

(* The elements of a sequence when it grows, loses its head or a prefix. *)
LEMMA ElemsChange ==
  ASSUME NEW s \in Seq(Words)
  PROVE  /\ \A r \in Words : Elems(Append(s, r)) = Elems(s) \cup {r}
         /\ s # <<>> => Elems(s) \subseteq Elems(Tail(s)) \cup {Head(s)}
         /\ \A k \in 0..Len(s) :
              Elems(s) \subseteq Elems(SubSeq(s, k + 1, Len(s))) \cup {s[m] : m \in 1..k}
         /\ Elems(s) \subseteq Words
<1>1. Len(s) \in Nat
  OBVIOUS
<1>2. ASSUME NEW r \in Words
      PROVE  Elems(Append(s, r)) = Elems(s) \cup {r}
  <2>1. Len(Append(s, r)) = Len(s) + 1 /\ Append(s, r)[Len(s) + 1] = r
        /\ \A k \in 1..Len(s) : Append(s, r)[k] = s[k]
    OBVIOUS
  <2>2. 1..(Len(s) + 1) = 1..Len(s) \cup {Len(s) + 1}
    BY <1>1
  <2> DEFINE a == Append(s, r)
             l == Len(s)
  <2> HIDE DEF a, l
  <2>3. \A x : x \in Elems(a) <=> x \in Elems(s) \/ x = r
    BY <2>1, <2>2 DEF Elems, a, l
  <2>4. QED
    BY <2>3 DEF a
<1>3. ASSUME s # <<>>
      PROVE  Elems(s) \subseteq Elems(Tail(s)) \cup {Head(s)}
  <2>1. SUFFICES ASSUME NEW k \in 1..Len(s), k # 1
                 PROVE  s[k] \in Elems(Tail(s))
    BY <1>3 DEF Elems
  <2>2. k - 1 \in 1..Len(Tail(s)) /\ Tail(s)[k - 1] = s[k]
    BY <1>3, <2>1
  <2>3. QED
    BY <2>2 DEF Elems
<1>4. ASSUME NEW k \in 0..Len(s)
      PROVE  Elems(s) \subseteq Elems(SubSeq(s, k + 1, Len(s))) \cup {s[m] : m \in 1..k}
  <2>1. SUFFICES ASSUME NEW j \in 1..Len(s), j \notin 1..k
                 PROVE  s[j] \in Elems(SubSeq(s, k + 1, Len(s)))
    BY DEF Elems
  <2>2. j - k \in 1..Len(SubSeq(s, k + 1, Len(s)))
        /\ SubSeq(s, k + 1, Len(s))[j - k] = s[j]
    BY <1>1, <2>1
  <2>3. QED
    BY <2>2 DEF Elems
<1>5. Elems(s) \subseteq Words
  BY DEF Elems
<1>6. QED
  BY <1>2, <1>3, <1>4, <1>5

(* What is alive is finitely much. *)
LEMMA AliveFinite ==
  ASSUME Types, Completion
  PROVE  IsFiniteSet(Alive)
<1>1. IsFiniteSet(Words)
  BY RingAssumption, FS_AddElement DEF Words
<1>2. Elems(Prepared) \subseteq Words /\ Elems(Completed) \subseteq Words
  BY PreparedSeq, CompletedSeq, ElemsChange
<1>3. Alive \in SUBSET Words
  BY <1>2 DEF Alive, Types
<1>4. QED
  BY <1>1, <1>3, FS_Subset

-----------------------------------------------------------------------------
(***************************************************************************)
(* One lemma per operation: what it does to the rings and the queues they  *)
(* hold, and that the invariant is kept.                                   *)
(***************************************************************************)
(* Preparing an entry appends it. *)
LEMMA GetSQEStep ==
  ASSUME Inv, NEW r \in Reqs, GetSQE(r)
  PROVE  /\ Types' /\ Submission' /\ Completion'
         /\ Prepared' = Append(Prepared, r)
         /\ inflight' = inflight /\ Completed' = Completed
         /\ r \notin Alive
<1>1. /\ Types /\ Submission /\ Completion
      /\ sqTailLocal \in Idx /\ sqHead \in Idx /\ r \in Words
      /\ sqes \in [0..(SQEntries - 1) -> Words]
  BY DEF Inv, Types, Words
<1>2. /\ pc = "body" /\ todo > 0 /\ r \notin Alive
      /\ ~(Dist(sqTailLocal, sqHead) >= SQEntries)
      /\ sqes' = [sqes EXCEPT ![sqTailLocal % SQEntries] = r]
      /\ sqTailLocal' = Inc(sqTailLocal, 1)
      /\ toSubmit' = toSubmit + 1 /\ todo' = todo - 1
      /\ sqTail' = sqTail /\ sqHead' = sqHead
      /\ cqes' = cqes /\ cqHeadLocal' = cqHeadLocal /\ cqHead' = cqHead /\ cqTail' = cqTail
      /\ inflight' = inflight /\ backlog' = backlog /\ pc' = pc /\ n' = n /\ i' = i
  BY DEF GetSQE, SQFull, cqVars
<1>3. Waiting \in Nat /\ Waiting < SQEntries
  BY <1>1, <1>2, PreparedSeq, Sizes DEF Waiting
<1>4. Waiting' = Waiting + 1
  BY <1>1, <1>2, <1>3, Sizes, DistMoves DEF Waiting
<1>5. Prepared' = Append(Prepared, r)
  BY <1>1, <1>2, <1>3, Sizes, WindowPut, ZenonT(30) DEF Prepared, Waiting
<1>6. Completed' = Completed
  BY <1>2 DEF Completed
<1>7. Types'
  <2>1. sqTailLocal' \in Idx
    BY <1>1, <1>2, Sizes, IncValue
  <2>2. sqes' \in [0..(SQEntries - 1) -> Words]
    BY <1>1, <1>2
  <2>3. toSubmit' \in Nat /\ todo' \in Nat
    BY <1>1, <1>2 DEF Types
  <2>4. QED
    BY <1>1, <1>2, <2>1, <2>2, <2>3 DEF Types
<1>8. Submission'
  <2>1. toSubmit \in Nat
    BY <1>1 DEF Types
  <2>2. QED
    BY <1>1, <1>2, <1>3, <1>4, <2>1, Sizes DEF Submission
<1>9. Completion'
  BY <1>1, <1>2 DEF Completion, CQReady
<1>10. QED
  BY <1>2, <1>5, <1>6, <1>7, <1>8, <1>9

(* Submitting moves the first k prepared entries to the kernel. *)
LEMMA SubmitStep ==
  ASSUME Inv, NEW k \in 0..SQEntries, Submit(k), pc' \in {"top", "wait", "body"},
         n' = n \/ (pc' = "body" /\ n' = CQReady),
         pc' = "body" \/ pc # "body"
  PROVE  /\ Types' /\ Submission' /\ Completion'
         /\ k \in 0..Len(Prepared)
         /\ Prepared' = SubSeq(Prepared, k + 1, Len(Prepared))
         /\ inflight' = inflight \cup {Prepared[m] : m \in 1..k}
         /\ Completed' = Completed
         /\ ~ShortSubmits => Waiting' = 0
<1>1. /\ Types /\ Submission /\ Completion
      /\ sqTailLocal \in Idx /\ sqHead \in Idx
      /\ sqes \in [0..(SQEntries - 1) -> Words]
      /\ toSubmit \in Nat /\ i \in Nat /\ n \in Nat
  BY DEF Inv, Types
<1>2. /\ k \in 0..Asked
      /\ k < Asked => ShortSubmits
      /\ sqTail' = sqTailLocal /\ sqHead' = Inc(sqHead, k)
      /\ inflight' = inflight \cup {Prepared[m] : m \in 1..k}
      /\ toSubmit' = 0 /\ sqes' = sqes /\ sqTailLocal' = sqTailLocal
      /\ cqes' = cqes /\ cqHeadLocal' = cqHeadLocal /\ cqHead' = cqHead /\ cqTail' = cqTail
      /\ backlog' = backlog /\ i' = i /\ todo' = todo
  BY DEF Submit, cqVars
<1>3. /\ Waiting \in Nat /\ Prepared \in Seq(Words) /\ Len(Prepared) = Waiting
      /\ toSubmit <= Waiting /\ Waiting <= SQEntries
  BY <1>1, PreparedSeq DEF Submission
<1>4. Asked = toSubmit
  BY <1>1, <1>3 DEF Asked
<1>5. k \in 0..Waiting /\ k \in 0..IndexMod
  BY <1>1, <1>2, <1>3, <1>4, Sizes
<1>6. Waiting' = Waiting - k
  BY <1>1, <1>2, <1>5, DistMoves DEF Waiting
<1>7. Prepared' = SubSeq(Prepared, k + 1, Len(Prepared))
  BY <1>1, <1>2, <1>5, Sizes, WindowDrop DEF Prepared, Waiting
<1>8. Completed' = Completed
  BY <1>2 DEF Completed
<1>9. ~ShortSubmits => k = Waiting
  BY <1>1, <1>2, <1>3, <1>4 DEF Submission
<1>10. Types'
  <2>1. sqHead' \in Idx
    BY <1>1, <1>2, <1>5, IncValue
  <2>2. inflight' \in SUBSET Words
    BY <1>1, <1>2, <1>3, <1>5 DEF Types
  <2>3. n' \in Nat
    BY <1>1, CompletedSeq
  <2>4. QED
    BY <1>1, <1>2, <2>1, <2>2, <2>3 DEF Types
<1>11. Submission'
  BY <1>2, <1>3, <1>5, <1>6, <1>9, Sizes DEF Submission
<1>12. Completion'
  <2>1. CQReady' = CQReady
    BY <1>2 DEF CQReady
  <2>2. CQReady \in Nat
    BY <1>1, CompletedSeq
  <2>3. QED
    BY <1>1, <1>2, <2>1, <2>2 DEF Completion
<1>13. QED
  BY <1>2, <1>3, <1>5, <1>6, <1>7, <1>8, <1>9, <1>10, <1>11, <1>12

(* The wait ends with a batch of what is in the ring. *)
LEMMA WaitStep ==
  ASSUME Inv, WaitReturns
  PROVE  /\ Types' /\ Submission' /\ Completion'
         /\ UNCHANGED <<Prepared, inflight, Completed>>
<1>1. Types /\ Submission /\ Completion
  BY DEF Inv
<1>2. /\ pc = "wait" /\ pc' = "body" /\ n' = CQReady
      /\ UNCHANGED <<sqes, sqTailLocal, sqTail, sqHead, toSubmit>>
      /\ UNCHANGED <<cqes, cqHeadLocal, cqHead, cqTail>>
      /\ UNCHANGED <<inflight, backlog, i, todo>>
  BY DEF WaitReturns, sqVars, cqVars
<1>3. CQReady \in Nat /\ CQReady' = CQReady
  BY <1>1, <1>2, CompletedSeq DEF CQReady
<1>4. Prepared' = Prepared /\ Completed' = Completed /\ Waiting' = Waiting
  BY <1>2 DEF Prepared, Completed, Waiting
<1>5. Types'
  BY <1>1, <1>2, <1>3 DEF Types
<1>6. Submission'
  BY <1>1, <1>2, <1>4 DEF Submission
<1>7. Completion'
  BY <1>1, <1>2, <1>3 DEF Completion
<1>8. QED
  BY <1>2, <1>4, <1>5, <1>6, <1>7

(* Handling a completion takes the first unread one. *)
LEMMA PeekStep ==
  ASSUME Inv, NEW p \in 0..MaxPosts, PeekCQE(p)
  PROVE  /\ Types' /\ Submission' /\ Completion'
         /\ Completed # <<>> /\ Completed' = Tail(Completed)
         /\ Prepared' = Prepared /\ inflight' = inflight
<1>1. /\ Types /\ Submission /\ Completion
      /\ i \in Nat /\ n \in Nat /\ p \in Nat /\ n <= CQReady
      /\ cqHeadLocal \in Idx /\ cqTail \in Idx
      /\ cqes \in [0..(CQEntries - 1) -> Words]
      /\ backlog \in Seq(Words)
  BY RingAssumption DEF Inv, Types, Completion
<1>2. /\ pc = "body" /\ i < n /\ i' = i + 1 /\ todo' = p
      /\ UNCHANGED <<sqes, sqTailLocal, sqTail, sqHead, toSubmit>>
      /\ UNCHANGED <<cqes, cqHeadLocal, cqHead, cqTail>>
      /\ UNCHANGED <<inflight, backlog, pc, n>>
  BY DEF PeekCQE, sqVars, cqVars
<1>3. /\ CQReady \in Nat /\ Front \in Idx /\ Dist(cqTail, Front) = CQReady - i
      /\ Unread \in Seq(Words) /\ Len(Unread) = CQReady - i
      /\ Completed = Unread \o backlog
  BY <1>1, CompletedSeq
<1>4. CQReady' = CQReady /\ Waiting' = Waiting
  BY <1>2 DEF CQReady, Waiting
<1>5. Types' /\ Submission' /\ Completion'
  <2>1. Types'
    BY <1>1, <1>2 DEF Types
  <2>2. Submission'
    BY <1>1, <1>2, <1>4 DEF Submission
  <2>3. Completion'
    BY <1>1, <1>2, <1>4 DEF Completion
  <2>4. QED
    BY <2>1, <2>2, <2>3
<1>6. Front' = Inc(Front, 1)
  <2>1. i + 1 <= IndexMod
    <3>1. CQReady \in Idx
      BY <1>1, DistValue DEF CQReady
    <3>2. QED
      BY <1>1, <1>2, <1>3, <3>1, Sizes DEF Idx
  <2>2. Inc(Inc(cqHeadLocal, i), 1) = Inc(cqHeadLocal, i + 1)
    BY <1>1, <2>1, IncTwice
  <2>3. QED
    BY <1>2, <2>2 DEF Front
<1>7. 1 \in 0..Dist(cqTail, Front)
  BY <1>1, <1>2, <1>3
<1>8. Unread' = SubSeq(Unread, 2, Len(Unread))
  <2>1. Window(cqes, CQEntries, Inc(Front, 1), cqTail) =
          SubSeq(Window(cqes, CQEntries, Front, cqTail), 1 + 1,
                 Len(Window(cqes, CQEntries, Front, cqTail)))
    BY <1>1, <1>3, <1>7, Sizes, WindowDrop
  <2>2. QED
    BY <1>2, <1>6, <2>1 DEF Unread
<1>9. Unread # <<>> /\ Unread' = Tail(Unread)
  BY <1>1, <1>2, <1>3, <1>8
<1>10. Completed' = Unread' \o backlog
  BY <1>2 DEF Completed, Unread, Front
<1>11. Completed # <<>> /\ Completed' = Tail(Completed)
  <2> DEFINE u == Unread
  <2>1. u \in Seq(Words) /\ u # <<>> /\ backlog \in Seq(Words)
    BY <1>1, <1>3, <1>9
  <2> HIDE DEF u
  <2>2. u \o backlog # <<>> /\ Tail(u) \o backlog = Tail(u \o backlog)
    <3> DEFINE x == Tail(u) \o backlog
               y == Tail(u \o backlog)
    <3>1. Len(u) \in Nat \ {0} /\ Len(backlog) \in Nat
      BY <2>1
    <3>2. /\ x \in Seq(Words) /\ y \in Seq(Words)
          /\ Len(x) = Len(u) + Len(backlog) - 1
          /\ Len(y) = Len(u) + Len(backlog) - 1
          /\ u \o backlog # <<>>
      BY <2>1, <3>1
    <3>3. \A j \in 1..(Len(u) + Len(backlog) - 1) : x[j] = y[j]
      BY <2>1, <3>1
    <3> HIDE DEF x, y
    <3>4. x = y
      BY <3>2, <3>3
    <3>5. QED
      BY <3>2, <3>4 DEF x, y
  <2>3. QED
    BY <1>3, <1>9, <1>10, <2>2 DEF u
<1>12. Prepared' = Prepared
  BY <1>2 DEF Prepared
<1>13. QED
  BY <1>2, <1>5, <1>11, <1>12

(* Giving the batch back moves the head over what was read. *)
LEMMA AdvanceStep ==
  ASSUME Inv, CQAdvance
  PROVE  /\ Types' /\ Submission' /\ Completion'
         /\ UNCHANGED <<Prepared, inflight, Completed>>
<1>1. /\ Types /\ Submission /\ Completion
      /\ i \in Nat /\ n \in Nat /\ n <= CQReady
      /\ cqHeadLocal \in Idx /\ cqTail \in Idx
      /\ CQReady <= CQEntries
  BY DEF Inv, Types, Completion
<1>2. /\ pc = "body" /\ todo = 0 /\ i = n
      /\ cqHeadLocal' = Inc(cqHeadLocal, n) /\ cqHead' = cqHeadLocal'
      /\ pc' = "top" /\ n' = 0 /\ i' = 0
      /\ UNCHANGED <<sqes, sqTailLocal, sqTail, sqHead, toSubmit>>
      /\ UNCHANGED <<cqes, cqTail, inflight, backlog, todo>>
  BY DEF CQAdvance, sqVars
<1>3. CQReady \in Nat /\ Front \in Idx /\ Dist(cqTail, Front) = CQReady - i
  BY <1>1, CompletedSeq
<1>4. cqHeadLocal' = Front /\ Front' = Front
  BY <1>2, <1>3, DistMoves DEF Front
<1>5. CQReady' = CQReady - n
  BY <1>2, <1>3, <1>4 DEF CQReady
<1>6. Completed' = Completed /\ Prepared' = Prepared /\ Waiting' = Waiting
  BY <1>2, <1>4 DEF Completed, Front, Prepared, Waiting
<1>7. Types'
  BY <1>1, <1>2, <1>3, <1>4 DEF Types
<1>8. Submission'
  BY <1>1, <1>2, <1>6 DEF Submission
<1>9. Completion'
  BY <1>1, <1>2, <1>3, <1>5, Sizes DEF Completion
<1>10. QED
  BY <1>2, <1>6, <1>7, <1>8, <1>9

(* A completion posted into a ring that is not full is the last one in it. *)
LEMMA FillStep ==
  ASSUME Inv, NEW r \in Words, ~CQFull, Fill(r),
         inflight' \in SUBSET Words, backlog' \in Seq(Words)
  PROVE  /\ Types' /\ Submission' /\ Completion'
         /\ Unread' = Append(Unread, r)
         /\ Prepared' = Prepared /\ Waiting' = Waiting
<1>1. /\ Types /\ Submission /\ Completion
      /\ i \in Nat /\ n \in Nat /\ i <= n /\ n <= CQReady
      /\ cqHeadLocal \in Idx /\ cqTail \in Idx /\ cqHead = cqHeadLocal
      /\ cqes \in [0..(CQEntries - 1) -> Words]
  BY DEF Inv, Types, Completion
<1>2. /\ cqes' = [cqes EXCEPT ![cqTail % CQEntries] = r]
      /\ cqTail' = Inc(cqTail, 1)
      /\ UNCHANGED <<sqes, sqTailLocal, sqTail, sqHead, toSubmit>>
      /\ UNCHANGED <<cqHeadLocal, cqHead, pc, n, i, todo>>
  BY DEF Fill, sqVars
<1>3. /\ CQReady \in Nat /\ Front \in Idx /\ Dist(cqTail, Front) = CQReady - i
  BY <1>1, CompletedSeq
<1>4. CQReady < CQEntries
  BY <1>1, <1>3, Sizes DEF CQFull, CQReady
<1>5. CQReady' = CQReady + 1
  BY <1>1, <1>2, <1>3, <1>4, Sizes, DistMoves DEF CQReady
<1>6. Unread' = Append(Unread, r)
  <2>1. Dist(cqTail, Front) < CQEntries
    BY <1>1, <1>3, <1>4, Sizes
  <2>2. Front' = Front
    BY <1>2 DEF Front
  <2>3. Window([cqes EXCEPT ![cqTail % CQEntries] = r], CQEntries, Front, Inc(cqTail, 1))
          = Append(Window(cqes, CQEntries, Front, cqTail), r)
    <3>1. Size(CQEntries) /\ Front \in Idx /\ cqTail \in Idx
          /\ cqes \in [0..(CQEntries - 1) -> Words]
      BY <1>1, <1>3, Sizes
    <3>2. QED
      BY <2>1, <3>1, WindowPut, ZenonT(30)
  <2>4. Unread' = Window(cqes', CQEntries, Front', cqTail')
    BY DEF Unread
  <2>5. QED
    BY <1>2, <2>2, <2>3, <2>4 DEF Unread
<1>7. Prepared' = Prepared /\ Waiting' = Waiting
  BY <1>2 DEF Prepared, Waiting
<1>8. Types'
  <2>1. cqTail' \in Idx
    BY <1>1, <1>2, Sizes, IncValue
  <2>2. cqes' \in [0..(CQEntries - 1) -> Words]
    BY <1>1, <1>2
  <2>3. QED
    BY <1>1, <1>2, <2>1, <2>2 DEF Types
<1>9. Submission'
  BY <1>1, <1>2, <1>7 DEF Submission
<1>10. Completion'
  BY <1>1, <1>2, <1>3, <1>4, <1>5, Sizes DEF Completion
<1>11. QED
  BY <1>6, <1>7, <1>8, <1>9, <1>10

(* Appending to a concatenation. *)
LEMMA AppendLast ==
  ASSUME NEW u \in Seq(Words), NEW b \in Seq(Words), NEW r \in Words
  PROVE  /\ u \o Append(b, r) = Append(u \o b, r)
         /\ b = <<>> => Append(u, r) \o b = Append(u \o b, r)
         /\ b # <<>> => Append(u, Head(b)) \o Tail(b) = u \o b
<1>1. Len(u) \in Nat /\ Len(b) \in Nat
  OBVIOUS
<1>2. u \o Append(b, r) = Append(u \o b, r)
  <2> DEFINE x == u \o Append(b, r)
             y == Append(u \o b, r)
  <2>1. x \in Seq(Words) /\ y \in Seq(Words)
        /\ Len(x) = Len(u) + Len(b) + 1 /\ Len(y) = Len(u) + Len(b) + 1
    BY <1>1
  <2>2. \A j \in 1..(Len(u) + Len(b) + 1) : x[j] = y[j]
    BY <1>1
  <2> HIDE DEF x, y
  <2>3. x = y
    BY <2>1, <2>2
  <2>4. QED
    BY <2>3 DEF x, y
<1>3. ASSUME b = <<>>
      PROVE  Append(u, r) \o b = Append(u \o b, r)
  BY <1>3
<1>4. ASSUME b # <<>>
      PROVE  Append(u, Head(b)) \o Tail(b) = u \o b
  <2> DEFINE x == Append(u, Head(b)) \o Tail(b)
             y == u \o b
  <2>1. Len(b) \in Nat \ {0} /\ Head(b) \in Words /\ Tail(b) \in Seq(Words)
        /\ Head(b) = b[1] /\ Len(Tail(b)) = Len(b) - 1
        /\ \A j \in 1..(Len(b) - 1) : Tail(b)[j] = b[j + 1]
    BY <1>4
  <2>2. x \in Seq(Words) /\ y \in Seq(Words)
        /\ Len(x) = Len(u) + Len(b) /\ Len(y) = Len(u) + Len(b)
    BY <1>1, <2>1
  <2>3. \A j \in 1..(Len(u) + Len(b)) : x[j] = y[j]
    BY <1>1, <2>1
  <2> HIDE DEF x, y
  <2>4. x = y
    BY <2>2, <2>3
  <2>5. QED
    BY <2>4 DEF x, y
<1>5. QED
  BY <1>2, <1>3, <1>4

(* A completion goes to the end of the queue, in the ring or buffered. *)
LEMMA CompleteStep ==
  ASSUME Inv, NEW r \in Reqs, KernelComplete(r)
  PROVE  /\ Types' /\ Submission' /\ Completion'
         /\ r \in inflight /\ inflight' = inflight \ {r}
         /\ Completed' = Append(Completed, r)
         /\ Prepared' = Prepared /\ Waiting' = Waiting
         /\ todo' = todo /\ pc' = pc
<1>1. /\ Types /\ Submission /\ Completion /\ r \in Words
      /\ inflight \in SUBSET Words /\ backlog \in Seq(Words)
  BY DEF Inv, Types, Words
<1>2. /\ Unread \in Seq(Words) /\ Completed = Unread \o backlog
  BY <1>1, CompletedSeq
<1>3. r \in inflight /\ inflight' = inflight \ {r}
  BY DEF KernelComplete
<1>4. Completed' = Unread' \o backlog'
  BY DEF Completed, Unread, Front
<1>5. CASE CQFull \/ backlog # <<>>
  <2>1. /\ backlog' = Append(backlog, r)
        /\ UNCHANGED <<sqes, sqTailLocal, sqTail, sqHead, toSubmit>>
        /\ UNCHANGED <<cqes, cqHeadLocal, cqHead, cqTail>>
        /\ UNCHANGED <<pc, n, i, todo>>
    BY <1>5 DEF KernelComplete, sqVars, cqVars
  <2>2. Unread' = Unread /\ Prepared' = Prepared /\ Waiting' = Waiting /\ CQReady' = CQReady
    BY <2>1 DEF Unread, Front, Prepared, Waiting, CQReady
  <2>3. Types'
    BY <1>1, <1>3, <2>1 DEF Types
  <2>4. Submission'
    BY <1>1, <2>1, <2>2 DEF Submission
  <2>5. Completion'
    BY <1>1, <2>1, <2>2 DEF Completion
  <2>6. Completed' = Append(Completed, r)
    BY <1>1, <1>2, <1>4, <2>1, <2>2, AppendLast
  <2>7. QED
    BY <1>3, <2>1, <2>2, <2>3, <2>4, <2>5, <2>6
<1>6. CASE ~(CQFull \/ backlog # <<>>)
  <2>1. Fill(r) /\ backlog' = backlog /\ ~CQFull /\ backlog = <<>>
    BY <1>6 DEF KernelComplete
  <2>2. Types' /\ Submission' /\ Completion' /\ Unread' = Append(Unread, r)
        /\ Prepared' = Prepared /\ Waiting' = Waiting
    BY <1>1, <1>3, <2>1, FillStep
  <2>3. Completed' = Append(Completed, r)
    BY <1>1, <1>2, <1>4, <2>1, <2>2, AppendLast
  <2>4. todo' = todo /\ pc' = pc
    BY <2>1 DEF Fill
  <2>5. QED
    BY <1>3, <2>2, <2>3, <2>4
<1>7. QED
  BY <1>5, <1>6

(* The kernel's flush moves a completion and changes nothing for the user. *)
LEMMA FlushStep ==
  ASSUME Inv, KernelFlush
  PROVE  /\ Types' /\ Submission' /\ Completion'
         /\ UNCHANGED <<Prepared, inflight, Completed>>
         /\ todo' = todo /\ pc' = pc /\ Waiting' = Waiting
<1>1. /\ Types /\ Submission /\ Completion
      /\ inflight \in SUBSET Words /\ backlog \in Seq(Words)
  BY DEF Inv, Types
<1>2. /\ Unread \in Seq(Words) /\ Completed = Unread \o backlog
  BY <1>1, CompletedSeq
<1>3. /\ backlog # <<>> /\ ~CQFull /\ Fill(Head(backlog))
      /\ backlog' = Tail(backlog) /\ inflight' = inflight
  BY DEF KernelFlush
<1>4. Head(backlog) \in Words /\ Tail(backlog) \in Seq(Words)
  BY <1>1, <1>3
<1>5. /\ Types' /\ Submission' /\ Completion'
      /\ Unread' = Append(Unread, Head(backlog))
      /\ Prepared' = Prepared /\ Waiting' = Waiting
  BY <1>1, <1>3, <1>4, FillStep
<1>6. Completed' = Unread' \o backlog'
  BY DEF Completed, Unread, Front
<1>7. Completed' = Completed
  BY <1>1, <1>2, <1>3, <1>4, <1>5, <1>6, AppendLast
<1>8. todo' = todo /\ pc' = pc
  BY <1>3 DEF Fill
<1>9. QED
  BY <1>3, <1>5, <1>7, <1>8

-----------------------------------------------------------------------------
(***************************************************************************)
(* Something stays alive.                                                  *)
(***************************************************************************)
(* The handler of the last live request posts another: the timer.         *)
LEMMA PeekKeepsAlive ==
  ASSUME Inv, NEW p \in 0..MaxPosts, PeekCQE(p)
  PROVE  Alive' # {} \/ todo' > 0
<1>1. Types /\ Completion /\ p \in Nat
  BY RingAssumption DEF Inv
<1>2. todo' = p /\ Cardinality(Alive) - 1 + p \in 1..Cardinality(Reqs)
  BY DEF PeekCQE
<1>3. CASE p > 0
  BY <1>2, <1>3
<1>4. CASE p = 0
  <2>1. IsFiniteSet(Alive) /\ Cardinality(Alive) \in Nat /\ Cardinality(Reqs) \in Nat
    BY <1>1, AliveFinite, RingAssumption, FS_CardinalityType
  <2>2. Cardinality(Alive) >= 2
    BY <1>2, <1>4, <2>1
  <2>3. /\ Completed # <<>> /\ Completed' = Tail(Completed)
        /\ Prepared' = Prepared /\ inflight' = inflight
    BY PeekStep
  <2>4. Completed \in Seq(Words)
    BY <1>1, CompletedSeq
  <2> DEFINE h == Head(Completed)
  <2>5. Alive \ {h} \subseteq Alive'
    <3>1. Elems(Completed) \subseteq Elems(Tail(Completed)) \cup {h}
      BY <2>3, <2>4, ElemsChange
    <3>2. Alive' = Elems(Prepared) \cup inflight \cup Elems(Tail(Completed))
      BY <2>3 DEF Alive
    <3> HIDE DEF h
    <3>3. QED
      BY <3>1, <3>2 DEF Alive
  <2> HIDE DEF h
  <2>6. Alive \ {h} # {}
    <3>1. IsFiniteSet({}) /\ Cardinality({}) = 0
      BY FS_EmptySet
    <3>2. Cardinality(Alive \ {h}) =
            IF h \in Alive THEN Cardinality(Alive) - 1 ELSE Cardinality(Alive)
      BY <2>1, FS_RemoveElement
    <3>3. Cardinality(Alive \ {h}) # 0
      BY <2>1, <2>2, <3>2
    <3>4. QED
      BY <3>1, <3>3
  <2>7. QED
    BY <2>5, <2>6
<1>5. QED
  BY <1>1, <1>3, <1>4

(* Submitting loses nothing. *)
LEMMA SubmitKeepsAlive ==
  ASSUME Types, NEW k \in 0..Len(Prepared),
         Prepared' = SubSeq(Prepared, k + 1, Len(Prepared)),
         inflight' = inflight \cup {Prepared[m] : m \in 1..k},
         Completed' = Completed
  PROVE  Alive \subseteq Alive'
<1> DEFINE t == SubSeq(Prepared, k + 1, Len(Prepared))
           f == {Prepared[m] : m \in 1..k}
<1>1. Elems(Prepared) \subseteq Elems(t) \cup f
  BY PreparedSeq, ElemsChange
<1>2. Alive' = Elems(t) \cup (inflight \cup f) \cup Elems(Completed)
  BY DEF Alive
<1> HIDE DEF t, f
<1>3. QED
  BY <1>1, <1>2 DEF Alive

-----------------------------------------------------------------------------
(***************************************************************************)
(* The invariant, and the steps of the queue.                              *)
(***************************************************************************)
(* Step of the abstract queue, or none. *)
QStep == Q!Next \/ UNCHANGED Q!vars

(* The rings start empty. *)
LEMMA RingInit ==
  ASSUME Init
  PROVE  Inv /\ Q!Init
<1>1. 0 \in Idx /\ Dist(0, 0) = 0 /\ Inc(0, 0) = 0 /\ 0 \in Words
  <2>1. 0 \in Idx
    BY Sizes DEF Idx
  <2>2. QED
    BY <2>1, DistMoves DEF Words
<1>2. Types
  BY <1>1 DEF Init, Types
<1>3. Waiting = 0 /\ CQReady = 0
  BY <1>1 DEF Init, Waiting, CQReady
<1>4. Submission
  BY <1>3, Sizes DEF Init, Submission
<1>5. Completion
  BY <1>3, Sizes DEF Init, Completion
<1>6. Activity
  BY DEF Init, Activity
<1>7. Prepared = <<>>
  BY <1>2, <1>3, PreparedSeq
<1>8. Completed = <<>>
  <2>1. Unread \in Seq(Words) /\ Len(Unread) = 0 /\ Completed = Unread \o backlog
    BY <1>2, <1>3, <1>5, CompletedSeq DEF Init
  <2>2. QED
    BY <2>1 DEF Init
<1>9. QED
  BY <1>2, <1>4, <1>5, <1>6, <1>7, <1>8 DEF Init, Inv, Q!Init

(* Every step keeps the invariant and is one of the queue or none. *)
LEMMA RingStep ==
  ASSUME Inv, [Next]_vars
  PROVE  Inv' /\ QStep
<1>1. Types /\ Submission /\ Completion /\ Activity
  BY DEF Inv
<1>2. Q!Alive = Alive
  BY DEF Q!Alive, Alive, Q!Elems, Elems
<1>3. ASSUME NEW r \in Reqs, GetSQE(r)
      PROVE  Inv' /\ QStep
  <2>1. /\ Types' /\ Submission' /\ Completion' /\ r \notin Alive
        /\ Prepared' = Append(Prepared, r)
        /\ inflight' = inflight /\ Completed' = Completed
    BY <1>3, GetSQEStep
  <2>2. Activity'
    <3>1. r \in Elems(Append(Prepared, r))
      BY <1>1, PreparedSeq, ElemsChange DEF Words
    <3>2. r \in Alive'
      BY <2>1, <3>1 DEF Alive
    <3>3. pc' = "body"
      BY <1>3 DEF GetSQE
    <3>4. QED
      BY <3>2, <3>3 DEF Activity
  <2>3. QStep
    BY <1>2, <2>1 DEF QStep, Q!Next, Q!Prepare
  <2>4. QED
    BY <2>1, <2>2, <2>3 DEF Inv
<1>4. ASSUME NEW k \in 0..SQEntries, PostSubmit(k) \/ SubmitWait(k)
      PROVE  Inv' /\ QStep
  <2>1. /\ Submit(k) /\ pc' \in {"top", "wait", "body"}
        /\ n' = n \/ (pc' = "body" /\ n' = CQReady)
        /\ pc' = "body" \/ pc # "body"
    BY <1>4 DEF PostSubmit, SubmitWait
  <2>2. /\ Types' /\ Submission' /\ Completion'
        /\ k \in 0..Len(Prepared)
        /\ Prepared' = SubSeq(Prepared, k + 1, Len(Prepared))
        /\ inflight' = inflight \cup {Prepared[m] : m \in 1..k}
        /\ Completed' = Completed
        /\ ~ShortSubmits => Waiting' = 0
    BY <2>1, SubmitStep
  <2>3. Activity'
    <3>1. Alive \subseteq Alive'
      BY <1>1, <2>2, SubmitKeepsAlive
    <3>2. todo' = todo
      BY <2>1 DEF Submit
    <3>3. QED
      BY <1>1, <2>2, <3>1, <3>2 DEF Activity
  <2>4. QStep
    <3>1. CASE k = 0
      <4>1. Prepared \in Seq(Words)
        BY <1>1, PreparedSeq
      <4>2. SubSeq(Prepared, 1, Len(Prepared)) = Prepared
        BY <4>1
      <4>3. UNCHANGED <<Prepared, inflight, Completed>>
        BY <2>2, <3>1, <4>2
      <4>4. QED
        BY <4>3 DEF QStep, Q!vars
    <3>2. CASE k # 0
      <4>1. k \in 1..Len(Prepared)
        BY <2>2, <3>2, <1>1, PreparedSeq
      <4>2. Q!Take(k)
        BY <2>2 DEF Q!Take
      <4>3. QED
        BY <4>1, <4>2 DEF QStep, Q!Next, Q!TakeSome
    <3>3. QED
      BY <3>1, <3>2
  <2>5. QED
    BY <2>2, <2>3, <2>4 DEF Inv
<1>5. ASSUME WaitReturns
      PROVE  Inv' /\ QStep
  <2>1. Types' /\ Submission' /\ Completion' /\ UNCHANGED <<Prepared, inflight, Completed>>
    BY <1>5, WaitStep
  <2>2. Activity'
    <3>1. Alive' = Alive
      BY <2>1 DEF Alive
    <3>2. todo' = todo /\ pc' = "body"
      BY <1>5 DEF WaitReturns
    <3>3. QED
      BY <1>1, <3>1, <3>2 DEF Activity
  <2>3. QED
    BY <2>1, <2>2 DEF Inv, QStep, Q!vars
<1>6. ASSUME NEW p \in 0..MaxPosts, PeekCQE(p)
      PROVE  Inv' /\ QStep
  <2>1. /\ Types' /\ Submission' /\ Completion'
        /\ Completed # <<>> /\ Completed' = Tail(Completed)
        /\ Prepared' = Prepared /\ inflight' = inflight
    BY <1>6, PeekStep
  <2>2. pc' = "body"
    BY <1>6 DEF PeekCQE
  <2>3. Activity'
    BY <1>6, <2>2, PeekKeepsAlive DEF Activity
  <2>4. QStep
    BY <2>1 DEF QStep, Q!Next, Q!Reap
  <2>5. QED
    BY <2>1, <2>3, <2>4 DEF Inv
<1>7. ASSUME CQAdvance
      PROVE  Inv' /\ QStep
  <2>1. Types' /\ Submission' /\ Completion' /\ UNCHANGED <<Prepared, inflight, Completed>>
    BY <1>7, AdvanceStep
  <2>2. Activity'
    <3>1. Alive' = Alive
      BY <2>1 DEF Alive
    <3>2. todo' = todo /\ pc' = "top"
      BY <1>7 DEF CQAdvance
    <3>3. QED
      BY <1>1, <3>1, <3>2 DEF Activity
  <2>3. QED
    BY <2>1, <2>2 DEF Inv, QStep, Q!vars
<1>8. ASSUME KernelFlush
      PROVE  Inv' /\ QStep
  <2>1. /\ Types' /\ Submission' /\ Completion' /\ UNCHANGED <<Prepared, inflight, Completed>>
        /\ todo' = todo /\ pc' = pc /\ Waiting' = Waiting
    BY <1>8, FlushStep
  <2>2. Activity'
    <3>1. Alive' = Alive
      BY <2>1 DEF Alive
    <3>2. QED
      BY <1>1, <2>1, <3>1 DEF Activity
  <2>3. QED
    BY <2>1, <2>2 DEF Inv, QStep, Q!vars
<1>9. ASSUME NEW r \in Reqs, KernelComplete(r)
      PROVE  Inv' /\ QStep
  <2>1. /\ Types' /\ Submission' /\ Completion'
        /\ r \in inflight /\ inflight' = inflight \ {r}
        /\ Completed' = Append(Completed, r)
        /\ Prepared' = Prepared /\ Waiting' = Waiting
        /\ todo' = todo /\ pc' = pc
    BY <1>9, CompleteStep
  <2>2. Activity'
    <3>1. Elems(Append(Completed, r)) = Elems(Completed) \cup {r}
      BY <1>1, CompletedSeq, ElemsChange DEF Words
    <3>2. r \in Alive'
      BY <2>1, <3>1 DEF Alive
    <3>3. QED
      BY <1>1, <2>1, <3>2 DEF Activity
  <2>3. QStep
    BY <2>1 DEF QStep, Q!Next, Q!Complete
  <2>4. QED
    BY <2>1, <2>2, <2>3 DEF Inv
<1>10. ASSUME UNCHANGED vars
       PROVE  Inv' /\ QStep
  <2>1. UNCHANGED <<sqes, sqTailLocal, sqTail, sqHead, toSubmit>>
        /\ UNCHANGED <<cqes, cqHeadLocal, cqHead, cqTail>>
        /\ UNCHANGED <<inflight, backlog, pc, n, i, todo>>
    BY <1>10 DEF vars, sqVars, cqVars
  <2>2. UNCHANGED <<Prepared, inflight, Completed, Alive, Waiting, CQReady>>
    BY <2>1 DEF Prepared, Completed, Alive, Waiting, CQReady
  <2>3. Types'
    BY <1>1, <2>1 DEF Types
  <2>4. Submission' /\ Completion' /\ Activity'
    BY <1>1, <2>1, <2>2 DEF Submission, Completion, Activity
  <2>5. QED
    BY <2>2, <2>3, <2>4 DEF Inv, QStep, Q!vars
<1>11. QED
  BY <1>3, <1>4, <1>5, <1>6, <1>7, <1>8, <1>9, <1>10 DEF Next, RingThread

(* The invariant of the rings: neither is ever overrun, the batch is in    *)
(* the ring, and something is always alive or about to be posted.          *)
THEOREM RingHolds == SafeSpec => []Inv
<1>1. Init => Inv
  BY RingInit
<1>2. Inv /\ [Next]_vars => Inv'
  BY RingStep
<1>3. QED
  BY <1>1, <1>2, PTL DEF SafeSpec

(* Every step of the rings is a step of the queue or none: entries reach   *)
(* the kernel and completions the handlers once each and in order, for     *)
(* rings of every size and indices that wrap around at any multiple of it. *)
THEOREM RingImplementsIoQueue == SafeSpec => Q!SafeSpec
<1>1. Init => Q!Init
  BY RingInit
<1>2. Inv /\ [Next]_vars => [Q!Next]_(Q!vars)
  BY RingStep DEF QStep
<1>3. SafeSpec => []Inv
  BY RingHolds
<1>4. QED
  BY <1>1, <1>2, <1>3, PTL DEF SafeSpec, Q!SafeSpec

(* The ring thread never waits in io_uring_enter for a completion that     *)
(* cannot come, when the kernel takes the entries it is asked to take.     *)
THEOREM RingNeverBlocks ==
  ASSUME ShortSubmits = FALSE
  PROVE  Spec => []NeverBlocksForever
<1>1. Inv => NeverBlocksForever
  <2>1. SUFFICES ASSUME Inv, pc = "wait"
                 PROVE  inflight # {} \/ Completed # <<>>
    BY DEF NeverBlocksForever
  <2>2. Types /\ Completion /\ Waiting = 0 /\ todo = 0 /\ Alive # {}
    BY <2>1 DEF Inv, Activity, Completion
  <2>3. Prepared \in Seq(Words) /\ Len(Prepared) = 0
    BY <2>2, PreparedSeq
  <2>4. Elems(Prepared) = {}
    BY <2>3 DEF Elems
  <2>5. Completed = <<>> => Elems(Completed) = {}
    BY DEF Elems
  <2>6. QED
    BY <2>2, <2>4, <2>5 DEF Alive
<1>2. QED
  BY <1>1, RingHolds, PTL DEF Spec

=============================================================================
