-------------------------------- MODULE Ring ---------------------------------
(***************************************************************************)
(* The io_uring wrapper src/internal/uring/uring.go as its one ring thread *)
(* drives it (post and the main loop of src/flashrelay/worker.go): the     *)
(* submission and completion rings with their 32-bit free-running indices, *)
(* the userspace shadows of the indices, and the count toSubmit.  The      *)
(* kernel side (external) follows the io_uring ABI that the wrapper uses.  *)
(*                                                                         *)
(* A handler is reduced to the number of requests it posts.  A request is  *)
(* its user_data.                                                          *)
(*                                                                         *)
(* Seeded faults are wrong variants of the definition after them, used by  *)
(* nothing but the check that the properties notice them.                  *)
(***************************************************************************)
EXTENDS Naturals, Sequences, FiniteSets

CONSTANTS
  Reqs,          \* bound: request identities, reused once reaped
  SQEntries,     \* size of the submission ring
  CQEntries,     \* size of the completion ring
  IndexMod,      \* indices are kept modulo this (2^32 in the code)
  MaxPosts,      \* bound: requests one handler posts
  ShortSubmits   \* whether io_uring_enter may consume fewer than asked

ASSUME RingAssumption ==
  /\ IsFiniteSet(Reqs)
  /\ SQEntries \in Nat \ {0} /\ CQEntries \in Nat \ {0}
  /\ IndexMod \in Nat /\ IndexMod > SQEntries /\ IndexMod > CQEntries
  /\ IndexMod % SQEntries = 0 /\ IndexMod % CQEntries = 0
  /\ MaxPosts \in Nat \ {0}
  /\ ShortSubmits \in BOOLEAN

VARIABLES
  sqes, sqTailLocal, sqTail, sqHead, toSubmit,   \* submission side
  cqes, cqHeadLocal, cqHead, cqTail,             \* completion side
  inflight,      \* requests the kernel works on
  backlog,       \* completions the kernel buffers beyond the ring (NODROP)
  pc,            \* "top" before Submit(1), "wait" inside it, "body" after it
  n, i,          \* the batch: its size and the next completion to handle
  todo           \* requests the current handler still has to post

sqVars == <<sqes, sqTailLocal, sqTail, sqHead, toSubmit>>
cqVars == <<cqes, cqHeadLocal, cqHead, cqTail>>
vars == <<sqVars, cqVars, inflight, backlog, pc, n, i, todo>>

Inc(x, k) == (x + k) % IndexMod
Dist(hi, lo) == (hi + IndexMod - lo) % IndexMod   \* hi - lo on uint32

(* The ring contents between two indices, oldest first. *)
Window(slots, entries, lo, hi) ==
  [k \in 1..Dist(hi, lo) |-> slots[Inc(lo, k - 1) % entries]]

Prepared == Window(sqes, SQEntries, sqHead, sqTailLocal)
Completed == Window(cqes, CQEntries, Inc(cqHeadLocal, i), cqTail) \o backlog

Elems(s) == {s[k] : k \in 1..Len(s)}
Alive == Elems(Prepared) \cup inflight \cup Elems(Completed)

(* The worker starts by posting the read of its eventfd and its timer. *)
Init ==
  /\ sqes = [k \in 0..(SQEntries - 1) |-> 0]
  /\ cqes = [k \in 0..(CQEntries - 1) |-> 0]
  /\ sqTailLocal = 0 /\ sqTail = 0 /\ sqHead = 0 /\ toSubmit = 0
  /\ cqHeadLocal = 0 /\ cqHead = 0 /\ cqTail = 0
  /\ inflight = {}
  /\ backlog = <<>>
  /\ pc = "body" /\ n = 0 /\ i = 0
  /\ todo = 2

-----------------------------------------------------------------------------
(* Seeded fault: one entry more than the ring has. *)
SQFullLate == Dist(sqTailLocal, sqHead) > SQEntries

(* GetSQE and the preparation of the entry it returns. *)
SQFull == Dist(sqTailLocal, sqHead) >= SQEntries

GetSQE(r) ==
  /\ pc = "body" /\ todo > 0
  /\ ~SQFull
  /\ r \in Reqs \ Alive
  /\ sqes' = [sqes EXCEPT ![sqTailLocal % SQEntries] = r]
  /\ sqTailLocal' = Inc(sqTailLocal, 1)
  /\ toSubmit' = toSubmit + 1
  /\ todo' = todo - 1
  /\ UNCHANGED <<sqTail, sqHead, cqVars, inflight, backlog, pc, n, i>>

(* Seeded fault: the kernel is asked for one entry too few. *)
AskedOneShort == IF toSubmit = 0 THEN 0 ELSE toSubmit - 1

(* Submit: publish the tail and enter the kernel, which takes k entries.   *)
(* toSubmit is reset whatever k is.                                        *)
Asked == IF toSubmit < Len(Prepared) THEN toSubmit ELSE Len(Prepared)

Submit(k) ==
  /\ k \in 0..Asked
  /\ k < Asked => ShortSubmits /\ k > 0
  /\ sqTail' = sqTailLocal
  /\ sqHead' = Inc(sqHead, k)
  /\ inflight' = inflight \cup {Prepared[m] : m \in 1..k}
  /\ toSubmit' = 0
  /\ UNCHANGED <<sqes, sqTailLocal, cqVars, backlog, i, todo>>

(* post finds the submission ring full and calls Submit(0). *)
PostSubmit(k) ==
  /\ pc = "body" /\ todo > 0
  /\ SQFull
  /\ Submit(k)
  /\ UNCHANGED <<pc, n>>

CQReady == Dist(cqTail, cqHeadLocal)

(* Submit(1) at the top of the loop.  io_uring_enter waits only when it    *)
(* has consumed all it was asked to.                                       *)
SubmitWait(k) ==
  /\ pc = "top"
  /\ Submit(k)
  /\ IF k < Asked THEN pc' = "body" /\ n' = CQReady
                  ELSE pc' = "wait" /\ UNCHANGED n

WaitReturns ==
  /\ pc = "wait"
  /\ CQReady > 0
  /\ pc' = "body"
  /\ n' = CQReady
  /\ UNCHANGED <<sqVars, cqVars, inflight, backlog, i, todo>>

(* The handler of the i-th completion posts p requests.  The timer's       *)
(* handler re-arms it, so some request always stays alive.                 *)
PeekCQE(p) ==
  /\ pc = "body" /\ todo = 0
  /\ i < n
  /\ i' = i + 1
  /\ todo' = p
  /\ Cardinality(Alive) - 1 + p \in 1..Cardinality(Reqs)
  /\ UNCHANGED <<sqVars, cqVars, inflight, backlog, pc, n>>

CQAdvance ==
  /\ pc = "body" /\ todo = 0
  /\ i = n
  /\ cqHeadLocal' = Inc(cqHeadLocal, n)
  /\ cqHead' = cqHeadLocal'
  /\ pc' = "top"
  /\ n' = 0 /\ i' = 0
  /\ UNCHANGED <<sqVars, cqes, cqTail, inflight, backlog, todo>>

-----------------------------------------------------------------------------
(* The kernel posts a completion into the ring, or buffers it while the    *)
(* ring is full (IORING_FEAT_NODROP), and flushes the buffer on entry.     *)
CQFull == Dist(cqTail, cqHead) >= CQEntries

Fill(r) ==
  /\ cqes' = [cqes EXCEPT ![cqTail % CQEntries] = r]
  /\ cqTail' = Inc(cqTail, 1)
  /\ UNCHANGED <<sqVars, cqHeadLocal, cqHead, pc, n, i, todo>>

KernelComplete(r) ==
  /\ r \in inflight
  /\ inflight' = inflight \ {r}
  /\ IF CQFull \/ backlog # <<>>
       THEN /\ backlog' = Append(backlog, r)
            /\ UNCHANGED <<sqVars, cqVars, pc, n, i, todo>>
       ELSE Fill(r) /\ UNCHANGED backlog

KernelFlush ==
  /\ pc = "wait"
  /\ backlog # <<>> /\ ~CQFull
  /\ Fill(Head(backlog))
  /\ backlog' = Tail(backlog)
  /\ UNCHANGED inflight

RingThread ==
  \/ \E r \in Reqs : GetSQE(r)
  \/ \E k \in 0..SQEntries : PostSubmit(k) \/ SubmitWait(k)
  \/ WaitReturns
  \/ \E p \in 0..MaxPosts : PeekCQE(p)
  \/ CQAdvance

Next == RingThread \/ KernelFlush \/ \E r \in Reqs : KernelComplete(r)

(* Some operation always completes: the timer is among them. *)
Fairness ==
  /\ WF_vars(RingThread)
  /\ WF_vars(KernelFlush)
  /\ WF_vars(\E r \in Reqs : KernelComplete(r))

SafeSpec == Init /\ [][Next]_vars

Spec == SafeSpec /\ Fairness

-----------------------------------------------------------------------------
(* The ring thread never waits in io_uring_enter for a completion that     *)
(* cannot come (PrepTimeout: "can never block forever").                   *)
NeverBlocksForever == pc = "wait" => inflight # {} \/ Completed # <<>>

(* The rings implement the queue: whatever the indices wrap around to, the *)
(* entries read from the shared memory are the ones that were written, in  *)
(* order and once each, and both directions make progress.                 *)
Q == INSTANCE IoQueue WITH prepared <- Prepared, completed <- Completed

ImplementsIoQueue == Q!Spec
=============================================================================
