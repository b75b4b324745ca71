------------------------------- MODULE Bridge --------------------------------
(***************************************************************************)
(* The bridge that carries hook decisions from the off-ring hook           *)
(* goroutines to one worker's ring thread (src/flashrelay/worker.go: type  *)
(* bridge, push, drain, and the opEventfd case of runWorker).              *)
(*                                                                         *)
(* push appends under the mutex and then, outside it, swaps the notified   *)
(* flag and writes the eventfd only when the flag was clear.  The ring     *)
(* thread keeps one read of the eventfd in its ring.  When the read's      *)
(* completion is harvested it prepares the next read, clears the flag and  *)
(* only then drains.  Each of these is one step here: the steps of the     *)
(* hooks, of the kernel and of the ring thread interleave freely.          *)
(*                                                                         *)
(* Seeded faults are wrong variants of the definition after them, used by  *)
(* nothing but the check that the properties notice them.                  *)
(***************************************************************************)
EXTENDS Naturals, Sequences

CONSTANTS
  Hooks,                \* the hook goroutines of the worker (Config.HookWorkers)
  Results               \* the results they may push, each at most once

VARIABLES
  fresh,                \* results no hook has produced yet
  ready,                \* bridge.ready
  notified,             \* bridge.notified
  efd,                  \* the eventfd's counter
  pc,                   \* where each hook goroutine is in push
  rd,                   \* the ring's read of the eventfd
  wpc,                  \* where the ring thread is in the opEventfd case
  taken                 \* results drained so far, in order

vars == <<fresh, ready, notified, efd, pc, rd, wpc, taken>>

HookPC == {"run", "swap", "write"}
RingPC == {"wait", "clear", "drain", "apply"}
ReadState == {"sqe", "armed", "cqe"}

Init ==
  /\ fresh = Results
  /\ ready = <<>>
  /\ notified = 0
  /\ efd = 0
  /\ pc = [h \in Hooks |-> "run"]
  /\ rd = "sqe"                     \* the postEventfd() before the main loop
  /\ wpc = "wait"
  /\ taken = <<>>

-----------------------------------------------------------------------------
(* Hook goroutines: push.  The append is one step because it is done under *)
(* the mutex that drain takes too.                                         *)

PushAppend(h, r) ==
  /\ pc[h] = "run"
  /\ r \in fresh
  /\ fresh' = fresh \ {r}
  /\ ready' = Append(ready, r)
  /\ pc' = [pc EXCEPT ![h] = "swap"]
  /\ UNCHANGED <<notified, efd, rd, wpc, taken>>

(* Seeded fault: every push writes the eventfd. *)
PushSwapUncoalesced(h) ==
  /\ pc[h] = "swap"
  /\ notified' = 1
  /\ pc' = [pc EXCEPT ![h] = "write"]
  /\ UNCHANGED <<fresh, ready, efd, rd, wpc, taken>>

(* b.notified.Swap(1) == 0 decides whether this hook owes the write. *)
PushSwap(h) ==
  /\ pc[h] = "swap"
  /\ notified' = 1
  /\ pc' = [pc EXCEPT ![h] = IF notified = 0 THEN "write" ELSE "run"]
  /\ UNCHANGED <<fresh, ready, efd, rd, wpc, taken>>

(* Seeded fault: the write to the eventfd is lost. *)
PushWriteLost(h) ==
  /\ pc[h] = "write"
  /\ pc' = [pc EXCEPT ![h] = "run"]
  /\ UNCHANGED <<fresh, ready, notified, efd, rd, wpc, taken>>

PushWrite(h) ==
  /\ pc[h] = "write"
  /\ efd' = efd + 1
  /\ pc' = [pc EXCEPT ![h] = "run"]
  /\ UNCHANGED <<fresh, ready, notified, rd, wpc, taken>>

-----------------------------------------------------------------------------
(* Kernel: a submitted read of the eventfd completes once the counter is   *)
(* positive, and resets it.                                                *)

KernelRead ==
  /\ rd = "armed"
  /\ efd > 0
  /\ efd' = 0
  /\ rd' = "cqe"
  /\ UNCHANGED <<fresh, ready, notified, pc, wpc, taken>>

(* The prepared read reaches the kernel with the next Submit.  That is the *)
(* Submit at the top of the loop, or the one inside post when a handler    *)
(* finds the submission queue full; opEventfd itself posts nothing between *)
(* postEventfd and the end of drain.                                       *)
SubmitRead ==
  /\ rd = "sqe"
  /\ wpc \in {"wait", "apply"}
  /\ rd' = "armed"
  /\ UNCHANGED <<fresh, ready, notified, efd, pc, wpc, taken>>

-----------------------------------------------------------------------------
(* Ring thread: the opEventfd case.                                        *)

HarvestEventfd ==
  /\ wpc = "wait"
  /\ rd = "cqe"
  /\ rd' = "sqe"                    \* postEventfd()
  /\ wpc' = "clear"
  /\ UNCHANGED <<fresh, ready, notified, efd, pc, taken>>

(* Seeded fault: the flag is not cleared. *)
ClearNotifiedNot ==
  /\ wpc = "clear"
  /\ wpc' = "drain"
  /\ UNCHANGED <<fresh, ready, notified, efd, pc, rd, taken>>

ClearNotified ==
  /\ wpc = "clear"
  /\ notified' = 0
  /\ wpc' = "drain"
  /\ UNCHANGED <<fresh, ready, efd, pc, rd, taken>>

Drain ==
  /\ wpc = "drain"
  /\ taken' = taken \o ready
  /\ ready' = <<>>
  /\ wpc' = "apply"
  /\ UNCHANGED <<fresh, notified, efd, pc, rd>>

(* The drained results are applied (Worker.tla) and the loop goes on. *)
ApplyDone ==
  /\ wpc = "apply"
  /\ wpc' = "wait"
  /\ UNCHANGED <<fresh, ready, notified, efd, pc, rd, taken>>

(* Seeded fault: the list is drained first and the flag cleared after. *)
RingDrainsFirst ==
  \/ HarvestEventfd
  \/ /\ wpc = "clear"
     /\ taken' = taken \o ready
     /\ ready' = <<>>
     /\ wpc' = "drain"
     /\ UNCHANGED <<fresh, notified, efd, pc, rd>>
  \/ /\ wpc = "drain"
     /\ notified' = 0
     /\ wpc' = "apply"
     /\ UNCHANGED <<fresh, ready, efd, pc, rd, taken>>
  \/ ApplyDone

Ring == HarvestEventfd \/ ClearNotified \/ Drain \/ ApplyDone

Push(h) == PushSwap(h) \/ PushWrite(h)

Next ==
  \/ \E h \in Hooks : Push(h) \/ \E r \in Results : PushAppend(h, r)
  \/ KernelRead
  \/ SubmitRead
  \/ Ring

(* A goroutine inside push is runnable, so it finishes.  The ring thread   *)
(* never stops turning: its 100 ms timeout is always armed.  A hook that   *)
(* never returns is allowed: PushAppend is not fair.                       *)
Fairness ==
  /\ \A h \in Hooks : WF_vars(Push(h))
  /\ WF_vars(KernelRead)
  /\ WF_vars(SubmitRead)
  /\ WF_vars(Ring)

Spec == Init /\ [][Next]_vars /\ Fairness

SafeSpec == Init /\ [][Next]_vars

-----------------------------------------------------------------------------
(* Types of the bridge's state: the flag is a flag and the coalescing      *)
(* keeps the eventfd counter at most 1 (a hook's write can never block).   *)
TypeOK ==
  /\ fresh \subseteq Results
  /\ ready \in Seq(Results)
  /\ notified \in {0, 1}
  /\ efd \in {0, 1}
  /\ pc \in [Hooks -> HookPC]
  /\ rd \in ReadState
  /\ wpc \in RingPC
  /\ taken \in Seq(Results)

(* The places an outstanding wake-up can be in. *)
Writing == \E h \in Hooks : pc[h] = "write"
WakeOutstanding == Writing \/ efd > 0 \/ rd = "cqe" \/ wpc = "clear"

(* notified = 1 exactly when one wake-up is on its way, in exactly one of  *)
(* those places: the flag's comment at bridge.notified.                    *)
OneWake ==
  /\ notified = 1 <=> WakeOutstanding
  /\ \A g, h \in Hooks : pc[g] = "write" /\ pc[h] = "write" => g = h
  /\ Writing => efd = 0 /\ rd # "cqe" /\ wpc # "clear"
  /\ efd > 0 => rd # "cqe" /\ wpc # "clear"
  /\ wpc \in {"clear", "drain"} => rd = "sqe"

(* No lost wake-up (worker.go: "so no completion can be lost"): whenever a *)
(* result is waiting, a wake-up is outstanding, or a hook is about to      *)
(* swap the flag, or the ring thread is about to drain.                    *)
NoLostWakeup ==
  ready # <<>> =>
    \/ WakeOutstanding
    \/ \E h \in Hooks : pc[h] = "swap"
    \/ wpc = "drain"

(* The bridge implements the mailbox: a push is a Put at its append, a     *)
(* drain of a non-empty list is a TakeAll, everything else stutters.  So   *)
(* results are drained once and in order, and what was pushed is drained   *)
(* even if no other hook ever pushes again (the mailbox's fairness).       *)
M == INSTANCE Mailbox WITH queue <- ready

ImplementsMailbox == M!Spec
=============================================================================
