------------------------------- MODULE Mailbox -------------------------------
(***************************************************************************)
(* What the bridge between the hook goroutines and the ring thread         *)
(* promises (src/flashrelay/worker.go, type bridge): every result put by a *)
(* hook is handed to the ring thread exactly once, in the order the        *)
(* results were put, and is never left behind.  How the wake-ups work is   *)
(* not visible here; Bridge.tla is shown to implement this specification.  *)
(***************************************************************************)
EXTENDS Sequences

CONSTANT Results        \* the hook results that may be put, each at most once

VARIABLES
  fresh,                \* results not put yet
  queue,                \* results put and not taken, oldest first
  taken                 \* results handed to the ring thread, oldest first

vars == <<fresh, queue, taken>>

Init ==
  /\ fresh = Results
  /\ queue = <<>>
  /\ taken = <<>>

(* A hook goroutine leaves a result. *)
Put(r) ==
  /\ r \in fresh
  /\ fresh' = fresh \ {r}
  /\ queue' = Append(queue, r)
  /\ UNCHANGED taken

(* The ring thread takes everything that is there. *)
TakeAll ==
  /\ queue # <<>>
  /\ taken' = taken \o queue
  /\ queue' = <<>>
  /\ UNCHANGED fresh

Next == TakeAll \/ \E r \in Results : Put(r)

(* Nothing forces a hook to finish, but what was put is taken. *)
Spec == Init /\ [][Next]_vars /\ WF_vars(TakeAll)

(* The part of Spec that a step-by-step refinement proof establishes. *)
SafeSpec == Init /\ [][Next]_vars
=============================================================================
