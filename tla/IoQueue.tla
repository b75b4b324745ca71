------------------------------- MODULE IoQueue -------------------------------
(***************************************************************************)
(* What src/internal/uring promises its single user: a prepared request is *)
(* handed to the kernel, in order, and its completion is reaped exactly    *)
(* once, in the order of completion.  Nothing is lost or overwritten, and  *)
(* neither side stops while the other still owes it something.             *)
(***************************************************************************)
EXTENDS Naturals, Sequences

CONSTANT Reqs           \* request identities, reused once reaped

VARIABLES
  prepared,             \* requests prepared and not taken by the kernel
  inflight,             \* requests the kernel works on
  completed             \* completions not reaped, oldest first

vars == <<prepared, inflight, completed>>

Elems(s) == {s[i] : i \in 1..Len(s)}

Alive == Elems(prepared) \cup inflight \cup Elems(completed)

Init == prepared = <<>> /\ inflight = {} /\ completed = <<>>

Prepare(r) ==
  /\ r \notin Alive
  /\ prepared' = Append(prepared, r)
  /\ UNCHANGED <<inflight, completed>>

Take(k) ==
  /\ inflight' = inflight \cup {prepared[i] : i \in 1..k}
  /\ prepared' = SubSeq(prepared, k + 1, Len(prepared))
  /\ UNCHANGED completed

Complete(r) ==
  /\ r \in inflight
  /\ inflight' = inflight \ {r}
  /\ completed' = Append(completed, r)
  /\ UNCHANGED prepared

Reap ==
  /\ completed # <<>>
  /\ completed' = Tail(completed)
  /\ UNCHANGED <<prepared, inflight>>

TakeSome == \E k \in 1..Len(prepared) : Take(k)

Next == TakeSome \/ Reap \/ \E r \in Reqs : Prepare(r) \/ Complete(r)

SafeSpec == Init /\ [][Next]_vars

Spec == SafeSpec /\ WF_vars(TakeSome) /\ WF_vars(Reap)
=============================================================================
