---------------------------- MODULE BridgeProofs -----------------------------
(***************************************************************************)
(* Proofs about Bridge.tla, for any set of hooks and any set of results.   *)
(* TypeOK bounds the eventfd counter by 1 and is not inductive by itself:  *)
(* it needs OneWake, which says where the single outstanding wake-up is.   *)
(* NoLostWakeup needs both.  The inductive invariant is their conjunction. *)
(***************************************************************************)
EXTENDS Bridge, TLAPS

Inv == TypeOK /\ OneWake /\ NoLostWakeup

(* The bridge starts with no wake-up outstanding and nothing to drain. *)
LEMMA InitInv == Init => Inv
  BY DEF Init, Inv, TypeOK, OneWake, NoLostWakeup, Writing, WakeOutstanding,
         HookPC, RingPC, ReadState

(* Every step of a hook, of the kernel or of the ring thread keeps Inv. *)
LEMMA NextInv == Inv /\ [Next]_vars => Inv'
<1> SUFFICES ASSUME Inv, [Next]_vars PROVE Inv'
  OBVIOUS
<1> USE DEF Inv, TypeOK, OneWake, NoLostWakeup, Writing, WakeOutstanding,
            HookPC, RingPC, ReadState
<1>1. ASSUME NEW h \in Hooks, NEW r \in Results, PushAppend(h, r) PROVE Inv'
  <2>1. TypeOK'
    BY <1>1 DEF PushAppend
  <2>2. OneWake'
    BY <1>1 DEF PushAppend
  <2>3. NoLostWakeup'
    BY <1>1 DEF PushAppend
  <2>4. QED BY <2>1, <2>2, <2>3
<1>2. ASSUME NEW h \in Hooks, PushSwap(h) PROVE Inv'
  <2>1. TypeOK'
    BY <1>2 DEF PushSwap
  <2>2. OneWake'
    BY <1>2 DEF PushSwap
  <2>3. NoLostWakeup'
    BY <1>2 DEF PushSwap
  <2>4. QED BY <2>1, <2>2, <2>3
<1>3. ASSUME NEW h \in Hooks, PushWrite(h) PROVE Inv'
  <2>1. TypeOK'
    BY <1>3 DEF PushWrite
  <2>2. OneWake'
    BY <1>3 DEF PushWrite
  <2>3. NoLostWakeup'
    BY <1>3 DEF PushWrite
  <2>4. QED BY <2>1, <2>2, <2>3
<1>4. CASE KernelRead
  BY <1>4 DEF KernelRead
<1>5. CASE SubmitRead
  BY <1>5 DEF SubmitRead
<1>6. CASE HarvestEventfd
  BY <1>6 DEF HarvestEventfd
<1>7. CASE ClearNotified
  BY <1>7 DEF ClearNotified
<1>8. CASE Drain
  BY <1>8 DEF Drain
<1>9. CASE ApplyDone
  BY <1>9 DEF ApplyDone
<1>10. CASE UNCHANGED vars
  BY <1>10 DEF vars
<1>11. QED
  BY <1>1, <1>2, <1>3, <1>4, <1>5, <1>6, <1>7, <1>8, <1>9, <1>10
  DEF Next, Push, Ring

(* The conjunction of the three invariants holds in every behaviour. *)
THEOREM InvHolds == SafeSpec => []Inv
<1>1. QED
  BY InitInv, NextInv, PTL DEF SafeSpec

(* Type correctness, with it the bound 1 on the eventfd counter: the write *)
(* of a hook inside push never accumulates wake-ups.                       *)
THEOREM BridgeTypeOK == SafeSpec => []TypeOK
<1>1. Inv => TypeOK
  BY DEF Inv
<1>2. QED
  BY <1>1, InvHolds, PTL

(* The flag is set exactly while one wake-up is outstanding, and there is  *)
(* never a second one: the coalescing in push is right for any number of   *)
(* hook goroutines.                                                        *)
THEOREM BridgeOneWake == SafeSpec => []OneWake
<1>1. Inv => OneWake
  BY DEF Inv
<1>2. QED
  BY <1>1, InvHolds, PTL

(* Clearing notified before draining loses no result: whatever is in ready *)
(* has a wake-up or a drain coming.                                        *)
THEOREM BridgeNoLostWakeup == SafeSpec => []NoLostWakeup
<1>1. Inv => NoLostWakeup
  BY DEF Inv
<1>2. QED
  BY <1>1, InvHolds, PTL

(* Step by step the bridge implements the mailbox: results are handed over *)
(* exactly once and in the order they were appended.                       *)
THEOREM BridgeImplementsMailbox == SafeSpec => M!SafeSpec
<1>1. Init => M!Init
  BY DEF Init, M!Init
<1>2. Inv /\ [Next]_vars => [M!Next]_(M!vars)
  <2> SUFFICES ASSUME Inv, [Next]_vars PROVE [M!Next]_(M!vars)
    OBVIOUS
  <2> USE DEF M!Next, M!vars
  <2>1. ASSUME NEW h \in Hooks, NEW r \in Results, PushAppend(h, r)
        PROVE M!Next
    BY <2>1 DEF PushAppend, M!Put
  <2>2. CASE Drain
    <3>1. CASE ready = <<>>
      BY <2>2, <3>1 DEF Drain, Inv, TypeOK
    <3>2. CASE ready # <<>>
      BY <2>2, <3>2 DEF Drain, M!TakeAll
    <3>3. QED BY <3>1, <3>2
  <2>3. ASSUME UNCHANGED <<fresh, ready, taken>> PROVE UNCHANGED M!vars
    BY <2>3
  <2>4. QED
    BY <2>1, <2>2, <2>3
    DEF Next, Push, Ring, PushSwap, PushWrite, KernelRead, SubmitRead,
        HarvestEventfd, ClearNotified, ApplyDone, vars
<1>3. QED
  BY <1>1, <1>2, InvHolds, PTL DEF SafeSpec, M!SafeSpec
=============================================================================
