--------------------------- MODULE GpuLeaseProofs ---------------------------
(***************************************************************************)
(* Proofs about GpuLease, for any number of readers and writers.           *)
(***************************************************************************)
EXTENDS GpuLease, TLAPS

\* Where a process holds the turnstile: on its way to the resource, and for a writer
\* as long as it keeps the resource.
HoldsTurn(p) ==
  \/ pc[p] \in {"resource", "pass"}
  \/ p \in Writers /\ pc[p] \in {"work", "free", "unlock resource", "unlock turnstile"}

\* The locks agree with the control states, the resource lock is never granted against
\* its mode, and memory is in use only in the body.
IInv ==
  /\ TypeOK
  /\ \A p \in Proc : p \in holders <=> Inside(p)
  /\ \A p \in Proc : HoldsTurn(p) <=> turn = p
  /\ \A p \in Proc : pc[p] = "pass" => p \in Readers
  /\ \A w \in Writers, p \in holders : w \in holders => p = w
  /\ \A p \in memory : pc[p] = "free"

LEMMA InitIInv == Init => IInv
  BY LeaseAssumption DEF Init, IInv, TypeOK, Locations, Inside, HoldsTurn, Proc

LEMMA StepIInv == IInv /\ [Next]_vars => IInv'
<1> SUFFICES ASSUME IInv, [Next]_vars PROVE IInv'
  OBVIOUS
<1> USE LeaseAssumption DEF IInv, TypeOK, Locations, Inside, HoldsTurn, Proc, Goto, Unlocked
<1>1. ASSUME NEW p \in Proc, Request(p) PROVE IInv'
  BY <1>1 DEF Request
<1>2. ASSUME NEW p \in Proc, TakeTurn(p) PROVE IInv'
  BY <1>2 DEF TakeTurn, HoldTurn
<1>3. ASSUME NEW p \in Proc, TakeResource(p) PROVE IInv'
  <2>1. CASE p \in Readers
    BY <1>3, <2>1 DEF TakeResource, Compatible
  <2>2. CASE p \notin Readers
    BY <1>3, <2>2 DEF TakeResource, Compatible
  <2>3. QED
    BY <2>1, <2>2
<1>4. ASSUME NEW p \in Proc, Pass(p) PROVE IInv'
  BY <1>4 DEF Pass
<1>5. ASSUME NEW p \in Proc, Forward(p) PROVE IInv'
  BY <1>5 DEF Forward
<1>6. ASSUME NEW p \in Proc, FreeMemory(p) PROVE IInv'
  BY <1>6 DEF FreeMemory, Returned
<1>7. ASSUME NEW p \in Proc, UnlockResource(p) PROVE IInv'
  BY <1>7 DEF UnlockResource
<1>8. ASSUME NEW p \in Proc, UnlockTurn(p) PROVE IInv'
  BY <1>8 DEF UnlockTurn
<1>9. ASSUME NEW p \in Proc, Abandon(p) PROVE IInv'
  BY <1>9 DEF Abandon
<1>10. CASE UNCHANGED vars
  BY <1>10 DEF vars
<1>11. QED
  BY <1>1, <1>2, <1>3, <1>4, <1>5, <1>6, <1>7, <1>8, <1>9, <1>10 DEF Next, Advance

LEMMA Invariance == Spec => []IInv
  BY InitIInv, StepIInv, PTL DEF Spec

\* The variables of the lease keep their types, and locks and memory belong to
\* processes that are using it (device_lease).
THEOREM TypeCorrect == Spec => []TypeOK
<1>1. IInv => TypeOK
  BY DEF IInv
<1>2. QED
  BY Invariance, <1>1, PTL

\* A teacher writer is alone in the lease: device_lease excludes readers and other
\* writers through the resource lock.
THEOREM WriterExcludes == Spec => []Exclusion
<1>1. IInv => Exclusion
  BY DEF IInv, Exclusion, Proc, TypeOK
<1>2. QED
  BY Invariance, <1>1, PTL

\* The transient memory of a teacher forward never coexists with anyone else's:
\* memory is returned before the lock is (score_replica.py:34-38).
THEOREM MemoryExcludes == Spec => []MemoryExclusion
<1>1. IInv => MemoryExclusion
  BY DEF IInv, MemoryExclusion, Proc, TypeOK, Inside
<1>2. QED
  BY Invariance, <1>1, PTL

\* While a writer waits for the resource no reader passes the turnstile, because the
\* writer holds it (gpu_lease.py:20-24).
THEOREM WriterFirst == Spec => WriterPriority
<1>1. ASSUME IInv, [Next]_vars, NEW w \in Writers, NEW r \in Readers,
             pc[w] = "resource", pc[r] \in {"idle", "turnstile"}
      PROVE pc'[r] \in {"idle", "turnstile"}
  <2>1. turn = w /\ w \in Proc /\ r \in Proc /\ turn # Nobody
    BY <1>1, LeaseAssumption DEF IInv, HoldsTurn, Proc
  <2>2. ASSUME NEW p \in Proc, Request(p) \/ Advance(p) \/ Abandon(p)
        PROVE pc'[r] \in {"idle", "turnstile"}
    BY <1>1, <2>1, <2>2 DEF IInv, TypeOK, Goto, Request, Advance, Abandon, TakeTurn,
       TakeResource, Pass, Forward, FreeMemory, UnlockResource, UnlockTurn
  <2>3. QED
    BY <1>1, <2>2 DEF Next, vars
<1>2. IInv /\ [Next]_vars => [NoReaderPasses]_vars
  BY <1>1 DEF NoReaderPasses
<1>3. QED
  BY Invariance, <1>2, PTL DEF Spec, WriterPriority
=============================================================================
