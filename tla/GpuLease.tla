------------------------------ MODULE GpuLease ------------------------------
(***************************************************************************)
(* The cooperative lease on the exact-teacher GPUs (budgetsi/gpu_lease.py) *)
(* and its two kinds of holder: the student scoring replicas, which read   *)
(* (score_replica.py), and the teacher's scoring requests, which write     *)
(* (teacher_scoring_lease).  A lease is two flock files: a turnstile that  *)
(* everyone takes first, and the resource, taken shared or exclusive.      *)
(*                                                                         *)
(* A process is one use of the lease at a time.  Every use opens the files *)
(* anew, so two threads of one program exclude each other as two programs  *)
(* do.  flock gives no order to those who wait.                            *)
(***************************************************************************)
EXTENDS Naturals, FiniteSets

CONSTANTS
  Readers,  \* scoring replicas
  Writers,  \* scoring requests of the exact teacher
  Nobody    \* the holder of a free turnstile

ASSUME LeaseAssumption ==
  /\ Readers \cap Writers = {}
  /\ Nobody \notin Readers \cup Writers

Proc == Readers \cup Writers

VARIABLES
  pc,       \* where each process is in device_lease
  turn,     \* holder of the turnstile lock
  holders,  \* processes that hold the resource lock
  memory    \* processes with transient CUDA allocations

vars == <<pc, turn, holders, memory>>

-----------------------------------------------------------------------------

Init ==
  /\ pc = [p \in Proc |-> "idle"]
  /\ turn = Nobody
  /\ holders = {}
  /\ memory = {}

Goto(p, from, to) ==
  /\ pc[p] = from
  /\ pc' = [pc EXCEPT ![p] = to]

Request(p) ==
  /\ Goto(p, "idle", "turnstile")
  /\ UNCHANGED <<turn, holders, memory>>

\* Mutant of HoldTurn: the turnstile is opened but not locked.
HoldTurnNot(p) == turn' = turn

HoldTurn(p) == turn' = p

TakeTurn(p) ==
  /\ turn = Nobody
  /\ Goto(p, "turnstile", "resource")
  /\ HoldTurn(p)
  /\ UNCHANGED <<holders, memory>>

\* Mutant of Compatible: a writer, too, asks for a shared lock.
CompatibleShared(p) == holders \subseteq Proc

\* A shared lock is compatible with shared locks, an exclusive one with none.
Compatible(p) == IF p \in Readers THEN holders \subseteq Readers ELSE holders = {}

\* A reader leaves the turnstile once it holds the resource, a writer when it is done.
TakeResource(p) ==
  /\ Compatible(p)
  /\ Goto(p, "resource", IF p \in Readers THEN "pass" ELSE "work")
  /\ holders' = holders \cup {p}
  /\ UNCHANGED <<turn, memory>>

Pass(p) ==
  /\ Goto(p, "pass", "work")
  /\ turn' = Nobody
  /\ UNCHANGED <<holders, memory>>

\* The forward pass in the body allocates, or raises before it does.
Forward(p) ==
  /\ Goto(p, "work", "free")
  /\ memory' \in {memory, memory \cup {p}}
  /\ UNCHANGED <<turn, holders>>

\* Mutant of Returned: the allocator keeps its cache.
ReturnedNot(p) == memory

Returned(p) == memory \ {p}

\* release_transient_cuda, in the finally clause of the body.
FreeMemory(p) ==
  /\ Goto(p, "free", "unlock resource")
  /\ memory' = Returned(p)
  /\ UNCHANGED <<turn, holders>>

UnlockResource(p) ==
  /\ Goto(p, "unlock resource", "unlock turnstile")
  /\ holders' = holders \ {p}
  /\ UNCHANGED <<turn, memory>>

Unlocked(p) == IF turn = p THEN Nobody ELSE turn

\* Closing: for a reader the unlock finds nothing to unlock, whoever holds the turnstile.
UnlockTurn(p) ==
  /\ Goto(p, "unlock turnstile", "idle")
  /\ turn' = Unlocked(p)
  /\ UNCHANGED <<holders, memory>>

\* A killed process, or an exception while it waits, closes both files: the kernel
\* drops its locks and the driver its memory.
Abandon(p) ==
  /\ pc[p] # "idle"
  /\ pc' = [pc EXCEPT ![p] = "idle"]
  /\ turn' = Unlocked(p)
  /\ holders' = holders \ {p}
  /\ memory' = memory \ {p}

Advance(p) ==
  \/ TakeTurn(p) \/ TakeResource(p) \/ Pass(p) \/ Forward(p)
  \/ FreeMemory(p) \/ UnlockResource(p) \/ UnlockTurn(p)

Next == \E p \in Proc : Request(p) \/ Advance(p) \/ Abandon(p)

Spec == Init /\ [][Next]_vars

-----------------------------------------------------------------------------
(* Correctness *)

Locations == {"idle", "turnstile", "resource", "pass", "work", "free",
              "unlock resource", "unlock turnstile"}

\* The control state of each process; and whoever has a lock or memory is using the
\* lease: a finished use leaves nothing behind (gpu_lease.py:27-30).
TypeOK ==
  LET Using == {p \in Proc : pc[p] # "idle"} IN
    /\ pc \in [Proc -> Locations]
    /\ turn \in Using \cup {Nobody}
    /\ holders \subseteq Using
    /\ memory \subseteq Using

Inside(p) == pc[p] \in {"pass", "work", "free", "unlock resource"}

\* "An exact-teacher writer excludes both readers" (gpu_lease.py:4) and other writers,
\* while readers may run together: nobody else is in the body beside a writer.
Exclusion ==
  \A w \in Writers, p \in Proc : p # w /\ Inside(w) => ~Inside(p)

\* What the lease is for: the transient allocations of a teacher forward never
\* coexist with anyone else's, so they fit beside the resident weights
\* (gpu_lease.py:5, score_replica.py:34-38, gpu_lease.py:49-53).
MemoryExclusion ==
  \A w \in Writers, p \in Proc : p # w => ~({w, p} \subseteq memory)

\* No reader passes the turnstile in a step that begins with a writer waiting for the
\* resource.
NoReaderPasses ==
  \A w \in Writers, r \in Readers :
    pc[w] = "resource" /\ pc[r] \in {"idle", "turnstile"} => pc'[r] \in {"idle", "turnstile"}

\* A writer "has priority over newly arriving readers" (gpu_lease.py:4), from when it
\* waits for the resource on.  (One that still waits for the turnstile has none.)
WriterPriority == [][NoReaderPasses]_vars

\* The kernel wakes every waiter for the turnstile sooner or later (SF); everything
\* else, the wait for the resource included, needs only that processes run on.
Fairness ==
  \A p \in Proc :
    /\ SF_vars(TakeTurn(p))
    /\ WF_vars(Advance(p))

FairSpec == Spec /\ Fairness

\* Nobody starves: a request for the lease is served (or its process goes away), even
\* though readers may come back for ever.
Served ==
  \A p \in Proc : pc[p] = "turnstile" ~> pc[p] \in {"work", "idle"}
=============================================================================
