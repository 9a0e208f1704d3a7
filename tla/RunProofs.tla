-------------------------------- MODULE RunProofs ---------------------------
(***************************************************************************)
(* Proofs about the training run, for every quota, number of batches,      *)
(* batch size and number of processes: the versions of state.json and the  *)
(* checkpoints that they name; the contents of the ledger; the refinement  *)
(* of the quota log; and, for the run with telemetry, the event log, what  *)
(* has been published of the ledger, and W&B.                              *)
(***************************************************************************)
EXTENDS RunTelemetry, FiniteSetTheorems, SequenceTheorems, WellFoundedInduction, TLAPS

Syncing == {"sync files", "sync directories"}
Writing == {"replace", "sync rename"}
Committing == Syncing \cup {"validate"} \cup Writing

\* The files of a committed update are on disk, and they are the ones it named.
Stored(r) ==
  /\ store[r.checkpoint].safe = Parts
  /\ store[r.checkpoint].adapter = r.after
  /\ store[r.checkpoint].step = r.step

Earlier(r) == r.checkpoint.run < runs
EarlierHere(r) == r.checkpoint.run = runs /\ r.checkpoint.batch < batch

\* A version of state.json is an intact, valid ledger whose checkpoints are stored and
\* were made by the processes so far.
SoundVersion(v) ==
  /\ v.synced /\ v.kind # "torn"
  /\ v.ledger.next_batch <= MaxBatches
  /\ Validate(v.ledger)
  /\ \A r \in Receipts(v.ledger) : Stored(r) /\ r.checkpoint.run <= runs

\* No checkpoint that a version names can be overwritten by the current attempt.
NoOverwrite ==
  \A i \in DOMAIN versions : \A r \in Receipts(versions[i].ledger) :
    Earlier(r) \/ EarlierHere(r)

\* What commit is about to write: the checkpoint of this attempt may still be on its
\* way to the disk, every other is there.
SoundCandidate ==
  /\ batch < MaxBatches /\ candidate.next_batch = batch + 1
  /\ \A r \in Receipts(candidate) :
       /\ Stored(r) \/ /\ pc \in Syncing
                       /\ r.checkpoint = This
                       /\ store[This].adapter = r.after
                       /\ store[This].step = r.step
       /\ Earlier(r) \/ EarlierHere(r) \/ r.checkpoint = This
  /\ pc \in Writing => Validate(candidate)

\* How far the directories have been synced.
SyncedUpTo ==
  {{}, {"adapter/"}, {"adapter/", "update/"}, {"adapter/", "update/", "attempt/"}}

Started == pc # "down" => runs > 0

SafeIsThere == \A a \in Attempt : store[a].safe \subseteq store[a].has

VersionsSound == \A i \in DOMAIN versions : SoundVersion(versions[i])

\* While the process runs it has in memory what a reader of state.json sees.
InMemory ==
  /\ pc \notin {"down", "sync rename"} => state = Visible.ledger /\ NoOverwrite
  /\ pc = "sync rename" => Visible.ledger = candidate
  /\ pc = "restore" =>
       \A i \in DOMAIN versions : \A r \in Receipts(versions[i].ledger) : Earlier(r)

\* The checkpoint of the current attempt, from Train to the end of commit.
AttemptSound ==
  /\ pc \in {"train", "exercise"} => batch < MaxBatches
  /\ pc = "exercise" => store[This].has = Parts \ {"result.json"}
  /\ pc \in Syncing => store[This].has = Parts
  /\ pc \in {"exercise", "sync files"} => store[This].safe = {}
  /\ pc = "sync directories" =>
       Files \subseteq store[This].safe /\ store[This].safe \cap Directories \in SyncedUpTo

CommitSound ==
  pc \in Committing => SoundCandidate \/ (candidate = EmptyLedger /\ pc \in Writing)

AtRest == (pc = "down" => state = EmptyLedger) /\ (runs = 0 => versions = <<Absent>>)

\* What a process that has stopped, or never goes on, leaves behind.
DInv ==
  /\ runs \in 0..MaxRuns
  /\ versions \in Seq(Version) /\ versions # <<>>
  /\ store \in [Attempt -> Checkpoint]
  /\ acked \in Nat
  /\ runs = 0 => versions = <<Absent>>
  /\ SafeIsThere /\ VersionsSound

IInv ==
  /\ TypeOK /\ Started /\ SafeIsThere /\ AtRest
  /\ VersionsSound /\ InMemory /\ AttemptSound /\ CommitSound

-----------------------------------------------------------------------------
(* Data *)

LEMMA VisibleIsVersion ==
  TypeOK => /\ Len(versions) \in DOMAIN versions
            /\ Visible = versions[Len(versions)]
            /\ Visible \in Version
  BY DEF TypeOK, Visible, Last

LEMMA LastOfOne ==
  ASSUME NEW x
  PROVE  Last(<<x>>) = x /\ DOMAIN <<x>> = {1} /\ <<x>>[1] = x
  BY DEF Last

LEMMA AppendOne ==
  ASSUME NEW S, NEW s \in Seq(S), NEW x \in S
  PROVE  /\ Append(s, x) \in Seq(S) /\ Append(s, x) # <<>>
         /\ DOMAIN Append(s, x) = DOMAIN s \cup {Len(s) + 1}
         /\ \A i \in DOMAIN s : Append(s, x)[i] = s[i]
         /\ Append(s, x)[Len(s) + 1] = x
         /\ Last(Append(s, x)) = x
<1>1. Append(s, x) \in Seq(S) /\ Len(Append(s, x)) = Len(s) + 1 /\ Len(s) \in Nat
  OBVIOUS
<1>2. DOMAIN Append(s, x) = 1..(Len(s) + 1) /\ DOMAIN s = 1..Len(s)
  BY <1>1
<1>3. \A i \in 1..Len(s) : Append(s, x)[i] = s[i]
  OBVIOUS
<1>4. Append(s, x)[Len(s) + 1] = x
  OBVIOUS
<1>5. Last(Append(s, x)) = x
  BY <1>1, <1>4 DEF Last
<1>6. DOMAIN Append(s, x) = DOMAIN s \cup {Len(s) + 1}
  BY <1>1, <1>2
<1>7. Append(s, x) # <<>>
  BY <1>1
<1>8. QED
  BY <1>1, <1>2, <1>3, <1>4, <1>5, <1>6, <1>7

LEMMA VersionIsTyped ==
  ASSUME versions \in Seq(Version), NEW i \in DOMAIN versions
  PROVE  versions[i] \in Version /\ versions[i].ledger \in LedgerState
<1>1. versions[i] \in Version
  OBVIOUS
<1>2. QED
  BY <1>1 DEF Version

LEMMA ReceiptIsTyped ==
  ASSUME NEW led \in LedgerState, NEW r \in Receipts(led)
  PROVE  r \in Receipt
  BY DEF Receipts, ToSet, LedgerState

LEMMA ReceiptsAppend ==
  ASSUME NEW led \in LedgerState, NEW r \in Receipt, NEW n \in Nat
  PROVE  /\ [next_batch |-> n, updates |-> Append(led.updates, r)] \in LedgerState
         /\ Receipts([next_batch |-> n, updates |-> Append(led.updates, r)])
              = Receipts(led) \cup {r}
<1>1. led.updates \in Seq(Receipt)
  BY DEF LedgerState
<1>2. Append(led.updates, r) \in Seq(Receipt)
  BY <1>1
<1>3. ToSet(Append(led.updates, r)) = ToSet(led.updates) \cup {r}
  <2> DEFINE u == led.updates
             v == Append(led.updates, r)
  <2>1. DOMAIN u = 1..Len(u) /\ DOMAIN v = 1..(Len(u) + 1) /\ Len(u) \in Nat
    BY <1>1
  <2>2. \A i \in 1..Len(u) : v[i] = u[i]
    BY <1>1
  <2>3. v[Len(u) + 1] = r
    BY <1>1
  <2>4. ASSUME NEW x \in ToSet(v) PROVE x \in ToSet(u) \cup {r}
    <3>1. PICK i \in 1..(Len(u) + 1) : x = v[i]
      BY <2>1, <2>4 DEF ToSet
    <3>2. i \in 1..Len(u) \/ i = Len(u) + 1
      BY <2>1
    <3>3. QED
      BY <3>1, <3>2, <2>1, <2>2, <2>3 DEF ToSet
  <2>5. ASSUME NEW x \in ToSet(u) \cup {r} PROVE x \in ToSet(v)
    <3>1. CASE x = r
      <4>1. Len(u) + 1 \in DOMAIN v
        BY <2>1
      <4>2. QED
        BY <3>1, <4>1, <2>3 DEF ToSet
    <3>2. CASE x # r
      <4>1. PICK i \in 1..Len(u) : x = u[i]
        BY <2>1, <2>5, <3>2 DEF ToSet
      <4>2. i \in DOMAIN v
        BY <2>1
      <4>3. QED
        BY <4>1, <4>2, <2>2 DEF ToSet
    <3>3. QED
      BY <3>1, <3>2
  <2>6. QED
    BY <2>4, <2>5
<1>4. QED
  BY <1>2, <1>3 DEF Receipts, LedgerState

LEMMA EmptyLedgerIsSound ==
  /\ EmptyLedger \in LedgerState
  /\ Receipts(EmptyLedger) = {}
  /\ Validate(EmptyLedger)
<1>1. EmptyLedger \in LedgerState /\ Receipts(EmptyLedger) = {} /\ EmptyLedger.updates = <<>>
  BY DEF EmptyLedger, LedgerState, Receipts, ToSet
<1>2. UsedNodes(EmptyLedger) = {}
  BY <1>1 DEF UsedNodes
<1>3. QED
  BY <1>1, <1>2, FS_EmptySet, ConstantsAssumption DEF Validate

LEMMA ThisIsAttempt ==
  TypeOK /\ Started /\ pc # "down" /\ batch < MaxBatches => This \in Attempt /\ This \in Snapshot
  BY ConstantsAssumption DEF TypeOK, Started, This, Attempt, Batches, Snapshot

-----------------------------------------------------------------------------
(* Every step preserves the invariant *)

LEMMA InitIInv == Init => IInv
<1> SUFFICES ASSUME Init PROVE IInv
  OBVIOUS
<1> USE DEF Init
<1>1. TypeOK
  BY ConstantsAssumption, EmptyLedgerIsSound
     DEF TypeOK, Locations, Version, Absent, Checkpoint, NoCheckpoint, Snapshot, Initial
<1>2. Started /\ SafeIsThere /\ AtRest
  BY DEF Started, SafeIsThere, NoCheckpoint, AtRest
<1>3. VersionsSound
  BY EmptyLedgerIsSound, ConstantsAssumption
     DEF VersionsSound, SoundVersion, Absent, EmptyLedger
<1>4. InMemory /\ AttemptSound /\ CommitSound
  BY DEF InMemory, AttemptSound, CommitSound, Committing, Syncing, Writing
<1>5. QED
  BY <1>1, <1>2, <1>3, <1>4 DEF IInv

\* A step that leaves the disk alone.
LEMMA DiskKept ==
  ASSUME versions \in Seq(Version), runs \in Nat, VersionsSound, SafeIsThere,
         versions' = versions, store' = store, runs' \in Nat, runs <= runs'
  PROVE  VersionsSound' /\ SafeIsThere'
<1>1. SafeIsThere'
  BY DEF SafeIsThere
<1>2. ASSUME NEW i \in DOMAIN versions PROVE SoundVersion(versions[i])'
  <2>1. versions[i].ledger \in LedgerState
    BY VersionIsTyped
  <2>2. ASSUME NEW r \in Receipts(versions[i].ledger)
        PROVE Stored(r)' /\ r.checkpoint.run <= runs'
    <3>1. r.checkpoint.run \in Nat
      BY <2>1, ReceiptIsTyped DEF Receipt, Attempt
    <3>2. Stored(r) /\ r.checkpoint.run <= runs
      BY DEF VersionsSound, SoundVersion
    <3>3. QED
      BY <3>1, <3>2 DEF Stored
  <2>3. QED
    BY <2>2 DEF VersionsSound, SoundVersion
<1>3. QED
  BY <1>1, <1>2 DEF VersionsSound

LEMMA StartIInv == IInv /\ Start => IInv'
<1> SUFFICES ASSUME IInv, Start PROVE IInv'
  OBVIOUS
<1> USE DEF Start, disk
<1>1. TypeOK'
  BY EmptyLedgerIsSound, ConstantsAssumption DEF IInv, TypeOK, Locations
<1>2. Started' /\ AttemptSound' /\ AtRest'
  BY DEF IInv, TypeOK, Started, AttemptSound, Syncing, AtRest
<1>3. VersionsSound' /\ SafeIsThere'
  BY DiskKept DEF IInv, TypeOK
<1>4. InMemory'
  <2>1. versions = <<Absent>> /\ state = EmptyLedger
    BY DEF IInv, AtRest
  <2>2. Visible' = Absent /\ DOMAIN versions = {1} /\ versions[1] = Absent
    BY <2>1 DEF Visible, Last
  <2>3. NoOverwrite'
    BY <2>2, EmptyLedgerIsSound DEF NoOverwrite, Absent
  <2>4. QED
    BY <2>1, <2>2, <2>3 DEF InMemory, Absent
<1>5. CommitSound'
  BY DEF CommitSound, Writing
<1>6. QED
  BY <1>1, <1>2, <1>3, <1>4, <1>5 DEF IInv

LEMMA ResumeIInv == IInv /\ Resume => IInv'
<1> SUFFICES ASSUME IInv, Resume PROVE IInv'
  OBVIOUS
<1> USE DEF Resume, disk
<1>1. TypeOK'
  <2>1. Visible.ledger \in LedgerState
    BY VisibleIsVersion DEF IInv, Version
  <2>2. QED
    BY <2>1, ConstantsAssumption DEF IInv, TypeOK, Locations
<1>2. Started' /\ AttemptSound' /\ AtRest' /\ CommitSound'
  BY DEF IInv, TypeOK, Started, AttemptSound, Syncing, AtRest, CommitSound, Committing, Writing
<1>3. VersionsSound' /\ SafeIsThere'
  BY DiskKept DEF IInv, TypeOK
<1>4. InMemory'
  <2>1. ASSUME NEW i \in DOMAIN versions, NEW r \in Receipts(versions[i].ledger)
        PROVE  r.checkpoint.run < runs'
    <3>1. versions[i].ledger \in LedgerState
      BY VersionIsTyped DEF TypeOK, IInv
    <3>2. r.checkpoint.run \in Nat
      BY <3>1, ReceiptIsTyped DEF Receipt, Attempt
    <3>3. r.checkpoint.run <= runs
      BY DEF IInv, VersionsSound, SoundVersion
    <3>4. QED
      BY <3>2, <3>3 DEF IInv, TypeOK
  <2>2. NoOverwrite'
    BY <2>1 DEF NoOverwrite, Earlier
  <2>3. QED
    BY <2>1, <2>2 DEF InMemory, Visible, Earlier
<1>5. QED
  BY <1>1, <1>2, <1>3, <1>4 DEF IInv

\* A step that leaves what a reader sees, the process and its place in the loop alone.
LEMMA MemoryKept ==
  ASSUME TypeOK, InMemory, pc \notin {"down", "sync rename"},
         pc' \notin {"sync rename", "restore"},
         versions' = versions \/ versions' = <<Visible>>,
         UNCHANGED <<runs, state>>, batch' = batch
  PROVE  InMemory'
<1>1. CASE versions' = versions
  BY <1>1 DEF InMemory, Visible, NoOverwrite, Earlier, EarlierHere
<1>2. CASE versions' = <<Visible>>
  <2>1. Len(versions) \in DOMAIN versions /\ Visible = versions[Len(versions)]
    BY VisibleIsVersion
  <2>2. Visible' = Visible /\ DOMAIN versions' = {1} /\ versions'[1] = Visible
    <3>1. Visible' = Last(versions')
      BY DEF Visible
    <3>2. QED
      BY <1>2, <3>1, LastOfOne
  <2>3. \A r \in Receipts(Visible.ledger) : (Earlier(r) \/ EarlierHere(r))'
    BY <2>1 DEF InMemory, NoOverwrite, Earlier, EarlierHere
  <2>4. NoOverwrite'
    BY <2>2, <2>3 DEF NoOverwrite
  <2>5. QED
    BY <2>2, <2>4 DEF InMemory
<1>3. QED
  BY <1>1, <1>2

LEMMA FinishIInv == IInv /\ Finish => IInv'
<1> SUFFICES ASSUME IInv, Finish PROVE IInv'
  OBVIOUS
<1> USE DEF Finish, disk, memory
<1>1. TypeOK'
  BY DEF IInv, TypeOK, Locations
<1>2. Started' /\ AttemptSound' /\ AtRest' /\ CommitSound'
  BY DEF IInv, TypeOK, Started, AttemptSound, Syncing, AtRest, CommitSound, Committing, Writing
<1>3. VersionsSound' /\ SafeIsThere'
  BY DiskKept DEF IInv, TypeOK
<1>4. InMemory'
  BY MemoryKept DEF IInv
<1>5. QED
  BY <1>1, <1>2, <1>3, <1>4 DEF IInv

LEMMA LeavesDInv == IInv => DInv
BY DEF IInv, DInv, TypeOK, AtRest

\* A stopped process has nothing in memory and leaves the disk as it is.
LEMMA ForgetIInv == DInv /\ Forget /\ UNCHANGED <<runs, disk, acked>> => IInv'
<1> SUFFICES ASSUME DInv, Forget, UNCHANGED <<runs, disk, acked>> PROVE IInv'
  OBVIOUS
<1> USE DEF Forget, disk
<1>1. TypeOK'
  <2>1. Initial \in Snapshot /\ 0 \in 0..MaxBatches /\ 0 \in Nat
    BY ConstantsAssumption DEF Snapshot
  <2>2. QED
    BY <2>1, EmptyLedgerIsSound DEF DInv, TypeOK, Locations
<1>2. Started' /\ AttemptSound' /\ AtRest' /\ CommitSound' /\ InMemory'
  BY DEF DInv, Started, AttemptSound, Syncing, AtRest, CommitSound, Committing,
         Writing, InMemory
<1>3. VersionsSound' /\ SafeIsThere'
  BY DiskKept, ConstantsAssumption DEF DInv
<1>4. QED
  BY <1>1, <1>2, <1>3 DEF IInv

LEMMA StopIInv == IInv /\ Stop => IInv'
BY LeavesDInv, ForgetIInv DEF Stop

\* The ledger in memory is stored, and this attempt is none of its checkpoints.
LEMMA StateIsSound ==
  ASSUME IInv, pc \notin {"down", "sync rename"}, NEW r \in Receipts(state)
  PROVE  /\ r \in Receipt /\ Stored(r)
         /\ Earlier(r) \/ EarlierHere(r)
         /\ state.next_batch <= MaxBatches
<1>1. state = Visible.ledger /\ NoOverwrite
  BY DEF IInv, InMemory
<1>2. Len(versions) \in DOMAIN versions /\ Visible = versions[Len(versions)]
  BY VisibleIsVersion DEF IInv
<1>3. r \in Receipt
  BY ReceiptIsTyped DEF IInv, TypeOK
<1>4. QED
  BY <1>1, <1>2, <1>3 DEF IInv, VersionsSound, SoundVersion, NoOverwrite

LEMMA RestoreIInv == IInv /\ Restore => IInv'
<1> SUFFICES ASSUME IInv, Restore PROVE IInv'
  OBVIOUS
<1> USE DEF Restore, disk
<1>0. pc = "restore" /\ pc' \in {"loop", "refused"} /\ batch' = state.next_batch
  BY DEF FirstBatch
<1>1. TypeOK'
  <2>1. batch' \in 0..MaxBatches
    <3>1. state = Visible.ledger /\ Len(versions) \in DOMAIN versions
            /\ Visible = versions[Len(versions)]
      BY <1>0, VisibleIsVersion DEF IInv, InMemory
    <3>2. state.next_batch <= MaxBatches
      BY <3>1 DEF IInv, VersionsSound, SoundVersion
    <3>3. state.next_batch \in Nat
      BY DEF IInv, TypeOK, LedgerState
    <3>4. QED
      BY <1>0, <3>2, <3>3, ConstantsAssumption
  <2>2. adapter' \in Snapshot /\ opt' \in Nat
    <3>1. CASE state.updates = <<>>
      BY <3>1 DEF SeededAdapter, Snapshot
    <3>2. CASE state.updates # <<>>
      <4>1. state.updates \in Seq(Receipt)
        BY DEF IInv, TypeOK, LedgerState
      <4>2. Last(state.updates) \in Receipt
        BY <3>2, <4>1 DEF Last
      <4>3. Last(state.updates).checkpoint \in Attempt
        BY <4>2 DEF Receipt
      <4>4. store[Last(state.updates).checkpoint] \in Checkpoint
        BY <4>3 DEF IInv, TypeOK
      <4>5. QED
        BY <3>2, <4>4 DEF Checkpoint
    <3>3. QED
      BY <3>1, <3>2
  <2>3. QED
    BY <1>0, <2>1, <2>2 DEF IInv, TypeOK, Locations
<1>2. Started' /\ AttemptSound' /\ AtRest' /\ CommitSound'
  BY <1>0 DEF IInv, TypeOK, Started, AttemptSound, Syncing, AtRest, CommitSound, Committing, Writing
<1>3. VersionsSound' /\ SafeIsThere'
  BY DiskKept DEF IInv, TypeOK
<1>4. InMemory'
  BY <1>0 DEF IInv, InMemory, Visible, NoOverwrite, Earlier
<1>5. QED
  BY <1>1, <1>2, <1>3, <1>4 DEF IInv

LEMMA CollectIInv == IInv /\ Collect => IInv'
<1> SUFFICES ASSUME IInv, Collect PROVE IInv'
  OBVIOUS
<1> USE DEF Collect, disk
<1>0. /\ pc = "loop" /\ batch < MaxBatches /\ current' = adapter
      /\ UNCHANGED <<runs, versions, store, state, batch, adapter, opt, acked>>
  BY DEF MoreBatches
<1>1. PICK records \in SUBSET NodesOf(batch) :
        IF ~OnCommittedSnapshot \/ records \cap UsedNodes(state) # {}
        THEN pc' = "refused" /\ UNCHANGED <<nodes, candidate>>
        ELSE \E chosen \in SUBSET records :
               /\ nodes' = chosen
               /\ IF chosen = {}
                  THEN BeginCommit(state.updates, "validate")
                  ELSE pc' = "train" /\ UNCHANGED candidate
  OBVIOUS
<1>2. nodes' \subseteq Node
  BY <1>1 DEF IInv, TypeOK, NodesOf
<1>3. \/ pc' \in {"refused", "train"} /\ candidate' = candidate
      \/ /\ pc' = "validate" /\ batch = state.next_batch
         /\ candidate' = [next_batch |-> state.next_batch + 1, updates |-> state.updates]
  BY <1>1 DEF BeginCommit
<1>4. candidate' \in LedgerState
  BY <1>3 DEF IInv, TypeOK, LedgerState
<1>5. TypeOK'
  BY <1>0, <1>2, <1>3, <1>4 DEF IInv, TypeOK, Locations
<1>6. Started' /\ AttemptSound' /\ AtRest'
  BY <1>0, <1>3 DEF IInv, TypeOK, Started, AttemptSound, Syncing, AtRest
<1>7. VersionsSound' /\ SafeIsThere'
  BY <1>0, DiskKept DEF IInv, TypeOK
<1>8. InMemory'
  BY <1>0, <1>3, MemoryKept DEF IInv
<1>9. CommitSound'
  <2>1. CASE pc' \in {"refused", "train"}
    BY <2>1 DEF CommitSound, Committing, Syncing, Writing
  <2>2. CASE pc' = "validate" /\ batch = state.next_batch
               /\ candidate' = [next_batch |-> state.next_batch + 1, updates |-> state.updates]
    <3>1. Receipts(candidate') = Receipts(state)
      BY <2>2 DEF Receipts
    <3>2. \A r \in Receipts(state) : Stored(r) /\ (Earlier(r) \/ EarlierHere(r))
      BY <1>0, StateIsSound
    <3>3. \A r \in Receipts(state) : Stored(r)' /\ (Earlier(r) \/ EarlierHere(r))'
      BY <1>0, <3>2 DEF Stored, Earlier, EarlierHere
    <3>4. SoundCandidate'
      BY <1>0, <2>2, <3>1, <3>3 DEF SoundCandidate, Writing
    <3>5. QED
      BY <3>4 DEF CommitSound
  <2>3. QED
    BY <1>3, <2>1, <2>2
<1>10. QED
  BY <1>5, <1>6, <1>7, <1>8, <1>9 DEF IInv

LEMMA ValidateIInv == IInv /\ ValidateCandidate => IInv'
<1> SUFFICES ASSUME IInv, ValidateCandidate PROVE IInv'
  OBVIOUS
<1> USE DEF ValidateCandidate, disk, memory
<1>1. TypeOK'
  BY DEF IInv, TypeOK, Locations
<1>2. Started' /\ AttemptSound' /\ AtRest'
  BY DEF IInv, TypeOK, Started, AttemptSound, Syncing, AtRest
<1>3. VersionsSound' /\ SafeIsThere'
  BY DiskKept DEF IInv, TypeOK
<1>4. InMemory'
  BY MemoryKept DEF IInv
<1>5. CommitSound'
  <2>1. CASE pc' = "refused"
    BY <2>1 DEF CommitSound, Committing, Syncing, Writing
  <2>2. CASE pc' = "replace" /\ Validate(candidate)
    <3>1. SoundCandidate
      BY DEF IInv, CommitSound, Committing, Writing
    <3>2. Validate(candidate)'
      BY <2>2 DEF Validate, UsedNodes, Receipts
    <3>3. \A r \in Receipts(candidate) :
            Stored(r)' /\ (Earlier(r) \/ EarlierHere(r) \/ r.checkpoint = This)'
      BY <3>1 DEF SoundCandidate, Syncing, Stored, Earlier, EarlierHere, This
    <3>4. SoundCandidate'
      BY <3>1, <3>2, <3>3 DEF SoundCandidate, Receipts
    <3>5. QED
      BY <3>4 DEF CommitSound
  <2>3. QED
    BY <2>1, <2>2
<1>6. QED
  BY <1>1, <1>2, <1>3, <1>4, <1>5 DEF IInv

-----------------------------------------------------------------------------
(* Steps that write to the disk *)

LEMMA EarlierIsNotThis ==
  ASSUME TypeOK, NEW r \in Receipt, Earlier(r) \/ EarlierHere(r)
  PROVE  r.checkpoint \in Attempt /\ r.checkpoint # This
<1>1. r.checkpoint \in Attempt
  BY DEF Receipt
<1>2. r.checkpoint.run \in Nat /\ r.checkpoint.batch \in Nat
  BY <1>1, ConstantsAssumption DEF Attempt, Batches
<1>3. This.run = runs /\ This.batch = batch /\ runs \in Nat /\ batch \in Nat
  BY ConstantsAssumption DEF This, TypeOK
<1>4. QED
  BY <1>1, <1>2, <1>3 DEF Earlier, EarlierHere

\* A step that leaves every checkpoint but this attempt's alone keeps the versions.
LEMMA OthersKept ==
  ASSUME IInv, pc \notin {"down", "sync rename"},
         versions' = versions \/ versions' = <<Visible>>, runs' = runs,
         \A a \in Attempt : a # This => store'[a] = store[a]
  PROVE  VersionsSound' /\ \A r \in Receipts(state) : Stored(r)'
<1>1. ASSUME NEW r \in Receipt, Stored(r), Earlier(r) \/ EarlierHere(r)
      PROVE  Stored(r)'
  <2>1. TypeOK
    BY DEF IInv
  <2>2. r.checkpoint \in Attempt /\ r.checkpoint # This
    BY <1>1, <2>1, EarlierIsNotThis
  <2>3. store'[r.checkpoint] = store[r.checkpoint]
    BY <2>2
  <2>4. QED
    BY <1>1, <2>3 DEF Stored
<1>2. ASSUME NEW i \in DOMAIN versions, NEW v, v = versions[i] PROVE SoundVersion(v)'
  <2>1. v.ledger \in LedgerState
    BY <1>2, VersionIsTyped DEF TypeOK, IInv
  <2>2. \A r \in Receipts(v.ledger) : r \in Receipt
    BY <2>1, ReceiptIsTyped
  <2>3. SoundVersion(v) /\ NoOverwrite
    BY <1>2 DEF IInv, VersionsSound, InMemory
  <2>4. \A r \in Receipts(v.ledger) : Stored(r)'
    BY <1>1, <1>2, <2>2, <2>3 DEF SoundVersion, NoOverwrite
  <2>5. QED
    BY <2>3, <2>4 DEF SoundVersion
<1>3. \A r \in Receipts(state) : Stored(r)'
  BY <1>1, StateIsSound
<1>4. VersionsSound'
  <2>1. CASE versions' = versions
    BY <1>2, <2>1 DEF VersionsSound
  <2>2. CASE versions' = <<Visible>>
    <3>1. Len(versions) \in DOMAIN versions /\ Visible = versions[Len(versions)]
      BY VisibleIsVersion DEF IInv
    <3>2. \A v : v = Visible => SoundVersion(v)'
      BY <1>2, <3>1
    <3>3. DOMAIN versions' = {1} /\ versions'[1] = Visible
      BY <2>2, LastOfOne
    <3>4. QED
      BY <3>2, <3>3 DEF VersionsSound
  <2>3. QED
    BY <2>1, <2>2
<1>5. QED
  BY <1>3, <1>4

LEMMA TrainIInv == IInv /\ Train => IInv'
<1> SUFFICES ASSUME IInv, Train PROVE IInv'
  OBVIOUS
<1> USE DEF Train
<1>1. This \in Attempt /\ This \in Snapshot
  BY ThisIsAttempt DEF IInv, AttemptSound
<1>2. /\ store \in [Attempt -> Checkpoint]
      /\ store' = [store EXCEPT ![This] =
           [adapter |-> This, step |-> opt + 1, has |-> Parts \ {"result.json"}, safe |-> {}]]
  BY DEF IInv, TypeOK
<1>3. \A a \in Attempt : a # This => store'[a] = store[a]
  BY <1>1, <1>2
<1>4. /\ store'[This].has = Parts \ {"result.json"}
      /\ store'[This].safe = {}
      /\ store' \in [Attempt -> Checkpoint]
  BY <1>1, <1>2 DEF Checkpoint, IInv, TypeOK
<1>5. TypeOK'
  BY <1>1, <1>4 DEF IInv, TypeOK, Locations
<1>6. Started' /\ AtRest' /\ CommitSound'
  BY DEF IInv, TypeOK, Started, AtRest, CommitSound, Committing, Syncing, Writing
<1>7. SafeIsThere'
  BY <1>1, <1>3, <1>4 DEF IInv, SafeIsThere
<1>8. AttemptSound'
  BY <1>4 DEF IInv, AttemptSound, Syncing, This
<1>9. VersionsSound'
  BY <1>3, OthersKept
<1>10. InMemory'
  BY MemoryKept DEF IInv
<1>11. QED
  BY <1>5, <1>6, <1>7, <1>8, <1>9, <1>10 DEF IInv

LEMMA ExerciseIInv == IInv /\ Exercise => IInv'
<1> SUFFICES ASSUME IInv, Exercise PROVE IInv'
  OBVIOUS
<1>0. /\ state \in LedgerState /\ candidate \in LedgerState
      /\ current \in Snapshot /\ nodes \in SUBSET Node
  BY DEF IInv, TypeOK
<1>next. state.next_batch + 1 \in Nat
  BY <1>0 DEF LedgerState
<1> USE DEF Exercise
<1>1. This \in Attempt /\ This \in Snapshot
  BY ThisIsAttempt DEF IInv, AttemptSound
<1>2. store[This].has = Parts \ {"result.json"} /\ store[This].safe = {} /\ batch < MaxBatches
  BY DEF IInv, AttemptSound
<1>3. store \in [Attempt -> Checkpoint] /\ store[This] \in Checkpoint
  BY <1>1 DEF IInv, TypeOK
<1>4. adapter' \in Snapshot /\ opt' \in Nat /\ adapter' = store[This].adapter /\ opt' = store[This].step
  BY <1>3 DEF Checkpoint
<1> DEFINE receipt ==
      [batch |-> batch, checkpoint |-> This, before |-> current,
       after |-> adapter', nodes |-> nodes, step |-> opt']
    written == [store EXCEPT ![This].has = @ \cup {"result.json"}]
<1>5. \/ pc' = "refused" /\ candidate' = candidate /\ store' \in {store, written}
      \/ /\ pc' = "sync files" /\ batch = state.next_batch /\ store' = written
         /\ candidate' = [next_batch |-> state.next_batch + 1,
                          updates |-> Append(state.updates, receipt)]
  BY DEF BeginCommit
<1>6. /\ written[This] = [store[This] EXCEPT !.has = Parts]
      /\ \A a \in Attempt : a # This => written[a] = store[a]
      /\ written \in [Attempt -> Checkpoint]
  <2>1. (Parts \ {"result.json"}) \cup {"result.json"} = Parts
    BY DEF Parts, Files
  <2>2. written[This] = [store[This] EXCEPT !.has = Parts]
    BY <1>1, <1>2, <1>3, <2>1
  <2>3. written[This] \in Checkpoint
    BY <1>3, <2>2 DEF Checkpoint
  <2>4. QED
    BY <1>1, <1>3, <2>2, <2>3
<1>7. /\ \A a \in Attempt : a # This => store'[a] = store[a]
      /\ store' \in [Attempt -> Checkpoint]
      /\ store'[This].safe = {}
      /\ store'[This].adapter = adapter' /\ store'[This].step = opt'
  <2>1. CASE store' = store
    BY <1>2, <1>3, <1>4, <2>1 DEF Checkpoint
  <2>2. CASE store' = written
    <3>1. written[This].safe = {} /\ written[This].adapter = adapter' /\ written[This].step = opt'
      BY <1>2, <1>3, <1>4, <1>6 DEF Checkpoint
    <3>2. QED
      BY <1>6, <2>2, <3>1
  <2>3. store' = store \/ store' = written
    BY <1>5
  <2>4. QED
    BY <2>1, <2>2, <2>3
<1>8. receipt \in Receipt
  <2>1. batch \in Batches
    BY <1>1 DEF This, Attempt
  <2>2. QED
    BY <1>0, <1>1, <1>4, <2>1 DEF Receipt
<1> HIDE DEF receipt
<1>10. candidate' \in LedgerState
  <2>1. CASE candidate' = candidate
    BY <1>0, <2>1
  <2>2. CASE /\ batch = state.next_batch
             /\ candidate' = [next_batch |-> state.next_batch + 1,
                              updates |-> Append(state.updates, receipt)]
    <3>1. state \in LedgerState /\ state.next_batch + 1 \in Nat
      BY <1>0, <1>next, <2>2
    <3>2. QED
      BY <1>8, <2>2, <3>1, ReceiptsAppend
  <2>3. QED
    BY <1>5, <2>1, <2>2
<1>11. TypeOK'
  BY <1>4, <1>5, <1>7, <1>10 DEF IInv, TypeOK, Locations
<1>12. Started' /\ AtRest'
  BY <1>5 DEF IInv, TypeOK, Started, AtRest
<1>13. SafeIsThere'
  BY <1>1, <1>7 DEF IInv, SafeIsThere
<1>14. AttemptSound'
  BY <1>5, <1>6, <1>7, <1>3 DEF AttemptSound, Syncing, This, Checkpoint
<1>15. VersionsSound' /\ \A r \in Receipts(state) : Stored(r)'
  BY <1>7, OthersKept
<1>16. InMemory'
  BY <1>5, MemoryKept DEF IInv
<1>17. CommitSound'
  <2>1. CASE pc' = "refused"
    BY <2>1 DEF CommitSound, Committing, Syncing, Writing
  <2>2. CASE /\ pc' = "sync files" /\ batch = state.next_batch
             /\ candidate' = [next_batch |-> state.next_batch + 1,
                              updates |-> Append(state.updates, receipt)]
    <3>1. Receipts(candidate') = Receipts(state) \cup {receipt}
      BY <2>2, <1>0, <1>8, <1>next, ReceiptsAppend
    <3>2. \A r \in Receipts(state) : (Earlier(r) \/ EarlierHere(r))'
      BY StateIsSound DEF Earlier, EarlierHere
    <3>3. This' = This /\ pc' \in Syncing
      BY <2>2 DEF This, Syncing
    <3>4. /\ receipt.checkpoint = This
          /\ store'[This].adapter = receipt.after
          /\ store'[This].step = receipt.step
      BY <1>7 DEF receipt
    <3>5. SoundCandidate'
      BY <1>2, <1>15, <2>2, <3>1, <3>2, <3>3, <3>4 DEF SoundCandidate, Writing
    <3>6. QED
      BY <3>5 DEF CommitSound
  <2>3. QED
    BY <1>5, <2>1, <2>2
<1>18. QED
  BY <1>11, <1>12, <1>13, <1>14, <1>15, <1>16, <1>17 DEF IInv

\* Syncing adds to what is safe of this attempt's checkpoint.
LEMMA SyncMore ==
  ASSUME TypeOK, SafeIsThere, This \in Attempt, store[This].has = Parts,
         NEW parts \in SUBSET Parts, Safe(parts)
  PROVE  /\ store' \in [Attempt -> Checkpoint] /\ SafeIsThere'
         /\ \A a \in Attempt : a # This => store'[a] = store[a]
         /\ store'[This] = [store[This] EXCEPT !.safe = @ \cup parts]
<1>1. store \in [Attempt -> Checkpoint] /\ store[This] \in Checkpoint
  BY DEF TypeOK
<1>2. store' = [store EXCEPT ![This].safe = @ \cup parts]
  BY DEF Safe
<1>3. store'[This] = [store[This] EXCEPT !.safe = @ \cup parts]
  BY <1>1, <1>2
<1>4. store'[This] \in Checkpoint
  BY <1>1, <1>3 DEF Checkpoint
<1>5. \A a \in Attempt : a # This => store'[a] = store[a]
  BY <1>1, <1>2
<1>6. store' \in [Attempt -> Checkpoint]
  BY <1>1, <1>2, <1>4, <1>5
<1>7. store'[This].safe \subseteq store'[This].has
  BY <1>1, <1>3 DEF Checkpoint
<1>8. SafeIsThere'
  BY <1>5, <1>7 DEF SafeIsThere
<1>9. QED
  BY <1>3, <1>5, <1>6, <1>8

\* While the checkpoint is synced its adapter and step stay, and so does the rest of
\* the ledger that commit is about to write.
LEMMA CandidateKept ==
  ASSUME IInv, SoundCandidate, pc \in Syncing, pc' \in Syncing \cup {"validate"},
         UNCHANGED <<runs, batch, candidate>>, This \in Attempt,
         \A a \in Attempt : a # This => store'[a] = store[a],
         store'[This].adapter = store[This].adapter,
         store'[This].step = store[This].step,
         pc' = "validate" => store'[This].safe = Parts,
         store[This].safe = Parts => store'[This].safe = Parts
  PROVE  SoundCandidate'
<1>1. candidate \in LedgerState
  BY DEF IInv, TypeOK
<1>2. This' = This
  BY DEF This
<1>3. ASSUME NEW r \in Receipts(candidate)
      PROVE  /\ Stored(r)' \/ /\ pc' \in Syncing
                              /\ r.checkpoint = This
                              /\ store'[This].adapter = r.after
                              /\ store'[This].step = r.step
             /\ (Earlier(r) \/ EarlierHere(r))' \/ r.checkpoint = This
  <2>1. r.checkpoint \in Attempt
    BY <1>1, ReceiptIsTyped DEF Receipt
  <2>2. CASE r.checkpoint = This
    BY <1>2, <2>2 DEF SoundCandidate, Stored
  <2>3. CASE r.checkpoint # This
    BY <2>1, <2>3 DEF SoundCandidate, Stored, Earlier, EarlierHere
  <2>4. QED
    BY <2>2, <2>3
<1>4. pc' \notin Writing
  BY DEF Writing, Syncing
<1>5. QED
  BY <1>2, <1>3, <1>4 DEF SoundCandidate

LEMMA SyncFilesIInv == IInv /\ SyncFiles => IInv'
<1> SUFFICES ASSUME IInv, SyncFiles PROVE IInv'
  OBVIOUS
<1>0. /\ pc = "sync files" /\ pc' = "sync directories"
      /\ UNCHANGED <<runs, versions, state, candidate, batch, current, adapter, opt, nodes, acked>>
  BY DEF SyncFiles, memory
<1>1. SoundCandidate /\ store[This].has = Parts /\ store[This].safe = {}
  BY <1>0 DEF IInv, CommitSound, AttemptSound, Committing, Syncing, Writing
<1>2. This \in Attempt
  BY <1>0, <1>1, ThisIsAttempt DEF IInv, SoundCandidate
<1>3. /\ store' \in [Attempt -> Checkpoint] /\ SafeIsThere'
      /\ \A a \in Attempt : a # This => store'[a] = store[a]
      /\ store'[This] = [store[This] EXCEPT !.safe = @ \cup Files]
  BY <1>1, <1>2, SyncMore DEF SyncFiles, IInv, Parts
<1>4. store[This] \in Checkpoint
  BY <1>2 DEF IInv, TypeOK
<1>5. /\ store'[This].safe = Files /\ store'[This].has = Parts
      /\ store'[This].adapter = store[This].adapter
      /\ store'[This].step = store[This].step
  BY <1>1, <1>3, <1>4 DEF Checkpoint
<1>6. TypeOK'
  BY <1>0, <1>3 DEF IInv, TypeOK, Locations
<1>7. Started' /\ AtRest'
  BY <1>0 DEF IInv, Started, AtRest
<1>8. VersionsSound'
  BY <1>0, <1>3, OthersKept
<1>9. InMemory'
  BY <1>0, MemoryKept DEF IInv
<1>10. AttemptSound'
  <2>1. Files \cap Directories = {}
    BY DEF Files, Directories
  <2>2. This' = This
    BY <1>0 DEF This
  <2>3. QED
    BY <1>0, <1>5, <2>1, <2>2 DEF AttemptSound, SyncedUpTo
<1>11. CommitSound'
  <2>1. SoundCandidate'
    <3>1. {} # Parts
      BY DEF Parts, Files
    <3>2. QED
      BY <1>0, <1>1, <1>2, <1>3, <1>5, <3>1, CandidateKept DEF Syncing
  <2>2. QED
    BY <2>1 DEF CommitSound
<1>12. QED
  BY <1>3, <1>6, <1>7, <1>8, <1>9, <1>10, <1>11 DEF IInv

\* SyncPath visits the directories one by one, the run directory last.
LEMMA SyncPathCovers ==
  ASSUME NEW done \in SyncedUpTo
  PROVE  LET next == SyncPath[Cardinality(done) + 1] IN
           /\ next \in Directories
           /\ IF next = "out/" THEN done \cup {next} = Directories
              ELSE done \cup {next} \in SyncedUpTo
<1>1. CASE done = {}
  <2>1. Cardinality(done) = 0
    BY <1>1, FS_EmptySet
  <2>2. SyncPath[Cardinality(done) + 1] = "adapter/"
    BY <2>1 DEF SyncPath
  <2>3. QED
    BY <1>1, <2>2 DEF Directories, SyncedUpTo
<1>2. CASE done = {"adapter/"}
  <2>1. Cardinality(done) = 1
    BY <1>2, FS_Singleton
  <2>2. SyncPath[Cardinality(done) + 1] = "update/"
    BY <2>1 DEF SyncPath
  <2>3. done \cup {"update/"} = {"adapter/", "update/"}
    BY <1>2
  <2>4. QED
    BY <2>2, <2>3 DEF Directories, SyncedUpTo
<1>3. CASE done = {"adapter/", "update/"}
  <2>1. Cardinality(done) = 2
    <3>1. IsFiniteSet({"adapter/"}) /\ Cardinality({"adapter/"}) = 1
      BY FS_Singleton
    <3>2. done = {"adapter/"} \cup {"update/"} /\ "update/" \notin {"adapter/"}
      BY <1>3
    <3>3. QED
      BY <3>1, <3>2, FS_AddElement
  <2>2. SyncPath[Cardinality(done) + 1] = "attempt/"
    BY <2>1 DEF SyncPath
  <2>3. done \cup {"attempt/"} = {"adapter/", "update/", "attempt/"}
    BY <1>3
  <2>4. QED
    BY <2>2, <2>3 DEF Directories, SyncedUpTo
<1>4. CASE done = {"adapter/", "update/", "attempt/"}
  <2>1. Cardinality(done) = 3
    <3>1. IsFiniteSet({"adapter/"}) /\ Cardinality({"adapter/"}) = 1
      BY FS_Singleton
    <3>2. /\ IsFiniteSet({"adapter/", "update/"})
          /\ Cardinality({"adapter/", "update/"}) = 2
      <4>1. /\ {"adapter/", "update/"} = {"adapter/"} \cup {"update/"}
            /\ "update/" \notin {"adapter/"}
        OBVIOUS
      <4>2. QED
        BY <3>1, <4>1, FS_AddElement
    <3>3. /\ done = {"adapter/", "update/"} \cup {"attempt/"}
          /\ "attempt/" \notin {"adapter/", "update/"}
      BY <1>4
    <3>4. QED
      BY <3>2, <3>3, FS_AddElement
  <2>2. SyncPath[Cardinality(done) + 1] = "out/"
    BY <2>1 DEF SyncPath
  <2>3. done \cup {"out/"} = Directories
    BY <1>4 DEF Directories
  <2>4. QED
    BY <2>2, <2>3 DEF Directories
<1>5. QED
  BY <1>1, <1>2, <1>3, <1>4 DEF SyncedUpTo

LEMMA SyncDirectoriesIInv == IInv /\ SyncDirectories => IInv'
<1> SUFFICES ASSUME IInv, SyncDirectories PROVE IInv'
  OBVIOUS
<1> DEFINE done == store[This].safe \cap Directories
           next == SyncPath[Cardinality(done) + 1]
<1>0. /\ pc = "sync directories" /\ Safe({next})
      /\ versions' = IF next = "out/" THEN <<Visible>> ELSE versions
      /\ pc' = IF next = "out/" THEN "validate" ELSE pc
      /\ UNCHANGED <<runs, state, candidate, batch, current, adapter, opt, nodes, acked>>
  BY DEF SyncDirectories, memory
<1>1. SoundCandidate /\ store[This].has = Parts /\ Files \subseteq store[This].safe
  BY <1>0 DEF IInv, CommitSound, AttemptSound, Committing, Syncing, Writing
<1>2. This \in Attempt
  BY <1>0, <1>1, ThisIsAttempt DEF IInv, SoundCandidate
<1>3. done \in SyncedUpTo
  BY <1>0 DEF IInv, AttemptSound
<1>4. /\ next \in Directories
      /\ IF next = "out/" THEN done \cup {next} = Directories ELSE done \cup {next} \in SyncedUpTo
  BY <1>3, SyncPathCovers
<1>5. /\ store[This] \in Checkpoint /\ store[This].safe \subseteq Parts
      /\ TypeOK /\ SafeIsThere
  BY <1>2 DEF IInv, TypeOK, Checkpoint
<1> HIDE DEF next
<1>6. /\ store' \in [Attempt -> Checkpoint] /\ SafeIsThere'
      /\ \A a \in Attempt : a # This => store'[a] = store[a]
      /\ store'[This] = [store[This] EXCEPT !.safe = @ \cup {next}]
  <2>1. {next} \in SUBSET Parts
    BY <1>4 DEF Parts
  <2>2. QED
    BY <1>0, <1>1, <1>2, <1>5, <2>1, SyncMore
<1>7. /\ store'[This].safe = store[This].safe \cup {next}
      /\ store'[This].has = Parts
      /\ store'[This].adapter = store[This].adapter
      /\ store'[This].step = store[This].step
  BY <1>1, <1>5, <1>6 DEF Checkpoint
<1>8. /\ store'[This].safe \cap Directories = done \cup {next}
      /\ Files \subseteq store'[This].safe
      /\ store[This].safe = Parts => store'[This].safe = Parts
  BY <1>1, <1>4, <1>7 DEF Parts
<1>9. next = "out/" => store'[This].safe = Parts
  BY <1>1, <1>4, <1>5, <1>7 DEF Parts
<1>10. /\ Visible \in Version /\ Len(versions) \in DOMAIN versions
       /\ Visible = versions[Len(versions)]
  BY <1>5, VisibleIsVersion
<1>11. TypeOK'
  <2>1. versions' \in Seq(Version) /\ versions' # <<>>
    <3>1. versions \in Seq(Version) /\ versions # <<>>
      BY <1>5 DEF TypeOK
    <3>2. <<Visible>> \in Seq(Version) /\ <<Visible>> # <<>>
      BY <1>10
    <3>3. QED
      BY <1>0, <3>1, <3>2
  <2>2. QED
    BY <1>0, <1>5, <1>6, <2>1 DEF TypeOK, Locations
<1>12. Started' /\ AtRest'
  <2>1. runs > 0 /\ runs \in Nat
    <3>1. runs > 0
      BY <1>0 DEF IInv, Started
    <3>2. runs \in 0..MaxRuns
      BY <1>5 DEF TypeOK
    <3>3. QED
      BY <3>1, <3>2
  <2>2. runs' = runs /\ pc' # "down"
    BY <1>0
  <2>3. QED
    BY <2>1, <2>2 DEF Started, AtRest
<1>13. VersionsSound'
  BY <1>0, <1>6, OthersKept
<1>14. InMemory'
  BY <1>0, MemoryKept DEF IInv
<1>15. AttemptSound'
  <2>1. This' = This
    BY <1>0 DEF This
  <2>2. QED
    BY <1>0, <1>4, <1>7, <1>8, <2>1 DEF AttemptSound, Syncing
<1>16. CommitSound'
  <2>1. SoundCandidate'
    BY <1>0, <1>1, <1>2, <1>6, <1>7, <1>8, <1>9, CandidateKept DEF Syncing
  <2>2. QED
    BY <2>1 DEF CommitSound
<1>17. QED
  BY <1>6, <1>11, <1>12, <1>13, <1>14, <1>15, <1>16 DEF IInv

LEMMA ReplaceIInv == IInv /\ Replace => IInv'
<1> SUFFICES ASSUME IInv, Replace PROVE IInv'
  OBVIOUS
<1>0. /\ pc = "replace" /\ pc' = "sync rename"
      /\ versions' = Append(versions,
                       [kind |-> "ledger", ledger |-> candidate, synced |-> TRUE])
      /\ UNCHANGED <<runs, store, state, candidate, batch, current, adapter, opt, nodes, acked>>
  BY DEF Replace, memory
<1>1. /\ TypeOK /\ versions \in Seq(Version) /\ candidate \in LedgerState
      /\ runs \in Nat /\ batch \in Nat /\ candidate.next_batch \in Nat
  BY ConstantsAssumption DEF IInv, TypeOK, LedgerState
<1>2. PICK new \in Version :
        new = [kind |-> "ledger", ledger |-> candidate, synced |-> TRUE]
  BY <1>1 DEF Version
<1>3. /\ versions' \in Seq(Version) /\ versions' # <<>>
      /\ DOMAIN versions' = DOMAIN versions \cup {Len(versions) + 1}
      /\ \A i \in DOMAIN versions : versions'[i] = versions[i]
      /\ versions'[Len(versions) + 1] = new
      /\ Last(versions') = new
  <2>1. versions' = Append(versions, new)
    BY <1>0, <1>2
  <2>2. QED
    BY <1>1, <2>1, AppendOne
<1>4. TypeOK'
  BY <1>0, <1>1, <1>3 DEF TypeOK, Locations
<1>5. Started' /\ SafeIsThere' /\ AttemptSound'
  BY <1>0 DEF IInv, Started, SafeIsThere, AttemptSound, Syncing
<1>6. AtRest'
  <2>1. runs > 0
    BY <1>0 DEF IInv, Started
  <2>2. runs' = runs /\ pc' # "down"
    BY <1>0
  <2>3. QED
    BY <1>1, <2>1, <2>2 DEF AtRest
<1>7. SoundCandidate \/ candidate = EmptyLedger
  BY <1>0 DEF IInv, CommitSound, Committing, Writing
<1>8. new.ledger = candidate /\ new.synced /\ new.kind # "torn"
  BY <1>2
<1>9. SoundVersion(new)
  <2>1. CASE candidate = EmptyLedger
    <3>1. EmptyLedger.next_batch <= MaxBatches
      BY ConstantsAssumption DEF EmptyLedger
    <3>2. QED
      BY <1>8, <2>1, <3>1, EmptyLedgerIsSound DEF SoundVersion
  <2>2. CASE SoundCandidate
    <3>1. batch < MaxBatches /\ candidate.next_batch = batch + 1 /\ Validate(candidate)
      BY <1>0, <2>2 DEF SoundCandidate, Writing
    <3>2. candidate.next_batch <= MaxBatches
      BY <1>1, <3>1, ConstantsAssumption
    <3>3. ASSUME NEW r \in Receipts(candidate)
          PROVE  Stored(r) /\ r.checkpoint.run <= runs
      <4>1. r.checkpoint.run \in Nat
        BY <1>1, ReceiptIsTyped, ConstantsAssumption DEF Receipt, Attempt
      <4>2. r.checkpoint.run < runs \/ r.checkpoint.run = runs
        BY <2>2 DEF SoundCandidate, Earlier, EarlierHere, This
      <4>3. Stored(r)
        BY <1>0, <2>2 DEF SoundCandidate, Syncing
      <4>4. QED
        BY <1>1, <4>1, <4>2, <4>3
    <3>4. QED
      BY <1>8, <3>1, <3>2, <3>3 DEF SoundVersion
  <2>3. QED
    BY <1>7, <2>1, <2>2
<1>10. \A v : SoundVersion(v) => SoundVersion(v)'
  BY <1>0 DEF SoundVersion, Stored
<1>11. VersionsSound'
  <2>1. \A i \in DOMAIN versions' : SoundVersion(versions'[i])
    BY <1>3, <1>9 DEF IInv, VersionsSound
  <2>2. ASSUME NEW i \in DOMAIN versions' PROVE SoundVersion(versions[i])'
    <3>1. PICK v : v = versions'[i]
      OBVIOUS
    <3>2. SoundVersion(v)
      BY <2>1, <3>1
    <3>3. SoundVersion(v)'
      BY <1>10, <3>2
    <3>4. QED
      BY <3>1, <3>3 DEF SoundVersion
  <2>3. QED
    BY <2>2 DEF VersionsSound
<1>12. InMemory'
  <2>1. Visible' = new
    BY <1>3 DEF Visible
  <2>2. candidate' = candidate /\ pc' = "sync rename"
    BY <1>0
  <2>3. QED
    BY <1>8, <2>1, <2>2 DEF InMemory
<1>13. CommitSound'
  <2>1. SoundCandidate => SoundCandidate'
    BY <1>0 DEF SoundCandidate, Stored, Earlier, EarlierHere, This, Syncing, Writing, Receipts
  <2>2. QED
    BY <1>0, <1>7, <2>1 DEF CommitSound, Writing
<1>14. QED
  BY <1>4, <1>5, <1>6, <1>11, <1>12, <1>13 DEF IInv

LEMMA SyncRenameIInv == IInv /\ SyncRename => IInv'
<1> SUFFICES ASSUME IInv, SyncRename PROVE IInv'
  OBVIOUS
<1>0. /\ pc = "sync rename" /\ versions' = <<Visible>> /\ state' = candidate
      /\ acked' = candidate.next_batch
      /\ IF candidate = EmptyLedger
         THEN pc' = "restore" /\ UNCHANGED batch
         ELSE pc' = "loop" /\ batch' = batch + 1
      /\ UNCHANGED <<runs, store, candidate, current, adapter, opt, nodes>>
  BY DEF SyncRename, SettleRename
<1>1. /\ TypeOK /\ candidate \in LedgerState /\ candidate.next_batch \in Nat
      /\ runs \in Nat /\ batch \in Nat /\ Visible \in Version
      /\ Visible = versions[Len(versions)] /\ Len(versions) \in DOMAIN versions
  BY VisibleIsVersion, ConstantsAssumption DEF IInv, TypeOK, LedgerState
<1>2. Visible.ledger = candidate /\ SoundVersion(Visible)
  BY <1>0, <1>1 DEF IInv, InMemory, VersionsSound
<1>3. candidate # EmptyLedger => SoundCandidate
  BY <1>0 DEF IInv, CommitSound, Committing, Writing
<1>4. DOMAIN versions' = {1} /\ versions'[1] = Visible /\ Visible' = Visible
  <2>1. Visible' = Last(versions')
    BY DEF Visible
  <2>2. QED
    BY <1>0, <2>1, LastOfOne
<1>5. TypeOK'
  <2>1. <<Visible>> \in Seq(Version) /\ <<Visible>> # <<>>
    BY <1>1
  <2>2. batch' \in 0..MaxBatches
    <3>1. batch \in 0..MaxBatches
      BY <1>1 DEF TypeOK
    <3>2. candidate # EmptyLedger => batch < MaxBatches
      BY <1>3 DEF SoundCandidate
    <3>3. batch' = batch \/ (candidate # EmptyLedger /\ batch' = batch + 1)
      BY <1>0
    <3>4. QED
      BY <3>1, <3>2, <3>3, ConstantsAssumption
  <2>3. pc' \in Locations
    BY <1>0 DEF Locations
  <2>4. QED
    BY <1>0, <1>1, <2>1, <2>2, <2>3 DEF TypeOK
<1>6. runs > 0 /\ runs' = runs /\ pc' \in {"restore", "loop"}
  BY <1>0 DEF IInv, Started
<1>7. Started' /\ AtRest' /\ AttemptSound' /\ CommitSound'
  <2>1. Started' /\ AtRest'
    BY <1>1, <1>6 DEF Started, AtRest
  <2>2. AttemptSound' /\ CommitSound'
    BY <1>6 DEF AttemptSound, CommitSound, Committing, Syncing, Writing
  <2>3. QED
    BY <2>1, <2>2
<1>8. SafeIsThere'
  BY <1>0 DEF IInv, SafeIsThere
<1>9. VersionsSound'
  <2>1. \A v : SoundVersion(v) => SoundVersion(v)'
    BY <1>0 DEF SoundVersion, Stored
  <2>2. \A v : v = Visible => SoundVersion(v)'
    BY <1>2, <2>1
  <2>3. QED
    BY <1>4, <2>2 DEF VersionsSound
<1>10. InMemory'
  <2>1. CASE candidate = EmptyLedger
    <3>1. Receipts(versions'[1].ledger) = {}
      BY <1>2, <1>4, <2>1, EmptyLedgerIsSound
    <3>2. QED
      BY <1>0, <1>2, <1>4, <1>6, <3>1 DEF InMemory, NoOverwrite
  <2>2. CASE candidate # EmptyLedger
    <3>1. ASSUME NEW r \in Receipts(candidate) PROVE (Earlier(r) \/ EarlierHere(r))'
      <4>1. r.checkpoint.batch < batch \/ r.checkpoint = This \/ Earlier(r)
        BY <1>3, <2>2 DEF SoundCandidate, EarlierHere
      <4>2. Earlier(r) \/ r.checkpoint.run = runs
        BY <1>3, <2>2 DEF SoundCandidate, EarlierHere, This
      <4>3. r.checkpoint.batch \in Nat
        BY <1>1, ReceiptIsTyped, ConstantsAssumption DEF Receipt, Attempt, Batches
      <4>4. batch' = batch + 1
        BY <1>0, <2>2
      <4>5. This.batch = batch
        BY DEF This
      <4>6. QED
        BY <1>1, <1>6, <4>1, <4>2, <4>3, <4>4, <4>5 DEF Earlier, EarlierHere
    <3>2. pc' = "loop"
      BY <1>0, <2>2
    <3>3. QED
      BY <1>0, <1>2, <1>4, <3>1, <3>2 DEF InMemory, NoOverwrite
  <2>3. QED
    BY <2>1, <2>2
<1>11. QED
  BY <1>5, <1>7, <1>8, <1>9, <1>10 DEF IInv

LEMMA PowerFailureDInv == DInv /\ PowerFailure => IInv'
<1> SUFFICES ASSUME DInv, PowerFailure PROVE IInv'
  OBVIOUS
<1>1. PICK i \in DOMAIN versions, kept \in SUBSET {a \in Attempt : store[a].has # store[a].safe} :
        /\ versions' = <<IF versions[i].synced THEN versions[i]
                         ELSE [versions[i] EXCEPT !.kind = "torn"]>>
        /\ store' = [a \in Attempt |->
             LET left == IF a \in kept THEN store[a].has ELSE store[a].safe
             IN [store[a] EXCEPT !.has = left, !.safe = left]]
  BY DEF PowerFailure
<1>2. /\ runs > 0 /\ UNCHANGED <<runs, acked>> /\ pc' = "down"
      /\ state' = EmptyLedger /\ candidate' = EmptyLedger
      /\ batch' = 0 /\ current' = Initial /\ adapter' = Initial /\ opt' = 0 /\ nodes' = {}
  BY DEF PowerFailure, Forget
<1>3. /\ store \in [Attempt -> Checkpoint] /\ runs \in Nat /\ runs \in 0..MaxRuns
      /\ acked \in Nat
      /\ versions[i] \in Version /\ SoundVersion(versions[i])
  BY VersionIsTyped, ConstantsAssumption DEF DInv, VersionsSound
<1>4. PICK v \in Version : v = versions[i]
  BY <1>3
<1>5. versions' = <<v>> /\ SoundVersion(v)
  BY <1>1, <1>3, <1>4 DEF SoundVersion
<1>6. ASSUME NEW a \in Attempt
      PROVE  /\ store'[a] \in Checkpoint
             /\ store'[a].safe \subseteq store'[a].has
             /\ store'[a].adapter = store[a].adapter /\ store'[a].step = store[a].step
             /\ store[a].safe = Parts => store'[a].safe = Parts
  <2>1. store[a] \in Checkpoint /\ store[a].safe \subseteq store[a].has
    BY <1>3 DEF DInv, SafeIsThere
  <2>2. PICK left \in {store[a].has, store[a].safe} :
          store'[a] = [store[a] EXCEPT !.has = left, !.safe = left]
    BY <1>1
  <2>3. left \in SUBSET Parts /\ store[a].safe \subseteq left
    BY <2>1, <2>2 DEF Checkpoint
  <2>4. QED
    BY <2>1, <2>2, <2>3 DEF Checkpoint
<1>7. store' \in [Attempt -> Checkpoint] /\ SafeIsThere'
  <2>1. store' = [a \in Attempt |-> store'[a]]
    BY <1>1
  <2>2. QED
    BY <1>6, <2>1 DEF SafeIsThere
<1>8. TypeOK'
  <2>1. <<v>> \in Seq(Version) /\ <<v>> # <<>>
    OBVIOUS
  <2>2. Initial \in Snapshot /\ 0 \in 0..MaxBatches
    BY ConstantsAssumption DEF Snapshot
  <2>3. QED
    BY <1>2, <1>3, <1>5, <1>7, <2>1, <2>2, EmptyLedgerIsSound DEF TypeOK, Locations
<1>9. Started' /\ AtRest' /\ AttemptSound' /\ CommitSound' /\ InMemory'
  BY <1>2, <1>3
     DEF Started, AtRest, AttemptSound, CommitSound, Committing, Syncing, Writing, InMemory
<1>10. VersionsSound'
  <2>1. v.ledger \in LedgerState
    BY DEF Version
  <2>2. ASSUME NEW r \in Receipts(v.ledger) PROVE Stored(r)'
    <3>1. r.checkpoint \in Attempt
      BY <2>1, ReceiptIsTyped DEF Receipt
    <3>2. Stored(r)
      BY <1>5 DEF SoundVersion
    <3>3. QED
      BY <1>6, <3>1, <3>2 DEF Stored
  <2>3. SoundVersion(v)'
    BY <1>2, <1>5, <2>2 DEF SoundVersion
  <2>4. DOMAIN versions' = {1} /\ versions'[1] = v
    BY <1>5, LastOfOne
  <2>5. QED
    BY <2>3, <2>4 DEF VersionsSound
<1>11. QED
  BY <1>7, <1>8, <1>9, <1>10 DEF IInv

LEMMA PowerFailureIInv == IInv /\ PowerFailure => IInv'
BY LeavesDInv, PowerFailureDInv

-----------------------------------------------------------------------------
(* Theorems *)

LEMMA StepIInv == IInv /\ [Next]_vars => IInv'
<1> SUFFICES ASSUME IInv, [Next]_vars PROVE IInv'
  OBVIOUS
<1>1. CASE UNCHANGED vars
  <2>1. UNCHANGED <<pc, runs, versions, store, state, candidate, batch, current, adapter,
                    opt, nodes, acked>>
    BY <1>1 DEF vars, disk, memory
  <2>2. TypeOK'
    BY <2>1 DEF IInv, TypeOK
  <2>3. VersionsSound' /\ SafeIsThere'
    BY <2>1, DiskKept, ConstantsAssumption DEF IInv, TypeOK
  <2>4. Started' /\ AtRest'
    BY <2>1 DEF IInv, Started, AtRest
  <2>5. InMemory'
    BY <2>1 DEF IInv, InMemory, Visible, NoOverwrite, Earlier, EarlierHere
  <2>6. AttemptSound'
    BY <2>1 DEF IInv, AttemptSound, This
  <2>7. CommitSound'
    BY <2>1 DEF IInv, CommitSound, SoundCandidate, Stored, Earlier, EarlierHere, This, Receipts
  <2>8. QED
    BY <2>2, <2>3, <2>4, <2>5, <2>6, <2>7 DEF IInv
<1>2. CASE Next
  BY <1>2, StartIInv, ResumeIInv, StopIInv, PowerFailureIInv, RestoreIInv, CollectIInv,
     FinishIInv, TrainIInv, ExerciseIInv, SyncFilesIInv, SyncDirectoriesIInv,
     ValidateIInv, ReplaceIInv, SyncRenameIInv
     DEF Next, Step
<1>3. QED
  BY <1>1, <1>2

LEMMA Invariance == Spec => []IInv
  BY InitIInv, StepIInv, PTL DEF Spec

\* The variables of the run keep their types, and batch_index stays within the declared
\* number of batches (formal_run.py:235).
THEOREM TypeCorrect == Spec => []TypeOK
<1>1. IInv => TypeOK
  BY DEF IInv
<1>2. QED
  BY Invariance, <1>1, PTL

LEMMA SoundIsDurable == DInv => CommittedIsDurable
BY DEF DInv, VersionsSound, SoundVersion, Stored, CommittedIsDurable

LEMMA SoundIsRecoverable == DInv => Recoverable
<1>1. ASSUME DInv, NEW i \in DOMAIN versions
      PROVE  versions[i].kind # "torn" /\ Resumable(versions[i].ledger)
  <2>1. SoundVersion(versions[i]) /\ versions[i].ledger \in LedgerState
    BY <1>1, VersionIsTyped DEF DInv, VersionsSound
  <2>2. ASSUME NEW r \in Receipts(versions[i].ledger) PROVE FilesMatch(r)
    <3>1. r.checkpoint \in Attempt
      BY <2>1, ReceiptIsTyped DEF Receipt
    <3>2. store[r.checkpoint] \in Checkpoint /\ store[r.checkpoint].safe \subseteq store[r.checkpoint].has
      BY <1>1, <3>1 DEF DInv, SafeIsThere
    <3>3. Stored(r)
      BY <2>1, <2>2 DEF SoundVersion
    <3>4. QED
      BY <3>2, <3>3 DEF FilesMatch, Stored, Checkpoint
  <2>3. QED
    BY <2>1, <2>2 DEF SoundVersion, Resumable
<1>2. QED
  BY <1>1 DEF Recoverable

\* No ledger that a power failure can leave names a checkpoint that the same failure
\* can take: Ledger.commit syncs before it renames (run_state.py:116-129).
THEOREM CommitsAreDurable == Spec => []CommittedIsDurable
<1>1. IInv => CommittedIsDurable
  BY LeavesDInv, SoundIsDurable
<1>2. QED
  BY Invariance, <1>1, PTL

\* Whatever is found in state.json passes the verification of --resume, with every
\* checkpoint it names (run_state.py:79-106).
THEOREM AlwaysRecoverable == Spec => []Recoverable
<1>1. IInv => Recoverable
  BY LeavesDInv, SoundIsRecoverable
<1>2. QED
  BY Invariance, <1>1, PTL

-----------------------------------------------------------------------------
(***************************************************************************)
(* The contents of the ledger: the weights chain from commit to commit, and*)
(* none of the assertions of the trainer and of Ledger.commit fails.       *)
(***************************************************************************)

\* The snapshot that the last update of a ledger left.
After(led) == IF led.updates = <<>> THEN Initial ELSE Last(led.updates).after

\* What the receipts of a ledger say beyond what validate checks.
WellMade(led) ==
  /\ \A r \in Receipts(led) : r.nodes \subseteq NodesOf(r.batch) /\ r.after = r.checkpoint
  /\ led.updates # <<>> => led.updates[1].before = Initial

LedgersWellMade == \A i \in DOMAIN versions : WellMade(versions[i].ledger)

\* In the loop the process is at the batch, on the weights and at the optimizer step
\* of its ledger.
AtCommit ==
  /\ pc \in {"loop", "train", "exercise"} => batch = state.next_batch
  /\ pc \in {"loop", "train"} => opt = Len(state.updates)
  /\ pc = "loop" => adapter = After(state)

\* What Collect chose for the update, until the receipt is made.
ChosenSound ==
  pc \in {"train", "exercise"} =>
    /\ current = After(state)
    /\ nodes \subseteq NodesOf(batch) /\ nodes # {}
    /\ Cardinality(UsedNodes(state) \cup nodes) <= Target

SavedHere ==
  pc = "exercise" => store[This].adapter = This /\ store[This].step = Len(state.updates) + 1

CandidateSound ==
  pc \in Committing =>
    /\ WellMade(candidate)
    /\ Validate(candidate)
    /\ candidate # EmptyLedger =>
         opt = Len(candidate.updates) /\ adapter = After(candidate)

JInv ==
  /\ LedgersWellMade /\ AtCommit /\ ChosenSound /\ SavedHere /\ CandidateSound
  /\ NeverRefused

-----------------------------------------------------------------------------
(* Data *)

LEMMA NodesAreFinite == IsFiniteSet(Node)
<1> DEFINE pair == [n \in Node |-> <<n.batch, n.slot>>]
<1>1. IsFiniteSet(0..(MaxBatches - 1)) /\ IsFiniteSet(1..Slots)
  BY FS_Interval, ConstantsAssumption
<1>2. IsFiniteSet(Batches \X (1..Slots))
  BY <1>1, FS_Product DEF Batches
<1>3. pair \in Injection(Node, Batches \X (1..Slots))
  BY DEF Injection, IsInjective, Node
<1>4. QED
  BY <1>2, <1>3, FS_Injection

LEMMA UsedIsFinite ==
  ASSUME NEW led \in LedgerState
  PROVE  /\ UsedNodes(led) \subseteq Node /\ IsFiniteSet(UsedNodes(led))
         /\ Cardinality(UsedNodes(led)) \in Nat
<1>1. UsedNodes(led) \subseteq Node
  BY ReceiptIsTyped DEF UsedNodes, Receipt
<1>2. QED
  BY <1>1, NodesAreFinite, FS_Subset, FS_CardinalityType

\* The nodes of a valid ledger are older than its next batch.
LEMMA UsedIsOlder ==
  ASSUME NEW led \in LedgerState, Validate(led), WellMade(led), NEW n \in UsedNodes(led)
  PROVE  n \in Node /\ n.batch < led.next_batch
<1>1. PICK r \in Receipts(led) : n \in r.nodes
  BY DEF UsedNodes
<1>2. PICK i \in DOMAIN led.updates : r = led.updates[i]
  BY <1>1 DEF Receipts, ToSet
<1>3. r.batch < led.next_batch
  BY <1>2 DEF Validate
<1>4. n \in NodesOf(r.batch)
  BY <1>1 DEF WellMade
<1>5. QED
  BY <1>3, <1>4 DEF NodesOf

LEMMA AfterIsLast ==
  ASSUME NEW led \in LedgerState, led.updates # <<>>
  PROVE  /\ Len(led.updates) \in DOMAIN led.updates
         /\ After(led) = led.updates[Len(led.updates)].after
         /\ led.updates[Len(led.updates)] \in Receipts(led)
         /\ Last(led.updates) = led.updates[Len(led.updates)]
<1>1. led.updates \in Seq(Receipt)
  BY DEF LedgerState
<1>2. Len(led.updates) \in DOMAIN led.updates
  BY <1>1
<1>3. QED
  BY <1>2 DEF After, Last, Receipts, ToSet

\* What commit appends to a valid ledger leaves it valid.
LEMMA AppendReceipt ==
  ASSUME NEW led \in LedgerState, Validate(led), WellMade(led), NEW r \in Receipt,
         r.batch = led.next_batch, r.step = Len(led.updates) + 1,
         r.before = After(led), r.after = r.checkpoint,
         r.nodes # {}, r.nodes \subseteq NodesOf(r.batch),
         Cardinality(UsedNodes(led) \cup r.nodes) <= Target,
         NEW new, new = [next_batch |-> led.next_batch + 1, updates |-> Append(led.updates, r)]
  PROVE  /\ Validate(new) /\ WellMade(new)
         /\ After(new) = r.after /\ Len(new.updates) = r.step
<1> DEFINE u == led.updates
           v == Append(u, r)
<1>1. u \in Seq(Receipt) /\ led.next_batch \in Nat /\ Len(u) \in Nat /\ DOMAIN u = 1..Len(u)
  BY DEF LedgerState
<1>2. /\ DOMAIN v = DOMAIN u \cup {Len(u) + 1} /\ v # <<>> /\ Last(v) = r
      /\ \A i \in DOMAIN u : v[i] = u[i]
      /\ v[Len(u) + 1] = r
  BY <1>1, AppendOne
<1>3. new \in LedgerState /\ Receipts(new) = Receipts(led) \cup {r}
      /\ new.updates = v /\ new.next_batch = led.next_batch + 1
  BY <1>1, ReceiptsAppend
<1>4. UsedNodes(new) = UsedNodes(led) \cup r.nodes
  BY <1>3 DEF UsedNodes
<1>5. ASSUME NEW i \in DOMAIN u
      PROVE  /\ u[i] \in Receipts(led) /\ u[i] \in Receipt
             /\ u[i].step = i /\ u[i].batch < led.next_batch /\ u[i].batch \in Nat
             /\ u[i].nodes # {} /\ u[i].nodes \subseteq NodesOf(u[i].batch)
             /\ \A j \in 1..(i - 1) : u[j].batch < u[i].batch /\ u[j].nodes \cap u[i].nodes = {}
             /\ i > 1 => u[i].before = u[i - 1].after
  <2>1. u[i] \in Receipts(led) /\ u[i] \in Receipt
    BY <1>1 DEF Receipts, ToSet
  <2>2. u[i].batch \in Nat
    BY <2>1, ConstantsAssumption DEF Receipt, Batches
  <2>3. u[i].nodes \subseteq NodesOf(u[i].batch)
    BY <2>1 DEF WellMade
  <2>4. QED
    BY <2>1, <2>2, <2>3 DEF Validate
<1>6. ASSUME NEW i \in DOMAIN v
      PROVE  /\ v[i].step = i
             /\ v[i].batch < led.next_batch + 1
             /\ v[i].nodes # {}
             /\ \A j \in 1..(i - 1) :
                  v[j].batch < v[i].batch /\ v[j].nodes \cap v[i].nodes = {}
             /\ i > 1 => v[i].before = v[i - 1].after
  <2>1. CASE i \in DOMAIN u
    <3>1. \A j \in 1..(i - 1) : j \in DOMAIN u
      BY <1>1, <2>1
    <3>2. v[i] = u[i] /\ \A j \in 1..(i - 1) : v[j] = u[j]
      BY <1>2, <2>1, <3>1
    <3>3. i > 1 => i - 1 \in 1..(i - 1)
      BY <1>1, <2>1
    <3>4. v[i].batch < led.next_batch + 1
      BY <1>1, <1>5, <2>1, <3>2
    <3>5. QED
      BY <1>5, <2>1, <3>2, <3>3, <3>4
  <2>2. CASE i = Len(u) + 1
    <3>1. v[i] = r /\ 1..(i - 1) = DOMAIN u
      BY <1>1, <1>2, <2>2
    <3>2. ASSUME NEW j \in DOMAIN u
          PROVE v[j].batch < r.batch /\ v[j].nodes \cap r.nodes = {}
      <4>1. v[j] = u[j] /\ u[j].batch < r.batch
        BY <1>2, <1>5
      <4>2. NodesOf(u[j].batch) \cap NodesOf(r.batch) = {}
        BY <1>1, <1>5, <4>1 DEF NodesOf
      <4>3. QED
        BY <1>5, <4>1, <4>2
    <3>3. i > 1 => v[i].before = v[i - 1].after
      <4>1. ASSUME i > 1 PROVE v[i - 1] = u[Len(u)] /\ u # <<>>
        BY <1>1, <1>2, <2>2, <4>1
      <4>2. QED
        BY <3>1, <4>1, AfterIsLast
    <3>4. QED
      BY <1>1, <2>2, <3>1, <3>2, <3>3
  <2>3. QED
    BY <1>2, <2>1, <2>2
<1>7. Validate(new)
  BY <1>3, <1>4, <1>6 DEF Validate
<1>8. WellMade(new)
  <2>1. v[1].before = Initial
    <3>1. CASE u = <<>>
      BY <1>2, <3>1 DEF After
    <3>2. CASE u # <<>>
      BY <1>1, <1>2, <3>2 DEF WellMade
    <3>3. QED
      BY <3>1, <3>2
  <2>2. QED
    BY <1>3, <2>1 DEF WellMade
<1>9. After(new) = r.after /\ Len(v) = r.step
  BY <1>1, <1>2, <1>3 DEF After
<1>10. QED
  BY <1>3, <1>7, <1>8, <1>9

LEMMA EmptyIsWellMade ==
  WellMade(EmptyLedger) /\ After(EmptyLedger) = Initial /\ Len(EmptyLedger.updates) = 0
  BY EmptyLedgerIsSound DEF WellMade, After, EmptyLedger

\* What the process has in memory when it is neither down nor between the rename of
\* state.json and the end of commit.
LEMMA StateIsWellMade ==
  ASSUME IInv, LedgersWellMade, pc \notin {"down", "sync rename"}
  PROVE  state \in LedgerState /\ Validate(state) /\ WellMade(state)
<1>1. state = Visible.ledger
  BY DEF IInv, InMemory
<1>2. Len(versions) \in DOMAIN versions /\ Visible = versions[Len(versions)]
  BY VisibleIsVersion DEF IInv
<1>3. QED
  BY <1>1, <1>2 DEF IInv, TypeOK, VersionsSound, SoundVersion, LedgersWellMade

-----------------------------------------------------------------------------
(* Every step preserves the invariant *)

LEMMA InitJInv == Init => JInv
<1> SUFFICES ASSUME Init PROVE JInv
  OBVIOUS
<1>1. versions = <<Absent>> /\ pc = "down"
  BY DEF Init
<1>2. LedgersWellMade
  BY <1>1, EmptyIsWellMade DEF LedgersWellMade, Absent
<1>3. QED
  BY <1>1, <1>2
     DEF JInv, AtCommit, ChosenSound, SavedHere, CandidateSound, NeverRefused,
         Committing, Syncing, Writing

\* What is well made stays so: it does not depend on the state.
LEMMA VersionsKept ==
  ASSUME TypeOK, LedgersWellMade, versions' = versions \/ versions' = <<Visible>>
  PROVE  LedgersWellMade'
<1>1. CASE versions' = versions
  BY <1>1 DEF LedgersWellMade, WellMade, Receipts
<1>2. CASE versions' = <<Visible>>
  <2>1. Len(versions) \in DOMAIN versions /\ Visible = versions[Len(versions)]
    BY VisibleIsVersion
  <2>2. PICK v : v = Visible
    OBVIOUS
  <2>3. WellMade(v.ledger)
    BY <2>1, <2>2 DEF LedgersWellMade
  <2>4. DOMAIN versions' = {1} /\ versions'[1] = v
    BY <1>2, <2>2, LastOfOne
  <2>5. QED
    BY <2>3, <2>4 DEF LedgersWellMade, WellMade, Receipts
<1>3. QED
  BY <1>1, <1>2

\* A step that leaves no process behind in the loop or in commit.
LEMMA OutsideJInv ==
  ASSUME IInv, JInv, versions' = versions \/ versions' = <<Visible>>,
         pc' \in {"down", "restore", "done", "exhausted"}
  PROVE  JInv'
<1>1. LedgersWellMade'
  BY VersionsKept DEF IInv, JInv
<1>2. QED
  BY <1>1 DEF JInv, AtCommit, ChosenSound, SavedHere, CandidateSound, NeverRefused,
              Committing, Syncing, Writing

LEMMA StartJInv == IInv /\ JInv /\ Start => JInv'
<1> SUFFICES ASSUME IInv, JInv, Start PROVE JInv'
  OBVIOUS
<1>1. versions' = versions /\ pc' = "replace" /\ candidate' = EmptyLedger
  BY DEF Start, disk
<1>2. LedgersWellMade'
  BY <1>1, VersionsKept DEF IInv, JInv
<1>3. CandidateSound'
  BY <1>1, EmptyIsWellMade, EmptyLedgerIsSound DEF CandidateSound
<1>4. QED
  BY <1>1, <1>2, <1>3 DEF JInv, AtCommit, ChosenSound, SavedHere, NeverRefused

LEMMA ResumeJInv == IInv /\ JInv /\ Resume => JInv'
  BY OutsideJInv DEF Resume, disk

LEMMA FinishJInv == IInv /\ JInv /\ Finish => JInv'
  BY OutsideJInv DEF Finish, disk

LEMMA StopJInv == IInv /\ JInv /\ Stop => JInv'
  BY OutsideJInv DEF Stop, Forget, disk

LEMMA PowerFailureJInv == DInv /\ JInv /\ PowerFailure => JInv'
<1> SUFFICES ASSUME DInv, JInv, PowerFailure PROVE JInv'
  OBVIOUS
<1>1. PICK i \in DOMAIN versions :
        versions' = <<IF versions[i].synced THEN versions[i]
                      ELSE [versions[i] EXCEPT !.kind = "torn"]>>
  BY DEF PowerFailure
<1>2. PICK v : v = versions[i]
  OBVIOUS
<1>3. v.synced /\ WellMade(v.ledger)
  BY <1>2 DEF DInv, JInv, VersionsSound, SoundVersion, LedgersWellMade
<1>4. DOMAIN versions' = {1} /\ versions'[1] = v
  BY <1>1, <1>2, <1>3, LastOfOne
<1>5. LedgersWellMade'
  BY <1>3, <1>4 DEF LedgersWellMade, WellMade, Receipts
<1>6. pc' = "down"
  BY DEF PowerFailure, Forget
<1>7. QED
  BY <1>5, <1>6 DEF JInv, AtCommit, ChosenSound, SavedHere, CandidateSound, NeverRefused,
                    Committing, Syncing, Writing

LEMMA RestoreJInv == IInv /\ JInv /\ Restore => JInv'
<1> SUFFICES ASSUME IInv, JInv, Restore PROVE JInv'
  OBVIOUS
<1>1. pc = "restore" /\ versions' = versions /\ state' = state /\ batch' = state.next_batch
  BY DEF Restore, FirstBatch, disk
<1>2. state \in LedgerState /\ Validate(state) /\ WellMade(state)
  BY <1>1, StateIsWellMade DEF JInv
<1>3. pc' = "loop" /\ adapter' = After(state) /\ opt' = Len(state.updates)
  <2>1. CASE state.updates = <<>>
    BY <2>1 DEF Restore, SeededAdapter, After
  <2>2. CASE state.updates # <<>>
    <3>1. PICK r \in Receipts(state) :
            /\ r = Last(state.updates) /\ r.after = After(state)
            /\ r.step = Len(state.updates)
      BY <1>2, <2>2, AfterIsLast DEF Validate
    <3>2. store[r.checkpoint].adapter = r.after /\ store[r.checkpoint].step = r.step
      BY <1>1, StateIsSound DEF Stored
    <3>3. QED
      BY <2>2, <3>1, <3>2 DEF Restore
  <2>3. QED
    BY <2>1, <2>2
<1>4. LedgersWellMade'
  BY <1>1, VersionsKept DEF IInv, JInv
<1>5. QED
  BY <1>1, <1>3, <1>4 DEF JInv, AtCommit, ChosenSound, SavedHere, CandidateSound, NeverRefused,
                          After, Committing, Syncing, Writing

\* The quota that choose_quota leaves room for is not passed.
LEMMA ChosenFits ==
  ASSUME NEW led \in LedgerState, Validate(led), NEW records \in SUBSET Node, NEW chosen,
         IsQuota(chosen, records, UsedNodes(led))
  PROVE  Cardinality(UsedNodes(led) \cup chosen) <= Target
<1> DEFINE used == UsedNodes(led)
<1>1. /\ IsFiniteSet(used) /\ Cardinality(used) \in Nat
      /\ Cardinality(used) <= Target /\ Target \in Nat
  BY UsedIsFinite, ConstantsAssumption DEF Validate
<1>2. IsFiniteSet(records) /\ chosen \in SUBSET records
  BY NodesAreFinite, FS_Subset DEF IsQuota
<1>3. IsFiniteSet(chosen)
  BY <1>2, FS_Subset
<1>4. Cardinality(chosen) \in Nat /\ Cardinality(chosen) <= Target - Cardinality(used)
  BY <1>1, <1>3, FS_CardinalityType DEF IsQuota
<1>5. /\ Cardinality(used \cup chosen) =
           Cardinality(used) + Cardinality(chosen) - Cardinality(used \cap chosen)
  BY <1>1, <1>3, FS_Union
<1>6. Cardinality(used \cap chosen) \in Nat
  <2>1. used \cap chosen \in SUBSET chosen
    OBVIOUS
  <2>2. QED
    BY <1>3, <2>1, FS_Subset, FS_CardinalityType
<1>7. QED
  BY <1>1, <1>4, <1>5, <1>6

LEMMA CollectJInv == IInv /\ JInv /\ Collect => JInv'
<1> SUFFICES ASSUME IInv, JInv, Collect PROVE JInv'
  OBVIOUS
<1>0. /\ pc = "loop" /\ current' = adapter
      /\ UNCHANGED <<versions, state, batch, adapter, opt>>
  BY DEF Collect, disk
<1>1. PICK records \in SUBSET NodesOf(batch) :
        IF ~OnCommittedSnapshot \/ records \cap UsedNodes(state) # {}
        THEN pc' = "refused" /\ UNCHANGED <<nodes, candidate>>
        ELSE \E chosen \in SUBSET records :
               /\ IsQuota(chosen, records, UsedNodes(state))
               /\ nodes' = chosen
               /\ IF chosen = {}
                  THEN BeginCommit(state.updates, "validate")
                  ELSE pc' = "train" /\ UNCHANGED candidate
  BY DEF Collect
<1>2. /\ state \in LedgerState /\ Validate(state) /\ WellMade(state)
      /\ batch = state.next_batch /\ opt = Len(state.updates) /\ adapter = After(state)
  BY <1>0, StateIsWellMade DEF JInv, AtCommit
<1>3. OnCommittedSnapshot
  BY <1>2 DEF OnCommittedSnapshot, After
<1>4. records \cap UsedNodes(state) = {}
  <2>1. state.next_batch \in Nat
    BY <1>2 DEF LedgerState
  <2>2. \A n \in records : n.batch = batch
    BY DEF NodesOf
  <2>3. \A n \in UsedNodes(state) : n.batch < state.next_batch
    BY <1>2, UsedIsOlder
  <2>4. QED
    BY <1>2, <2>1, <2>2, <2>3
<1>5. PICK chosen \in SUBSET records :
        /\ IsQuota(chosen, records, UsedNodes(state))
        /\ nodes' = chosen
        /\ IF chosen = {}
           THEN BeginCommit(state.updates, "validate")
           ELSE pc' = "train" /\ UNCHANGED candidate
  BY <1>1, <1>3, <1>4
<1>6. LedgersWellMade'
  BY <1>0, VersionsKept DEF IInv, JInv
<1>7. CASE chosen = {}
  <2>1. /\ pc' = "validate"
        /\ candidate' = [next_batch |-> state.next_batch + 1, updates |-> state.updates]
    BY <1>2, <1>5, <1>7 DEF BeginCommit
  <2>2. candidate'.updates = state.updates /\ candidate'.next_batch = state.next_batch + 1
    BY <2>1
  <2>3. Receipts(candidate') = Receipts(state) /\ UsedNodes(candidate') = UsedNodes(state)
    BY <2>2 DEF UsedNodes, Receipts
  <2>4. Validate(candidate')
    <3>1. ASSUME NEW i \in DOMAIN state.updates
          PROVE  state.updates[i].batch < state.next_batch + 1
      <4>1. PICK r \in Receipts(state) : r = state.updates[i]
        BY DEF Receipts, ToSet
      <4>2. r \in Receipt
        BY <1>2, ReceiptIsTyped
      <4>3. r.batch \in Nat /\ state.next_batch \in Nat
        BY <1>2, <4>2, ConstantsAssumption DEF Receipt, Batches, LedgerState
      <4>4. r.batch < state.next_batch
        BY <1>2, <4>1 DEF Validate
      <4>5. QED
        BY <4>1, <4>3, <4>4
    <3>2. QED
      BY <1>2, <2>2, <2>3, <3>1 DEF Validate
  <2>5. WellMade(candidate') /\ After(candidate') = After(state)
    BY <1>2, <2>2, <2>3 DEF WellMade, After
  <2>6. CandidateSound'
    BY <1>0, <1>2, <2>2, <2>4, <2>5
       DEF CandidateSound, Validate, WellMade, After, Receipts, UsedNodes
  <2>7. QED
    BY <1>6, <2>1, <2>6 DEF JInv, AtCommit, ChosenSound, SavedHere, NeverRefused
<1>8. CASE chosen # {}
  <2>1. pc' = "train" /\ nodes' = chosen
    BY <1>5, <1>8
  <2>2. records \in SUBSET Node
    BY DEF NodesOf
  <2>3. Cardinality(UsedNodes(state) \cup chosen) <= Target
    BY <1>2, <1>5, <2>2, ChosenFits
  <2>4. ChosenSound'
    BY <1>0, <1>2, <1>8, <2>1, <2>3 DEF ChosenSound, After, UsedNodes, Receipts, NodesOf
  <2>5. QED
    BY <1>0, <1>2, <1>6, <2>1, <2>4
       DEF JInv, AtCommit, SavedHere, CandidateSound, NeverRefused, Committing, Syncing, Writing
<1>9. QED
  BY <1>7, <1>8

LEMMA TrainJInv == IInv /\ JInv /\ Train => JInv'
<1> SUFFICES ASSUME IInv, JInv, Train PROVE JInv'
  OBVIOUS
<1>0. /\ pc = "train" /\ pc' = "exercise" /\ adapter' = This
      /\ store' = [store EXCEPT ![This] =
           [adapter |-> This, step |-> opt + 1, has |-> Parts \ {"result.json"}, safe |-> {}]]
      /\ UNCHANGED <<runs, versions, state, candidate, batch, current, nodes>>
  BY DEF Train
<1>1. This \in Attempt /\ This' = This
  BY <1>0, ThisIsAttempt DEF IInv, AttemptSound, This
<1>2. store'[This].adapter = This /\ store'[This].step = opt + 1
  BY <1>0, <1>1 DEF IInv, TypeOK
<1>3. opt = Len(state.updates)
  BY <1>0 DEF JInv, AtCommit
<1>4. LedgersWellMade'
  BY <1>0, VersionsKept DEF IInv, JInv
<1>5. ChosenSound'
  BY <1>0 DEF JInv, ChosenSound, After, UsedNodes, Receipts, NodesOf
<1>6. SavedHere'
  BY <1>0, <1>1, <1>2, <1>3 DEF SavedHere
<1>7. QED
  BY <1>0, <1>4, <1>5, <1>6
     DEF JInv, AtCommit, CandidateSound, NeverRefused, Committing, Syncing, Writing

LEMMA ExerciseJInv == IInv /\ JInv /\ Exercise => JInv'
<1> SUFFICES ASSUME IInv, JInv, Exercise PROVE JInv'
  OBVIOUS
<1> DEFINE step == Len(state.updates) + 1
           r == [batch |-> batch, checkpoint |-> This, before |-> current,
                 after |-> This, nodes |-> nodes, step |-> step]
<1>0. /\ pc = "exercise" /\ adapter' = This /\ opt' = step
      /\ UNCHANGED <<runs, versions, state, batch, current, nodes>>
  BY DEF Exercise, JInv, SavedHere
<1>1. This \in Attempt /\ This \in Snapshot
  BY <1>0, ThisIsAttempt DEF IInv, AttemptSound
<1>2. /\ state \in LedgerState /\ Validate(state) /\ WellMade(state)
      /\ batch = state.next_batch /\ current = After(state)
      /\ nodes \subseteq NodesOf(batch) /\ nodes # {}
      /\ Cardinality(UsedNodes(state) \cup nodes) <= Target
  BY <1>0, StateIsWellMade DEF JInv, AtCommit, ChosenSound
<1>3. This # current
  <2>1. CASE state.updates = <<>>
    <3>1. current.run = 0 /\ runs > 0 /\ This.run = runs
      BY <1>0, <1>2, <2>1 DEF After, Initial, IInv, Started, This
    <3>2. QED
      BY <3>1 DEF IInv, TypeOK
  <2>2. CASE state.updates # <<>>
    <3>1. PICK q \in Receipts(state) : current = q.after
      BY <1>2, <2>2, AfterIsLast
    <3>2. q.after = q.checkpoint
      BY <1>2 DEF WellMade
    <3>3. q \in Receipt /\ (Earlier(q) \/ EarlierHere(q))
      BY <1>0, StateIsSound
    <3>4. q.checkpoint # This
      BY <3>3, EarlierIsNotThis DEF IInv
    <3>5. QED
      BY <3>1, <3>2, <3>4
  <2>3. QED
    BY <2>1, <2>2
<1>4. BeginCommit(Append(state.updates, r), "sync files")
  BY <1>0, <1>3 DEF Exercise
<1>5. /\ pc' = "sync files"
      /\ candidate' = [next_batch |-> state.next_batch + 1, updates |-> Append(state.updates, r)]
  BY <1>2, <1>4 DEF BeginCommit
<1>6. r \in Receipt
  <2>1. current \in Snapshot /\ nodes \subseteq Node /\ batch \in Batches
    BY <1>0, ConstantsAssumption DEF IInv, TypeOK, AttemptSound, Batches
  <2>2. step \in Nat
    BY <1>2 DEF LedgerState
  <2>3. QED
    BY <1>1, <2>1, <2>2 DEF Receipt
<1>7. PICK new : new = candidate'
  OBVIOUS
<1>8. Validate(new) /\ WellMade(new) /\ After(new) = This /\ Len(new.updates) = step
  BY <1>2, <1>5, <1>6, <1>7, AppendReceipt
<1>9. CandidateSound'
  BY <1>0, <1>7, <1>8 DEF CandidateSound, Validate, WellMade, After, Receipts, UsedNodes
<1>10. LedgersWellMade'
  BY <1>0, VersionsKept DEF IInv, JInv
<1>11. QED
  BY <1>5, <1>9, <1>10 DEF JInv, AtCommit, ChosenSound, SavedHere, NeverRefused

\* A step of commit that keeps the candidate.
LEMMA CommitJInv ==
  ASSUME IInv, JInv, pc \in Committing, pc' \in Committing,
         UNCHANGED <<candidate, opt, adapter>>, LedgersWellMade'
  PROVE  JInv'
<1>1. CandidateSound'
  BY DEF JInv, CandidateSound, Validate, WellMade, After, Receipts, UsedNodes
<1>2. QED
  BY <1>1 DEF JInv, AtCommit, ChosenSound, SavedHere, NeverRefused, Committing, Syncing, Writing

LEMMA SyncFilesJInv == IInv /\ JInv /\ SyncFiles => JInv'
<1> SUFFICES ASSUME IInv, JInv, SyncFiles PROVE JInv'
  OBVIOUS
<1>1. /\ pc = "sync files" /\ pc' = "sync directories"
      /\ UNCHANGED <<versions, candidate, opt, adapter>>
  BY DEF SyncFiles, memory
<1>2. LedgersWellMade'
  BY <1>1, VersionsKept DEF IInv, JInv
<1>3. QED
  BY <1>1, <1>2, CommitJInv DEF Committing, Syncing

LEMMA SyncDirectoriesJInv == IInv /\ JInv /\ SyncDirectories => JInv'
<1> SUFFICES ASSUME IInv, JInv, SyncDirectories PROVE JInv'
  OBVIOUS
<1>1. /\ pc = "sync directories" /\ pc' \in {"sync directories", "validate"}
      /\ versions' = versions \/ versions' = <<Visible>>
      /\ UNCHANGED <<candidate, opt, adapter>>
  BY DEF SyncDirectories, memory
<1>2. LedgersWellMade'
  BY <1>1, VersionsKept DEF IInv, JInv
<1>3. QED
  BY <1>1, <1>2, CommitJInv DEF Committing, Syncing

LEMMA ValidateJInv == IInv /\ JInv /\ ValidateCandidate => JInv'
<1> SUFFICES ASSUME IInv, JInv, ValidateCandidate PROVE JInv'
  OBVIOUS
<1>1. /\ pc = "validate" /\ UNCHANGED <<versions, candidate, opt, adapter>>
      /\ pc' = IF Validate(candidate) THEN "replace" ELSE "refused"
  BY DEF ValidateCandidate, disk, memory
<1>2. pc' = "replace"
  BY <1>1 DEF JInv, CandidateSound, Committing
<1>3. LedgersWellMade'
  BY <1>1, VersionsKept DEF IInv, JInv
<1>4. QED
  BY <1>1, <1>2, <1>3, CommitJInv DEF Committing, Writing

LEMMA ReplaceJInv == IInv /\ JInv /\ Replace => JInv'
<1> SUFFICES ASSUME IInv, JInv, Replace PROVE JInv'
  OBVIOUS
<1>1. /\ pc = "replace" /\ pc' = "sync rename"
      /\ versions' = Append(versions,
                       [kind |-> "ledger", ledger |-> candidate, synced |-> TRUE])
      /\ UNCHANGED <<candidate, opt, adapter>>
  BY DEF Replace, memory
<1>2. /\ versions \in Seq(Version)
      /\ [kind |-> "ledger", ledger |-> candidate, synced |-> TRUE] \in Version
  BY DEF IInv, TypeOK, Version
<1>3. PICK new \in Version :
        new = [kind |-> "ledger", ledger |-> candidate, synced |-> TRUE]
  BY <1>2
<1>4. /\ DOMAIN versions' = DOMAIN versions \cup {Len(versions) + 1}
      /\ \A i \in DOMAIN versions : versions'[i] = versions[i]
      /\ versions'[Len(versions) + 1] = new
  <2>1. versions' = Append(versions, new)
    BY <1>1, <1>3
  <2>2. QED
    BY <1>2, <2>1, AppendOne
<1>5. WellMade(new.ledger)
  BY <1>1, <1>3 DEF JInv, CandidateSound, Committing, Writing
<1>6. \A i \in DOMAIN versions' : WellMade(versions'[i].ledger)
  BY <1>4, <1>5 DEF JInv, LedgersWellMade
<1>7. LedgersWellMade'
  BY <1>6 DEF LedgersWellMade, WellMade, Receipts
<1>8. QED
  BY <1>1, <1>7, CommitJInv DEF Committing, Writing

LEMMA SyncRenameJInv == IInv /\ JInv /\ SyncRename => JInv'
<1> SUFFICES ASSUME IInv, JInv, SyncRename PROVE JInv'
  OBVIOUS
<1>1. /\ pc = "sync rename" /\ versions' = <<Visible>> /\ state' = candidate
      /\ IF candidate = EmptyLedger
         THEN pc' = "restore" /\ UNCHANGED batch
         ELSE pc' = "loop" /\ batch' = batch + 1
      /\ UNCHANGED <<candidate, adapter, opt>>
  BY DEF SyncRename, SettleRename
<1>2. CASE candidate = EmptyLedger
  BY <1>1, <1>2, OutsideJInv
<1>3. CASE candidate # EmptyLedger
  <2>1. opt = Len(candidate.updates) /\ adapter = After(candidate)
    BY <1>1, <1>3 DEF JInv, CandidateSound, Committing, Writing
  <2>2. candidate.next_batch = batch + 1
    BY <1>1, <1>3 DEF IInv, CommitSound, SoundCandidate, Committing, Writing
  <2>3. LedgersWellMade'
    BY <1>1, VersionsKept DEF IInv, JInv
  <2>4. AtCommit'
    BY <1>1, <1>3, <2>1, <2>2 DEF AtCommit, After
  <2>5. QED
    BY <1>1, <1>3, <2>3, <2>4
       DEF JInv, ChosenSound, SavedHere, CandidateSound, NeverRefused,
           Committing, Syncing, Writing
<1>4. QED
  BY <1>2, <1>3

-----------------------------------------------------------------------------
(* Theorems *)

LEMMA JInvKept == JInv /\ UNCHANGED vars => JInv'
<1> SUFFICES ASSUME JInv, UNCHANGED vars PROVE JInv'
  OBVIOUS
<1>1. UNCHANGED <<pc, runs, versions, store, state, candidate, batch, current, adapter,
                  opt, nodes>>
  BY DEF vars, disk, memory
<1>2. LedgersWellMade'
  BY <1>1 DEF JInv, LedgersWellMade, WellMade, Receipts
<1>3. AtCommit' /\ SavedHere' /\ NeverRefused'
  BY <1>1 DEF JInv, AtCommit, SavedHere, NeverRefused, After, This
<1>4. ChosenSound'
  BY <1>1 DEF JInv, ChosenSound, After, UsedNodes, Receipts, NodesOf
<1>5. CandidateSound'
  BY <1>1 DEF JInv, CandidateSound, Validate, WellMade, After, Receipts, UsedNodes
<1>6. QED
  BY <1>2, <1>3, <1>4, <1>5 DEF JInv

LEMMA StepJInv == IInv /\ JInv /\ [Next]_vars => JInv'
<1> SUFFICES ASSUME IInv, JInv, [Next]_vars PROVE JInv'
  OBVIOUS
<1>1. CASE UNCHANGED vars
  BY <1>1, JInvKept
<1>2. CASE Next
  BY <1>2, LeavesDInv,
     StartJInv, ResumeJInv, StopJInv, PowerFailureJInv, RestoreJInv, CollectJInv,
     FinishJInv, TrainJInv, ExerciseJInv, SyncFilesJInv, SyncDirectoriesJInv,
     ValidateJInv, ReplaceJInv, SyncRenameJInv
     DEF Next, Step
<1>3. QED
  BY <1>1, <1>2

LEMMA ChainInvariance == Spec => []JInv
  BY InitJInv, StepJInv, Invariance, PTL DEF Spec

\* Nothing the trainer asserts about its own state fails, and commit accepts every
\* update it is given: the quota it chose fits, the batch is the next one, the restored
\* step and adapter are the committed ones (formal_run.py:228-245, 475-477;
\* run_state.py:79-106, 128).
THEOREM NothingRefused == Spec => []NeverRefused
<1>1. JInv => NeverRefused
  BY DEF JInv
<1>2. QED
  BY ChainInvariance, <1>1, PTL

LEMMA WellMadeChains == DInv /\ JInv => SnapshotChain
<1>1. ASSUME DInv, JInv, NEW i \in DOMAIN versions, NEW k \in DOMAIN versions[i].ledger.updates
      PROVE  LET u == versions[i].ledger.updates IN
               u[k].before = IF k = 1 THEN Initial ELSE u[k - 1].after
  <2> DEFINE u == versions[i].ledger.updates
  <2>1. /\ versions[i].ledger \in LedgerState
        /\ Validate(versions[i].ledger) /\ WellMade(versions[i].ledger)
    BY <1>1, VersionIsTyped DEF DInv, VersionsSound, SoundVersion, JInv, LedgersWellMade
  <2>2. u \in Seq(Receipt)
    BY <2>1 DEF LedgerState
  <2>3. k \in 1..Len(u) /\ u # <<>>
    BY <1>1, <2>2
  <2>4. k > 1 => u[k].before = u[k - 1].after
    BY <1>1, <2>1 DEF Validate
  <2>5. u[1].before = Initial
    BY <2>1, <2>3 DEF WellMade
  <2>6. QED
    BY <2>2, <2>3, <2>4, <2>5
<1>2. QED
  BY <1>1 DEF SnapshotChain

\* Every ledger that can be found has weights that chain from the initial adapter through
\* each committed update, whatever was trained and lost in between
\* (formal_run.py:243-245, run_state.py:90).
THEOREM WeightsChain == Spec => []SnapshotChain
<1>1. IInv /\ JInv => SnapshotChain
  BY LeavesDInv, WellMadeChains
<1>2. QED
  BY Invariance, ChainInvariance, <1>1, PTL

-----------------------------------------------------------------------------
(***************************************************************************)
(* The trainer implements the quota log: the log of a ledger is the        *)
(* refinement mapping, and the invariant says that the versions of         *)
(* state.json are prefixes of one log.                                     *)
(***************************************************************************)

\* Of two ledgers the one continues the other: same log up to the shorter's length.
Continues(longer, shorter) ==
  /\ shorter.next_batch <= longer.next_batch
  /\ \A k \in 1..shorter.next_batch : LogOf(longer)[k] = LogOf(shorter)[k]

\* What a power failure keeps is a prefix of everything later, and a reader sees the
\* longest log.
OneLog ==
  \A i \in DOMAIN versions :
    /\ Continues(versions[i].ledger, versions[1].ledger)
    /\ Continues(Visible.ledger, versions[i].ledger)

\* The candidate has one batch more than the ledger in memory, and at most one receipt.
NextBatch ==
  pc \in Committing \ {"sync rename"} =>
    IF candidate = EmptyLedger
    THEN state = EmptyLedger
    ELSE /\ candidate.next_batch = state.next_batch + 1
         /\ \/ candidate.updates = state.updates
            \/ \E r \in Receipts(candidate) :
                 r.batch = state.next_batch /\ candidate.updates = Append(state.updates, r)

KInv == OneLog /\ NextBatch

-----------------------------------------------------------------------------
(* The log of a ledger *)

LEMMA LogIsSequence ==
  ASSUME NEW led \in LedgerState
  PROVE  /\ LogOf(led) \in Seq(SUBSET Node)
         /\ Len(LogOf(led)) = led.next_batch /\ led.next_batch \in Nat
         /\ DOMAIN LogOf(led) = 1..led.next_batch
<1>1. led.next_batch \in Nat
  BY DEF LedgerState
<1>2. ASSUME NEW k \in 1..led.next_batch PROVE LogOf(led)[k] \in SUBSET Node
  <2>1. \A q \in Receipts(led) : q.nodes \in SUBSET Node
    BY ReceiptIsTyped DEF Receipt
  <2>2. QED
    BY <2>1 DEF LogOf
<1>3. LogOf(led) = [k \in 1..led.next_batch |-> LogOf(led)[k]]
  BY DEF LogOf
<1>4. LogOf(led) \in [1..led.next_batch -> SUBSET Node]
  BY <1>2, <1>3
<1>5. QED
  BY <1>1, <1>4

LEMMA ReceiptBatch ==
  ASSUME NEW led \in LedgerState, Validate(led), NEW r \in Receipts(led)
  PROVE  r.batch \in Nat /\ r.batch < led.next_batch /\ r \in Receipt
<1>1. r \in Receipt
  BY ReceiptIsTyped
<1>2. r.batch < led.next_batch
  BY DEF Validate, Receipts, ToSet
<1>3. QED
  BY <1>1, <1>2, ConstantsAssumption DEF Receipt, Batches

\* The log holds the nodes that the ledger has used.
LEMMA UsedOfLog ==
  ASSUME NEW led \in LedgerState, Validate(led)
  PROVE  Quota!Used(LogOf(led)) = UsedNodes(led)
<1>1. DOMAIN LogOf(led) = 1..led.next_batch /\ led.next_batch \in Nat
  BY LogIsSequence
<1>2. ASSUME NEW n \in UsedNodes(led) PROVE n \in UNION ToSet(LogOf(led))
  <2>1. PICK r \in Receipts(led) : n \in r.nodes
    BY DEF UsedNodes
  <2>2. r.batch \in Nat /\ r.batch < led.next_batch
    BY ReceiptBatch
  <2>3. r.batch + 1 \in 1..led.next_batch /\ r.batch = (r.batch + 1) - 1
    BY <1>1, <2>2
  <2>4. n \in LogOf(led)[r.batch + 1]
    BY <2>1, <2>3 DEF LogOf
  <2>5. QED
    BY <1>1, <2>3, <2>4 DEF ToSet
<1>3. ASSUME NEW n \in UNION ToSet(LogOf(led)) PROVE n \in UsedNodes(led)
  <2>1. PICK k \in 1..led.next_batch : n \in LogOf(led)[k]
    BY <1>1 DEF ToSet
  <2>2. QED
    BY <2>1 DEF LogOf, UsedNodes
<1>4. QED
  BY <1>2, <1>3 DEF Quota!Used, Quota!ToSet, ToSet

\* A batch more, and at most its receipt: the log grows by the nodes of that batch.
LEMMA LogGrows ==
  ASSUME NEW led \in LedgerState, Validate(led), WellMade(led),
         NEW new \in LedgerState, Validate(new), WellMade(new),
         new.next_batch = led.next_batch + 1,
         \/ new.updates = led.updates
         \/ \E r \in Receipts(new) :
              r.batch = led.next_batch /\ new.updates = Append(led.updates, r)
  PROVE  \E S \in SUBSET NodesOf(led.next_batch) :
           /\ LogOf(new) = Append(LogOf(led), S)
           /\ S \cap UsedNodes(led) = {}
           /\ UsedNodes(led) \cup S = UsedNodes(new)
<1> DEFINE n == led.next_batch
           S == UNION {r.nodes : r \in {q \in Receipts(new) : q.batch = n}}
<1>1. n \in Nat /\ new.next_batch = n + 1
  BY DEF LedgerState
<1>2. Receipts(new) = Receipts(led) \/
        \E r \in Receipt : r.batch = n /\ Receipts(new) = Receipts(led) \cup {r}
  <2>1. CASE new.updates = led.updates
    BY <2>1 DEF Receipts
  <2>2. CASE \E r \in Receipts(new) : r.batch = n /\ new.updates = Append(led.updates, r)
    <3>1. PICK r \in Receipts(new) : r.batch = n /\ new.updates = Append(led.updates, r)
      BY <2>2
    <3>2. r \in Receipt
      BY ReceiptIsTyped
    <3>3. new = [next_batch |-> n + 1, updates |-> Append(led.updates, r)]
      BY <1>1, <3>1 DEF LedgerState
    <3>4. n + 1 \in Nat
      BY <1>1
    <3>5. Receipts([next_batch |-> n + 1, updates |-> Append(led.updates, r)])
            = Receipts(led) \cup {r}
      BY <3>2, <3>4, ReceiptsAppend
    <3>6. Receipts(new) = Receipts(led) \cup {r}
      BY <3>3, <3>5
    <3>7. QED
      BY <3>1, <3>2, <3>6
  <2>3. QED
    BY <2>1, <2>2
<1>3. \A r \in Receipts(led) : r.batch \in Nat /\ r.batch < n
  BY ReceiptBatch
<1>4. S \subseteq NodesOf(n)
  BY DEF WellMade
<1>5. UsedNodes(new) = UsedNodes(led) \cup S
  <2>1. \A r \in Receipts(new) : r \in Receipts(led) \/ r.batch = n
    BY <1>2
  <2>2. Receipts(led) \subseteq Receipts(new)
    BY <1>2
  <2>3. QED
    BY <2>1, <2>2 DEF UsedNodes
<1>6. S \cap UsedNodes(led) = {}
  BY <1>1, <1>4, UsedIsOlder DEF NodesOf
<1>7. LogOf(new) = Append(LogOf(led), S)
  <2>1. ASSUME NEW k \in 1..n PROVE LogOf(new)[k] = LogOf(led)[k]
    <3>1. {q \in Receipts(new) : q.batch = k - 1} = {q \in Receipts(led) : q.batch = k - 1}
      BY <1>1, <1>2
    <3>2. k \in 1..(n + 1)
      BY <1>1
    <3>3. LogOf(new)[k] = UNION {r.nodes : r \in {q \in Receipts(new) : q.batch = k - 1}}
      BY <1>1, <3>2 DEF LogOf
    <3>4. LogOf(led)[k] = UNION {r.nodes : r \in {q \in Receipts(led) : q.batch = k - 1}}
      BY DEF LogOf
    <3>5. QED
      BY <3>1, <3>3, <3>4
  <2>2. LogOf(new)[n + 1] = S
    <3>1. (n + 1) - 1 = n /\ n + 1 \in 1..(n + 1)
      BY <1>1
    <3>2. QED
      BY <1>1, <3>1 DEF LogOf
  <2>3. /\ LogOf(led) \in Seq(SUBSET Node) /\ Len(LogOf(led)) = n
        /\ S \in SUBSET Node
    BY <1>4, LogIsSequence DEF NodesOf
  <2>4. /\ LogOf(new) \in Seq(SUBSET Node) /\ Len(LogOf(new)) = n + 1
    BY <1>1, LogIsSequence
  <2>5. /\ Append(LogOf(led), S) \in Seq(SUBSET Node) /\ Len(Append(LogOf(led), S)) = n + 1
        /\ \A k \in 1..n : Append(LogOf(led), S)[k] = LogOf(led)[k]
        /\ Append(LogOf(led), S)[n + 1] = S
    BY <1>1, <2>3
  <2>6. \A k \in 1..(n + 1) : LogOf(new)[k] = Append(LogOf(led), S)[k]
    <3>1. \A k \in 1..(n + 1) : k \in 1..n \/ k = n + 1
      BY <1>1
    <3>2. QED
      BY <2>1, <2>2, <2>5, <3>1
  <2>7. QED
    BY <2>4, <2>5, <2>6, SeqEqual
<1>8. QED
  BY <1>4, <1>5, <1>6, <1>7

LEMMA ContinuesItself ==
  ASSUME NEW led \in LedgerState
  PROVE  Continues(led, led)
  BY DEF Continues, LedgerState

LEMMA ContinuesOn ==
  ASSUME NEW a \in LedgerState, NEW b \in LedgerState, NEW c \in LedgerState,
         Continues(c, b), Continues(b, a)
  PROVE  Continues(c, a)
<1>1. a.next_batch \in Nat /\ b.next_batch \in Nat /\ c.next_batch \in Nat
  BY DEF LedgerState
<1>2. \A k \in 1..a.next_batch : k \in 1..b.next_batch
  BY <1>1 DEF Continues
<1>3. QED
  BY <1>1, <1>2 DEF Continues

-----------------------------------------------------------------------------
(* Every step preserves the invariant *)

\* One version alone is one log.
LEMMA OneVersion ==
  ASSUME NEW v \in Version, versions' = <<v>>
  PROVE  OneLog'
<1>1. v.ledger \in LedgerState
  BY DEF Version
<1>2. Continues(v.ledger, v.ledger)
  BY <1>1, ContinuesItself
<1>3. DOMAIN versions' = {1} /\ versions'[1] = v /\ Visible' = v
  <2>1. Visible' = Last(versions')
    BY DEF Visible
  <2>2. QED
    BY <2>1, LastOfOne
<1>4. QED
  BY <1>2, <1>3 DEF OneLog

LEMMA OneLogKept ==
  ASSUME TypeOK, OneLog, versions' = versions \/ versions' = <<Visible>>
  PROVE  OneLog'
<1>1. CASE versions' = versions
  BY <1>1 DEF OneLog, Visible
<1>2. CASE versions' = <<Visible>>
  <2>1. PICK v \in Version : v = Visible
    BY VisibleIsVersion
  <2>2. QED
    BY <1>2, <2>1, OneVersion
<1>3. QED
  BY <1>1, <1>2

LEMMA NextBatchKept ==
  ASSUME NextBatch, pc \in Committing \ {"sync rename"}, UNCHANGED <<state, candidate>>
  PROVE  NextBatch'
  BY DEF NextBatch, Receipts

LEMMA InitKInv == Init => KInv
<1> SUFFICES ASSUME Init PROVE KInv
  OBVIOUS
<1>1. versions = <<Absent>> /\ pc = "down"
  BY DEF Init
<1>2. Visible = Absent /\ DOMAIN versions = {1} /\ versions[1] = Absent
  BY <1>1, LastOfOne DEF Visible
<1>3. Absent.ledger = EmptyLedger
  BY DEF Absent
<1>4. OneLog
  BY <1>2, <1>3, EmptyLedgerIsSound, ContinuesItself DEF OneLog
<1>5. QED
  BY <1>1, <1>4 DEF KInv, NextBatch, Committing, Syncing, Writing

\* The log that Replace makes visible continues the one a reader saw before.
LEMMA ReplaceContinues ==
  ASSUME IInv, JInv, KInv, Replace
  PROVE  /\ candidate \in LedgerState /\ state = Visible.ledger
         /\ Continues(candidate, Visible.ledger)
         /\ \/ candidate = state
            \/ \E S \in SUBSET NodesOf(state.next_batch) :
                 /\ LogOf(candidate) = Append(LogOf(state), S)
                 /\ S \cap UsedNodes(state) = {}
                 /\ Cardinality(UsedNodes(state) \cup S) <= Target
<1>1. /\ pc = "replace" /\ candidate \in LedgerState /\ state = Visible.ledger
      /\ state \in LedgerState /\ Validate(state) /\ WellMade(state)
  BY StateIsWellMade DEF Replace, IInv, TypeOK, InMemory, JInv
<1>2. CASE candidate = EmptyLedger
  <2>1. candidate = state
    BY <1>1, <1>2 DEF KInv, NextBatch, Committing, Writing
  <2>2. QED
    BY <1>1, <2>1, ContinuesItself
<1>3. CASE candidate # EmptyLedger
  <2>1. /\ candidate.next_batch = state.next_batch + 1
        /\ \/ candidate.updates = state.updates
           \/ \E r \in Receipts(candidate) :
                r.batch = state.next_batch /\ candidate.updates = Append(state.updates, r)
    BY <1>1, <1>3 DEF KInv, NextBatch, Committing, Writing
  <2>2. Validate(candidate) /\ WellMade(candidate)
    BY <1>1 DEF JInv, CandidateSound, Committing, Writing
  <2>3. PICK S \in SUBSET NodesOf(state.next_batch) :
          /\ LogOf(candidate) = Append(LogOf(state), S)
          /\ S \cap UsedNodes(state) = {}
          /\ UsedNodes(state) \cup S = UsedNodes(candidate)
    BY <1>1, <2>1, <2>2, LogGrows
  <2>4. Cardinality(UsedNodes(state) \cup S) <= Target
    BY <2>2, <2>3 DEF Validate
  <2>5. Continues(candidate, state)
    <3>1. /\ LogOf(state) \in Seq(SUBSET Node) /\ Len(LogOf(state)) = state.next_batch
          /\ state.next_batch \in Nat
      BY <1>1, LogIsSequence
    <3>2. S \in SUBSET Node
      BY DEF NodesOf
    <3>3. \A k \in 1..state.next_batch : Append(LogOf(state), S)[k] = LogOf(state)[k]
      BY <3>1, <3>2
    <3>4. QED
      BY <2>1, <2>3, <3>1, <3>3 DEF Continues
  <2>6. QED
    BY <1>1, <2>3, <2>4, <2>5
<1>4. QED
  BY <1>2, <1>3

LEMMA ReplaceKInv == IInv /\ JInv /\ KInv /\ Replace => KInv'
<1> SUFFICES ASSUME IInv, JInv, KInv, Replace PROVE KInv'
  OBVIOUS
<1>1. /\ pc' = "sync rename" /\ versions \in Seq(Version) /\ versions # <<>> /\ TypeOK
      /\ versions' = Append(versions,
                       [kind |-> "ledger", ledger |-> candidate, synced |-> TRUE])
  BY DEF Replace, IInv, TypeOK
<1>2. candidate \in LedgerState /\ Continues(candidate, Visible.ledger)
  BY ReplaceContinues
<1>3. PICK new \in Version :
        new = [kind |-> "ledger", ledger |-> candidate, synced |-> TRUE]
  BY <1>2 DEF Version
<1>4. /\ DOMAIN versions' = DOMAIN versions \cup {Len(versions) + 1}
      /\ \A i \in DOMAIN versions : versions'[i] = versions[i]
      /\ versions'[Len(versions) + 1] = new
      /\ Visible' = new
  <2>1. versions' = Append(versions, new)
    BY <1>1, <1>3
  <2>2. Visible' = Last(Append(versions, new))
    BY <2>1 DEF Visible
  <2>3. versions \in Seq(Version)
    BY <1>1
  <2>4. QED
    BY <2>1, <2>2, <2>3, AppendOne
<1>5. 1 \in DOMAIN versions /\ Len(versions) \in DOMAIN versions
      /\ Visible = versions[Len(versions)]
  <2>1. versions \in Seq(Version) /\ versions # <<>>
    BY <1>1
  <2>2. Len(versions) \in Nat /\ Len(versions) # 0 /\ DOMAIN versions = 1..Len(versions)
    BY <2>1
  <2>3. 1 \in DOMAIN versions
    BY <2>2
  <2>4. TypeOK
    BY <1>1
  <2>5. QED
    BY <2>3, <2>4, VisibleIsVersion
<1>6. new.ledger = candidate /\ Continues(candidate, candidate)
  BY <1>2, <1>3, ContinuesItself
<1>7. \A i \in DOMAIN versions : versions[i].ledger \in LedgerState
  BY <1>1, VersionIsTyped
<1>8. ASSUME NEW i \in DOMAIN versions
      PROVE  /\ Continues(candidate, versions[i].ledger)
             /\ Continues(versions[i].ledger, versions[1].ledger)
  <2>1. Continues(Visible.ledger, versions[i].ledger)
        /\ Continues(versions[i].ledger, versions[1].ledger)
    BY DEF KInv, OneLog
  <2>2. Visible.ledger \in LedgerState
    BY <1>5, <1>7
  <2>3. QED
    BY <1>2, <1>7, <2>1, <2>2, ContinuesOn
<1>9. OneLog'
  BY <1>4, <1>5, <1>6, <1>8 DEF OneLog
<1>10. QED
  BY <1>1, <1>9 DEF KInv, NextBatch

LEMMA PowerFailureKInv == DInv /\ PowerFailure => KInv'
<1> SUFFICES ASSUME DInv, PowerFailure PROVE KInv'
  OBVIOUS
<1>1. PICK i \in DOMAIN versions :
        versions' = <<IF versions[i].synced THEN versions[i]
                      ELSE [versions[i] EXCEPT !.kind = "torn"]>>
  BY DEF PowerFailure
<1>2. versions[i].synced /\ versions[i] \in Version
  BY VersionIsTyped DEF DInv, VersionsSound, SoundVersion
<1>3. OneLog'
  BY <1>1, <1>2, OneVersion
<1>4. pc' = "down"
  BY DEF PowerFailure, Forget
<1>5. QED
  BY <1>3, <1>4 DEF KInv, NextBatch, Committing, Syncing, Writing

\* A step that leaves state.json and no commit behind.
LEMMA OutsideKInv ==
  ASSUME KInv, versions' = versions, pc' \notin Committing \ {"sync rename"}
  PROVE  KInv'
<1>1. OneLog'
  BY DEF KInv, OneLog, Visible
<1>2. QED
  BY <1>1 DEF KInv, NextBatch

LEMMA StepKInv == IInv /\ JInv /\ KInv /\ [Next]_vars => KInv'
<1> SUFFICES ASSUME IInv, JInv, KInv, [Next]_vars PROVE KInv'
  OBVIOUS
<1> DEFINE Idling == pc' \notin Committing \ {"sync rename"}
           Steady == pc \in Committing \ {"sync rename"} /\ UNCHANGED <<state, candidate>>
           Settled == versions' = versions \/ versions' = <<Visible>>
<1>1. ASSUME Settled, Idling \/ Steady PROVE KInv'
  <2>1. OneLog'
    BY <1>1, OneLogKept DEF IInv, KInv
  <2>2. CASE Idling
    BY <2>1, <2>2 DEF KInv, NextBatch
  <2>3. CASE Steady
    BY <2>1, <2>3, NextBatchKept DEF KInv
  <2>4. QED
    BY <1>1, <2>2, <2>3
<1>2. CASE UNCHANGED vars
  <2>1. UNCHANGED <<pc, versions, state, candidate>>
    BY <1>2 DEF vars, disk, memory
  <2>2. QED
    BY <1>1, <2>1
<1>3. CASE Start
  <2>1. versions' = versions /\ state' = state /\ candidate' = EmptyLedger /\ state = EmptyLedger
    BY <1>3 DEF Start, disk, IInv, AtRest
  <2>2. OneLog'
    BY <2>1, OneLogKept DEF IInv, KInv
  <2>3. QED
    BY <2>1, <2>2 DEF KInv, NextBatch
<1>4. CASE Resume
  BY <1>1, <1>4 DEF Resume, disk, Committing, Syncing, Writing
<1>5. CASE Restore
  BY <1>1, <1>5 DEF Restore, disk, Committing, Syncing, Writing
<1>6. CASE Finish
  BY <1>1, <1>6 DEF Finish, disk, Committing, Syncing, Writing
<1>7. CASE Train
  BY <1>1, <1>7 DEF Train, Committing, Syncing, Writing
<1>8. CASE Stop
  BY <1>1, <1>8 DEF Stop, Forget, disk, Committing, Syncing, Writing
<1>9. CASE SyncFiles
  BY <1>1, <1>9 DEF SyncFiles, memory, Committing, Syncing
<1>10. CASE SyncDirectories
  BY <1>1, <1>10 DEF SyncDirectories, memory, Committing, Syncing
<1>11. CASE ValidateCandidate
  BY <1>1, <1>11 DEF ValidateCandidate, disk, memory, Committing
<1>12. CASE SyncRename
  BY <1>1, <1>12 DEF SyncRename, SettleRename, Committing, Syncing, Writing
<1>13. CASE Replace
  BY <1>13, ReplaceKInv
<1>14. CASE PowerFailure
  BY <1>14, LeavesDInv, PowerFailureKInv
<1>15. CASE Collect
  <2>1. versions' = versions /\ state' = state /\ batch = state.next_batch
    BY <1>15 DEF Collect, disk, JInv, AtCommit
  <2>2. \/ pc' \in {"refused", "train"}
        \/ /\ pc' = "validate"
           /\ candidate' = [next_batch |-> state.next_batch + 1, updates |-> state.updates]
    BY <1>15 DEF Collect, BeginCommit
  <2>3. CASE pc' \in {"refused", "train"}
    BY <1>1, <2>1, <2>3 DEF Committing, Syncing, Writing
  <2>4. CASE /\ pc' = "validate"
             /\ candidate' = [next_batch |-> state.next_batch + 1, updates |-> state.updates]
    <3>1. state.next_batch + 1 # 0
      BY DEF IInv, TypeOK, LedgerState
    <3>2. candidate' # EmptyLedger
      BY <2>4, <3>1 DEF EmptyLedger
    <3>3. NextBatch'
      BY <2>1, <2>4, <3>2 DEF NextBatch
    <3>4. OneLog'
      BY <2>1, OneLogKept DEF IInv, KInv
    <3>5. QED
      BY <3>3, <3>4 DEF KInv
  <2>5. QED
    BY <2>2, <2>3, <2>4
<1>16. CASE Exercise
  <2>1. versions' = versions /\ state' = state /\ batch = state.next_batch
    BY <1>16 DEF Exercise, JInv, AtCommit
  <2>2. PICK r : \/ pc' = "refused"
                 \/ /\ r.batch = batch /\ pc' = "sync files"
                    /\ candidate' = [next_batch |-> state.next_batch + 1,
                                     updates |-> Append(state.updates, r)]
    BY <1>16 DEF Exercise, BeginCommit
  <2>3. CASE pc' = "refused"
    BY <1>1, <2>1, <2>3 DEF Committing, Syncing, Writing
  <2>4. CASE /\ r.batch = batch /\ pc' = "sync files"
             /\ candidate' = [next_batch |-> state.next_batch + 1,
                              updates |-> Append(state.updates, r)]
    <3>1. state.next_batch + 1 # 0 /\ state.updates \in Seq(Receipt)
      BY DEF IInv, TypeOK, LedgerState
    <3>2. candidate' # EmptyLedger
      BY <2>4, <3>1 DEF EmptyLedger
    <3>3. r \in Receipts(candidate)'
      <4>1. Append(state.updates, r)[Len(state.updates) + 1] = r
            /\ Len(state.updates) + 1 \in DOMAIN Append(state.updates, r)
        BY <3>1
      <4>2. QED
        BY <2>4, <4>1 DEF Receipts, ToSet
    <3>4. NextBatch'
      BY <2>1, <2>4, <3>2, <3>3 DEF NextBatch
    <3>5. OneLog'
      BY <2>1, OneLogKept DEF IInv, KInv
    <3>6. QED
      BY <3>4, <3>5 DEF KInv
  <2>5. QED
    BY <2>2, <2>3, <2>4
<1>17. QED
  BY <1>2, <1>3, <1>4, <1>5, <1>6, <1>7, <1>8, <1>9, <1>10, <1>11, <1>12, <1>13, <1>14, <1>15,
     <1>16 DEF Next, Step

-----------------------------------------------------------------------------
(* Every step is a step of the quota log, or a stutter *)

LEMMA LogFacts ==
  ASSUME versions \in Seq(Version), versions # <<>>, OneLog
  PROVE  /\ Visible.ledger \in LedgerState /\ versions[1].ledger \in LedgerState
         /\ Len(LogOf(Visible.ledger)) = Visible.ledger.next_batch
         /\ Visible.ledger.next_batch
              \in versions[1].ledger.next_batch..Visible.ledger.next_batch
         /\ \A i \in DOMAIN versions :
              /\ versions[i].ledger \in LedgerState
              /\ versions[i].ledger.next_batch
                   \in versions[1].ledger.next_batch..Visible.ledger.next_batch
<1>1. Len(versions) \in DOMAIN versions /\ Visible = versions[Len(versions)]
  BY DEF Visible, Last
<1>3. 1 \in DOMAIN versions
  OBVIOUS
<1>4. \A i \in DOMAIN versions :
        versions[i].ledger \in LedgerState /\ versions[i].ledger.next_batch \in Nat
  BY VersionIsTyped DEF LedgerState
<1>5. \A i \in DOMAIN versions :
        /\ versions[1].ledger.next_batch <= versions[i].ledger.next_batch
        /\ versions[i].ledger.next_batch <= Visible.ledger.next_batch
  BY DEF OneLog, Continues
<1>6. \A i \in DOMAIN versions :
        versions[i].ledger.next_batch
          \in versions[1].ledger.next_batch..Visible.ledger.next_batch
  BY <1>1, <1>3, <1>4, <1>5
<1>7. Len(LogOf(Visible.ledger)) = Visible.ledger.next_batch
  BY <1>1, <1>4, LogIsSequence
<1>8. QED
  BY <1>1, <1>3, <1>4, <1>6, <1>7

LEMMA InitRefines == Init => Quota!Init
<1> SUFFICES ASSUME Init PROVE Quota!Init
  OBVIOUS
<1>1. versions = <<Absent>> /\ acked = 0
  BY DEF Init
<1>2. Visible = Absent /\ versions[1] = Absent
  BY <1>1, LastOfOne DEF Visible
<1>3. Visible.ledger = EmptyLedger /\ versions[1].ledger.next_batch = 0
  BY <1>2 DEF Absent, EmptyLedger
<1>4. LogOf(EmptyLedger) = <<>>
  <2>1. EmptyLedger \in LedgerState /\ EmptyLedger.next_batch = 0
    BY DEF EmptyLedger, LedgerState
  <2>2. LogOf(EmptyLedger) \in Seq(SUBSET Node) /\ Len(LogOf(EmptyLedger)) = 0
    BY <2>1, LogIsSequence
  <2>3. QED
    BY <2>2
<1>5. QED
  BY <1>1, <1>3, <1>4 DEF Quota!Init

LEMMA Stutters ==
  ASSUME UNCHANGED <<versions, acked>>
  PROVE  UNCHANGED Quota!vars
<1>1. Visible' = Visible
  BY DEF Visible
<1>2. LogOf(Visible.ledger)' = LogOf(Visible.ledger)
  BY <1>1 DEF LogOf, Receipts
<1>3. QED
  BY <1>2 DEF Quota!vars

\* Syncing the directory makes the whole log stable.
LEMMA Settles ==
  ASSUME TypeOK, OneLog, versions' = <<Visible>>
  PROVE  /\ LogOf(Visible.ledger)' = LogOf(Visible.ledger)
         /\ (versions[1].ledger.next_batch)' = Visible.ledger.next_batch
<1>1. Visible' = Visible /\ versions'[1] = Visible
  BY LastOfOne DEF Visible
<1>2. QED
  BY <1>1 DEF LogOf, Receipts

LEMMA DirectoriesRefine ==
  TypeOK /\ OneLog /\ SyncDirectories => [Quota!Next]_(Quota!vars)
<1> SUFFICES ASSUME TypeOK, OneLog, SyncDirectories PROVE [Quota!Next]_(Quota!vars)
  OBVIOUS
<1>1. acked' = acked /\ (versions' = versions \/ versions' = <<Visible>>)
  BY DEF SyncDirectories
<1>2. CASE versions' = versions
  BY <1>1, <1>2, Stutters
<1>3. CASE versions' = <<Visible>>
  <2>1. Visible.ledger.next_batch
          \in versions[1].ledger.next_batch..Len(LogOf(Visible.ledger))
    BY LogFacts DEF TypeOK
  <2>2. Quota!Stabilise
    BY <1>1, <1>3, <2>1, Settles DEF Quota!Stabilise
  <2>3. QED
    BY <2>2 DEF Quota!Next
<1>4. QED
  BY <1>1, <1>2, <1>3

LEMMA RenameRefines ==
  IInv /\ OneLog /\ SyncRename => [Quota!Next]_(Quota!vars)
<1> SUFFICES ASSUME IInv, OneLog, SyncRename PROVE [Quota!Next]_(Quota!vars)
  OBVIOUS
<1>1. TypeOK /\ versions' = <<Visible>> /\ acked' = Visible.ledger.next_batch
  BY DEF IInv, InMemory, SyncRename, SettleRename
<1>2. Visible.ledger.next_batch = Len(LogOf(Visible.ledger))
  BY <1>1, LogFacts DEF TypeOK
<1>3. Quota!Acknowledge
  BY <1>1, <1>2, Settles DEF Quota!Acknowledge
<1>4. QED
  BY <1>3 DEF Quota!Next

LEMMA ReplaceRefines ==
  IInv /\ JInv /\ KInv /\ Replace => [Quota!Next]_(Quota!vars)
<1> SUFFICES ASSUME IInv, JInv, KInv, Replace PROVE [Quota!Next]_(Quota!vars)
  OBVIOUS
<1>1. /\ TypeOK /\ OneLog /\ acked' = acked
      /\ versions \in Seq(Version) /\ versions # <<>>
      /\ versions' = Append(versions,
                       [kind |-> "ledger", ledger |-> candidate, synced |-> TRUE])
  BY DEF Replace, IInv, KInv, TypeOK
<1>2. candidate \in LedgerState /\ state = Visible.ledger
  BY ReplaceContinues
<1>3. PICK new \in Version :
        new = [kind |-> "ledger", ledger |-> candidate, synced |-> TRUE]
  BY <1>2 DEF Version
<1>4. versions'[1] = versions[1] /\ Visible' = new
  <2>1. versions' = Append(versions, new)
    BY <1>1, <1>3
  <2>2. Visible' = Last(Append(versions, new))
    BY <2>1 DEF Visible
  <2>3. versions \in Seq(Version) /\ 1 \in DOMAIN versions
    BY <1>1
  <2>4. QED
    BY <2>1, <2>2, <2>3, AppendOne
<1>5. LogOf(Visible.ledger)' = LogOf(candidate)
  BY <1>3, <1>4 DEF LogOf, Receipts
<1>6. CASE candidate = state
  BY <1>1, <1>2, <1>4, <1>5, <1>6 DEF Quota!vars
<1>7. CASE \E S \in SUBSET NodesOf(state.next_batch) :
              /\ LogOf(candidate) = Append(LogOf(state), S)
              /\ S \cap UsedNodes(state) = {}
              /\ Cardinality(UsedNodes(state) \cup S) <= Target
  <2>1. PICK S \in SUBSET NodesOf(state.next_batch) :
          /\ LogOf(candidate) = Append(LogOf(state), S)
          /\ S \cap UsedNodes(state) = {}
          /\ Cardinality(UsedNodes(state) \cup S) <= Target
    BY <1>7
  <2>2. Validate(state) /\ state \in LedgerState
    BY <1>1, StateIsWellMade DEF Replace, TypeOK, IInv, JInv, InMemory
  <2>3. Quota!Used(LogOf(state)) = UsedNodes(state) /\ Len(LogOf(state)) = state.next_batch
    BY <2>2, UsedOfLog, LogIsSequence
  <2>4. Quota!Commit(S)
    <3>1. Quota!Cardinality(UsedNodes(state) \cup S) = Cardinality(UsedNodes(state) \cup S)
      BY DEF Quota!Cardinality, Cardinality
    <3>2. QED
      BY <1>1, <1>2, <1>4, <1>5, <2>1, <2>3, <3>1 DEF Quota!Commit
  <2>5. S \in SUBSET NodesOf(Len(LogOf(Visible.ledger)))
    BY <1>2, <2>1, <2>3
  <2>6. QED
    BY <2>4, <2>5 DEF Quota!Next
<1>8. QED
  BY <1>6, <1>7, ReplaceContinues

\* A power failure keeps one of the versions: a prefix of the log, at least the stable one.
LEMMA FailureRefines ==
  DInv /\ OneLog /\ PowerFailure => [Quota!Next]_(Quota!vars)
<1> SUFFICES ASSUME DInv, OneLog, PowerFailure PROVE [Quota!Next]_(Quota!vars)
  OBVIOUS
<1>1. PICK i \in DOMAIN versions :
        versions' = <<IF versions[i].synced THEN versions[i]
                      ELSE [versions[i] EXCEPT !.kind = "torn"]>>
  BY DEF PowerFailure
<1>2. PICK v : v = versions[i]
  OBVIOUS
<1>3. /\ versions' = <<v>> /\ acked' = acked
      /\ versions \in Seq(Version) /\ versions # <<>>
  BY <1>1, <1>2 DEF PowerFailure, DInv, VersionsSound, SoundVersion
<1>4. Visible' = v /\ versions'[1] = v
  BY <1>3, LastOfOne DEF Visible
<1> DEFINE long == LogOf(Visible.ledger)
           k == v.ledger.next_batch
<1>5. /\ v.ledger \in LedgerState /\ k \in versions[1].ledger.next_batch..Len(long)
      /\ k \in Nat /\ Visible.ledger \in LedgerState
  <2>1. v.ledger \in LedgerState /\ Visible.ledger \in LedgerState
    BY <1>2, <1>3, LogFacts
  <2>2. k \in versions[1].ledger.next_batch..Len(long)
    BY <1>2, <1>3, LogFacts
  <2>3. QED
    BY <2>1, <2>2 DEF LedgerState
<1>6. LogOf(Visible.ledger)' = LogOf(v.ledger)
  BY <1>4 DEF LogOf, Receipts
<1>7. LogOf(v.ledger) = SubSeq(long, 1, k)
  <2>1. /\ LogOf(v.ledger) \in Seq(SUBSET Node) /\ Len(LogOf(v.ledger)) = k
        /\ long \in Seq(SUBSET Node) /\ Len(long) \in Nat /\ k <= Len(long)
    BY <1>5, LogIsSequence
  <2>2. \A j \in 1..k : long[j] = LogOf(v.ledger)[j]
    BY <1>2 DEF OneLog, Continues
  <2>3. /\ SubSeq(long, 1, k) \in Seq(SUBSET Node) /\ Len(SubSeq(long, 1, k)) = k
        /\ \A j \in 1..k : SubSeq(long, 1, k)[j] = long[j]
    BY <1>5, <2>1
  <2>4. \A j \in 1..k : LogOf(v.ledger)[j] = SubSeq(long, 1, k)[j]
    BY <2>2, <2>3
  <2>5. QED
    BY <2>1, <2>3, <2>4, SeqEqual
<1>8. Quota!Lose
  BY <1>3, <1>4, <1>5, <1>6, <1>7 DEF Quota!Lose
<1>9. QED
  BY <1>8 DEF Quota!Next

LEMMA StepRefines ==
  IInv /\ JInv /\ KInv /\ [Next]_vars => [Quota!Next]_(Quota!vars)
<1> SUFFICES ASSUME IInv, JInv, KInv, [Next]_vars PROVE [Quota!Next]_(Quota!vars)
  OBVIOUS
<1>1. TypeOK /\ OneLog
  BY DEF IInv, KInv
<1>2. CASE UNCHANGED <<versions, acked>>
  BY <1>2, Stutters
<1>3. CASE SyncDirectories
  BY <1>1, <1>3, DirectoriesRefine
<1>4. CASE SyncRename
  BY <1>1, <1>4, RenameRefines
<1>5. CASE Replace
  BY <1>5, ReplaceRefines
<1>6. CASE PowerFailure
  BY <1>1, <1>6, LeavesDInv, FailureRefines
<1>7. CASE UNCHANGED vars
  BY <1>2, <1>7 DEF vars, disk
<1>8. CASE Start \/ Resume \/ Restore \/ Collect \/ Finish
  BY <1>2, <1>8 DEF Start, Resume, Restore, Collect, Finish, disk
<1>9. CASE Train \/ Exercise \/ SyncFiles \/ ValidateCandidate \/ Stop
  BY <1>2, <1>9 DEF Train, Exercise, SyncFiles, ValidateCandidate, Stop, disk
<1>10. QED
  BY <1>3, <1>4, <1>5, <1>6, <1>7, <1>8, <1>9 DEF Next, Step

-----------------------------------------------------------------------------
(* The theorem *)

\* The trainer implements the quota log: batches join it in order, within the quota and
\* with no node used twice, a power failure takes back only what was not yet stable, and
\* commit returns only when the whole log is stable (run_state.py:58-71, 108-130).
THEOREM ImplementsQuotaLog == Spec => Promise
<1>1. Init => KInv
  BY InitKInv
<1>2. IInv /\ JInv /\ KInv /\ [Next]_vars => KInv'
  BY StepKInv
<1>3. IInv /\ JInv /\ KInv /\ [Next]_vars => [Quota!Next]_(Quota!vars)
  BY StepRefines
<1>4. QED
  BY <1>1, <1>2, <1>3, InitRefines, Invariance, ChainInvariance, PTL DEF Spec, Promise, Quota!Spec

-----------------------------------------------------------------------------
(* Flattening a sequence of sequences *)

LEMMA Least ==
  ASSUME NEW S, S \subseteq Nat, S # {}
  PROVE  \E n \in S : \A m \in S : n <= m
<1>1. PICK n \in S : \A m \in S : ~(<<m, n>> \in OpToRel(<, Nat))
  BY NatLessThanWellFounded, WFMin
<1>2. \A m \in S : ~(m < n)
  BY <1>1 DEF OpToRel
<1>3. QED
  BY <1>2

\* What FlattenSeq chooses: the concatenations of the first sequences.
Steps(fn, ss, k) ==
  \A i \in 1..k : fn[i] = IF i = 1 THEN ss[i] ELSE fn[i - 1] \o ss[i]

Flatten(ss) ==
  CHOOSE fn : fn = [i \in 1..Len(ss) |-> IF i = 1 THEN ss[i] ELSE fn[i - 1] \o ss[i]]

LEMMA FlattenIs ==
  ASSUME NEW ss
  PROVE  FlattenSeq(ss) = IF Len(ss) = 0 THEN ss ELSE Flatten(ss)[Len(ss)]
BY DEF FlattenSeq, Flatten

LEMMA StepsExist ==
  ASSUME NEW T, NEW ss \in Seq(Seq(T)), Len(ss) # 0
  PROVE  \E fn \in [1..Len(ss) -> Seq(T)] : Steps(fn, ss, Len(ss))
<1> DEFINE Good(k) == \E fn \in [1..k -> Seq(T)] : Steps(fn, ss, k)
           Bad == {k \in 1..Len(ss) : ~Good(k)}
<1>1. SUFFICES Bad = {}
  BY <1>1
<1>2. SUFFICES ASSUME Bad # {} PROVE FALSE
  OBVIOUS
<1>3. PICK k \in Bad : \A m \in Bad : k <= m
  <2>1. Bad \subseteq Nat
    OBVIOUS
  <2>2. QED
    BY <1>2, <2>1, Least
<1>4. k \in 1..Len(ss) /\ ~Good(k)
  BY <1>3
<1>5. \A i \in 1..Len(ss) : ss[i] \in Seq(T)
  OBVIOUS
<1>6. CASE k = 1
  <2> DEFINE g == [i \in 1..1 |-> ss[1]]
  <2>1. g \in [1..1 -> Seq(T)]
    BY <1>4, <1>5, <1>6
  <2>2. Steps(g, ss, 1)
    BY DEF Steps
  <2>3. QED
    BY <1>4, <1>6, <2>1, <2>2
<1>7. CASE k # 1
  <2>1. k - 1 \in 1..Len(ss) /\ ~(k <= k - 1)
    BY <1>4, <1>7
  <2>2. Good(k - 1)
    BY <1>3, <2>1
  <2>3. PICK fn \in [1..(k - 1) -> Seq(T)] : Steps(fn, ss, k - 1)
    BY <2>2
  <2> DEFINE g == [i \in 1..k |-> IF i = k THEN fn[k - 1] \o ss[k] ELSE fn[i]]
  <2>4. fn[k - 1] \o ss[k] \in Seq(T)
    <3>1. fn[k - 1] \in Seq(T) /\ ss[k] \in Seq(T)
      BY <1>4, <1>5, <2>1, <2>3
    <3>2. QED
      BY <3>1
  <2>5. g \in [1..k -> Seq(T)]
    <3>1. \A i \in 1..k : i # k => i \in 1..(k - 1)
      BY <1>4
    <3>2. QED
      BY <2>3, <2>4, <3>1
  <2>6. Steps(g, ss, k)
    <3>1. ASSUME NEW i \in 1..k
          PROVE  g[i] = IF i = 1 THEN ss[i] ELSE g[i - 1] \o ss[i]
      <4>1. CASE i = k
        <5>1. k \in 1..k /\ k - 1 \in 1..k /\ k - 1 # k
          BY <1>4, <2>1
        <5>2. g[k] = fn[k - 1] \o ss[k]
          BY <5>1
        <5>3. g[k - 1] = fn[k - 1]
          BY <5>1
        <5>4. QED
          BY <4>1, <5>2, <5>3, <1>7
      <4>2. CASE i # k
        <5>1. i \in 1..(k - 1) /\ g[i] = fn[i]
          BY <1>4, <4>2
        <5>2. i # 1 => g[i - 1] = fn[i - 1]
          BY <1>4, <4>2
        <5>3. fn[i] = IF i = 1 THEN ss[i] ELSE fn[i - 1] \o ss[i]
          BY <2>3, <5>1 DEF Steps
        <5>4. QED
          BY <5>1, <5>2, <5>3
      <4>3. QED
        BY <4>1, <4>2
    <3>2. QED
      BY <3>1 DEF Steps
  <2>7. QED
    BY <1>4, <2>5, <2>6
<1>8. QED
  BY <1>6, <1>7

LEMMA FlattenSteps ==
  ASSUME NEW T, NEW ss \in Seq(Seq(T)), Len(ss) # 0
  PROVE  /\ Steps(Flatten(ss), ss, Len(ss))
         /\ FlattenSeq(ss) = Flatten(ss)[Len(ss)]
<1>1. PICK fn \in [1..Len(ss) -> Seq(T)] : Steps(fn, ss, Len(ss))
  BY StepsExist
<1>2. fn = [i \in 1..Len(ss) |-> IF i = 1 THEN ss[i] ELSE fn[i - 1] \o ss[i]]
  BY <1>1 DEF Steps
<1>3. Flatten(ss) = [i \in 1..Len(ss) |-> IF i = 1 THEN ss[i] ELSE Flatten(ss)[i - 1] \o ss[i]]
  BY <1>2 DEF Flatten
<1>4. Steps(Flatten(ss), ss, Len(ss))
  BY <1>3 DEF Steps
<1>5. QED
  BY <1>4, FlattenIs

\* Nothing to concatenate.
LEMMA FlattenEmpty == FlattenSeq(<<>>) = <<>>
BY FlattenIs

AgreeTo(f, g, n) == \A i \in 1..n : f[i] = g[i]

\* The steps of a longer sequence begin like those of a shorter one.
LEMMA StepsAgree ==
  ASSUME NEW f, NEW g, NEW ss, NEW tt, NEW n \in Nat,
         Steps(f, ss, n), Steps(g, tt, n), AgreeTo(ss, tt, n)
  PROVE  AgreeTo(f, g, n)
<1>0. \A i \in 1..n : ss[i] = tt[i]
  BY DEF AgreeTo
<1> DEFINE Bad == {i \in 1..n : f[i] # g[i]}
<1>1. SUFFICES ASSUME Bad # {} PROVE FALSE
  BY DEF AgreeTo
<1>2. PICK k \in Bad : \A m \in Bad : k <= m
  <2>1. Bad \subseteq Nat
    OBVIOUS
  <2>2. QED
    BY <1>1, <2>1, Least
<1>3. k \in 1..n /\ f[k] # g[k]
  BY <1>2
<1>4. f[k] = (IF k = 1 THEN ss[k] ELSE f[k - 1] \o ss[k])
  BY <1>3 DEF Steps
<1>5. g[k] = (IF k = 1 THEN tt[k] ELSE g[k - 1] \o tt[k])
  BY <1>3 DEF Steps
<1>6. ss[k] = tt[k]
  BY <1>0, <1>3
<1>7. k # 1
  BY <1>3, <1>4, <1>5, <1>6
<1>8. k - 1 \in 1..n /\ ~(k <= k - 1)
  BY <1>3, <1>7
<1>9. f[k - 1] = g[k - 1]
  BY <1>2, <1>8
<1>10. QED
  BY <1>3, <1>4, <1>5, <1>6, <1>7, <1>9

\* What is concatenated last comes last.
LEMMA FlattenAppend ==
  ASSUME NEW T, NEW ss \in Seq(Seq(T)), NEW s \in Seq(T)
  PROVE  FlattenSeq(Append(ss, s)) = FlattenSeq(ss) \o s
<1> DEFINE tt == Append(ss, s)
           n == Len(ss)
<1>1. tt \in Seq(Seq(T)) /\ Len(tt) = n + 1 /\ n \in Nat /\ n + 1 # 0
  OBVIOUS
<1>2. tt[n + 1] = s /\ \A i \in 1..n : tt[i] = ss[i]
  OBVIOUS
<1> HIDE DEF tt
<1>3. Steps(Flatten(tt), tt, n + 1) /\ FlattenSeq(tt) = Flatten(tt)[n + 1]
  BY <1>1, FlattenSteps
<1>4. n + 1 \in 1..(n + 1) /\ (n + 1) - 1 = n /\ (n + 1 = 1 <=> n = 0)
  BY <1>1
<1>5. Flatten(tt)[n + 1] = IF n = 0 THEN s ELSE Flatten(tt)[n] \o s
  BY <1>2, <1>3, <1>4 DEF Steps
<1>6. CASE n = 0
  <2>1. ss = <<>>
    BY <1>6
  <2>2. FlattenSeq(ss) \o s = s
    BY <2>1, FlattenEmpty
  <2>3. QED
    BY <1>3, <1>5, <1>6, <2>2 DEF tt
<1>7. CASE n # 0
  <2>1. Steps(Flatten(ss), ss, n) /\ FlattenSeq(ss) = Flatten(ss)[n]
    BY <1>7, FlattenSteps
  <2>2. Steps(Flatten(tt), tt, n)
    BY <1>1, <1>3 DEF Steps
  <2>3. AgreeTo(Flatten(tt), Flatten(ss), n)
    <3>1. AgreeTo(tt, ss, n)
      BY <1>2 DEF AgreeTo
    <3>2. QED
      BY <1>1, <2>1, <2>2, <3>1, StepsAgree
  <2>4. Flatten(tt)[n] = Flatten(ss)[n]
    BY <1>1, <1>7, <2>3 DEF AgreeTo
  <2>5. QED
    BY <1>3, <1>5, <1>7, <2>1, <2>4 DEF tt
<1>8. QED
  BY <1>6, <1>7

LEMMA FlattenType ==
  ASSUME NEW T, NEW ss \in Seq(Seq(T))
  PROVE  FlattenSeq(ss) \in Seq(T)
<1>1. CASE Len(ss) = 0
  <2>1. ss = <<>>
    BY <1>1
  <2>2. FlattenSeq(ss) = <<>>
    BY <2>1, FlattenEmpty
  <2>3. <<>> \in Seq(T)
    OBVIOUS
  <2>4. QED
    BY <2>2, <2>3
<1>2. CASE Len(ss) # 0
  <2>1. Steps(Flatten(ss), ss, Len(ss)) /\ FlattenSeq(ss) = Flatten(ss)[Len(ss)]
    BY <1>2, FlattenSteps
  <2>2. PICK fn \in [1..Len(ss) -> Seq(T)] : Steps(fn, ss, Len(ss))
    BY <1>2, StepsExist
  <2>3. \A i \in 1..Len(ss) : Flatten(ss)[i] = fn[i]
    <3>1. Len(ss) \in Nat /\ AgreeTo(ss, ss, Len(ss))
      BY DEF AgreeTo
    <3>2. AgreeTo(Flatten(ss), fn, Len(ss))
      BY <2>1, <2>2, <3>1, StepsAgree
    <3>3. QED
      BY <3>2 DEF AgreeTo
  <2>4. Len(ss) \in 1..Len(ss)
    BY <1>2
  <2>5. QED
    BY <2>1, <2>2, <2>3, <2>4
<1>3. QED
  BY <1>1, <1>2

-----------------------------------------------------------------------------
(* The events of a ledger *)

EventsOfAll(u) == FlattenSeq([i \in DOMAIN u |-> EventsOf(u[i])])

LEMMA EventsOfAllIs ==
  ASSUME NEW led
  PROVE  EventsOfLedger(led) = EventsOfAll(led.updates)
BY DEF EventsOfLedger, EventsOfAll

LEMMA EventsOfIs ==
  ASSUME NEW r \in Receipt
  PROVE  /\ EventsOf(r) \in Seq(EventType) /\ EventsOf(r) # <<>>
         /\ \/ EventsOf(r) = <<Event("update", r.step, r.checkpoint)>>
            \/ /\ r.step - 1 \in Nat
               /\ EventsOf(r) = <<Event("pre", r.step - 1, r.checkpoint),
                                  Event("update", r.step, r.checkpoint)>>
<1> DEFINE update == Event("update", r.step, r.checkpoint)
           pre == Event("pre", r.step - 1, r.checkpoint)
<1>1. r.step \in Nat /\ r.checkpoint \in Attempt
  BY DEF Receipt
<1>2. update \in EventType
  BY <1>1 DEF EventType, Event
<1>3. CASE r.step - 1 \in Diagnosed
  <2>1. r.step - 1 \in Nat
    BY <1>3, TelemetryAssumption
  <2>2. pre \in EventType
    BY <1>1, <2>1 DEF EventType, Event
  <2> HIDE DEF pre, update
  <2>3. EventsOf(r) = <<pre>> \o <<update>>
    BY <1>3 DEF EventsOf, pre, update
  <2>4. <<pre>> \o <<update>> = <<pre, update>>
    <3>1. /\ <<pre>> \in Seq(EventType) /\ Len(<<pre>>) = 1 /\ <<pre>>[1] = pre
          /\ <<update>> \in Seq(EventType) /\ Len(<<update>>) = 1 /\ <<update>>[1] = update
      BY <1>2, <2>2
    <3>2. /\ <<pre>> \o <<update>> \in Seq(EventType) /\ Len(<<pre>> \o <<update>>) = 2
          /\ (<<pre>> \o <<update>>)[1] = pre /\ (<<pre>> \o <<update>>)[2] = update
      BY <3>1, ConcatProperties
    <3>3. /\ <<pre, update>> \in Seq(EventType) /\ Len(<<pre, update>>) = 2
          /\ <<pre, update>>[1] = pre /\ <<pre, update>>[2] = update
      BY <1>2, <2>2
    <3>4. 1..2 = {1, 2}
      OBVIOUS
    <3>5. QED
      BY <3>2, <3>3, <3>4, SeqEqual
  <2>5. <<pre, update>> \in Seq(EventType) /\ <<pre, update>> # <<>>
    BY <1>2, <2>2
  <2>6. QED
    BY <2>1, <2>3, <2>4, <2>5 DEF pre, update
<1>4. CASE r.step - 1 \notin Diagnosed
  <2> HIDE DEF update
  <2>1. EventsOf(r) = <<>> \o <<update>>
    BY <1>4 DEF EventsOf, update
  <2>2. <<>> \o <<update>> = <<update>>
    BY <1>2
  <2>3. <<update>> \in Seq(EventType) /\ <<update>> # <<>>
    BY <1>2
  <2>4. QED
    BY <2>1, <2>2, <2>3 DEF update
<1>5. QED
  BY <1>3, <1>4

LEMMA EventsByUpdate ==
  ASSUME NEW u \in Seq(Receipt)
  PROVE  [i \in DOMAIN u |-> EventsOf(u[i])] \in Seq(Seq(EventType))
<1> DEFINE ev(i) == EventsOf(u[i])
<1>1. DOMAIN u = 1..Len(u) /\ Len(u) \in Nat
  OBVIOUS
<1>2. \A i \in 1..Len(u) : ev(i) \in Seq(EventType)
  BY EventsOfIs
<1> HIDE DEF ev
<1>3. [i \in 1..Len(u) |-> ev(i)] \in Seq(Seq(EventType))
  BY <1>1, <1>2, IsASeq
<1>4. QED
  BY <1>1, <1>3 DEF ev

LEMMA EventsOfNone == EventsOfAll(<<>>) = <<>>
<1>1. [i \in DOMAIN <<>> |-> EventsOf(<<>>[i])] = <<>>
  OBVIOUS
<1>2. QED
  BY <1>1, FlattenEmpty DEF EventsOfAll

LEMMA EventsAreTyped ==
  ASSUME NEW u \in Seq(Receipt)
  PROVE  EventsOfAll(u) \in Seq(EventType)
BY EventsByUpdate, FlattenType DEF EventsOfAll

\* A further update adds its events at the end.
LEMMA EventsAppend ==
  ASSUME NEW u \in Seq(Receipt), NEW r \in Receipt
  PROVE  EventsOfAll(Append(u, r)) = EventsOfAll(u) \o EventsOf(r)
<1> DEFINE ss == [i \in DOMAIN u |-> EventsOf(u[i])]
           v == Append(u, r)
           tt == [i \in DOMAIN v |-> EventsOf(v[i])]
<1>1. ss \in Seq(Seq(EventType)) /\ Len(ss) = Len(u)
  <2>1. ss \in Seq(Seq(EventType))
    BY EventsByUpdate
  <2>2. DOMAIN ss = 1..Len(u) /\ Len(u) \in Nat
    OBVIOUS
  <2> HIDE DEF ss
  <2>3. QED
    BY <2>1, <2>2
<1>2. EventsOf(r) \in Seq(EventType)
  BY EventsOfIs
<1>3. v \in Seq(Receipt) /\ Len(v) = Len(u) + 1 /\ v[Len(u) + 1] = r
      /\ \A i \in 1..Len(u) : v[i] = u[i]
  OBVIOUS
<1>4. DOMAIN v = 1..(Len(u) + 1) /\ DOMAIN u = 1..Len(u) /\ Len(u) \in Nat
  BY <1>3
<1>5. tt \in Seq(Seq(EventType))
  <2> HIDE DEF v
  <2>1. QED
    BY <1>3, EventsByUpdate
<1>6. DOMAIN tt = 1..(Len(u) + 1)
  BY <1>4
<1>7. \A i \in 1..(Len(u) + 1) : tt[i] = EventsOf(v[i])
  BY <1>4
<1>8. \A i \in 1..Len(u) : ss[i] = EventsOf(u[i])
  BY <1>4
<1> HIDE DEF ss, tt, v
<1>9. Append(ss, EventsOf(r)) \in Seq(Seq(EventType))
      /\ Len(Append(ss, EventsOf(r))) = Len(u) + 1
      /\ Append(ss, EventsOf(r))[Len(u) + 1] = EventsOf(r)
      /\ \A i \in 1..Len(u) : Append(ss, EventsOf(r))[i] = ss[i]
  BY <1>1, <1>2
<1>10. Len(tt) = Len(u) + 1
  BY <1>4, <1>5, <1>6
<1>11. \A i \in 1..(Len(u) + 1) : tt[i] = Append(ss, EventsOf(r))[i]
  <2>1. ASSUME NEW i \in 1..(Len(u) + 1) PROVE tt[i] = Append(ss, EventsOf(r))[i]
    <3>1. CASE i = Len(u) + 1
      BY <3>1, <1>3, <1>7, <1>9
    <3>2. CASE i # Len(u) + 1
      <4>1. i \in 1..Len(u)
        BY <1>4, <3>2
      <4>2. QED
        BY <4>1, <1>3, <1>7, <1>8, <1>9
    <3>3. QED
      BY <3>1, <3>2
  <2>2. QED
    BY <2>1
<1>12. tt = Append(ss, EventsOf(r))
  BY <1>5, <1>9, <1>10, <1>11, SeqEqual
<1>13. FlattenSeq(tt) = FlattenSeq(ss) \o EventsOf(r)
  BY <1>1, <1>2, <1>12, FlattenAppend
<1>14. QED
  BY <1>13 DEF ss, tt, v, EventsOfAll

-----------------------------------------------------------------------------
(* No two events of a ledger have the same key *)

OnceEach(e) == \A i, j \in DOMAIN e : i # j => Key(e[i]) # Key(e[j])

UpTo(e, n) ==
  \A i \in DOMAIN e :
    \/ e[i].kind = "update" /\ e[i].step <= n
    \/ e[i].kind = "pre" /\ e[i].step < n

LEMMA KeysDiffer ==
  ASSUME NEW d \in EventType, NEW e \in EventType
  PROVE  Key(d) = Key(e) <=> d.kind = e.kind /\ d.step = e.step
BY DEF Key

LEMMA NextEvents ==
  ASSUME NEW e \in Seq(EventType), NEW r \in Receipt, NEW n \in Nat, r.step = n + 1,
         OnceEach(e), UpTo(e, n)
  PROVE  OnceEach(e \o EventsOf(r)) /\ UpTo(e \o EventsOf(r), n + 1)
<1> DEFINE t == EventsOf(r)
           f == e \o t
<1>1. t \in Seq(EventType) /\ t # <<>>
  BY EventsOfIs
<1>2. \A i \in 1..Len(t) : t[i].step \in Nat
        /\ \/ i = Len(t) /\ t[i].kind = "update" /\ t[i].step = n + 1
           \/ i = 1 /\ Len(t) = 2 /\ t[i].kind = "pre" /\ t[i].step = n
  <2>1. CASE t = <<Event("update", r.step, r.checkpoint)>>
    <3>1. Len(t) = 1 /\ t[1] = Event("update", r.step, r.checkpoint)
      BY <2>1
    <3>2. t[1].kind = "update" /\ t[1].step = n + 1
      BY <3>1 DEF Event
    <3>3. \A i \in 1..1 : i = 1
      OBVIOUS
    <3>4. QED
      BY <3>1, <3>2, <3>3
  <2>2. CASE t = <<Event("pre", r.step - 1, r.checkpoint),
                   Event("update", r.step, r.checkpoint)>>
    <3>1. Len(t) = 2 /\ t[1] = Event("pre", r.step - 1, r.checkpoint)
          /\ t[2] = Event("update", r.step, r.checkpoint)
      BY <2>2
    <3>2. t[1].kind = "pre" /\ t[1].step = n /\ t[2].kind = "update" /\ t[2].step = n + 1
      BY <3>1 DEF Event
    <3>3. \A i \in 1..2 : i = 1 \/ i = 2
      OBVIOUS
    <3>4. QED
      BY <3>1, <3>2, <3>3
  <2>3. QED
    BY <2>1, <2>2, EventsOfIs
<1> HIDE DEF t
<1>3. f \in Seq(EventType) /\ Len(f) = Len(e) + Len(t) /\ Len(e) \in Nat /\ Len(t) \in Nat
      /\ \A i \in 1..Len(f) : f[i] = IF i <= Len(e) THEN e[i] ELSE t[i - Len(e)]
  BY <1>1, ConcatProperties
<1> HIDE DEF f
<1>4. DOMAIN f = 1..Len(f) /\ DOMAIN e = 1..Len(e)
  BY <1>3
<1>5. ASSUME NEW i \in 1..Len(f), i <= Len(e)
      PROVE  /\ f[i] \in EventType /\ f[i] = e[i] /\ i \in DOMAIN e /\ f[i].step \in Nat
             /\ \/ f[i].kind = "update" /\ f[i].step <= n
                \/ f[i].kind = "pre" /\ f[i].step < n
  <2>1. i \in 1..Len(e)
    BY <1>3, <1>5
  <2>2. f[i] = e[i] /\ f[i] \in EventType
    BY <1>3, <1>5
  <2>3. f[i].step \in Nat
    BY <2>2 DEF EventType
  <2>4. QED
    BY <1>4, <2>1, <2>2, <2>3 DEF UpTo
<1>6. ASSUME NEW i \in 1..Len(f), ~(i <= Len(e))
      PROVE  /\ f[i] \in EventType
             /\ \/ i = Len(f) /\ f[i].kind = "update" /\ f[i].step = n + 1
                \/ i = Len(e) + 1 /\ Len(f) = Len(e) + 2 /\ f[i].kind = "pre" /\ f[i].step = n
  <2>1. i - Len(e) \in 1..Len(t)
    BY <1>3, <1>6
  <2>2. f[i] = t[i - Len(e)] /\ f[i] \in EventType
    <3>1. f[i] = t[i - Len(e)]
      BY <1>3, <1>6
    <3>2. f[i] \in EventType
      BY <1>3
    <3>3. QED
      BY <3>1, <3>2
  <2>3. CASE i - Len(e) = Len(t) /\ t[i - Len(e)].kind = "update" /\ t[i - Len(e)].step = n + 1
    <3>1. i = Len(f)
      BY <1>3, <2>3
    <3>2. QED
      BY <2>2, <2>3, <3>1
  <2>4. CASE i - Len(e) = 1 /\ Len(t) = 2 /\ t[i - Len(e)].kind = "pre" /\ t[i - Len(e)].step = n
    <3>1. i = Len(e) + 1 /\ Len(f) = Len(e) + 2
      BY <1>3, <2>4
    <3>2. QED
      BY <2>2, <2>4, <3>1
  <2>5. QED
    BY <1>2, <2>1, <2>3, <2>4
<1>7. UpTo(f, n + 1)
  <2>1. ASSUME NEW i \in DOMAIN f
        PROVE  \/ f[i].kind = "update" /\ f[i].step <= n + 1
               \/ f[i].kind = "pre" /\ f[i].step < n + 1
    <3>1. i \in 1..Len(f)
      BY <1>4
    <3>2. CASE i <= Len(e)
      <4>1. /\ f[i].step \in Nat
            /\ \/ f[i].kind = "update" /\ f[i].step <= n
               \/ f[i].kind = "pre" /\ f[i].step < n
        BY <1>5, <3>1, <3>2
      <4>2. f[i].step <= n => f[i].step <= n + 1
        BY <4>1
      <4>3. f[i].step < n => f[i].step < n + 1
        BY <4>1
      <4>4. QED
        BY <4>1, <4>2, <4>3
    <3>3. CASE ~(i <= Len(e))
      <4>1. \/ f[i].kind = "update" /\ f[i].step = n + 1
            \/ f[i].kind = "pre" /\ f[i].step = n
        BY <1>6, <3>1, <3>3
      <4>2. n + 1 <= n + 1 /\ n < n + 1
        OBVIOUS
      <4>3. QED
        BY <4>1, <4>2
    <3>4. QED
      BY <3>2, <3>3
  <2>2. QED
    BY <2>1 DEF UpTo
<1>8. ASSUME NEW i \in 1..Len(f), NEW j \in 1..Len(f), i < j
      PROVE  Key(f[i]) # Key(f[j])
  <2>1. CASE j <= Len(e)
    <3>1. i <= Len(e) /\ i # j
      BY <1>3, <1>8, <2>1
    <3>2. f[i] = e[i] /\ f[j] = e[j] /\ i \in DOMAIN e /\ j \in DOMAIN e
      BY <1>5, <2>1, <3>1
    <3>3. QED
      BY <3>1, <3>2 DEF OnceEach
  <2>2. CASE ~(j <= Len(e))
    <3>1. SUFFICES ASSUME f[i].kind = f[j].kind, f[i].step = f[j].step PROVE FALSE
      <4>1. f[i] \in EventType /\ f[j] \in EventType
        BY <1>3
      <4>2. QED
        BY <3>1, <4>1, KeysDiffer
    <3>2. CASE i <= Len(e)
      BY <1>5, <1>6, <2>2, <3>1, <3>2
    <3>3. CASE ~(i <= Len(e))
      BY <1>3, <1>6, <1>8, <2>2, <3>1, <3>3
    <3>4. QED
      BY <3>2, <3>3
  <2>3. QED
    BY <2>1, <2>2
<1>9. OnceEach(f)
  <2>1. ASSUME NEW i \in 1..Len(f), NEW j \in 1..Len(f), i # j
        PROVE  Key(f[i]) # Key(f[j])
    <3>1. i < j \/ j < i
      BY <2>1
    <3>2. QED
      BY <3>1, <1>8
  <2>2. QED
    BY <1>4, <2>1 DEF OnceEach
<1>10. QED
  BY <1>7, <1>9 DEF f, t

\* No key is used twice by the updates of a valid ledger.
LEMMA EventsOnce ==
  ASSUME NEW u \in Seq(Receipt), \A i \in DOMAIN u : u[i].step = i
  PROVE  OnceEach(EventsOfAll(u))
<1> DEFINE E(k) == EventsOfAll(SubSeq(u, 1, k))
           Good(k) == OnceEach(E(k)) /\ UpTo(E(k), k)
           Bad == {k \in 0..Len(u) : ~Good(k)}
<1>1. Len(u) \in 0..Len(u) /\ Len(u) \in Nat /\ SubSeq(u, 1, Len(u)) = u
  BY SubSeqFull
<1>2. SUFFICES Bad = {}
  BY <1>1, <1>2
<1>3. SUFFICES ASSUME Bad # {} PROVE FALSE
  OBVIOUS
<1>4. PICK k \in Bad : \A m \in Bad : k <= m
  <2>1. Bad \subseteq Nat
    OBVIOUS
  <2>2. QED
    BY <1>3, <2>1, Least
<1>5. k \in 0..Len(u) /\ ~Good(k)
  BY <1>4
<1>6. CASE k = 0
  <2>1. SubSeq(u, 1, 0) = <<>>
    BY SubSeqEmpty
  <2>2. E(0) = <<>>
    BY <2>1, EventsOfNone
  <2>3. OnceEach(<<>>) /\ UpTo(<<>>, 0)
    BY DEF OnceEach, UpTo
  <2>4. QED
    BY <1>5, <1>6, <2>2, <2>3
<1>7. CASE k # 0
  <2>1. k - 1 \in 0..Len(u) /\ ~(k <= k - 1) /\ k \in 1..Len(u) /\ k - 1 \in Nat
    BY <1>5, <1>7
  <2>2. Good(k - 1)
    BY <1>4, <2>1
  <2> DEFINE v == SubSeq(u, 1, k - 1)
  <2>3. v \in Seq(Receipt) /\ Len(v) = k - 1 /\ \A i \in 1..(k - 1) : v[i] = u[i]
    BY <2>1
  <2>4. u[k] \in Receipt /\ u[k].step = (k - 1) + 1
    BY <2>1
  <2>5. SubSeq(u, 1, k) = Append(v, u[k])
    <3> HIDE DEF v
    <3>1. SubSeq(u, 1, k) \in Seq(Receipt) /\ Len(SubSeq(u, 1, k)) = k
          /\ \A i \in 1..k : SubSeq(u, 1, k)[i] = u[i]
      BY <2>1
    <3>2. Append(v, u[k]) \in Seq(Receipt) /\ Len(Append(v, u[k])) = k
          /\ \A i \in 1..(k - 1) : Append(v, u[k])[i] = v[i]
      BY <2>1, <2>3, <2>4
    <3>3. Append(v, u[k])[k] = u[k]
      BY <2>1, <2>3, <2>4
    <3>4. \A i \in 1..k : Append(v, u[k])[i] = u[i]
      <4>1. \A i \in 1..k : i = k \/ i \in 1..(k - 1)
        BY <2>1
      <4>2. QED
        BY <2>3, <3>2, <3>3, <4>1
    <3>5. QED
      BY <3>1, <3>2, <3>4, SeqEqual
  <2>6. E(k) = EventsOfAll(v) \o EventsOf(u[k])
    BY <2>3, <2>4, <2>5, EventsAppend
  <2>7. EventsOfAll(v) \in Seq(EventType)
    BY <2>3, EventsAreTyped
  <2>8. OnceEach(EventsOfAll(v)) /\ UpTo(EventsOfAll(v), k - 1)
    BY <2>2
  <2> HIDE DEF v
  <2>9. OnceEach(E(k)) /\ UpTo(E(k), (k - 1) + 1)
    BY <2>1, <2>4, <2>6, <2>7, <2>8, NextEvents
  <2>10. (k - 1) + 1 = k
    BY <2>1
  <2>11. QED
    BY <1>5, <2>9, <2>10
<1>8. QED
  BY <1>6, <1>7

-----------------------------------------------------------------------------
(* The ledger of a run with telemetry *)

\* A process that cannot go on because of its telemetry.
DeadEnds == {"log unreadable", "conflict", "evidence unreadable"}

\* A commit adds one update at most.
Grows == pc \in Committing =>
  \/ candidate.updates = state.updates
  \/ \E r \in Receipts(candidate) : candidate.updates = Append(state.updates, r)

TLInv == DInv /\ (pc \notin DeadEnds => IInv) /\ Grows

LEMMA DInvKept == DInv /\ UNCHANGED <<runs, versions, store, acked>> => DInv'
<1> SUFFICES ASSUME DInv, UNCHANGED <<runs, versions, store, acked>> PROVE DInv'
  OBVIOUS
<1>1. VersionsSound' /\ SafeIsThere'
  BY DiskKept, ConstantsAssumption DEF DInv
<1>2. QED
  BY <1>1 DEF DInv

LEMMA TLInvKept == TLInv /\ UNCHANGED vars => TLInv'
<1> SUFFICES ASSUME TLInv, UNCHANGED vars PROVE TLInv'
  OBVIOUS
<1>1. UNCHANGED <<pc, runs, versions, store, state, candidate, acked>>
  BY DEF vars, disk, memory
<1>2. DInv'
  BY <1>1, DInvKept DEF TLInv
<1>3. IInv => IInv'
  BY StepIInv
<1>4. Grows'
  BY <1>1 DEF TLInv, Grows, Receipts
<1>5. QED
  BY <1>1, <1>2, <1>3, <1>4 DEF TLInv

LEMMA TelemetryInitTLInv == TelemetryInit => TLInv
<1> SUFFICES ASSUME TelemetryInit PROVE TLInv
  OBVIOUS
<1>1. Init
  BY DEF TelemetryInit
<1>2. IInv /\ DInv
  BY <1>1, InitIInv, LeavesDInv
<1>3. Grows
  BY <1>1 DEF Init, Grows, Committing, Syncing, Writing
<1>4. QED
  BY <1>2, <1>3 DEF TLInv

LEMMA AfterNext ==
  ASSUME IInv', Grows'
  PROVE  TLInv'
<1>1. DInv'
  BY LeavesDInv, PTL
<1>2. QED
  BY <1>1 DEF TLInv

LEMMA BeginTLInv == TLInv /\ (Start \/ Resume) => TLInv'
<1> SUFFICES ASSUME TLInv, Start \/ Resume PROVE TLInv'
  OBVIOUS
<1>1. pc = "down"
  BY DEF Start, Resume
<1>2. IInv
  BY <1>1 DEF TLInv, DeadEnds
<1>3. IInv'
  BY <1>2, StartIInv, ResumeIInv
<1>4. Grows'
  <2>1. CASE Start
    <3>1. state' = EmptyLedger /\ candidate' = EmptyLedger
      BY <1>1, <1>2, <2>1 DEF Start, IInv, AtRest
    <3>2. QED
      BY <3>1 DEF Grows
  <2>2. CASE Resume
    BY <2>2 DEF Resume, Grows, Committing, Syncing, Writing
  <2>3. QED
    BY <2>1, <2>2
<1>5. QED
  BY <1>3, <1>4, AfterNext

LEMMA StepIsAlive == Step => pc \notin DeadEnds
BY DEF Step, Restore, Collect, Finish, Train, Exercise, SyncFiles, SyncDirectories,
       ValidateCandidate, Replace, SyncRename, DeadEnds

LEMMA ExerciseGrows ==
  ASSUME IInv, Exercise
  PROVE  Grows'
<1>1. CASE pc' = "refused"
  BY <1>1 DEF Grows, Committing, Syncing, Writing
<1>2. CASE pc' # "refused"
  <2>1. state' = state
    BY DEF Exercise
  <2>2. PICK r : candidate' = [next_batch |-> state.next_batch + 1,
                               updates |-> Append(state.updates, r)]
    BY <1>2 DEF Exercise, BeginCommit
  <2>3. candidate'.updates = Append(state.updates, r)
    BY <2>2
  <2>4. state.updates \in Seq(Receipt \cup {r})
    <3>1. state.updates \in Seq(Receipt)
      BY DEF IInv, TypeOK, LedgerState
    <3>2. QED
      BY <3>1, SeqMonotonic
  <2>5. /\ Len(state.updates) + 1 \in DOMAIN Append(state.updates, r)
        /\ Append(state.updates, r)[Len(state.updates) + 1] = r
    BY <2>4, AppendOne
  <2>6. r \in Receipts(candidate')
    BY <2>3, <2>5 DEF Receipts, ToSet
  <2>7. r \in Receipts(candidate)'
    BY <2>6 DEF Receipts
  <2>8. QED
    BY <2>1, <2>3, <2>7 DEF Grows
<1>3. QED
  BY <1>1, <1>2

LEMMA StepTLInv == TLInv /\ Step => TLInv'
<1> SUFFICES ASSUME TLInv, Step PROVE TLInv'
  OBVIOUS
<1>1. IInv /\ Grows
  BY StepIsAlive DEF TLInv
<1>2. IInv'
  BY <1>1, StepIInv DEF Next
<1>3. Grows'
  <2>1. CASE Restore
    BY <2>1 DEF Restore, Grows, Committing, Syncing, Writing
  <2>2. CASE Finish
    BY <2>2 DEF Finish, Grows, Committing, Syncing, Writing
  <2>3. CASE Train
    BY <2>3 DEF Train, Grows, Committing, Syncing, Writing
  <2>4. CASE SyncRename
    BY <2>4 DEF SyncRename, Grows, Committing, Syncing, Writing
  <2>5. CASE Collect
    <3>1. state' = state
      BY <2>5 DEF Collect
    <3>2. pc' \in {"refused", "train"} \/ candidate'.updates = state.updates
      BY <2>5 DEF Collect, BeginCommit
    <3>3. QED
      BY <3>1, <3>2 DEF Grows, Committing, Syncing, Writing
  <2>6. CASE Exercise
    BY <1>1, <2>6, ExerciseGrows
  <2>7. CASE SyncFiles \/ SyncDirectories \/ ValidateCandidate \/ Replace
    <3>1. UNCHANGED <<state, candidate>> /\ pc \in Committing
      BY <2>7 DEF SyncFiles, SyncDirectories, ValidateCandidate, Replace, memory,
                  Committing, Syncing, Writing
    <3>2. QED
      BY <1>1, <3>1 DEF Grows, Receipts
  <2>8. QED
    BY <2>1, <2>2, <2>3, <2>4, <2>5, <2>6, <2>7 DEF Step
<1>4. QED
  BY <1>2, <1>3, AfterNext

LEMMA StopTLInv == TLInv /\ (Stop \/ PowerFailure) => TLInv'
<1> SUFFICES ASSUME TLInv, Stop \/ PowerFailure PROVE TLInv'
  OBVIOUS
<1>1. DInv
  BY DEF TLInv
<1>2. IInv'
  BY <1>1, ForgetIInv, PowerFailureDInv DEF Stop
<1>3. Grows'
  BY DEF Stop, PowerFailure, Forget, Grows, Committing, Syncing, Writing
<1>4. QED
  BY <1>2, <1>3, AfterNext

LEMMA DeadEndTLInv ==
  TLInv /\ pc' \in DeadEnds /\ UNCHANGED <<runs, disk, memory, acked>> => TLInv'
<1> SUFFICES ASSUME TLInv, pc' \in DeadEnds, UNCHANGED <<runs, disk, memory, acked>>
             PROVE  TLInv'
  OBVIOUS
<1>1. DInv'
  BY DInvKept DEF TLInv, disk
<1>2. Grows'
  BY DEF Grows, DeadEnds, Committing, Syncing, Writing
<1>3. QED
  BY <1>1, <1>2 DEF TLInv

\* A step of the run with telemetry is a step of the run, or it leaves the run as it is,
\* or a dead end is reached.
LEMMA TelemetryStepIs ==
  ASSUME TLInv, [TelemetryNext]_allVars
  PROVE  \/ UNCHANGED vars
         \/ IInv /\ Next
         \/ Stop \/ PowerFailure
         \/ pc' \in DeadEnds /\ UNCHANGED <<runs, disk, memory, acked>>
<1>1. CASE Begin
  <2>1. pc = "down" /\ Next
    BY <1>1 DEF Begin, Start, Resume, Next
  <2>2. QED
    BY <2>1 DEF TLInv, DeadEnds
<1>2. CASE RunStep
  <2>1. Step /\ Next
    BY <1>2 DEF RunStep, Next
  <2>2. QED
    BY <2>1, StepIsAlive DEF TLInv
<1>3. CASE Open
  BY <1>3 DEF Open, DeadEnds, vars
<1>4. CASE Write
  BY <1>4 DEF Write, DeadEnds, vars
<1>5. CASE Sync \/ Upload \/ SdkFails
  BY <1>5 DEF Sync, Upload, SdkFails
<1>6. CASE TelemetryStop \/ TelemetryPowerFailure
  BY <1>6 DEF TelemetryStop, TelemetryPowerFailure
<1>7. CASE UNCHANGED allVars
  BY <1>7 DEF allVars
<1>8. QED
  BY <1>1, <1>2, <1>3, <1>4, <1>5, <1>6, <1>7 DEF TelemetryNext, Progress

LEMMA TelemetryStepTLInv == TLInv /\ [TelemetryNext]_allVars => TLInv'
<1> SUFFICES ASSUME TLInv, [TelemetryNext]_allVars PROVE TLInv'
  OBVIOUS
<1>1. CASE Next
  BY <1>1, BeginTLInv, StepTLInv, StopTLInv DEF Next
<1>2. QED
  BY <1>1, TelemetryStepIs, TLInvKept, StopTLInv, DeadEndTLInv

LEMMA LedgerInvariance == TelemetrySpec => []TLInv
BY TelemetryInitTLInv, TelemetryStepTLInv, PTL DEF TelemetrySpec

\* The promises of the ledger survive telemetry: a conflict, or a log or evidence file
\* that cannot be read, kills the process between two steps of the loop and leaves no
\* ledger that --resume refuses, and none that a power failure can take a checkpoint
\* from (formal_run.py:116-118, 515-517; telemetry.py:58-75).
THEOREM StaysRecoverable == TelemetrySpec => [](Recoverable /\ CommittedIsDurable)
<1>1. TLInv => Recoverable /\ CommittedIsDurable
  BY SoundIsDurable, SoundIsRecoverable DEF TLInv
<1>2. QED
  BY LedgerInvariance, <1>1, PTL

\* A dead end keeps the ledgers that are on disk, and promises nothing else.
LEMMA DeadEndKept ==
  ASSUME JInv, KInv, versions' = versions, pc' \in DeadEnds \cup {"down"}
  PROVE  JInv' /\ KInv'
<1>1. pc' \notin Committing \cup {"loop", "train", "exercise", "refused"}
  BY DEF DeadEnds, Committing, Syncing, Writing
<1>2. LedgersWellMade'
  BY DEF JInv, LedgersWellMade, WellMade, Receipts
<1>3. JInv'
  BY <1>1, <1>2 DEF JInv, AtCommit, ChosenSound, SavedHere, CandidateSound, NeverRefused
<1>4. QED
  BY <1>1, <1>3, OutsideKInv

LEMMA TelemetryStepJInv ==
  TLInv /\ JInv /\ KInv /\ [TelemetryNext]_allVars => JInv' /\ KInv'
<1> SUFFICES ASSUME TLInv, JInv, KInv, [TelemetryNext]_allVars PROVE JInv' /\ KInv'
  OBVIOUS
<1>1. CASE UNCHANGED vars
  <2>1. UNCHANGED <<pc, versions, state, candidate>>
    BY <1>1 DEF vars, disk, memory
  <2>2. KInv'
    BY <2>1 DEF KInv, OneLog, Visible, NextBatch, Receipts
  <2>3. QED
    BY <1>1, <2>2, JInvKept
<1>2. CASE IInv /\ Next
  BY <1>2, StepJInv, StepKInv
<1>3. CASE Stop
  BY <1>3, DeadEndKept DEF Stop, Forget, disk
<1>4. CASE PowerFailure
  BY <1>4, PowerFailureJInv, PowerFailureKInv DEF TLInv
<1>5. CASE pc' \in DeadEnds /\ UNCHANGED <<runs, disk, memory, acked>>
  BY <1>5, DeadEndKept DEF disk
<1>6. QED
  BY <1>1, <1>2, <1>3, <1>4, <1>5, TelemetryStepIs

LEMMA TelemetryStepRefines ==
  TLInv /\ JInv /\ KInv /\ [TelemetryNext]_allVars => [Quota!Next]_(Quota!vars)
<1> SUFFICES ASSUME TLInv, JInv, KInv, [TelemetryNext]_allVars
             PROVE  [Quota!Next]_(Quota!vars)
  OBVIOUS
<1>1. CASE IInv /\ Next
  BY <1>1, StepRefines
<1>2. CASE PowerFailure
  BY <1>2, FailureRefines DEF TLInv, KInv
<1>3. CASE UNCHANGED <<versions, acked>>
  BY <1>3, Stutters
<1>4. QED
  BY <1>1, <1>2, <1>3, TelemetryStepIs DEF vars, disk, Stop

LEMMA ContentInvariance == TelemetrySpec => [](JInv /\ KInv)
<1>1. TelemetryInit => JInv /\ KInv
  BY InitJInv, InitKInv DEF TelemetryInit
<1>2. QED
  BY <1>1, TelemetryStepJInv, LedgerInvariance, PTL DEF TelemetrySpec

\* With telemetry the trainer still implements the quota log: events that are replayed,
\* refused or lost, and a process that they kill, neither add a batch to the log nor
\* take one back (formal_run.py:515-517; telemetry.py:58-75; run_state.py:108-130).
THEOREM TelemetryKeepsPromise == TelemetrySpec => Promise
<1>1. TelemetryInit => Quota!Init
  BY InitRefines DEF TelemetryInit
<1>2. QED
  BY <1>1, TelemetryStepRefines, LedgerInvariance, ContentInvariance, PTL
     DEF TelemetrySpec, Promise, Quota!Spec

\* With telemetry too nothing the trainer asserts about its own state fails: publication
\* ends before the next batch begins, and a process that it kills leaves no ledger on
\* which a later one would trip (formal_run.py:228-245, 475-477, 515-517).
THEOREM TelemetryRefusesNothing == TelemetrySpec => []NeverRefused
<1>1. JInv => NeverRefused
  BY DEF JInv
<1>2. QED
  BY ContentInvariance, <1>1, PTL

\* And the weights chain through every ledger that can be found, also after a stop
\* between a commit and its publication (formal_run.py:243-245, 515-517).
THEOREM TelemetryKeepsChain == TelemetrySpec => []SnapshotChain
<1>1. TLInv /\ JInv => SnapshotChain
  BY WellMadeChains DEF TLInv
<1>2. QED
  BY LedgerInvariance, ContentInvariance, <1>1, PTL

-----------------------------------------------------------------------------
(* What telemetry has in memory *)

Numbers == [at : Nat, event : EventType]

OTypes ==
  /\ opened \in BOOLEAN /\ torn \in BOOLEAN /\ sdk \in BOOLEAN
  /\ pending \in Seq(EventType) /\ log \in Seq(EventType)
  /\ sent \in Seq(Numbers) /\ cloud \in Seq(Numbers)
  /\ safe \in 0..Len(log)
  /\ seen \in 0..Len(log) /\ (opened => Len(log) - seen \in {0, 1})
  /\ pending # <<>> => opened
  /\ evidence \in [Attempt -> {"none", "cached", "kept", "torn"}]

\* Nothing is known, and nothing is committed, before the log was opened.
Closed == ~opened =>
  /\ pending = <<>> /\ seen = 0 /\ ~sdk
  /\ pc \in {"down", "restore", "log unreadable"} \cup Writing
  /\ pc \in Writing => candidate = EmptyLedger /\ state = EmptyLedger

\* The loop goes on only when every event is published.
Loaded ==
  /\ ~sdk => sent = <<>>
  /\ opened => pc \notin {"down", "log unreadable"}
  /\ pending # <<>> => pc \in {"restore", "loop", "conflict", "evidence unreadable"}
  /\ opened /\ seen < Len(log) => pending # <<>>

OInv == OTypes /\ Closed /\ Loaded

LEMMA InitOInv == TelemetryInit => OInv
<1> SUFFICES ASSUME TelemetryInit PROVE OInv
  OBVIOUS
<1> USE DEF TelemetryInit
<1>1. /\ pending \in Seq(EventType) /\ log \in Seq(EventType)
      /\ sent \in Seq(Numbers) /\ cloud \in Seq(Numbers) /\ Len(log) = 0
  BY EmptySeq
<1>2. evidence \in [Attempt -> {"none", "cached", "kept", "torn"}]
  OBVIOUS
<1>3. OTypes
  <2>1. safe \in 0..Len(log) /\ seen \in 0..Len(log)
    BY <1>1
  <2>2. opened = FALSE /\ torn = FALSE /\ sdk = FALSE /\ pending = <<>>
    OBVIOUS
  <2> HIDE DEF TelemetryInit
  <2>3. QED
    BY <1>1, <1>2, <2>1, <2>2 DEF OTypes
<1>4. Closed /\ Loaded
  BY <1>1 DEF Closed, Loaded, Writing, Init
<1>5. QED
  BY <1>3, <1>4 DEF OInv

\* The events that a commit has to publish are those of the update it adds.
LEMMA PublishedAre ==
  ASSUME TLInv, Publishes
  PROVE  \E r \in Receipt :
           /\ candidate.updates = Append(state.updates, r)
           /\ state.updates \in Seq(Receipt)
           /\ Last(candidate.updates) = r
<1>1. IInv /\ state \in LedgerState /\ candidate \in LedgerState
  BY DEF TLInv, DeadEnds, IInv, TypeOK, Publishes
<1>2. PICK r \in Receipts(candidate) : candidate.updates = Append(state.updates, r)
  BY DEF TLInv, Grows, Committing, Writing, Publishes
<1>3. r \in Receipt /\ state.updates \in Seq(Receipt)
  BY <1>1, ReceiptIsTyped DEF LedgerState
<1>4. Last(candidate.updates) = r
  <2>1. Last(Append(state.updates, r)) = r
    <3>1. /\ Len(Append(state.updates, r)) = Len(state.updates) + 1
          /\ Append(state.updates, r)[Len(state.updates) + 1] = r
      BY <1>3
    <3>2. QED
      BY <3>1 DEF Last
  <2>2. QED
    BY <1>2, <2>1
<1>5. QED
  BY <1>2, <1>3, <1>4

\* What is published after a step of the run: nothing, or the update it commits.
LEMMA PublishesLast ==
  ASSUME TLInv, RunStep
  PROVE  \/ pending' = <<>> /\ (pc # "sync rename" \/ candidate.updates = state.updates)
         \/ /\ pc = "sync rename" /\ pc' \in {"restore", "loop"}
            /\ \E r \in Receipt :
                 /\ state.updates \in Seq(Receipt)
                 /\ candidate.updates = Append(state.updates, r)
                 /\ pending' = EventsOf(r)
<1>1. CASE pc # "sync rename" \/ candidate.updates = state.updates
  <2>1. ~Publishes
    BY <1>1 DEF Publishes
  <2>2. QED
    BY <1>1, <2>1 DEF RunStep
<1>2. CASE pc = "sync rename" /\ candidate.updates # state.updates
  <2>1. SyncRename
    BY <1>2 DEF RunStep, Step, Restore, Collect, Finish, Train, Exercise, SyncFiles,
                SyncDirectories, ValidateCandidate, Replace
  <2>2. candidate' = candidate /\ pc' \in {"restore", "loop"}
    BY <2>1 DEF SyncRename
  <2>3. pending' = EventsOf(Last(candidate'.updates))
    <3>1. Publishes
      BY <1>2 DEF Publishes
    <3>2. pc' # "refused"
      BY <2>2
    <3>3. QED
      BY <3>1, <3>2 DEF RunStep
  <2>4. QED
    BY <1>2, <2>2, <2>3, PublishedAre DEF Publishes
<1>3. QED
  BY <1>1, <1>2

LEMMA RunStepOInv == TLInv /\ OInv /\ RunStep => OInv'
<1> SUFFICES ASSUME TLInv, OInv, RunStep PROVE OInv'
  OBVIOUS
<1>1. UNCHANGED <<opened, log, seen, safe, torn, sdk, sent, cloud>> /\ pending = <<>>
  BY DEF RunStep, Idle
<1>2. /\ opened \in BOOLEAN /\ torn \in BOOLEAN /\ sdk \in BOOLEAN
      /\ log \in Seq(EventType) /\ sent \in Seq(Numbers) /\ cloud \in Seq(Numbers)
      /\ safe \in 0..Len(log)
      /\ seen \in 0..Len(log) /\ (opened => Len(log) - seen \in {0, 1})
      /\ evidence \in [Attempt -> {"none", "cached", "kept", "torn"}]
  BY DEF OInv, OTypes
<1>3. opened => ~(seen < Len(log))
  BY <1>1 DEF OInv, Loaded
<1>4. pending' \in Seq(EventType) /\ (pending' # <<>> => pc' \in {"restore", "loop"})
  <2>1. CASE pending' = <<>>
    BY <2>1
  <2>2. CASE pending' # <<>>
    BY <2>2, PublishesLast, EventsOfIs
  <2>3. QED
    BY <2>1, <2>2
<1>5. evidence' \in [Attempt -> {"none", "cached", "kept", "torn"}]
  BY <1>2 DEF RunStep
<1>6. pc' # "down"
  BY DEF RunStep, Step, Restore, Collect, BeginCommit, Finish, Train, Exercise, SyncFiles,
         SyncDirectories, ValidateCandidate, Replace, SyncRename
<1>7. (pending' # <<>> => opened) /\ Closed'
  <2>1. CASE opened
    BY <1>1, <2>1 DEF Closed
  <2>2. CASE ~opened
    <3>1. pc # "restore"
      BY <2>2 DEF RunStep, Idle
    <3>2. pc \in Writing /\ candidate = EmptyLedger /\ state = EmptyLedger
      BY <2>2, <3>1 DEF OInv, Closed, RunStep, Step, Restore, Collect, Finish, Train,
         Exercise, SyncFiles, SyncDirectories, ValidateCandidate, Replace, SyncRename
    <3>3. ~Publishes
      BY <3>2 DEF Publishes
    <3>4. pending' = <<>>
      BY <3>3 DEF RunStep
    <3>5. \/ pc' = "sync rename" /\ UNCHANGED <<candidate, state>>
          \/ pc' = "restore"
      BY <3>2 DEF RunStep, Step, Restore, Collect, Finish, Train, Exercise, SyncFiles,
         SyncDirectories, ValidateCandidate, Replace, SyncRename, Writing, memory
    <3>6. QED
      BY <1>1, <2>2, <3>2, <3>4, <3>5 DEF Closed, OInv, Writing
  <2>3. QED
    BY <2>1, <2>2
<1>8. OTypes'
  BY <1>1, <1>2, <1>4, <1>5, <1>7 DEF OTypes
<1>9. Loaded'
  <2>1. pc' # "log unreadable"
    BY DEF RunStep, Step, Restore, Collect, BeginCommit, Finish, Train, Exercise, SyncFiles,
           SyncDirectories, ValidateCandidate, Replace, SyncRename
  <2>2. ~sdk => sent = <<>>
    BY DEF OInv, Loaded
  <2>3. QED
    BY <1>1, <1>3, <1>4, <1>6, <2>1, <2>2 DEF Loaded
<1>10. QED
  BY <1>7, <1>8, <1>9 DEF OInv

LEMMA BeginOInv == TLInv /\ OInv /\ Begin => OInv'
<1> SUFFICES ASSUME TLInv, OInv, Begin PROVE OInv'
  OBVIOUS
<1>1. UNCHANGED telemetry /\ pc = "down"
  BY DEF Begin, Start, Resume
<1>2. UNCHANGED <<opened, pending, log, seen, safe, torn, evidence, sdk, sent, cloud>>
  BY <1>1 DEF telemetry
<1>3. OTypes'
  BY <1>2 DEF OInv, OTypes
<1>4. ~opened
  BY <1>1 DEF OInv, Loaded
<1>5. Closed'
  <2>1. CASE Start
    <3>1. IInv
      BY <1>1 DEF TLInv, DeadEnds
    <3>2. state' = EmptyLedger /\ candidate' = EmptyLedger /\ pc' = "replace"
      BY <1>1, <2>1, <3>1 DEF Start, IInv, AtRest
    <3>3. QED
      BY <1>2, <1>4, <3>2 DEF OInv, Closed, Writing
  <2>2. CASE Resume
    <3>1. pc' = "restore"
      BY <2>2 DEF Resume
    <3>2. QED
      BY <1>2, <1>4, <3>1 DEF OInv, Closed, Writing
  <2>3. QED
    BY <2>1, <2>2 DEF Begin
<1>6. Loaded'
  BY <1>2, <1>4 DEF OInv, Loaded, OTypes
<1>7. QED
  BY <1>3, <1>5, <1>6 DEF OInv

\* What Open hands to W&B again.
Resent == [k \in 1..(Len(log) + 1 - FirstUnsent) |-> Numbered(FirstUnsent + k - 1)]

LEMMA OpenIs ==
  ASSUME Open, ~torn
  PROVE  /\ pc = "restore" /\ ~opened /\ opened' = TRUE /\ seen' = Len(log)
         /\ pending' = EventsOfLedger(state)
         /\ \/ sdk' = TRUE /\ sent' = Resent
            \/ sdk' = FALSE /\ sent' = <<>>
         /\ UNCHANGED <<vars, log, safe, torn, evidence, cloud, outage>>
BY DEF Open, Resent, LinesRead, Replayed, vars

LEMMA ResentIsTyped ==
  ASSUME log \in Seq(EventType), cloud \in Seq(Numbers)
  PROVE  Resent \in Seq(Numbers)
<1> DEFINE n == Len(log) - Len(cloud)
           f(k) == Numbered(Len(cloud) + k)
<1>1. Len(log) \in Nat /\ Len(cloud) \in Nat /\ n \in Int
  OBVIOUS
<1>2. \A k \in 1..n : f(k) \in Numbers
  <2>1. ASSUME NEW k \in 1..n PROVE f(k) \in Numbers
    <3>1. Len(cloud) + k \in 1..Len(log)
      BY <1>1
    <3>2. QED
      BY <3>1 DEF Numbered, Numbers
  <2>2. QED
    BY <2>1
<1>3. Resent = [k \in 1..n |-> f(k)]
  <2>1. Len(log) + 1 - FirstUnsent = n
    BY <1>1 DEF FirstUnsent
  <2>2. \A k \in 1..n : FirstUnsent + k - 1 = Len(cloud) + k
    BY <1>1 DEF FirstUnsent
  <2> HIDE DEF n
  <2>3. QED
    BY <2>1, <2>2 DEF Resent
<1> HIDE DEF f
<1>4. CASE n \in Nat
  BY <1>2, <1>3, <1>4, IsASeq
<1>5. CASE n \notin Nat
  <2>1. 1..n = 1..0 /\ 0 \in Nat
    BY <1>1, <1>5
  <2> HIDE DEF n
  <2>2. \A k \in 1..0 : f(k) \in Numbers
    OBVIOUS
  <2>3. [k \in 1..0 |-> f(k)] \in Seq(Numbers)
    BY <2>1, <2>2, IsASeq
  <2>4. QED
    BY <1>3, <2>1, <2>3
<1>6. QED
  BY <1>4, <1>5

LEMMA OpenOInv == TLInv /\ OInv /\ Open => OInv'
<1> SUFFICES ASSUME TLInv, OInv, Open PROVE OInv'
  OBVIOUS
<1>1. CASE torn
  <2>1. /\ pc' = "log unreadable" /\ pc = "restore" /\ ~opened
        /\ UNCHANGED <<opened, pending, log, seen, safe, torn, evidence, sdk, sent, cloud>>
    BY <1>1 DEF Open
  <2>2. OTypes'
    BY <2>1 DEF OInv, OTypes
  <2>3. Closed'
    BY <2>1 DEF OInv, Closed, Writing
  <2>4. Loaded'
    BY <2>1 DEF OInv, OTypes, Loaded
  <2>5. QED
    BY <2>2, <2>3, <2>4 DEF OInv
<1>2. CASE ~torn
  <2>1. /\ pc = "restore" /\ ~opened /\ opened' = TRUE /\ seen' = Len(log)
        /\ pending' = EventsOfLedger(state)
        /\ \/ sdk' = TRUE /\ sent' = Resent
           \/ sdk' = FALSE /\ sent' = <<>>
        /\ UNCHANGED <<pc, log, safe, torn, evidence, cloud>>
    BY <1>2, OpenIs DEF vars
  <2>2. IInv
    BY <2>1 DEF TLInv, DeadEnds
  <2>3. pending' \in Seq(EventType)
    <3>1. state.updates \in Seq(Receipt)
      BY <2>2 DEF IInv, TypeOK, LedgerState
    <3>2. QED
      BY <2>1, <3>1, EventsOfAllIs, EventsAreTyped
  <2>4. sent' \in Seq(Numbers)
    <3>1. Resent \in Seq(Numbers) /\ <<>> \in Seq(Numbers)
      BY ResentIsTyped, EmptySeq DEF OInv, OTypes
    <3>2. QED
      BY <2>1, <3>1
  <2>5. Len(log) \in 0..Len(log) /\ Len(log) - Len(log) \in {0, 1} /\ ~(Len(log) < Len(log))
    BY DEF OInv, OTypes
  <2>6. OTypes'
    BY <2>1, <2>3, <2>4, <2>5 DEF OInv, OTypes
  <2>7. Closed'
    BY <2>1 DEF Closed
  <2>8. Loaded'
    BY <2>1, <2>5 DEF Loaded
  <2>9. QED
    BY <2>6, <2>7, <2>8 DEF OInv
<1>3. QED
  BY <1>1, <1>2

\* The four outcomes of Write.
LEMMA WriteIs ==
  ASSUME Write
  PROVE  /\ pending # <<>> /\ seen = Len(log) /\ pc \notin {"conflict", "evidence unreadable"}
         /\ UNCHANGED <<runs, disk, memory, acked, opened, seen, safe, torn, evidence, sdk,
                        sent, cloud, outage>>
         /\ \/ /\ pc' = "evidence unreadable"
               /\ UNCHANGED <<log, pending>>
            \/ /\ pc' = "conflict" /\ UNCHANGED <<log, pending>>
               /\ \E i \in Logged(Head(pending)) : log[i] # Head(pending)
            \/ /\ pending' = Tail(pending) /\ UNCHANGED <<log, pc>>
               /\ Logged(Head(pending)) # {}
               /\ \A i \in Logged(Head(pending)) : log[i] = Head(pending)
            \/ /\ log' = Append(log, Head(pending)) /\ UNCHANGED <<pending, pc>>
               /\ Logged(Head(pending)) = {}
BY DEF Write

LEMMA WriteOInv == TLInv /\ OInv /\ Write => OInv'
<1> SUFFICES ASSUME TLInv, OInv, Write PROVE OInv'
  OBVIOUS
<1>1. /\ pending # <<>> /\ seen = Len(log)
      /\ UNCHANGED <<opened, seen, safe, torn, evidence, sdk, sent, cloud>>
  BY WriteIs
<1>2. opened /\ pc \in {"restore", "loop", "conflict", "evidence unreadable"}
  BY <1>1 DEF OInv, OTypes, Loaded
<1>3. Head(pending) \in EventType /\ Tail(pending) \in Seq(EventType)
      /\ pending \in Seq(EventType) /\ log \in Seq(EventType) /\ Len(log) \in Nat
  BY <1>1 DEF OInv, OTypes
<1>4. \/ pc' \in {"conflict", "evidence unreadable"} /\ UNCHANGED <<log, pending>>
      \/ pending' = Tail(pending) /\ UNCHANGED <<log, pc>>
      \/ log' = Append(log, Head(pending)) /\ UNCHANGED <<pending, pc>>
  BY WriteIs
<1>5. /\ pending' \in Seq(EventType) /\ log' \in Seq(EventType)
      /\ log' = log \/ (Len(log') = Len(log) + 1 /\ pending' = pending)
  <2>1. Append(log, Head(pending)) \in Seq(EventType)
        /\ Len(Append(log, Head(pending))) = Len(log) + 1
    BY <1>3
  <2>2. CASE log' = log
    BY <1>3, <1>4, <2>2
  <2>3. CASE log' = Append(log, Head(pending)) /\ pending' = pending
    BY <1>3, <2>1, <2>3
  <2>4. QED
    BY <1>4, <2>2, <2>3
<1>6. pc' \in {"restore", "loop", "conflict", "evidence unreadable"}
  BY <1>2, <1>4
<1>7. /\ safe \in 0..Len(log') /\ seen \in 0..Len(log') /\ Len(log') - seen \in {0, 1}
      /\ seen < Len(log') => pending' # <<>>
  <2>1. safe \in 0..Len(log)
    BY DEF OInv, OTypes
  <2>2. CASE log' = log
    BY <1>1, <1>3, <2>1, <2>2
  <2>3. CASE Len(log') = Len(log) + 1 /\ pending' = pending
    BY <1>1, <1>3, <2>1, <2>3
  <2>4. QED
    BY <1>5, <2>2, <2>3
<1>8. OTypes'
  BY <1>1, <1>2, <1>5, <1>7 DEF OInv, OTypes
<1>9. Closed'
  BY <1>1, <1>2 DEF Closed
<1>10. Loaded'
  BY <1>1, <1>2, <1>6, <1>7 DEF OInv, Loaded
<1>11. QED
  BY <1>8, <1>9, <1>10 DEF OInv

LEMMA SyncOInv == OInv /\ Sync => OInv'
<1> SUFFICES ASSUME OInv, Sync PROVE OInv'
  OBVIOUS
<1>1. /\ opened /\ seen < Len(log) /\ safe' = Len(log) /\ seen' = Len(log)
      /\ pending' = Tail(pending)
      /\ sent' = IF sdk THEN Append(sent, Numbered(Len(log))) ELSE sent
      /\ UNCHANGED <<pc, state, candidate, opened, log, torn, evidence, sdk, cloud>>
  BY DEF Sync, vars, memory
<1>2. pending # <<>> /\ pending \in Seq(EventType) /\ log \in Seq(EventType)
      /\ sent \in Seq(Numbers) /\ seen \in 0..Len(log)
  BY <1>1 DEF OInv, OTypes, Loaded
<1>3. Tail(pending) \in Seq(EventType)
  BY <1>2
<1>4. Len(log) \in 1..Len(log) /\ Len(log) \in 0..Len(log) /\ Len(log) - Len(log) \in {0, 1}
      /\ ~(Len(log) < Len(log))
  BY <1>1, <1>2
<1>5. sent' \in Seq(Numbers)
  <2>1. Numbered(Len(log)) \in Numbers
    BY <1>2, <1>4 DEF Numbered, Numbers
  <2>2. QED
    BY <1>1, <1>2, <2>1
<1>6. OTypes'
  BY <1>1, <1>3, <1>4, <1>5 DEF OInv, OTypes
<1>7. Closed'
  BY <1>1 DEF Closed
<1>8. Loaded'
  BY <1>1, <1>2, <1>4 DEF OInv, Loaded
<1>9. QED
  BY <1>6, <1>7, <1>8 DEF OInv

LEMMA UploadIs ==
  ASSUME OInv, Upload
  PROVE  /\ sent # <<>> /\ sent' = Tail(sent) /\ sent' \in Seq(Numbers)
         /\ cloud' \in Seq(Numbers)
         /\ cloud' = IF Head(sent).at > Len(cloud) THEN Append(cloud, Head(sent)) ELSE cloud
         /\ UNCHANGED <<vars, opened, pending, log, seen, safe, torn, evidence, sdk, outage>>
<1>1. /\ sent # <<>> /\ sent' = Tail(sent)
      /\ cloud' = IF Head(sent).at > Len(cloud) THEN Append(cloud, Head(sent)) ELSE cloud
      /\ UNCHANGED <<vars, opened, pending, log, seen, safe, torn, evidence, sdk, outage>>
  BY DEF Upload
<1>2. sent \in Seq(Numbers) /\ cloud \in Seq(Numbers)
  BY DEF OInv, OTypes
<1>3. Head(sent) \in Numbers /\ Tail(sent) \in Seq(Numbers)
  BY <1>1, <1>2
<1>4. cloud' \in Seq(Numbers)
  BY <1>1, <1>2, <1>3
<1>5. QED
  BY <1>1, <1>3, <1>4

LEMMA UploadOInv == OInv /\ Upload => OInv'
<1> SUFFICES ASSUME OInv, Upload PROVE OInv'
  OBVIOUS
<1>1. /\ sent' \in Seq(Numbers) /\ cloud' \in Seq(Numbers)
      /\ sent # <<>>
      /\ UNCHANGED <<pc, state, candidate, opened, pending, log, seen, safe, torn, evidence,
                     sdk>>
  BY UploadIs DEF vars, memory
<1>2. OTypes'
  BY <1>1 DEF OInv, OTypes
<1>3. Closed' /\ Loaded'
  BY <1>1 DEF OInv, Closed, Loaded
<1>4. QED
  BY <1>2, <1>3 DEF OInv

LEMMA SdkFailsOInv == OInv /\ SdkFails => OInv'
<1> SUFFICES ASSUME OInv, SdkFails PROVE OInv'
  OBVIOUS
<1>1. /\ sdk' = FALSE /\ sent' = <<>> /\ <<>> \in Seq(Numbers)
      /\ UNCHANGED <<pc, state, candidate, opened, pending, log, seen, safe, torn, evidence,
                     cloud>>
  BY EmptySeq DEF SdkFails, vars, memory
<1>2. OTypes'
  BY <1>1 DEF OInv, OTypes
<1>3. Closed' /\ Loaded'
  BY <1>1 DEF OInv, Closed, Loaded
<1>4. QED
  BY <1>2, <1>3 DEF OInv

LEMMA ForgetOInv ==
  ASSUME OInv, Forget, ForgetTelemetry,
         cloud' = cloud, log' \in Seq(EventType), safe' \in 0..Len(log'), torn' \in BOOLEAN,
         evidence' \in [Attempt -> {"none", "cached", "kept", "torn"}]
  PROVE  OInv'
<1>1. /\ opened' = FALSE /\ pending' = <<>> /\ seen' = 0 /\ sdk' = FALSE /\ sent' = <<>>
      /\ pc' = "down"
  BY DEF Forget, ForgetTelemetry
<1>2. <<>> \in Seq(Numbers) /\ <<>> \in Seq(EventType) /\ 0 \in 0..Len(log')
  BY EmptySeq
<1>3. OTypes'
  BY <1>1, <1>2 DEF OInv, OTypes
<1>4. Closed' /\ Loaded'
  BY <1>1 DEF Closed, Loaded, Writing
<1>5. QED
  BY <1>3, <1>4 DEF OInv

\* What a power failure leaves of the log: its first lines.
LEMMA LogAfterFailure ==
  ASSUME OInv, TelemetryPowerFailure
  PROVE  /\ log' \in Seq(EventType) /\ Len(log') <= Len(log) /\ Len(log') \in Nat
         /\ \A i \in 1..Len(log') : log'[i] = log[i]
         /\ torn' \in BOOLEAN
<1>1. log \in Seq(EventType) /\ safe \in 0..Len(log) /\ torn \in BOOLEAN /\ Len(log) \in Nat
  BY DEF OInv, OTypes
<1>2. CASE log' = <<>> /\ torn' = FALSE
  <2>1. <<>> \in Seq(EventType) /\ Len(<<>>) = 0 /\ 1..0 = {}
    BY EmptySeq
  <2>2. torn' \in BOOLEAN
    BY <1>2
  <2>3. log' \in Seq(EventType) /\ Len(log') = 0
    BY <1>2, <2>1
  <2>4. QED
    BY <1>1, <2>1, <2>2, <2>3
<1>3. CASE \E k \in safe..Len(log) :
             log' = SubSeq(log, 1, k) /\ torn' \in {torn, k < Len(log)}
  <2>1. PICK k \in safe..Len(log) :
          log' = SubSeq(log, 1, k) /\ torn' \in {torn, k < Len(log)}
    BY <1>3
  <2>2. k \in 0..Len(log)
    BY <1>1
  <2>3. log' \in Seq(EventType) /\ Len(log') = k /\ \A i \in 1..k : log'[i] = log[i]
    BY <1>1, <2>1, <2>2
  <2>4. torn' \in BOOLEAN
    <3>1. (k < Len(log)) \in BOOLEAN
      OBVIOUS
    <3>2. QED
      BY <1>1, <2>1, <3>1
  <2>5. QED
    BY <1>1, <2>2, <2>3, <2>4
<1>4. QED
  BY <1>2, <1>3 DEF TelemetryPowerFailure

LEMMA StopOInv == OInv /\ (TelemetryStop \/ TelemetryPowerFailure) => OInv'
<1> SUFFICES ASSUME OInv, TelemetryStop \/ TelemetryPowerFailure PROVE OInv'
  OBVIOUS
<1>1. CASE TelemetryStop
  <2>1. /\ Forget /\ ForgetTelemetry
        /\ UNCHANGED <<log, safe, torn, evidence, cloud>>
    BY <1>1 DEF TelemetryStop, Stop
  <2>2. /\ log' \in Seq(EventType) /\ safe' \in 0..Len(log') /\ torn' \in BOOLEAN
        /\ evidence' \in [Attempt -> {"none", "cached", "kept", "torn"}]
    BY <2>1 DEF OInv, OTypes
  <2>3. QED
    BY <2>1, <2>2, ForgetOInv
<1>2. CASE TelemetryPowerFailure
  <2>1. Forget /\ ForgetTelemetry /\ cloud' = cloud /\ safe' = Len(log')
    BY <1>2 DEF TelemetryPowerFailure, PowerFailure
  <2>2. log' \in Seq(EventType) /\ torn' \in BOOLEAN /\ Len(log') \in Nat
    BY <1>2, LogAfterFailure
  <2>3. evidence' \in [Attempt -> {"none", "cached", "kept", "torn"}]
    <3>1. PICK lost \in SUBSET {a \in Attempt : evidence[a] = "cached"} :
            evidence' = [a \in Attempt |->
              CASE a \in lost -> "torn"
                [] evidence[a] = "cached" /\ a \notin lost -> "kept"
                [] OTHER -> evidence[a]]
      BY <1>2 DEF TelemetryPowerFailure
    <3>2. evidence \in [Attempt -> {"none", "cached", "kept", "torn"}]
      BY DEF OInv, OTypes
    <3>3. QED
      BY <3>1, <3>2
  <2>4. safe' \in 0..Len(log')
    BY <2>1, <2>2
  <2>5. QED
    BY <2>1, <2>2, <2>3, <2>4, ForgetOInv
<1>3. QED
  BY <1>1, <1>2

LEMMA TelemetryStepOInv == TLInv /\ OInv /\ [TelemetryNext]_allVars => OInv'
<1> SUFFICES ASSUME TLInv, OInv, [TelemetryNext]_allVars PROVE OInv'
  OBVIOUS
<1>1. CASE UNCHANGED allVars
  <2>1. UNCHANGED <<pc, state, candidate, opened, pending, log, seen, safe, torn, evidence,
                    sdk, sent, cloud>>
    BY <1>1 DEF allVars, vars, memory, telemetry
  <2>2. OTypes'
    BY <2>1 DEF OInv, OTypes
  <2>3. Closed' /\ Loaded'
    BY <2>1 DEF OInv, Closed, Loaded
  <2>4. QED
    BY <2>2, <2>3 DEF OInv
<1>2. QED
  BY <1>1, BeginOInv, RunStepOInv, OpenOInv, WriteOInv, SyncOInv, UploadOInv, SdkFailsOInv,
     StopOInv DEF TelemetryNext, Progress

LEMMA LoadedInvariance == TelemetrySpec => []OInv
BY InitOInv, TelemetryStepOInv, LedgerInvariance, PTL DEF TelemetrySpec

-----------------------------------------------------------------------------
(* The log and W&B *)

\* Only an event that has not been logged, or a power failure, changes the log.
LEMMA LogChanges ==
  ASSUME [TelemetryNext]_allVars
  PROVE  \/ log' = log
         \/ /\ Write /\ log' = Append(log, Head(pending)) /\ Logged(Head(pending)) = {}
            /\ UNCHANGED <<vars, opened, pending, seen, safe, torn, evidence, sdk, sent,
                           cloud, outage>>
         \/ TelemetryPowerFailure
<1>1. CASE Write
  BY <1>1, WriteIs DEF vars
<1>2. CASE ~Write
  BY <1>2 DEF TelemetryNext, Progress, Begin, RunStep, Open, Sync, Upload, SdkFails,
              TelemetryStop, telemetry, allVars
<1>3. QED
  BY <1>1, <1>2

\* The history of power failures.
LEMMA OutageIs ==
  ASSUME [TelemetryNext]_allVars
  PROVE  (outage' = outage /\ ~TelemetryPowerFailure) \/ (outage' = TRUE /\ TelemetryPowerFailure)
<1>1. CASE TelemetryPowerFailure
  BY <1>1 DEF TelemetryPowerFailure
<1>2. CASE ~TelemetryPowerFailure
  <2>1. Begin => outage' = outage
    BY DEF Begin
  <2>2. RunStep => outage' = outage
    BY DEF RunStep
  <2>3. Open => outage' = outage
    BY DEF Open
  <2>4. Write => outage' = outage
    BY DEF Write
  <2>5. Sync \/ Upload \/ SdkFails \/ TelemetryStop => outage' = outage
    BY DEF Sync, Upload, SdkFails, TelemetryStop
  <2>6. UNCHANGED allVars => outage' = outage
    BY DEF allVars
  <2>7. QED
    BY <1>2, <2>1, <2>2, <2>3, <2>4, <2>5, <2>6 DEF TelemetryNext, Progress
<1>3. QED
  BY <1>1, <1>2

LEMMA StepOncePerKey == OInv /\ OncePerKey /\ [TelemetryNext]_allVars => OncePerKey'
<1> SUFFICES ASSUME OInv, OncePerKey, [TelemetryNext]_allVars PROVE OncePerKey'
  OBVIOUS
<1>0. log \in Seq(EventType) /\ pending \in Seq(EventType) /\ Len(log) \in Nat
  BY DEF OInv, OTypes
<1>1. CASE log' = log
  BY <1>1 DEF OncePerKey
<1>2. CASE Write /\ log' = Append(log, Head(pending)) /\ Logged(Head(pending)) = {}
  <2> DEFINE e == Head(pending)
  <2>1. pending # <<>> /\ seen = Len(log)
    BY <1>2, WriteIs
  <2>2. e \in EventType
    BY <1>0, <2>1
  <2>3. \A i \in 1..Len(log) : Key(log[i]) # Key(e)
    BY <1>2, <2>1 DEF Logged
  <2> HIDE DEF e
  <2>4. /\ log' \in Seq(EventType) /\ DOMAIN log' = 1..(Len(log) + 1)
        /\ log'[Len(log) + 1] = e /\ \A i \in 1..Len(log) : log'[i] = log[i]
    BY <1>0, <1>2, <2>2 DEF e
  <2>5. ASSUME NEW i \in 1..(Len(log) + 1), NEW j \in 1..(Len(log) + 1), i < j
        PROVE  Key(log'[i]) # Key(log'[j])
    <3>1. i \in 1..Len(log) /\ log'[i] = log[i]
      BY <1>0, <2>4, <2>5
    <3>2. CASE j = Len(log) + 1
      BY <2>3, <2>4, <3>1, <3>2
    <3>3. CASE j # Len(log) + 1
      <4>1. j \in 1..Len(log) /\ log'[j] = log[j] /\ i # j
        BY <1>0, <2>4, <2>5, <3>3
      <4>2. i \in DOMAIN log /\ j \in DOMAIN log
        BY <1>0, <3>1, <4>1
      <4>3. QED
        BY <3>1, <4>1, <4>2 DEF OncePerKey
    <3>4. QED
      BY <3>2, <3>3
  <2>6. ASSUME NEW i \in 1..(Len(log) + 1), NEW j \in 1..(Len(log) + 1), i # j
        PROVE  Key(log'[i]) # Key(log'[j])
    <3>1. i < j \/ j < i
      BY <2>6
    <3>2. QED
      BY <2>5, <3>1
  <2>7. QED
    BY <2>4, <2>6 DEF OncePerKey
<1>3. CASE TelemetryPowerFailure
  <2>1. /\ log' \in Seq(EventType) /\ Len(log') <= Len(log) /\ Len(log') \in Nat
        /\ \A i \in 1..Len(log') : log'[i] = log[i]
    BY <1>3, LogAfterFailure
  <2>2. DOMAIN log' = 1..Len(log')
    BY <2>1
  <2>3. \A i \in 1..Len(log') : i \in DOMAIN log
    BY <1>0, <2>1
  <2>4. QED
    BY <2>1, <2>2, <2>3 DEF OncePerKey
<1>4. QED
  BY <1>1, <1>2, <1>3, LogChanges

\* No event is logged under a key that the log has already, though every start
\* publishes every update again (telemetry.py:66-69).
THEOREM LoggedOnce == TelemetrySpec => []OncePerKey
<1>1. TelemetryInit => OncePerKey
  BY DEF TelemetryInit, OncePerKey
<1>2. QED
  BY <1>1, StepOncePerKey, LoadedInvariance, PTL DEF TelemetrySpec

-----------------------------------------------------------------------------

NumberedIn(l, i) == [at |-> i, event |-> l[i]]

\* What was handed over and not uploaded is the part of the log that W&B still misses.
InOrder ==
  sdk => /\ Len(cloud) + Len(sent) = seen
         /\ \A k \in 1..Len(sent) : sent[k] = NumberedIn(log, Len(cloud) + k)

Uploading == ~outage => CloudFollowsLog /\ InOrder

LEMMA NumberedKept ==
  ASSUME OInv, log' = log \/ (log' = Append(log, Head(pending)) /\ pending # <<>>)
  PROVE  \A i \in 1..Len(log) : NumberedIn(log', i) = NumberedIn(log, i)
<1>1. log \in Seq(EventType) /\ pending \in Seq(EventType)
  BY DEF OInv, OTypes
<1>2. CASE log' = log
  BY <1>2 DEF NumberedIn
<1>3. CASE log' = Append(log, Head(pending)) /\ pending # <<>>
  <2>1. Head(pending) \in EventType
    BY <1>1, <1>3
  <2>2. \A i \in 1..Len(log) : log'[i] = log[i]
    BY <1>1, <1>3, <2>1
  <2>3. QED
    BY <2>2 DEF NumberedIn
<1>4. QED
  BY <1>2, <1>3

LEMMA FollowsIs ==
  ASSUME OInv, ~outage
  PROVE  CloudFollowsLog <=> /\ Len(cloud) <= Len(log)
                             /\ \A i \in 1..Len(cloud) : cloud[i] = NumberedIn(log, i)
<1>1. DOMAIN cloud = 1..Len(cloud)
  BY DEF OInv, OTypes
<1>2. QED
  BY <1>1 DEF CloudFollowsLog, Numbered, NumberedIn

LEMMA UploadUploading ==
  ASSUME OInv, OInv', Uploading, Upload, ~outage
  PROVE  Uploading'
<1>0. /\ cloud \in Seq(Numbers) /\ sent \in Seq(Numbers) /\ Len(cloud) \in Nat /\ Len(sent) \in Nat
      /\ seen \in 0..Len(log) /\ Len(log) \in Nat
  BY DEF OInv, OTypes
<1>1. /\ sent # <<>> /\ sent' = Tail(sent)
      /\ cloud' = IF Head(sent).at > Len(cloud) THEN Append(cloud, Head(sent)) ELSE cloud
      /\ UNCHANGED <<log, seen, sdk, outage>>
  BY UploadIs
<1>2. sdk
  BY <1>1 DEF OInv, Loaded
<1>3. /\ Len(cloud) + Len(sent) = seen
      /\ \A k \in 1..Len(sent) : sent[k] = NumberedIn(log, Len(cloud) + k)
      /\ Len(cloud) <= Len(log)
      /\ \A i \in 1..Len(cloud) : cloud[i] = NumberedIn(log, i)
  BY <1>2, FollowsIs DEF Uploading, InOrder
<1>4. Len(sent) > 0 /\ 1 \in 1..Len(sent) /\ Head(sent) = sent[1]
  BY <1>0, <1>1
<1>5. Head(sent) = NumberedIn(log, Len(cloud) + 1)
  BY <1>3, <1>4
<1>6. Head(sent).at = Len(cloud) + 1
  BY <1>5 DEF NumberedIn
<1>7. Head(sent) \in Numbers
  BY <1>0, <1>1
<1>8. cloud' = Append(cloud, Head(sent))
  BY <1>0, <1>1, <1>6
<1>9. /\ Len(cloud') = Len(cloud) + 1 /\ cloud'[Len(cloud) + 1] = Head(sent)
      /\ \A i \in 1..Len(cloud) : cloud'[i] = cloud[i]
  BY <1>0, <1>7, <1>8
<1>10. Len(sent') = Len(sent) - 1 /\ \A k \in 1..(Len(sent) - 1) : sent'[k] = sent[k + 1]
  BY <1>0, <1>1, <1>4
<1>11. \A i : NumberedIn(log', i) = NumberedIn(log, i)
  BY <1>1 DEF NumberedIn
<1>12. ~outage'
  BY <1>1
<1>13. Len(cloud') <= Len(log')
  BY <1>0, <1>1, <1>3, <1>4, <1>9
<1>14. ASSUME NEW i \in 1..Len(cloud') PROVE cloud'[i] = NumberedIn(log', i)
  <2>1. i \in 1..Len(cloud) \/ i = Len(cloud) + 1
    BY <1>0, <1>9
  <2>2. QED
    BY <1>3, <1>5, <1>9, <1>11, <2>1
<1>15. CloudFollowsLog'
  <2>1. DOMAIN cloud' = 1..Len(cloud')
    BY DEF OInv, OTypes
  <2>2. QED
    BY <1>13, <1>14, <2>1 DEF CloudFollowsLog, Numbered, NumberedIn
<1>16. InOrder'
  <2>1. Len(cloud') + Len(sent') = seen'
    <3>1. seen' = seen
      BY <1>1
    <3>2. Len(cloud) + Len(sent) = seen
      BY <1>3
    <3>3. Len(cloud') = Len(cloud) + 1 /\ Len(sent') = Len(sent) - 1
      BY <1>9, <1>10
    <3>4. QED
      BY <1>0, <3>1, <3>2, <3>3
  <2>2. ASSUME NEW k \in 1..Len(sent') PROVE sent'[k] = NumberedIn(log', Len(cloud') + k)
    <3>1. k \in 1..(Len(sent) - 1) /\ k + 1 \in 1..Len(sent)
      BY <1>0, <1>10
    <3>2. Len(cloud) + (k + 1) = Len(cloud') + k
      BY <1>0, <1>9, <3>1
    <3>3. sent'[k] = NumberedIn(log, Len(cloud) + (k + 1))
      BY <1>3, <1>10, <3>1
    <3>4. QED
      BY <1>11, <3>2, <3>3
  <2>3. QED
    BY <2>1, <2>2 DEF InOrder
<1>17. QED
  BY <1>15, <1>16 DEF Uploading

LEMMA SyncUploading ==
  ASSUME OInv, OInv', Uploading, Sync, ~outage
  PROVE  Uploading'
<1>0. /\ sent \in Seq(Numbers) /\ Len(cloud) \in Nat /\ Len(sent) \in Nat
      /\ seen \in 0..Len(log) /\ Len(log) \in Nat /\ cloud \in Seq(Numbers)
      /\ log \in Seq(EventType)
  BY DEF OInv, OTypes
<1>1. /\ opened /\ seen < Len(log) /\ seen' = Len(log)
      /\ sent' = IF sdk THEN Append(sent, NumberedIn(log, Len(log))) ELSE sent
      /\ UNCHANGED <<log, cloud, sdk, outage>>
  BY DEF Sync, Numbered, NumberedIn
<1>2. Len(log) = seen + 1
  BY <1>0, <1>1 DEF OInv, OTypes
<1>3. \A i : NumberedIn(log', i) = NumberedIn(log, i)
  BY <1>1 DEF NumberedIn
<1>4. CloudFollowsLog'
  BY <1>1, <1>3 DEF Uploading, CloudFollowsLog, Numbered, NumberedIn
<1>5. ASSUME sdk PROVE InOrder'
  <2>1. /\ Len(cloud) + Len(sent) = seen
        /\ \A k \in 1..Len(sent) : sent[k] = NumberedIn(log, Len(cloud) + k)
    BY <1>5 DEF Uploading, InOrder
  <2>2. NumberedIn(log, Len(log)) \in Numbers
    <3>1. Len(log) \in 1..Len(log)
      BY <1>0, <1>1
    <3>2. QED
      BY <1>0, <3>1 DEF NumberedIn, Numbers
  <2>3. sent' = Append(sent, NumberedIn(log, Len(log)))
    BY <1>1, <1>5
  <2>4. /\ Len(sent') = Len(sent) + 1 /\ sent'[Len(sent) + 1] = NumberedIn(log, Len(log))
        /\ \A k \in 1..Len(sent) : sent'[k] = sent[k]
    BY <1>0, <2>2, <2>3
  <2>5. Len(cloud') + Len(sent') = seen'
    BY <1>0, <1>1, <1>2, <2>1, <2>4
  <2>6. ASSUME NEW k \in 1..Len(sent') PROVE sent'[k] = NumberedIn(log', Len(cloud') + k)
    <3>1. CASE k = Len(sent) + 1
      <4>1. Len(cloud') + k = Len(log)
        BY <1>0, <1>1, <1>2, <2>1, <3>1
      <4>2. QED
        BY <1>3, <2>4, <3>1, <4>1
    <3>2. CASE k # Len(sent) + 1
      <4>1. k \in 1..Len(sent)
        BY <1>0, <2>4, <3>2
      <4>2. QED
        BY <1>1, <1>3, <2>1, <2>4, <4>1
    <3>3. QED
      BY <3>1, <3>2
  <2>7. QED
    BY <2>5, <2>6 DEF InOrder
<1>6. QED
  BY <1>1, <1>4, <1>5 DEF Uploading, InOrder

LEMMA OpenUploading ==
  ASSUME OInv, OInv', Uploading, Open, ~torn, ~outage
  PROVE  Uploading'
<1>0. /\ Len(cloud) \in Nat /\ Len(log) \in Nat /\ cloud \in Seq(Numbers)
      /\ log \in Seq(EventType)
  BY DEF OInv, OTypes
<1>1. /\ seen' = Len(log)
      /\ (sdk' = TRUE /\ sent' = Resent) \/ (sdk' = FALSE /\ sent' = <<>>)
      /\ UNCHANGED <<log, cloud, outage>>
  BY OpenIs
<1>2. \A i : NumberedIn(log', i) = NumberedIn(log, i)
  BY <1>1 DEF NumberedIn
<1>3. CloudFollowsLog'
  BY <1>1, <1>2 DEF Uploading, CloudFollowsLog, Numbered, NumberedIn
<1>4. Len(cloud) <= Len(log)
  BY FollowsIs DEF Uploading
<1>5. ASSUME sdk' PROVE InOrder'
  <2>1. sent' = Resent
    BY <1>1, <1>5
  <2>2. Resent = [k \in 1..(Len(log) - Len(cloud)) |-> NumberedIn(log, FirstUnsent + k - 1)]
    <3>1. Len(log) + 1 - FirstUnsent = Len(log) - Len(cloud)
      BY <1>0 DEF FirstUnsent
    <3>2. QED
      BY <3>1 DEF Resent, Numbered, NumberedIn
  <2>3. \A k \in 1..(Len(log) - Len(cloud)) : FirstUnsent + k - 1 = Len(cloud) + k
    BY <1>0 DEF FirstUnsent
  <2>4. Resent \in Seq(Numbers) /\ DOMAIN Resent = 1..(Len(log) - Len(cloud))
    BY <1>0, <2>2, ResentIsTyped
  <2>5. Len(Resent) = Len(log) - Len(cloud)
    BY <1>0, <1>4, <2>4
  <2>6. \A k \in 1..Len(Resent) : Resent[k] = NumberedIn(log, Len(cloud) + k)
    BY <2>2, <2>3, <2>5
  <2>7. Len(cloud') + Len(sent') = seen'
    BY <1>0, <1>1, <2>1, <2>5
  <2>8. QED
    BY <1>1, <1>2, <2>1, <2>6, <2>7 DEF InOrder
<1>6. QED
  BY <1>3, <1>5 DEF Uploading, InOrder

LEMMA StepUploading ==
  OInv /\ OInv' /\ Uploading /\ [TelemetryNext]_allVars => Uploading'
<1> SUFFICES ASSUME OInv, OInv', Uploading, [TelemetryNext]_allVars PROVE Uploading'
  OBVIOUS
<1>1. SUFFICES ASSUME ~outage' PROVE Uploading'
  BY DEF Uploading
<1>2. ~outage /\ ~TelemetryPowerFailure
  <2>1. CASE outage' = outage /\ ~TelemetryPowerFailure
    BY <1>1, <2>1
  <2>2. CASE outage' = TRUE /\ TelemetryPowerFailure
    BY <1>1, <2>2
  <2>3. QED
    BY <2>1, <2>2, OutageIs
<1>3. CASE Upload
  BY <1>2, <1>3, UploadUploading
<1>4. CASE Sync
  BY <1>2, <1>4, SyncUploading
<1>5. CASE Open /\ ~torn
  BY <1>2, <1>5, OpenUploading
<1>6. CASE /\ cloud' = cloud
           /\ \/ log' = log
              \/ log' = Append(log, Head(pending)) /\ pending # <<>>
           /\ \/ sdk' = FALSE
              \/ UNCHANGED <<sdk, sent, seen>>
  <2>1. /\ Len(cloud) <= Len(log)
        /\ \A i \in 1..Len(cloud) : cloud[i] = NumberedIn(log, i)
    BY <1>2, FollowsIs DEF Uploading
  <2>2. \A i \in 1..Len(log) : NumberedIn(log', i) = NumberedIn(log, i)
    <3>1. log' = log \/ (log' = Append(log, Head(pending)) /\ pending # <<>>)
      BY <1>6
    <3>2. QED
      BY <3>1, NumberedKept
  <2>3. Len(log) <= Len(log') /\ Len(log) \in Nat /\ Len(log') \in Nat /\ Len(cloud) \in Nat
    <3>1. log \in Seq(EventType) /\ log' \in Seq(EventType) /\ pending \in Seq(EventType)
          /\ cloud \in Seq(Numbers)
      BY DEF OInv, OTypes
    <3>2. CASE log' = log
      BY <3>1, <3>2
    <3>3. CASE log' = Append(log, Head(pending)) /\ pending # <<>>
      <4>1. Head(pending) \in EventType
        BY <3>1, <3>3
      <4>2. Len(Append(log, Head(pending))) = Len(log) + 1
        BY <3>1, <4>1
      <4>3. QED
        BY <3>1, <3>3, <4>2
    <3>4. QED
      BY <1>6, <3>2, <3>3
  <2>4. CloudFollowsLog'
    <3>1. DOMAIN cloud' = 1..Len(cloud)
      BY <1>6 DEF OInv, OTypes
    <3>2. Len(cloud') <= Len(log')
      BY <1>6, <2>1, <2>3
    <3>3. \A i \in 1..Len(cloud) : i \in 1..Len(log)
      BY <2>1, <2>3
    <3>4. QED
      BY <1>6, <2>1, <2>2, <3>1, <3>2, <3>3 DEF CloudFollowsLog, Numbered, NumberedIn
  <2>5. ASSUME sdk' PROVE InOrder'
    <3>1. sdk /\ UNCHANGED <<sdk, sent, seen, cloud>>
      BY <1>6, <2>5
    <3>2. /\ Len(cloud) + Len(sent) = seen
          /\ \A k \in 1..Len(sent) : sent[k] = NumberedIn(log, Len(cloud) + k)
      BY <1>2, <3>1 DEF Uploading, InOrder
    <3>3. \A k \in 1..Len(sent) : Len(cloud) + k \in 1..Len(log)
      <4>1. seen \in 0..Len(log) /\ Len(sent) \in Nat
        BY DEF OInv, OTypes
      <4>2. QED
        BY <2>3, <3>2, <4>1
    <3>4. \A k \in 1..Len(sent) : NumberedIn(log', Len(cloud) + k) = sent[k]
      <4>1. \A k \in 1..Len(sent) : NumberedIn(log', Len(cloud) + k) = NumberedIn(log, Len(cloud) + k)
        BY <1>6, <2>2, <3>3
      <4>2. QED
        BY <3>2, <4>1
    <3>5. QED
      BY <3>1, <3>2, <3>4 DEF InOrder
  <2>6. QED
    BY <2>4, <2>5 DEF Uploading, InOrder
<1>7. CASE ~Upload /\ ~Sync /\ ~(Open /\ ~torn)
  <2>1. cloud' = cloud
    BY <1>2, <1>7 DEF TelemetryNext, Progress, Begin, RunStep, Open, Write, SdkFails,
                      TelemetryStop, telemetry, allVars
  <2>2. \/ log' = log
        \/ log' = Append(log, Head(pending)) /\ pending # <<>>
    BY <1>2, LogChanges, WriteIs
  <2>3. \/ sdk' = FALSE
        \/ UNCHANGED <<sdk, sent, seen>>
    BY <1>2, <1>7 DEF TelemetryNext, Progress, Begin, RunStep, Open, Write, SdkFails,
                      TelemetryStop, ForgetTelemetry, telemetry, allVars
  <2>4. QED
    BY <1>6, <2>1, <2>2, <2>3
<1>8. QED
  BY <1>3, <1>4, <1>5, <1>7

\* W&B has a prefix of the log, each event once and at its place, however often the run
\* was stopped and resumed (telemetry.py:45-49, 76-80).
THEOREM CloudIsPrefix == TelemetrySpec => []CloudFollowsLog
<1>1. TelemetryInit => Uploading
  <2> SUFFICES ASSUME TelemetryInit PROVE Uploading
    OBVIOUS
  <2>2. Len(cloud) = 0 /\ Len(log) = 0 /\ DOMAIN cloud = {} /\ ~sdk
    BY DEF TelemetryInit
  <2>3. QED
    BY <2>2 DEF Uploading, CloudFollowsLog, InOrder
<1>2. Uploading => CloudFollowsLog
  BY DEF Uploading, CloudFollowsLog, Numbered, NumberedIn
<1>3. QED
  BY <1>1, <1>2, StepUploading, LoadedInvariance, PTL DEF TelemetrySpec

-----------------------------------------------------------------------------
(* Publication *)

Begins(l, e) == Len(l) <= Len(e) /\ \A i \in 1..Len(l) : l[i] = e[i]

\* Of the events e the last ones, p, are to be published, while the process knows n lines
\* of the log l: it has come to the end of what it knows before it writes.
Pending(e, p, l, n) ==
  /\ Begins(l, e)
  /\ Len(e) - Len(p) \in 0..n
  /\ \A j \in 1..Len(p) : p[j] = e[Len(e) - Len(p) + j]
  /\ n < Len(l) => Len(e) - Len(p) = n

LEMMA PendingAll ==
  ASSUME NEW e \in Seq(EventType), NEW l \in Seq(EventType), Begins(l, e)
  PROVE  Pending(e, e, l, Len(l))
<1>1. Len(e) \in Nat /\ Len(l) \in Nat
  OBVIOUS
<1>2. Len(e) - Len(e) = 0 /\ 0 \in 0..Len(l) /\ ~(Len(l) < Len(l))
  BY <1>1
<1>3. \A j \in 1..Len(e) : Len(e) - Len(e) + j = j
  BY <1>1
<1>4. QED
  BY <1>2, <1>3 DEF Pending

LEMMA PendingNone ==
  ASSUME NEW e \in Seq(EventType), NEW l \in Seq(EventType), NEW n \in 0..Len(l),
         Pending(e, <<>>, l, n)
  PROVE  l = e /\ n = Len(l)
<1>1. Len(e) \in Nat /\ Len(l) \in Nat /\ n \in Nat /\ n <= Len(l)
  OBVIOUS
<1>2. Len(e) - 0 \in 0..n
  BY DEF Pending
<1>3. Len(l) <= Len(e) /\ \A i \in 1..Len(l) : l[i] = e[i]
  BY DEF Pending, Begins
<1>4. Len(l) = Len(e) /\ n = Len(l)
  BY <1>1, <1>2, <1>3
<1>5. QED
  BY <1>3, <1>4, SeqEqual

LEMMA PendingNext ==
  ASSUME NEW e \in Seq(EventType), NEW l \in Seq(EventType), NEW n \in 0..Len(l),
         Pending(e, <<>>, l, n), NEW s \in Seq(EventType)
  PROVE  Pending(e \o s, s, l, n) /\ Begins(l, e \o s)
<1>1. l = e /\ n = Len(e) /\ Len(e) \in Nat /\ Len(s) \in Nat
  BY PendingNone
<1>2. /\ Len(e \o s) = Len(e) + Len(s)
      /\ \A i \in 1..(Len(e) + Len(s)) :
           (e \o s)[i] = IF i <= Len(e) THEN e[i] ELSE s[i - Len(e)]
  BY ConcatProperties
<1>3. Len(e \o s) - Len(s) = Len(e) /\ Len(e) \in 0..n
  BY <1>1, <1>2
<1>4. \A j \in 1..Len(s) : s[j] = (e \o s)[Len(e) + j]
  <2>1. ASSUME NEW j \in 1..Len(s) PROVE s[j] = (e \o s)[Len(e) + j]
    <3>1. /\ Len(e) + j \in 1..(Len(e) + Len(s)) /\ ~(Len(e) + j <= Len(e))
          /\ (Len(e) + j) - Len(e) = j
      BY <1>1
    <3>2. QED
      BY <1>2, <3>1
  <2>2. QED
    BY <2>1
<1>5. Begins(l, e \o s)
  <2>1. \A i \in 1..Len(e) : i \in 1..(Len(e) + Len(s)) /\ i <= Len(e)
    BY <1>1
  <2>2. Len(e) <= Len(e) + Len(s)
    BY <1>1
  <2>3. QED
    BY <1>1, <1>2, <2>1, <2>2 DEF Begins
<1>6. ~(n < Len(l))
  BY <1>1
<1>7. QED
  BY <1>3, <1>4, <1>5, <1>6 DEF Pending

\* The first pending event has its place in e, and the others follow.
HeadAt(e, p, n) ==
  LET k == Len(e) - Len(p) IN
    /\ k \in 0..n /\ k + 1 \in 1..Len(e)
    /\ Head(p) = e[k + 1]
    /\ Tail(p) \in Seq(EventType) /\ Len(Tail(p)) = Len(p) - 1
    /\ Len(e) - Len(Tail(p)) = k + 1
    /\ \A j \in 1..Len(Tail(p)) : Tail(p)[j] = e[k + 1 + j]

\* The event at the head has its place in the log.
LEMMA HeadPlace ==
  ASSUME NEW e \in Seq(EventType), NEW l \in Seq(EventType), NEW n \in 0..Len(l),
         NEW p \in Seq(EventType), p # <<>>, Pending(e, p, l, n)
  PROVE  HeadAt(e, p, n)
<1> DEFINE k == Len(e) - Len(p)
<1>1. Len(e) \in Nat /\ Len(l) \in Nat /\ n \in Nat /\ Len(p) \in Nat /\ Len(p) >= 1
      /\ Head(p) = p[1]
  OBVIOUS
<1>2. Tail(p) \in Seq(EventType) /\ Len(Tail(p)) = Len(p) - 1
      /\ \A j \in 1..(Len(p) - 1) : Tail(p)[j] = p[j + 1]
  OBVIOUS
<1>3. k \in 0..n /\ \A j \in 1..Len(p) : p[j] = e[k + j]
  BY DEF Pending
<1>4. k \in Nat /\ k + 1 \in 1..Len(e)
  BY <1>1, <1>3
<1>5. Head(p) = e[k + 1]
  <2>1. 1 \in 1..Len(p)
    BY <1>1
  <2>2. QED
    BY <1>1, <1>3, <2>1
<1>6. Len(e) - Len(Tail(p)) = k + 1
  BY <1>1, <1>2
<1>7. ASSUME NEW j \in 1..Len(Tail(p)) PROVE Tail(p)[j] = e[k + 1 + j]
  <2>1. j \in 1..(Len(p) - 1) /\ j + 1 \in 1..Len(p) /\ k + (j + 1) = k + 1 + j
    BY <1>1, <1>2, <1>4
  <2>2. Tail(p)[j] = p[j + 1]
    BY <1>2, <2>1
  <2>3. p[j + 1] = e[k + (j + 1)]
    BY <1>3, <2>1
  <2>4. QED
    BY <2>1, <2>2, <2>3
<1>8. QED
  BY <1>2, <1>3, <1>4, <1>5, <1>6, <1>7 DEF HeadAt

\* A line with the key of the head is the head.
LEMMA OnlyItself ==
  ASSUME NEW e \in Seq(EventType), OnceEach(e), NEW l \in Seq(EventType),
         NEW p \in Seq(EventType), p # <<>>, Pending(e, p, l, Len(l)),
         NEW i \in 1..Len(l), Key(l[i]) = Key(Head(p))
  PROVE  l[i] = Head(p) /\ i = Len(e) - Len(p) + 1
<1> DEFINE k == Len(e) - Len(p)
<1>1. Len(l) \in Nat /\ Len(l) \in 0..Len(l)
  OBVIOUS
<1>2. k + 1 \in 1..Len(e) /\ Head(p) = e[k + 1]
  <2>1. HeadAt(e, p, Len(l))
    BY <1>1, HeadPlace
  <2>2. QED
    BY <2>1 DEF HeadAt
<1>3. l[i] = e[i] /\ Len(l) <= Len(e)
  BY DEF Pending, Begins
<1>4. i \in DOMAIN e /\ k + 1 \in DOMAIN e
  BY <1>1, <1>2, <1>3
<1>5. i = k + 1
  BY <1>2, <1>3, <1>4 DEF OnceEach
<1>6. QED
  BY <1>2, <1>3, <1>5

LEMMA PendingSkip ==
  ASSUME NEW e \in Seq(EventType), OnceEach(e), NEW l \in Seq(EventType),
         NEW p \in Seq(EventType), p # <<>>, Pending(e, p, l, Len(l)),
         NEW i \in 1..Len(l), Key(l[i]) = Key(Head(p))
  PROVE  Pending(e, Tail(p), l, Len(l))
<1> DEFINE k == Len(e) - Len(p)
<1>1. Len(l) \in Nat /\ Len(l) \in 0..Len(l)
  OBVIOUS
<1>2. /\ k \in 0..Len(l) /\ Len(e) - Len(Tail(p)) = k + 1
      /\ \A j \in 1..Len(Tail(p)) : Tail(p)[j] = e[k + 1 + j]
  <2>1. HeadAt(e, p, Len(l))
    BY <1>1, HeadPlace
  <2>2. QED
    BY <2>1 DEF HeadAt
<1>3. i = k + 1
  BY OnlyItself
<1>4. k + 1 \in 0..Len(l)
  BY <1>1, <1>2, <1>3
<1>5. Begins(l, e) /\ ~(Len(l) < Len(l))
  BY <1>1 DEF Pending
<1> HIDE DEF k
<1>6. QED
  BY <1>2, <1>4, <1>5 DEF Pending

LEMMA PendingWrite ==
  ASSUME NEW e \in Seq(EventType), NEW l \in Seq(EventType),
         NEW p \in Seq(EventType), p # <<>>, Pending(e, p, l, Len(l)),
         \A i \in 1..Len(l) : Key(l[i]) # Key(Head(p))
  PROVE  Pending(e, p, Append(l, Head(p)), Len(l)) /\ Begins(Append(l, Head(p)), e)
<1> DEFINE k == Len(e) - Len(p)
           m == Append(l, Head(p))
<1>1. Len(l) \in Nat /\ Len(l) \in 0..Len(l)
  OBVIOUS
<1>2. /\ k \in 0..Len(l) /\ k + 1 \in 1..Len(e) /\ Head(p) = e[k + 1]
  <2>1. HeadAt(e, p, Len(l))
    BY <1>1, HeadPlace
  <2>2. QED
    BY <2>1 DEF HeadAt
<1>3. Head(p) \in EventType
  OBVIOUS
<1>4. Len(m) = Len(l) + 1 /\ m[Len(l) + 1] = Head(p) /\ \A i \in 1..Len(l) : m[i] = l[i]
  BY <1>3
<1>5. Len(l) <= Len(e) /\ \A i \in 1..Len(l) : l[i] = e[i]
  BY DEF Pending, Begins
<1>6. \A j \in 1..Len(p) : p[j] = e[k + j]
  BY DEF Pending
<1>7. k = Len(l)
  <2>1. SUFFICES ASSUME k # Len(l) PROVE FALSE
    OBVIOUS
  <2>2. k + 1 \in 1..Len(l)
    BY <1>1, <1>2, <2>1
  <2>3. l[k + 1] = Head(p)
    BY <1>2, <1>5, <2>2
  <2>4. QED
    BY <2>2, <2>3
<1> HIDE DEF k, m
<1>8. Begins(m, e)
  <2>1. Len(m) <= Len(e)
    BY <1>1, <1>2, <1>4, <1>7
  <2>2. ASSUME NEW i \in 1..Len(m) PROVE m[i] = e[i]
    <3>1. i \in 1..Len(l) \/ i = Len(l) + 1
      BY <1>1, <1>4
    <3>2. QED
      BY <1>2, <1>4, <1>5, <1>7, <3>1
  <2>3. QED
    BY <2>1, <2>2 DEF Begins
<1>9. QED
  BY <1>2, <1>6, <1>7, <1>8 DEF Pending, k, m

LEMMA PendingSync ==
  ASSUME NEW e \in Seq(EventType), NEW l \in Seq(EventType), NEW n \in 0..Len(l),
         NEW p \in Seq(EventType), p # <<>>, Pending(e, p, l, n), n + 1 = Len(l)
  PROVE  Pending(e, Tail(p), l, Len(l))
<1> DEFINE k == Len(e) - Len(p)
<1>1. Len(l) \in Nat /\ n \in Nat /\ n < Len(l) /\ ~(Len(l) < Len(l)) /\ Len(l) \in 0..Len(l)
  OBVIOUS
<1>2. /\ Len(e) - Len(Tail(p)) = k + 1
      /\ \A j \in 1..Len(Tail(p)) : Tail(p)[j] = e[k + 1 + j]
  BY HeadPlace DEF HeadAt
<1>3. k = n /\ Begins(l, e)
  BY <1>1 DEF Pending
<1> HIDE DEF k
<1>4. k + 1 \in 0..Len(l)
  BY <1>1, <1>3
<1>5. QED
  BY <1>1, <1>2, <1>3, <1>4 DEF Pending

-----------------------------------------------------------------------------
(* Publication of the ledger *)

Published == EventsOfLedger(state)

\* The log never runs ahead of the ledger that a reader sees.
LogBehind == ~outage => Begins(log, EventsOfLedger(Visible.ledger))

\* What is pending is the rest of the events, or a replay of some that the log has.
Publishing ==
  ~outage /\ opened /\ pc \notin DeadEnds => Pending(Published, pending, log, seen)

\* Nothing is forgotten: what the log does not have is still pending.
Accounted == opened /\ pc \notin DeadEnds =>
  /\ ToSet(Published) \subseteq ToSet(log) \cup ToSet(pending)
  /\ seen < Len(log) => Head(pending) = log[Len(log)]

PInv == LogBehind /\ Publishing /\ Accounted /\ ReplayAgreesUnlessOutage

LEMMA TailKeeps ==
  ASSUME NEW p \in Seq(EventType), p # <<>>
  PROVE  ToSet(p) \subseteq {Head(p)} \cup ToSet(Tail(p))
<1>1. Len(p) \in Nat /\ Len(p) >= 1 /\ DOMAIN p = 1..Len(p) /\ Head(p) = p[1]
  OBVIOUS
<1>2. DOMAIN Tail(p) = 1..(Len(p) - 1) /\ \A j \in 1..(Len(p) - 1) : Tail(p)[j] = p[j + 1]
  OBVIOUS
<1>3. ASSUME NEW i \in 1..Len(p), i # 1 PROVE p[i] \in ToSet(Tail(p))
  <2>1. i - 1 \in 1..(Len(p) - 1) /\ (i - 1) + 1 = i
    BY <1>1, <1>3
  <2>2. Tail(p)[i - 1] = p[i] /\ i - 1 \in DOMAIN Tail(p)
    BY <1>2, <2>1
  <2>3. QED
    BY <2>2 DEF ToSet
<1>4. QED
  BY <1>1, <1>3 DEF ToSet

LEMMA ConcatKeeps ==
  ASSUME NEW e \in Seq(EventType), NEW s \in Seq(EventType)
  PROVE  ToSet(e \o s) \subseteq ToSet(e) \cup ToSet(s)
<1>1. /\ Len(e) \in Nat /\ Len(s) \in Nat
      /\ DOMAIN e = 1..Len(e) /\ DOMAIN s = 1..Len(s)
  OBVIOUS
<1>2. /\ DOMAIN (e \o s) = 1..(Len(e) + Len(s))
      /\ \A i \in 1..(Len(e) + Len(s)) :
           (e \o s)[i] = IF i <= Len(e) THEN e[i] ELSE s[i - Len(e)]
  BY ConcatProperties
<1>3. ASSUME NEW i \in 1..(Len(e) + Len(s)) PROVE (e \o s)[i] \in ToSet(e) \cup ToSet(s)
  <2>1. CASE i <= Len(e)
    <3>1. i \in DOMAIN e /\ (e \o s)[i] = e[i]
      BY <1>1, <1>2, <2>1
    <3>2. QED
      BY <3>1 DEF ToSet
  <2>2. CASE ~(i <= Len(e))
    <3>1. i - Len(e) \in DOMAIN s /\ (e \o s)[i] = s[i - Len(e)]
      BY <1>1, <1>2, <2>2
    <3>2. QED
      BY <3>1 DEF ToSet
  <2>3. QED
    BY <2>1, <2>2
<1>4. QED
  BY <1>2, <1>3 DEF ToSet

LEMMA PublishedIs ==
  ASSUME TLInv, pc \notin DeadEnds
  PROVE  /\ state.updates \in Seq(Receipt)
         /\ Published = EventsOfAll(state.updates) /\ Published \in Seq(EventType)
<1>1. state.updates \in Seq(Receipt)
  BY DEF TLInv, IInv, TypeOK, LedgerState
<1>2. QED
  BY <1>1, EventsOfAllIs, EventsAreTyped DEF Published

LEMMA VisibleIs ==
  ASSUME TLInv
  PROVE  /\ Visible.ledger.updates \in Seq(Receipt)
         /\ EventsOfLedger(Visible.ledger) = EventsOfAll(Visible.ledger.updates)
         /\ EventsOfLedger(Visible.ledger) \in Seq(EventType)
         /\ \A i \in DOMAIN Visible.ledger.updates : Visible.ledger.updates[i].step = i
<1>1. versions \in Seq(Version) /\ versions # <<>>
  BY DEF TLInv, DInv
<1>2. Len(versions) \in DOMAIN versions /\ Visible = versions[Len(versions)]
  BY <1>1 DEF Visible, Last
<1>3. Visible.ledger \in LedgerState
  BY <1>1, <1>2, VersionIsTyped
<1>4. Visible.ledger.updates \in Seq(Receipt)
  BY <1>3 DEF LedgerState
<1>5. SoundVersion(Visible)
  BY <1>2 DEF TLInv, DInv, VersionsSound
<1>6. QED
  BY <1>4, <1>5, EventsOfAllIs, EventsAreTyped DEF SoundVersion, Validate

\* While the log is read or written the ledger in memory is the one that a reader sees.
LEMMA InMemoryIs ==
  ASSUME TLInv, pc \notin DeadEnds \cup {"down", "sync rename"}
  PROVE  /\ Published = EventsOfLedger(Visible.ledger)
         /\ OnceEach(Published)
<1>1. state = Visible.ledger
  BY DEF TLInv, IInv, InMemory
<1>2. OnceEach(EventsOfAll(Visible.ledger.updates))
  BY VisibleIs, EventsOnce
<1>3. QED
  BY <1>1, <1>2, VisibleIs DEF Published

LEMMA InitPInv == TelemetryInit => PInv
<1> SUFFICES ASSUME TelemetryInit PROVE PInv
  OBVIOUS
<1>1. Len(log) = 0 /\ opened = FALSE
  BY DEF TelemetryInit
<1>2. EventsOfLedger(Visible.ledger) = <<>>
  <2>1. Visible = Absent
    BY LastOfOne DEF TelemetryInit, Init, Visible
  <2>2. Visible.ledger.updates = <<>>
    BY <2>1 DEF Absent, EmptyLedger
  <2>3. QED
    BY <2>2, EventsOfAllIs, EventsOfNone
<1>3. LogBehind
  BY <1>1, <1>2 DEF LogBehind, Begins
<1>4. ReplayAgreesUnlessOutage
  BY DEF TelemetryInit, Init, ReplayAgreesUnlessOutage, ReplayAgrees
<1>5. QED
  BY <1>1, <1>3, <1>4 DEF PInv, Publishing, Accounted

LEMMA PInvKept ==
  PInv /\ UNCHANGED <<pc, versions, state, opened, pending, log, seen, outage>> => PInv'
BY DEF PInv, LogBehind, Publishing, Accounted, ReplayAgreesUnlessOutage, ReplayAgrees,
       Published, EventsOfLedger, Visible

\* A process that has not opened the log yet, or has stopped.
LEMMA ClosedPInv ==
  ASSUME PInv, ~opened', pc' # "conflict", UNCHANGED <<versions, log, outage>>
  PROVE  PInv'
<1>1. LogBehind'
  BY DEF PInv, LogBehind, EventsOfLedger, Visible
<1>2. QED
  BY <1>1 DEF PInv, Publishing, Accounted, ReplayAgreesUnlessOutage, ReplayAgrees

LEMMA OutagePInv ==
  ASSUME PInv, ~opened', outage' = TRUE
  PROVE  PInv'
BY DEF PInv, LogBehind, Publishing, Accounted, ReplayAgreesUnlessOutage

LEMMA StopPInv == PInv /\ (TelemetryStop \/ TelemetryPowerFailure) => PInv'
<1> SUFFICES ASSUME PInv, TelemetryStop \/ TelemetryPowerFailure PROVE PInv'
  OBVIOUS
<1>1. CASE TelemetryStop
  <2>1. opened' = FALSE /\ pc' = "down" /\ UNCHANGED <<versions, log, outage>>
    BY <1>1 DEF TelemetryStop, Stop, Forget, ForgetTelemetry, disk
  <2>2. QED
    BY <2>1, ClosedPInv
<1>2. CASE TelemetryPowerFailure
  <2>1. opened' = FALSE /\ outage' = TRUE
    BY <1>2 DEF TelemetryPowerFailure, ForgetTelemetry
  <2>2. QED
    BY <2>1, OutagePInv
<1>3. QED
  BY <1>1, <1>2

LEMMA BeginPInv == OInv /\ PInv /\ Begin => PInv'
<1> SUFFICES ASSUME OInv, PInv, Begin PROVE PInv'
  OBVIOUS
<1>1. pc = "down" /\ pc' \in {"replace", "restore"} /\ UNCHANGED <<versions, opened, log, outage>>
  BY DEF Begin, Start, Resume, telemetry, disk
<1>2. ~opened
  BY <1>1 DEF OInv, Loaded
<1>3. QED
  BY <1>1, <1>2, ClosedPInv

LEMMA OpenPInv == TLInv /\ OInv /\ PInv /\ Open => PInv'
<1> SUFFICES ASSUME TLInv, OInv, PInv, Open PROVE PInv'
  OBVIOUS
<1>1. CASE torn
  <2>1. ~opened' /\ pc' = "log unreadable" /\ UNCHANGED <<versions, log, outage>>
    BY <1>1 DEF Open, disk
  <2>2. QED
    BY <2>1, ClosedPInv
<1>2. CASE ~torn
  <2>1. /\ pc = "restore" /\ opened' = TRUE /\ seen' = Len(log) /\ pending' = Published
        /\ UNCHANGED <<pc, versions, state, log, outage>>
    BY <1>2, OpenIs DEF Published, vars, disk, memory
  <2>2. pc \notin DeadEnds \cup {"down", "sync rename"}
    BY <2>1 DEF DeadEnds
  <2>3. Published' = Published /\ Visible' = Visible
    BY <2>1 DEF Published, EventsOfLedger, Visible
  <2>4. LogBehind'
    BY <2>1, <2>3 DEF PInv, LogBehind, EventsOfLedger
  <2>5. Publishing'
    <3>1. SUFFICES ASSUME ~outage' PROVE Pending(Published, Published, log, Len(log))
      BY <2>1, <2>3 DEF Publishing
    <3>2. Begins(log, Published)
      BY <2>1, <2>2, <3>1, InMemoryIs DEF PInv, LogBehind
    <3>3. Published \in Seq(EventType) /\ log \in Seq(EventType)
      BY <2>2, PublishedIs DEF OInv, OTypes
    <3>4. QED
      BY <3>2, <3>3, PendingAll
  <2>6. Accounted'
    <3>1. ~(Len(log) < Len(log))
      BY DEF OInv, OTypes
    <3>2. QED
      BY <2>1, <2>3, <3>1 DEF Accounted
  <2>7. ReplayAgreesUnlessOutage'
    BY <2>1 DEF ReplayAgreesUnlessOutage, ReplayAgrees
  <2>8. QED
    BY <2>4, <2>5, <2>6, <2>7 DEF PInv
<1>3. QED
  BY <1>1, <1>2

LEMMA SyncPInv == TLInv /\ OInv /\ PInv /\ Sync => PInv'
<1> SUFFICES ASSUME TLInv, OInv, PInv, Sync PROVE PInv'
  OBVIOUS
<1>1. /\ opened /\ seen < Len(log) /\ seen' = Len(log) /\ pending' = Tail(pending)
      /\ UNCHANGED <<pc, versions, state, opened, log, outage>>
  BY DEF Sync, vars, disk, memory
<1>2. /\ pending \in Seq(EventType) /\ log \in Seq(EventType) /\ pending # <<>>
      /\ seen \in 0..Len(log) /\ seen + 1 = Len(log)
  <2>1. /\ pending \in Seq(EventType) /\ log \in Seq(EventType)
        /\ seen \in 0..Len(log) /\ Len(log) - seen \in {0, 1}
    BY <1>1 DEF OInv, OTypes
  <2>2. pending # <<>>
    BY <1>1 DEF OInv, Loaded
  <2>3. seen + 1 = Len(log)
    BY <1>1, <2>1
  <2>4. QED
    BY <2>1, <2>2, <2>3
<1>3. Published' = Published /\ Visible' = Visible
  BY <1>1 DEF Published, EventsOfLedger, Visible
<1>4. LogBehind'
  BY <1>1, <1>3 DEF PInv, LogBehind, EventsOfLedger
<1>5. Publishing'
  <2>1. SUFFICES ASSUME ~outage, pc \notin DeadEnds
                 PROVE  Pending(Published, Tail(pending), log, Len(log))
    BY <1>1, <1>3 DEF Publishing
  <2>2. Pending(Published, pending, log, seen)
    BY <1>1, <2>1 DEF PInv, Publishing
  <2>3. Published \in Seq(EventType)
    BY <2>1, PublishedIs
  <2>4. QED
    BY <1>2, <2>2, <2>3, PendingSync
<1>6. Accounted'
  <2>1. SUFFICES ASSUME pc \notin DeadEnds
                 PROVE  ToSet(Published) \subseteq ToSet(log) \cup ToSet(Tail(pending))
    <3>1. ~(Len(log) < Len(log))
      BY <1>2
    <3>2. QED
      BY <1>1, <1>3, <2>1, <3>1 DEF Accounted
  <2>2. ToSet(Published) \subseteq ToSet(log) \cup ToSet(pending)
        /\ Head(pending) = log[Len(log)]
    BY <1>1, <2>1 DEF PInv, Accounted
  <2>3. Head(pending) \in ToSet(log)
    BY <1>2, <2>2 DEF ToSet
  <2>4. ToSet(pending) \subseteq {Head(pending)} \cup ToSet(Tail(pending))
    BY <1>2, TailKeeps
  <2>5. QED
    BY <2>2, <2>3, <2>4
<1>7. ReplayAgreesUnlessOutage'
  BY <1>1 DEF PInv, ReplayAgreesUnlessOutage, ReplayAgrees
<1>8. QED
  BY <1>4, <1>5, <1>6, <1>7 DEF PInv

LEMMA WritePInv == TLInv /\ OInv /\ PInv /\ Write => PInv'
<1> SUFFICES ASSUME TLInv, OInv, PInv, Write PROVE PInv'
  OBVIOUS
<1> DEFINE e == Head(pending)
<1>1. /\ pending # <<>> /\ seen = Len(log) /\ UNCHANGED <<versions, state, opened, seen, outage>>
      /\ pc \notin {"conflict", "evidence unreadable"}
  BY WriteIs DEF disk, memory
<1>2. /\ opened /\ pc \in {"restore", "loop"}
      /\ pending \in Seq(EventType) /\ log \in Seq(EventType)
  BY <1>1 DEF OInv, OTypes, Loaded
<1>3. pc \notin DeadEnds /\ pc \notin DeadEnds \cup {"down", "sync rename"}
  BY <1>2 DEF DeadEnds
<1>4. /\ Published' = Published
      /\ EventsOfLedger(Visible.ledger)' = EventsOfLedger(Visible.ledger)
  BY <1>1 DEF Published, EventsOfLedger, Visible
<1>5. Published \in Seq(EventType) /\ OnceEach(Published)
      /\ Published = EventsOfLedger(Visible.ledger)
  BY <1>3, PublishedIs, InMemoryIs
<1>6. ~outage => Pending(Published, pending, log, Len(log))
  BY <1>1, <1>2, <1>3 DEF PInv, Publishing
<1>7. ToSet(Published) \subseteq ToSet(log) \cup ToSet(pending)
  BY <1>2, <1>3 DEF PInv, Accounted
<1>8. \A i \in Logged(e) : i \in 1..Len(log) /\ Key(log[i]) = Key(e)
  BY <1>1 DEF Logged
<1>9. ~outage => \A i \in Logged(e) : log[i] = e
  <2>1. SUFFICES ASSUME ~outage, NEW i \in Logged(e) PROVE log[i] = e
    OBVIOUS
  <2>2. i \in 1..Len(log) /\ Key(log[i]) = Key(e)
    BY <1>8
  <2>3. Pending(Published, pending, log, Len(log))
    BY <1>6, <2>1
  <2>4. QED
    BY <1>1, <1>2, <1>5, <2>2, <2>3, OnlyItself
<1>10. CASE pc' = "evidence unreadable" /\ UNCHANGED <<log, pending>>
  <2>1. LogBehind'
    BY <1>1, <1>4, <1>10 DEF PInv, LogBehind
  <2>2. QED
    BY <1>10, <2>1
       DEF PInv, Publishing, Accounted, DeadEnds, ReplayAgreesUnlessOutage, ReplayAgrees
<1>11. CASE /\ pc' = "conflict" /\ UNCHANGED <<log, pending>>
            /\ \E i \in Logged(e) : log[i] # e
  <2>1. outage
    BY <1>9, <1>11
  <2>2. outage'
    BY <1>1, <2>1
  <2>3. QED
    BY <1>11, <2>2
       DEF PInv, LogBehind, Publishing, Accounted, DeadEnds, ReplayAgreesUnlessOutage
<1>12. CASE /\ pending' = Tail(pending) /\ UNCHANGED <<log, pc>>
            /\ Logged(e) # {} /\ \A i \in Logged(e) : log[i] = e
  <2>1. PICK i \in Logged(e) : log[i] = e
    BY <1>12
  <2>2. i \in 1..Len(log) /\ Key(log[i]) = Key(e)
    BY <1>8
  <2>3. LogBehind'
    BY <1>1, <1>4, <1>12 DEF PInv, LogBehind
  <2>4. Publishing'
    <3>1. SUFFICES ASSUME ~outage PROVE Pending(Published, Tail(pending), log, Len(log))
      BY <1>1, <1>4, <1>12 DEF Publishing
    <3>2. QED
      BY <1>1, <1>2, <1>5, <1>6, <2>2, <3>1, PendingSkip
  <2>5. Accounted'
    <3>1. e \in ToSet(log)
      BY <1>2, <2>1, <2>2 DEF ToSet
    <3>2. ToSet(pending) \subseteq {e} \cup ToSet(Tail(pending))
      BY <1>1, <1>2, TailKeeps
    <3>3. ToSet(Published) \subseteq ToSet(log) \cup ToSet(Tail(pending))
      BY <1>7, <3>1, <3>2
    <3>4. ~(seen' < Len(log'))
      <4>1. seen' = Len(log) /\ log' = log
        BY <1>1, <1>12
      <4>2. ~(Len(log) < Len(log))
        BY <1>2
      <4>3. QED
        BY <4>1, <4>2
    <3>5. QED
      BY <1>4, <1>12, <3>3, <3>4 DEF Accounted
  <2>6. ReplayAgreesUnlessOutage'
    BY <1>1, <1>12 DEF ReplayAgreesUnlessOutage, ReplayAgrees
  <2>7. QED
    BY <2>3, <2>4, <2>5, <2>6 DEF PInv
<1>13. CASE log' = Append(log, e) /\ UNCHANGED <<pending, pc>> /\ Logged(e) = {}
  <2>1. e \in EventType
    <3>1. \A T : \A p \in Seq(T) : p # <<>> => Head(p) \in T
      OBVIOUS
    <3>2. Head(pending) \in EventType
      BY <1>1, <1>2, <3>1
    <3>3. QED
      BY <3>2
  <2>2. \A i \in 1..Len(log) : Key(log[i]) # Key(e)
    BY <1>1, <1>13 DEF Logged
  <2>3. ~outage => /\ Pending(Published, pending, Append(log, e), Len(log))
                   /\ Begins(Append(log, e), Published)
    BY <1>1, <1>2, <1>5, <1>6, <2>2, PendingWrite
  <2>4. LogBehind'
    BY <1>1, <1>4, <1>5, <1>13, <2>3 DEF LogBehind
  <2>5. Publishing'
    BY <1>1, <1>4, <1>13, <2>3 DEF Publishing
  <2>6. Accounted'
    <3>1. Len(log') = Len(log) + 1 /\ log'[Len(log) + 1] = e
          /\ DOMAIN log' = 1..(Len(log) + 1) /\ DOMAIN log = 1..Len(log)
          /\ \A i \in 1..Len(log) : log'[i] = log[i]
      BY <1>2, <1>13, <2>1
    <3>2. ToSet(log) \subseteq ToSet(log')
      <4>1. Len(log) \in Nat
        BY <1>2
      <4>2. \A i \in 1..Len(log) : i \in 1..(Len(log) + 1)
        BY <4>1
      <4>3. QED
        BY <3>1, <4>2 DEF ToSet
    <3>3. ToSet(Published) \subseteq ToSet(log') \cup ToSet(pending)
      BY <1>7, <3>2
    <3>4. Head(pending) = log'[Len(log')]
      BY <3>1
    <3>5. QED
      BY <1>4, <1>13, <3>3, <3>4 DEF Accounted
  <2>7. ReplayAgreesUnlessOutage'
    BY <1>1, <1>13 DEF ReplayAgreesUnlessOutage, ReplayAgrees
  <2>8. QED
    BY <2>4, <2>5, <2>6, <2>7 DEF PInv
<1>14. QED
  BY <1>10, <1>11, <1>12, <1>13, WriteIs

-----------------------------------------------------------------------------
(* A step of the run *)

\* A reader of state.json finds what was there, or one update more.
LEMMA VisibleGrows ==
  ASSUME TLInv, Step
  PROVE  \/ Visible'.ledger.updates = Visible.ledger.updates
         \/ \E r \in Receipt : Visible'.ledger.updates = Append(Visible.ledger.updates, r)
<1>1. IInv
  BY StepIsAlive DEF TLInv
<1>2. CASE versions' = versions
  BY <1>2 DEF Visible
<1>3. CASE versions' = <<Visible>>
  BY <1>3, LastOfOne DEF Visible
<1>4. CASE Replace
  <2>1. /\ pc = "replace"
        /\ versions' = Append(versions, [kind |-> "ledger", ledger |-> candidate, synced |-> TRUE])
    BY <1>4 DEF Replace
  <2>2. state = Visible.ledger
    BY <1>1, <2>1 DEF IInv, InMemory
  <2>3. versions \in Seq(Version) /\ candidate \in LedgerState
    BY <1>1 DEF IInv, TypeOK
  <2>4. [kind |-> "ledger", ledger |-> candidate, synced |-> TRUE] \in Version
    BY <2>3 DEF Version
  <2>5. Visible' = [kind |-> "ledger", ledger |-> candidate, synced |-> TRUE]
    BY <2>1, <2>3, <2>4, AppendOne DEF Visible
  <2>6. Visible'.ledger = candidate
    BY <2>5
  <2>7. \/ candidate.updates = state.updates
        \/ \E r \in Receipts(candidate) : candidate.updates = Append(state.updates, r)
    BY <2>1 DEF TLInv, Grows, Committing, Writing
  <2>8. Receipts(candidate) \subseteq Receipt
    BY <2>3, ReceiptIsTyped
  <2>9. QED
    BY <2>2, <2>6, <2>7, <2>8
<1>5. QED
  BY <1>2, <1>3, <1>4
     DEF Step, Restore, Collect, Finish, Train, Exercise, SyncFiles, SyncDirectories,
         ValidateCandidate, SyncRename, SettleRename, disk

LEMMA BeginsLonger ==
  ASSUME NEW l \in Seq(EventType), NEW e \in Seq(EventType), NEW s \in Seq(EventType),
         Begins(l, e)
  PROVE  Begins(l, e \o s)
<1>1. Len(l) \in Nat /\ Len(e) \in Nat /\ Len(s) \in Nat
  OBVIOUS
<1>2. /\ Len(e \o s) = Len(e) + Len(s)
      /\ \A i \in 1..(Len(e) + Len(s)) :
           (e \o s)[i] = IF i <= Len(e) THEN e[i] ELSE s[i - Len(e)]
  BY ConcatProperties
<1>3. Len(l) <= Len(e) /\ \A i \in 1..Len(l) : l[i] = e[i]
  BY DEF Begins
<1>4. \A i \in 1..Len(l) : i \in 1..(Len(e) + Len(s)) /\ i <= Len(e)
  BY <1>1, <1>3
<1>5. Len(l) <= Len(e \o s)
  BY <1>1, <1>2, <1>3
<1>6. QED
  BY <1>2, <1>3, <1>4, <1>5 DEF Begins

\* A step of the run publishes exactly what it adds to the ledger.
LEMMA PublishedGrows ==
  ASSUME TLInv, RunStep
  PROVE  \/ pending' = <<>> /\ state'.updates = state.updates
         \/ \E r \in Receipt :
              state'.updates = Append(state.updates, r) /\ pending' = EventsOf(r)
<1>1. Step
  BY DEF RunStep
<1>2. CASE pc = "sync rename"
  <2>1. state' = candidate
    BY <1>1, <1>2 DEF Step, Restore, Collect, Finish, Train, Exercise, SyncFiles,
         SyncDirectories, ValidateCandidate, Replace, SyncRename
  <2>2. QED
    BY <1>2, <2>1, PublishesLast
<1>3. CASE pc # "sync rename"
  <2>1. state' = state
    BY <1>1, <1>3 DEF Step, Restore, Collect, Finish, Train, Exercise, SyncFiles,
         SyncDirectories, ValidateCandidate, Replace, SyncRename, memory
  <2>2. QED
    BY <1>3, <2>1, PublishesLast
<1>4. QED
  BY <1>2, <1>3

LEMMA RunStepPInv == TLInv /\ OInv /\ PInv /\ RunStep => PInv'
<1> SUFFICES ASSUME TLInv, OInv, PInv, RunStep PROVE PInv'
  OBVIOUS
<1>1. pending = <<>> /\ Step /\ UNCHANGED <<opened, log, seen, outage>>
  BY DEF RunStep, Idle
<1>2. pc \notin DeadEnds
  BY <1>1, StepIsAlive
<1>3. log \in Seq(EventType) /\ seen \in 0..Len(log)
      /\ (opened => ~(seen < Len(log)))
  <2>1. log \in Seq(EventType) /\ seen \in 0..Len(log)
    BY DEF OInv, OTypes
  <2>2. QED
    BY <1>1, <2>1 DEF OInv, Loaded
<1>4. Published \in Seq(EventType) /\ Published = EventsOfAll(state.updates)
      /\ state.updates \in Seq(Receipt)
  BY <1>2, PublishedIs
<1>5. Published' = EventsOfAll(state'.updates)
  BY DEF Published, EventsOfLedger, EventsOfAll
<1>6. PICK s \in Seq(EventType) : Published' = Published \o s /\ pending' = s
  <2>1. CASE pending' = <<>> /\ state'.updates = state.updates
    <3>1. Published \o <<>> = Published /\ <<>> \in Seq(EventType)
      BY <1>4, ConcatEmptySeq, EmptySeq
    <3>2. Published' = Published
      BY <1>4, <1>5, <2>1
    <3>3. QED
      BY <2>1, <3>1, <3>2
  <2>2. CASE \E r \in Receipt :
               state'.updates = Append(state.updates, r) /\ pending' = EventsOf(r)
    <3>1. PICK r \in Receipt :
            state'.updates = Append(state.updates, r) /\ pending' = EventsOf(r)
      BY <2>2
    <3>2. Published' = Published \o EventsOf(r)
      BY <1>4, <1>5, <3>1, EventsAppend
    <3>3. QED
      BY <3>1, <3>2, EventsOfIs
  <2>3. QED
    BY <2>1, <2>2, PublishedGrows
<1>7. LogBehind'
  <2>1. SUFFICES ASSUME ~outage PROVE Begins(log, EventsOfLedger(Visible.ledger)')
    BY <1>1 DEF LogBehind
  <2>2. Begins(log, EventsOfLedger(Visible.ledger))
    BY <2>1 DEF PInv, LogBehind
  <2>3. EventsOfLedger(Visible.ledger)' = EventsOfAll(Visible'.ledger.updates)
    BY DEF EventsOfLedger, EventsOfAll
  <2>4. CASE Visible'.ledger.updates = Visible.ledger.updates
    BY <2>2, <2>3, <2>4, VisibleIs
  <2>5. CASE \E r \in Receipt : Visible'.ledger.updates = Append(Visible.ledger.updates, r)
    <3>1. PICK r \in Receipt : Visible'.ledger.updates = Append(Visible.ledger.updates, r)
      BY <2>5
    <3>2. EventsOfLedger(Visible.ledger)' = EventsOfLedger(Visible.ledger) \o EventsOf(r)
      BY <2>3, <3>1, VisibleIs, EventsAppend
    <3>3. QED
      BY <1>3, <2>2, <3>2, VisibleIs, EventsOfIs, BeginsLonger
  <2>6. QED
    BY <1>1, <2>4, <2>5, VisibleGrows
<1>8. Publishing'
  <2>1. SUFFICES ASSUME ~outage, opened PROVE Pending(Published \o s, s, log, seen)
    BY <1>1, <1>6 DEF Publishing
  <2>2. Pending(Published, <<>>, log, seen)
    BY <1>1, <1>2, <2>1 DEF PInv, Publishing
  <2>3. QED
    BY <1>3, <1>4, <2>2, PendingNext
<1>9. Accounted'
  <2>1. SUFFICES ASSUME opened
                 PROVE  ToSet(Published \o s) \subseteq ToSet(log) \cup ToSet(s)
    BY <1>1, <1>3, <1>6 DEF Accounted
  <2>2. ToSet(Published) \subseteq ToSet(log)
    <3>1. ToSet(<<>>) = {}
      BY DEF ToSet
    <3>2. QED
      BY <1>1, <1>2, <2>1, <3>1 DEF PInv, Accounted
  <2>3. ToSet(Published \o s) \subseteq ToSet(Published) \cup ToSet(s)
    BY <1>4, ConcatKeeps
  <2>4. QED
    BY <2>2, <2>3
<1>10. ReplayAgreesUnlessOutage'
  BY <1>1 DEF ReplayAgreesUnlessOutage, ReplayAgrees, Step, Restore, Collect, BeginCommit,
     Finish, Train, Exercise, SyncFiles, SyncDirectories, ValidateCandidate, Replace, SyncRename
<1>11. QED
  BY <1>7, <1>8, <1>9, <1>10 DEF PInv

LEMMA StepPInv == TLInv /\ OInv /\ PInv /\ [TelemetryNext]_allVars => PInv'
<1> SUFFICES ASSUME TLInv, OInv, PInv, [TelemetryNext]_allVars PROVE PInv'
  OBVIOUS
<1>1. CASE Upload \/ SdkFails \/ UNCHANGED allVars
  <2>1. UNCHANGED <<pc, versions, state, opened, pending, log, seen, outage>>
    BY <1>1 DEF Upload, SdkFails, allVars, vars, disk, memory, telemetry
  <2>2. QED
    BY <2>1, PInvKept
<1>2. QED
  BY <1>1, BeginPInv, RunStepPInv, OpenPInv, WritePInv, SyncPInv, StopPInv
     DEF TelemetryNext, Progress

LEMMA PublicationInvariance == TelemetrySpec => []PInv
BY InitPInv, StepPInv, LedgerInvariance, LoadedInvariance, PTL DEF TelemetrySpec

\* When the loop goes on, the log holds exactly the events of the committed updates, in
\* their order, whatever stopped the run between a commit and its publication, as long
\* as the power does not fail (formal_run.py:116-118, 515-517; telemetry.py:66-75).
THEOREM LogIsLedger == TelemetrySpec => []LogMatchesLedger
<1>1. TLInv /\ OInv /\ PInv => LogMatchesLedger
  <2>1. SUFFICES ASSUME TLInv, OInv, PInv, ~outage, opened, pending = <<>>, pc \notin DeadEnds
                 PROVE  log = Published
    BY DEF LogMatchesLedger, Idle, DeadEnds, Published
  <2>2. Pending(Published, <<>>, log, seen)
    BY <2>1 DEF PInv, Publishing
  <2>3. /\ Published \in Seq(EventType) /\ log \in Seq(EventType)
        /\ seen \in 0..Len(log)
    BY <2>1, PublishedIs DEF OInv, OTypes
  <2>4. QED
    BY <2>2, <2>3, PendingNone
<1>2. QED
  BY <1>1, PublicationInvariance, LedgerInvariance, LoadedInvariance, PTL

\* Nor does the log forget an update when power failures take some back or take parts
\* of the log (formal_run.py:116-118).
THEOREM NothingForgotten == TelemetrySpec => []NothingUnpublished
<1>1. PInv => NothingUnpublished
  <2>1. SUFFICES ASSUME PInv, opened, pending = <<>>, pc \notin DeadEnds
                 PROVE  ToSet(Published) \subseteq ToSet(log)
    BY DEF NothingUnpublished, Idle, DeadEnds, Published
  <2>2. ToSet(<<>>) = {}
    BY DEF ToSet
  <2>3. QED
    BY <2>1, <2>2 DEF PInv, Accounted
<1>2. QED
  BY <1>1, PublicationInvariance, PTL

\* Without a power failure the replay of committed updates never finds another event
\* under a key, after any number of stops (telemetry.py:66-69, formal_run.py:116-118).
THEOREM ReplaysAgree == TelemetrySpec => []ReplayAgreesUnlessOutage
<1>1. PInv => ReplayAgreesUnlessOutage
  BY DEF PInv
<1>2. QED
  BY <1>1, PublicationInvariance, PTL

=============================================================================
