----------------------------- MODULE RunLedger ------------------------------
(***************************************************************************)
(* One formal training run: the batch loop of budgetsi/formal_run.py, the  *)
(* ledger of budgetsi/run_state.py and the file system they write to, with *)
(* process stops (SIGTERM, SIGKILL, any exception) and power failures at   *)
(* every point, followed by --resume.                                      *)
(*                                                                         *)
(* Abstractions.                                                           *)
(*  - A snapshot (the hash of the adapter weights) is identified by the    *)
(*    batch attempt whose update produced it; an update always changes the *)
(*    adapter (formal_run.py:438,477).  LoRA initialisation is seeded, so  *)
(*    every process starts from the same snapshot Initial.                 *)
(*  - An attempt directory batch_<i>_attempt_<time> is identified by its   *)
(*    batch and by the process that made it: a process tries a batch once. *)
(*  - The directory lock (run.lock) admits one process at a time, so there *)
(*    is one process.                                                      *)
(*  - A node is a batch and a slot; ids embed the batch (batch_scenes) or  *)
(*    the visit of the scene (schedule_batch), and sort by slot.           *)
(***************************************************************************)
EXTENDS Naturals, Sequences, FiniteSets, SequencesExt

CONSTANTS
  Target,      \* config["target_nodes"]
  MaxBatches,  \* config["max_scene_batches"]
  Slots,       \* nodes that one batch can select at most
  MaxRuns      \* bound: processes started over the life of the run

ASSUME ConstantsAssumption ==
  /\ Target \in Nat \ {0}
  /\ MaxBatches \in Nat
  /\ Slots \in Nat
  /\ MaxRuns \in Nat

VARIABLES
  pc,         \* where the training process is; "down" when there is none
  runs,       \* processes started so far
  versions,   \* contents of state.json since its directory was last synced:
              \* the first is what a power failure keeps, the last what a reader sees
  store,      \* checkpoint directories by attempt
  state,      \* Ledger.state, in memory
  candidate,  \* the successor of state that commit is writing
  batch,      \* batch_index of the loop
  current,    \* snapshot this batch is collected with and trained from
  adapter,    \* snapshot of the adapter on the GPU
  opt,        \* step of the optimizer
  nodes,      \* nodes chosen for the update of this batch
  acked       \* history: highest next_batch for which commit has returned

disk == <<versions, store>>
memory == <<state, candidate, batch, current, adapter, opt, nodes>>
vars == <<pc, runs, disk, memory, acked>>

-----------------------------------------------------------------------------
(* Data *)

Batches == 0..(MaxBatches - 1)
Node == [batch : Batches, slot : 1..Slots]
NodesOf(b) == {n \in Node : n.batch = b}

Attempt == [batch : Batches, run : 1..MaxRuns]
Initial == [batch |-> 0, run |-> 0]
Snapshot == Attempt \cup {Initial}

\* What must survive for a checkpoint to be restored: the contents of its files
\* and the directory entries on the path that leads to them.
Files == {"adapter_model.safetensors", "optimizer.pt", "result.json"}
Directories == {"adapter/", "update/", "attempt/", "out/"}
Parts == Files \cup Directories

Checkpoint ==
  [adapter : Snapshot, step : Nat, has : SUBSET Parts, safe : SUBSET Parts]
NoCheckpoint == [adapter |-> Initial, step |-> 0, has |-> {}, safe |-> {}]

Receipt ==
  [batch : Batches, checkpoint : Attempt, before : Snapshot, after : Snapshot,
   nodes : SUBSET Node, step : Nat]
LedgerState == [next_batch : Nat, updates : Seq(Receipt)]
EmptyLedger == [next_batch |-> 0, updates |-> <<>>]

\* What a reader of state.json can find: nothing, a ledger, or a file whose
\* contents never reached the disk.  synced: written through before the rename.
Version ==
  [kind : {"absent", "ledger", "torn"}, ledger : LedgerState, synced : BOOLEAN]
Absent == [kind |-> "absent", ledger |-> EmptyLedger, synced |-> TRUE]
Visible == Last(versions)

Receipts(led) == ToSet(led.updates)
UsedNodes(led) == UNION {r.nodes : r \in Receipts(led)}

\* Ledger.validate without the files: order, steps, the snapshot chain, fresh
\* nodes and the quota.
Validate(led) ==
  /\ \A i \in DOMAIN led.updates :
       LET r == led.updates[i] IN
         /\ r.step = i
         /\ r.batch < led.next_batch
         /\ r.nodes # {}
         /\ \A j \in 1..(i - 1) :
              /\ led.updates[j].batch < r.batch
              /\ led.updates[j].nodes \cap r.nodes = {}
         /\ i > 1 => r.before = led.updates[i - 1].after
  /\ Cardinality(UsedNodes(led)) <= Target

\* The digests and the receipt that validate compares when files are verified.
FilesMatch(r) ==
  LET c == store[r.checkpoint] IN
    /\ c.has = Parts
    /\ c.adapter = r.after
    /\ c.step = r.step

\* Mutant of IsQuota: room for one node too many.
IsQuotaPlusOne(chosen, records, used) ==
  /\ chosen \subseteq records
  /\ IF Cardinality(records) <= Target - Cardinality(used) + 1
     THEN chosen = records
     ELSE Cardinality(chosen) = Target - Cardinality(used) + 1

\* choose_quota: the first nodes in id order that still fit the quota.
IsQuota(chosen, records, used) ==
  /\ chosen \subseteq records
  /\ \A n \in chosen, m \in records \ chosen : n.slot < m.slot
  /\ LET room == Target - Cardinality(used) IN
       IF Cardinality(records) <= room
       THEN chosen = records
       ELSE Cardinality(chosen) = room

-----------------------------------------------------------------------------
(* Starting and resuming *)

Init ==
  /\ pc = "down"
  /\ runs = 0
  /\ versions = <<Absent>>
  /\ store = [a \in Attempt |-> NoCheckpoint]
  /\ state = EmptyLedger /\ candidate = EmptyLedger
  /\ batch = 0 /\ current = Initial /\ adapter = Initial /\ opt = 0 /\ nodes = {}
  /\ acked = 0

\* A first start makes the run directory, which a second start without --resume
\* refuses to find (mkdir exist_ok=False), and writes the empty ledger.
Start ==
  /\ pc = "down" /\ runs = 0 /\ runs < MaxRuns
  /\ runs' = 1
  /\ candidate' = EmptyLedger
  /\ pc' = "replace"
  /\ UNCHANGED <<disk, state, batch, current, adapter, opt, nodes, acked>>

\* What --resume demands of state.json and of every checkpoint it names.
Resumable(led) ==
  /\ Validate(led)
  /\ \A r \in Receipts(led) : FilesMatch(r)

\* --resume reads and verifies the ledger; otherwise the process ends at once.
Resume ==
  /\ pc = "down" /\ runs > 0 /\ runs < MaxRuns
  /\ Visible.kind = "ledger"
  /\ Resumable(Visible.ledger)
  /\ runs' = runs + 1
  /\ state' = Visible.ledger
  /\ pc' = "restore"
  /\ UNCHANGED <<disk, candidate, batch, current, adapter, opt, nodes, acked>>

\* Mutant of SeededAdapter: LoRA weights initialised without the configured seed.
UnseededAdapter == [batch |-> 0, run |-> runs]

\* The adapter of a process that has loaded no checkpoint.
SeededAdapter == Initial

\* Mutant of FirstBatch: the loop resumes after the batch it should retry.
FirstBatchSkipped == state.next_batch + 1

FirstBatch == state.next_batch

\* Load the adapter and the optimizer of the last committed update, and check them
\* against its receipt.
Restore ==
  /\ pc = "restore"
  /\ batch' = FirstBatch
  /\ IF state.updates = <<>>
     THEN /\ adapter' = SeededAdapter /\ opt' = 0
          /\ pc' = "loop"
     ELSE LET r == Last(state.updates) IN
          /\ adapter' = store[r.checkpoint].adapter
          /\ opt' = store[r.checkpoint].step
          /\ pc' = IF adapter' = r.after /\ opt' = Len(state.updates)
                   THEN "loop" ELSE "refused"
  /\ UNCHANGED <<runs, disk, state, candidate, current, nodes, acked>>

-----------------------------------------------------------------------------
(* The batch loop *)

MoreBatches == batch < MaxBatches

\* The adapter is asserted to be the one the last commit recorded.
OnCommittedSnapshot ==
  state.updates # <<>> => adapter = Last(state.updates).after

\* commit refuses a batch out of order, else works on a copy of the ledger.
BeginCommit(updates, next) ==
  IF batch = state.next_batch
  THEN /\ candidate' = [next_batch |-> state.next_batch + 1, updates |-> updates]
       /\ pc' = next
  ELSE /\ pc' = "refused"
       /\ UNCHANGED candidate

\* Collect a batch with the current adapter and apply the quota.  A batch that
\* leaves no records is committed without an update.
Collect ==
  /\ pc = "loop"
  /\ Cardinality(UsedNodes(state)) # Target
  /\ MoreBatches
  /\ current' = adapter
  /\ \E records \in SUBSET NodesOf(batch) :
       IF ~OnCommittedSnapshot \/ records \cap UsedNodes(state) # {}
       THEN pc' = "refused" /\ UNCHANGED <<nodes, candidate>>
       ELSE \E chosen \in SUBSET records :
              /\ IsQuota(chosen, records, UsedNodes(state))
              /\ nodes' = chosen
              /\ IF chosen = {}
                 THEN BeginCommit(state.updates, "validate")
                 ELSE pc' = "train" /\ UNCHANGED candidate
  /\ UNCHANGED <<runs, disk, state, batch, adapter, opt, acked>>

\* The loop ends when the quota is met, or fails when the batches run out.
Finish ==
  /\ pc = "loop"
  /\ \/ Cardinality(UsedNodes(state)) = Target /\ pc' = "done"
     \/ /\ Cardinality(UsedNodes(state)) # Target
        /\ ~MoreBatches
        /\ pc' = "exhausted"
  /\ UNCHANGED <<runs, disk, memory, acked>>

This == [batch |-> batch, run |-> runs]

\* The actor update, then the adapter and the optimizer are saved in a fresh directory.
Train ==
  /\ pc = "train"
  /\ adapter' = This
  /\ opt' = opt + 1
  /\ store' = [store EXCEPT ![This] =
       [adapter |-> This, step |-> opt + 1, has |-> Parts \ {"result.json"}, safe |-> {}]]
  /\ pc' = "exercise"
  /\ UNCHANGED <<runs, versions, state, candidate, batch, current, nodes, acked>>

\* Both states are spoilt and loaded back from the files, the receipt is written
\* beside them and commit begins.
Exercise ==
  /\ pc = "exercise"
  /\ adapter' = store[This].adapter
  /\ opt' = store[This].step
  /\ IF opt' = Len(state.updates) + 1 /\ adapter' # current
     THEN /\ store' = [store EXCEPT ![This].has = @ \cup {"result.json"}]
          /\ BeginCommit(
               Append(state.updates,
                 [batch |-> batch, checkpoint |-> This, before |-> current,
                  after |-> adapter', nodes |-> nodes, step |-> opt']),
               "sync files")
     ELSE pc' = "refused" /\ UNCHANGED <<store, candidate>>
  /\ UNCHANGED <<runs, versions, state, batch, current, nodes, acked>>

-----------------------------------------------------------------------------
(* Ledger.commit *)

\* Mutant of Safe: the optimizer file is left to the page cache.
SafeButOptimizer(parts) ==
  store' = [store EXCEPT ![This].safe = @ \cup (parts \ {"optimizer.pt"})]

Safe(parts) == store' = [store EXCEPT ![This].safe = @ \cup parts]

\* Mutant of SyncPath: the entry of the update directory is not synced.
SyncPathWithoutUpdate == <<"adapter/", "attempt/", "out/">>

\* The directories are synced from the inside out.
SyncPath == <<"adapter/", "update/", "attempt/", "out/">>

\* Every file below the update directory is synced first.
SyncFiles ==
  /\ pc = "sync files"
  /\ Safe(Files)
  /\ pc' = "sync directories"
  /\ UNCHANGED <<runs, versions, memory, acked>>

\* Syncing the run directory also settles earlier renames of state.json.
SyncDirectories ==
  /\ pc = "sync directories"
  /\ LET done == store[This].safe \cap Directories
         next == SyncPath[Cardinality(done) + 1]
     IN /\ Safe({next})
        /\ versions' = IF next = "out/" THEN <<Visible>> ELSE versions
        /\ pc' = IF next = "out/" THEN "validate" ELSE pc
  /\ UNCHANGED <<runs, memory, acked>>

\* The copy is validated, without reading the files again, before it is written.
ValidateCandidate ==
  /\ pc = "validate"
  /\ pc' = IF Validate(candidate) THEN "replace" ELSE "refused"
  /\ UNCHANGED <<runs, disk, memory, acked>>

\* durable_json: the new contents are synced in a temporary file and renamed over
\* state.json ...
Replace ==
  /\ pc = "replace"
  /\ versions' = Append(versions,
                   [kind |-> "ledger", ledger |-> candidate, synced |-> TRUE])
  /\ pc' = "sync rename"
  /\ UNCHANGED <<runs, store, memory, acked>>

\* Mutant of SettleRename: the directory is never synced.
LeaveRename == versions' = versions

SettleRename == versions' = <<Visible>>

\* ... then the directory is synced, and only now does the process move on.
SyncRename ==
  /\ pc = "sync rename"
  /\ SettleRename
  /\ state' = candidate
  /\ acked' = candidate.next_batch
  /\ IF candidate = EmptyLedger
     THEN pc' = "restore" /\ UNCHANGED batch
     ELSE pc' = "loop" /\ batch' = batch + 1
  /\ UNCHANGED <<runs, store, candidate, current, adapter, opt, nodes>>

-----------------------------------------------------------------------------
(* Stops *)

\* Nothing of the process's memory outlives it.
Forget ==
  /\ pc' = "down"
  /\ state' = EmptyLedger /\ candidate' = EmptyLedger
  /\ batch' = 0 /\ current' = Initial /\ adapter' = Initial /\ opt' = 0 /\ nodes' = {}

Running == pc \notin {"down", "done", "exhausted"}

\* A signal or an exception anywhere: the page cache keeps every write.
Stop ==
  /\ Running
  /\ Forget
  /\ UNCHANGED <<runs, disk, acked>>

\* A power failure: state.json is any version since its directory was last synced,
\* torn if its contents were not written through; of each checkpoint the synced
\* parts survive, with or without the others.
PowerFailure ==
  /\ runs > 0
  /\ \E i \in DOMAIN versions, kept \in SUBSET {a \in Attempt : store[a].has # store[a].safe} :
       /\ versions' = <<IF versions[i].synced THEN versions[i]
                        ELSE [versions[i] EXCEPT !.kind = "torn"]>>
       /\ store' = [a \in Attempt |->
            LET left == IF a \in kept THEN store[a].has ELSE store[a].safe
            IN [store[a] EXCEPT !.has = left, !.safe = left]]
  /\ Forget
  /\ UNCHANGED <<runs, acked>>

Step ==
  \/ Restore \/ Collect \/ Finish \/ Train \/ Exercise
  \/ SyncFiles \/ SyncDirectories \/ ValidateCandidate \/ Replace \/ SyncRename

Next == Start \/ Resume \/ Step \/ Stop \/ PowerFailure

\* The process runs on, and an operator resumes a run that is down.
Fairness == WF_vars(Step) /\ WF_vars(Start) /\ WF_vars(Resume)

Spec == Init /\ [][Next]_vars
FairSpec == Spec /\ Fairness

-----------------------------------------------------------------------------
(* Correctness *)

Locations ==
  {"down", "restore", "loop", "train", "exercise", "sync files", "sync directories",
   "validate", "replace", "sync rename", "done", "exhausted", "refused"}

\* The variables stay within their types, batch_index never passes the declared
\* number of batches (formal_run.py:235) and the process count its bound.
TypeOK ==
  /\ pc \in Locations
  /\ runs \in 0..MaxRuns
  /\ versions \in Seq(Version) /\ versions # <<>>
  /\ store \in [Attempt -> Checkpoint]
  /\ state \in LedgerState /\ candidate \in LedgerState
  /\ batch \in 0..MaxBatches
  /\ current \in Snapshot /\ adapter \in Snapshot
  /\ opt \in Nat
  /\ nodes \subseteq Node
  /\ acked \in Nat

\* Whatever stopped the run and wherever, every ledger that can be found afterwards
\* passes the validation that --resume performs, files included: each committed
\* update has its whole checkpoint (run_state.py:79-106, 116-126).
Recoverable ==
  \A i \in DOMAIN versions :
    /\ versions[i].kind # "torn"
    /\ versions[i].kind = "ledger" => Resumable(versions[i].ledger)

\* A ledger a power failure may leave names only checkpoints that the same power
\* failure cannot take: the checkpoint is on disk before the ledger that names it.
CommittedIsDurable ==
  \A i \in DOMAIN versions :
    \A r \in Receipts(versions[i].ledger) : store[r.checkpoint].safe = Parts

\* The trainer's own assertions and the validation inside commit never fail: the
\* quota it chose fits, the batch is the next one, the restored optimizer step and
\* adapter are the committed ones (formal_run.py:228-245, 475-477; run_state.py:128).
NeverRefused == pc # "refused"

\* Training never builds on weights that were not committed: in every ledger the
\* first update starts from the initial adapter and each later one from its
\* predecessor's result (formal_run.py:243-245, run_state.py:90).
SnapshotChain ==
  \A i \in DOMAIN versions :
    LET u == versions[i].ledger.updates IN
      \A k \in DOMAIN u : u[k].before = IF k = 1 THEN Initial ELSE u[k - 1].after

\* The log of node sets that a ledger stands for: one per batch.
LogOf(led) ==
  [k \in 1..led.next_batch |->
     UNION {r.nodes : r \in {q \in Receipts(led) : q.batch = k - 1}}]

\* The trainer implements the quota log: what a reader of state.json sees is the
\* log, what a power failure keeps is its stable prefix, and a batch is
\* acknowledged when commit returns (run_state.py:108-130).
Quota == INSTANCE QuotaLog WITH
  log <- LogOf(Visible.ledger),
  stable <- versions[1].ledger.next_batch

Promise == Quota!Spec

\* Once its first ledger is on disk, a run that is resumed after every stop ends, its
\* quota met or its batches used up (or it was stopped as often as the bound allows):
\* no stop leaves it in a state from which it cannot go on (formal_run.py:222-231).
EndsWhenResumed ==
  versions[1].kind = "ledger"
    ~> \/ pc \in {"done", "exhausted"}
       \/ pc = "down" /\ runs = MaxRuns
=============================================================================
