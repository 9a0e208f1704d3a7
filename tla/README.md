# Formal models of the BudgetSI training system

TLA+ models of the on-policy distillation runs in `src/budgetsi`: what a training
run keeps on disk and how it resumes, how several runs share one teacher, how the
teacher's queues and GPUs are shared, and the promises each part makes to the others.
TLC checks small instances of every module; TLAPS proves the safety properties, in the
`...Proofs` modules, for every value of the constants.

Line numbers are those of `src/budgetsi` unless a path says otherwise. `verl/`,
`LlamaFactory/` and the scripts around them are upstream frameworks kept unchanged
(`src/budgetsi/CURRENT_VERSION.md`) and are not modelled.

## 1. The system

An *experiment* (a training run) works through batches of scenes. For each batch it
**collects** dialogues sampled from the student and rated by a teacher, chooses nodes
within a quota, has the teacher **score** them exactly, **updates** the LoRA adapter,
and **commits** the batch to a ledger. Two experiments share one persistent teacher,
and the exact teacher shares its GPUs with replicas of the student that score.

| Component | State it keeps | Operations | Hard behaviour | What makes it correct |
|---|---|---|---|---|
| Training run (`formal_run.py`) | adapter and optimizer in GPU memory, `batch_index`, snapshot of the batch | start, resume, collect, train, exercise the checkpoint, commit, abort | stop by signal, exception or power at any point; resume | every stop is resumable; no update starts from uncommitted weights |
| Ledger (`run_state.py`) | `state.json` (`next_batch`, updates), checkpoint directories | `choose_quota`, `commit`, `validate`, `durable_json` | rename not yet on disk, checkpoint not yet on disk, orphaned attempts | the ledger names only durable checkpoints; a commit once acknowledged is never lost; the quota is never passed; no node is used twice |
| GPU lease (`gpu_lease.py`, `score_replica.py`) | two `flock` files, transient CUDA memory | shared and exclusive lease, release of memory | death of a holder, readers against writer | a teacher forward never shares transient memory; writers are not starved |
| Persistent teacher (`persistent_teacher.py`, `remote_teacher.py`) | phase, round and request count per experiment, error, backends | data requests, phase reports, status, abort, shutdown | one handler thread per request; unlocked reads; time-outs that leave work behind; clients that die | no sampling during an update and no scoring during collection; backends stopped only when unused; an abort is final; runs do not wait for each other |
| Admission scheduler (`teacher_schedule.FairScheduler`) | queue, active count and score streak per run; cursor | submit, dispatch, finish, close | condition variable, pool, closing with work queued | limits, bounded overtaking, no lost wake-up, no starvation, close drains |
| Phased teacher (`phased_teacher.py`, `teacher_schedule.Cohort`) | phase per member, round, mode, the one backend process | check and submit, arrive, switch, abort, close | the last to arrive switches without the lock; barrier time-out during a switch; check, then submit; close during a load | one model at a time; all members switch together; no backend is taken from a request; an abort is final |
| Parallel engine (`parallel_collect.py`, the loop of `formal_run.py`) | batch workers and their queues, `accepting`/`closing`, count of requests inside, count of waiting scores, snapshot | call, batch, synchronise, open, close_collection, close | requests whose client has given up, failing batches and replicas, a collector that fails, scores against generation on one model | nothing inside while the adapter changes; receipts and answers belong to their snapshot; scores before generation; the run ends |
| Student replica (`student_replica.py`; `score_replica.py` has the same transport) | child process, pipe, serial number, acknowledged snapshot on both sides | RPC with time-out, sync, close | interrupted calls and their late answers, close against call, exit of the child | an answer belongs to its request and adapter; an acknowledged snapshot is what is loaded |
| Telemetry (`telemetry.py`, `diagnostic_run.publish`) | append-only event log, seen keys | append, recover, replay | torn last line, replay after a crash between commit and publication | each committed update published, once |
| Execution migration (`execution_migration.py`) | plan files, archive directories, receipts, the binding in `state.json` | plan, apply | stop between file operations; a plan applied late or twice; a run that goes on meanwhile | no committed batch is lost; no rebinding without its journal |
| Dialogue runner (`social_protocol/runner.py`) | one episode | request, retry, select | retry of a request whose first execution may still complete | what it accepts is on policy |
| Schedules and validation (`school_data.py`, `run_state.py`) | none | `schedule_batch`, `batch_scenes`, `validate_batch` | wrap-around, reuse of ids | distinct ids, fixed order |

How they interact: the run calls the ledger directly and reaches the teacher over HTTP;
the teacher's handler threads call `IndependentPhases` under its lock, then one of two
`FairScheduler`s (generation, scoring), whose pools call the backends; the exact
backend takes the writer's side of the lease around each forward pass, the student
scoring replicas take the reader's side. Everything a restart can see is in
`state.json`, the checkpoint directories and the event log.

`PROJECT.json` lists each component with its status and, under `hazards`, every
behaviour of this code that a test would hardly reach, at its line.

## 2. The modules

| Module | Models | State against code | Steps against code |
|---|---|---|---|
| `QuotaLog` | the promise of a run to its operator: a log of node sets, a stable prefix, an acknowledged prefix | abstract | `Commit`, `Stabilise`, `Acknowledge`, `Lose` |
| `RunLedger` | `formal_run.main` with `run_state.Ledger` and the file system | `versions` = what `state.json` may hold after a power failure (first) up to what a reader sees (last); `store` = each attempt's checkpoint with the parts written (`has`) and synced (`safe`); `state`, `batch`, `adapter`, `opt` = the process's memory | `Start`, `Resume`, `Restore`, `Collect`, `Train`, `Exercise`, then `commit` as `SyncFiles`, `SyncDirectories` (one directory a step), `ValidateCandidate`, `Replace`, `SyncRename`; `Stop`, `PowerFailure` anywhere |
| `RunTelemetry` (extends `RunLedger`) | `telemetry.Telemetry`, `diagnostic_run.publish`, the replay at start, the hand-over to W&B | `log`, `safe`, `torn` = `metrics.jsonl`, its synced part and an incomplete last line; `seen` = the process's map of keys; `pending` = events `publish` has still to log; `evidence` = the files it reads beside a checkpoint; `sdk`, `sent`, `cloud` = the W&B run | the steps of `RunLedger`, then `Open`, `Write`, `Sync`, `Upload`, `SdkFails`; the stops also take what telemetry has in memory |
| `GpuLease` | `device_lease` and both kinds of holder | `turn`, `holders` = the two `flock`s, `memory` = transient allocations | one step per lock call; `Abandon` = kill, or exception while waiting |
| `TeacherPhases` | `PersistentTeacher.dispatch`, `IndependentPhases`, and the runs as clients | `phase`, `rounds`, `active`, `error` = the fields of `IndependentPhases`; `handler` = each request thread's position in `dispatch`; `work` = requests the schedulers hold | one step per section under the lock and one per unlocked read |
| `RequestPool` | the promise of the scheduler to its callers: requests that wait, by kind, that have begun, that have ended; a gate | abstract | `Accept`, `Begin`, `End`, `Answer`, `Close`, `Closed` |
| `FairScheduler` | `teacher_schedule.FairScheduler` | `queues`, `active`, `streak`, `cursor`, `closed` = its fields; `dispatcher`, `closer` = its threads | one step per section under the condition variable |
| `PhasedTeacher` | `PhasedTeacher`, `Cohort`, and the runs as clients | `phase`, `round`, `error` = `Cohort.states`, `round`, `error`; `mode`, `backend` = `PhasedTeacher.mode` and the backend process; `closer` = how far `close` has come; `handler`, `work`, `client` as in `TeacherPhases` | `Check` and `Submit` (phased_teacher.py:79-98), `Execute`, `Complete`; `Arrive`, `Pass`, `BarrierTimeOut`; the switch as `BeginSwitch`, `StopBackend`, `ClearMode`, `Start`, `Load`, `EndLoad`, `EndSwitch`, because nothing of it but the first and the last is under the lock; `Close`; `Fail`, `StopRun`, `Resume` of a run |
| `ParallelEngine` | `Engine`/`ParallelEngine.call`, the batch workers, `close_collection`, the loop of `formal_run.main` around them, `Client.request` of the runner | `main`, `batch`, `weights`, `snapshot` = the run; `accepting`, `closing`, `active`, `pending` = the engine's fields; `worker` = each worker thread; `handler` = each request thread's position in `call`; `synced` = what each replica acknowledged; `receipts` = `engine_requests.jsonl` | `BeginSync` ... `End` for the run; `Send`, `GiveUp`, `Receive`, `CollectorEnds`, `CollectorFails` for the collector; `Enter`, `Count`, `Answered`, `BeginRpc`, `EndRpc`, `Leave` for a handler; `Take`, `Admit`, `BeginPrimary`, `BeginOnReplica`, `BeginScore`, `Finish`, `EndWorker` for the workers: one step per section under a lock |
| `StudentReplica` | `StudentReplica` and its child | `lock`, `snapshot`, `closed`, `serial` = `_lock`, `_snapshot`, `_closed`, `_serial`; `call`, `answer` = the threads that use it; `toChild`, `toParent` = the pipe; `child` = the process, with what it has loaded and what it takes it for | `Generate`, `Sync`, `Receive`, `Broken`, `TimeOut`, `Interrupt`; `BeginClose`, `Terminate`, `EndClose`; `Take`, `Reply`, `Exit` of the child |
| `ExecutionMigration` | `plan_execution_migration`, `apply_execution_migration` next to the run | `state`, `config` = the binding and the batches of `state.json`, the binding of `config.json`; `lock` = `run.lock`; `plans` = plan files; `journal`, `receipts` = `execution_migrations/<id>` | `BeginPlan` (reads) and `EndPlan` (digests), `BeginApply`, `MakeJournal`, `PublishPlan`, `WriteState`, `WriteReceipt`: one step per file published; `Kill` anywhere; `Resume`, `Configure`, `Commit`, `Stop` of the run |
| `MCTeacherPhases`, `MCFairScheduler`, `MCPhasedTeacher` | instances for TLC | several small instances of one module, of which the initial state chooses one, so that no instance has to combine everything that may happen | |
| `RunProofs` (of `RunLedger`, its refinement of `QuotaLog`, and `RunTelemetry`), `GpuLeaseProofs`, `TeacherPhasesProofs`, `PhasedTeacherProofs`, `FairSchedulerProofs`, `ParallelEngineProofs`, `StudentReplicaProofs`, `ExecutionMigrationProofs` | theorems | | |

How the modules meet: `RunTelemetry` is composed with `RunLedger`; `TeacherPhases` and
`PhasedTeacher` have the runs as clients and take a scheduler as the set of its requests,
of which `FairScheduler` has the inside; `ParallelEngine` has the run's loop and takes
a replica as the version it has acknowledged, of which `StudentReplica` has the inside;
`GpuLease` is what a forward pass of the teacher or of a scoring replica waits for.

Abstractions of the data: a snapshot is the batch attempt whose update made it (an
update that leaves the adapter unchanged is refused by the trainer, formal_run.py:477)
or a version number; a node is a batch and a position in id order; a request is the slot
or the caller that waits for it; a request or result of the engine is the version of the
weights that it names or was computed with; texts, tokens, tensors and timings are left
out. A digest is taken to identify what it digests.

Assumptions about the environment:

* File system: `fsync` of a file makes its contents durable; `fsync` of a directory
  makes its entries durable; a rename is atomic; without a sync, a power failure keeps
  any of the versions written since the last sync and any choice of a checkpoint's
  parts (kept whole or cut back to what was synced). The run directory's own entry in
  its parent is taken to be durable: nothing syncs the parent of `out`. In
  `ExecutionMigration` processes are killed, but the power does not fail.
* The event log: an append that is not yet synced may survive a power failure, be lost
  or survive in part; nothing syncs the directory that holds `metrics.jsonl`, so the file
  itself may be gone. The files `publish` reads are never synced and may be cut off.
* W&B takes events in their order and ignores a step it is already past; a resumed
  W&B run says where it goes on.
* `run.lock` admits one process per run directory.
* The kernel releases the `flock`s of a dead process, and the driver its memory.
* A pipe keeps the order of its messages and loses none while both ends are open.
* Clocks play no part: a time-out may come at any moment.

## 3. What TLC checks

| Run | Instance | Shows |
|---|---|---|
| `run_ledger` | quota 3, 3 batches of up to 2 nodes, 3 processes | `Recoverable`, `CommittedIsDurable`: at no point, stopped how it may be, is there a ledger that `--resume` would refuse or that names a checkpoint a power failure can take. `NeverRefused`: the trainer's own assertions never fail. `SnapshotChain`: weights chain from commit to commit. `Promise`: refinement of `QuotaLog` - quota, no node twice, acknowledged progress is never lost. `EndsWhenResumed`: from the first durable ledger on, a run that is resumed reaches its end |
| `telemetry` | quota 2, 2 batches of 1 node, 3 processes, diagnostics before the first update; stops and a power failure | `LogMatchesLedger`: without an outage, whenever the loop goes on, the log holds exactly the events of the committed updates, in order. `CloudFollowsLog`: W&B has a prefix of the log. `ReplayAgreesUnlessOutage`: the replay meets no other event under its key. `NothingUnpublished`, `OncePerKey`: what holds of a run that goes on after an outage as well. `EndsPublished`: telemetry never keeps a resumed run from its end, and W&B receives the whole log |
| `telemetry_conflict` | the same | a violation of `ReplayAgrees`, see below |
| `gpu_lease` | 2 readers, 2 writers | `Exclusion`, `MemoryExclusion`, `WriterPriority` with holders killed anywhere. `Served`: a request for the lease is granted though readers come for ever |
| `teacher` | 2 runs, three instances: *stops* (2 requests each, 1 round, runs stopped and resumed, completed runs started again), *down* (1 request each, 2 rounds, time-outs, full queues, backend exits, shutdown, stops), *calm* (2 requests, 2 rounds, no fault) | `WorkMatchesPhase`, `StoppedWhenUnused`, `InStep`, `FailClosed` when clients die and leave requests behind, and when the teacher fails. `CalmNeverAborted`: unlocked reads never see a half-made change and abort a healthy system |
| `teacher_alone` | 2 runs, 1 request each, 1 round, time-outs, backend exits, stops and resumptions, shutdown | `EndsAlone`: a run ends under fairness for its own threads alone, whatever its peer does |
| `fair_scheduler` | 2 runs with 2 and 1 callers, two instances: 2 places with 1 per run, and 1 place | `GenerationPassedTwice`: a generation is passed by two scores at most. `NoLostWakeUp`: the dispatcher sleeps only with nothing to do. `Promise`: refinement of `RequestPool` - each request let in, dispatched and answered once, within the limits, and `close` returns when all is answered. `Served`, `CloseEnds` |
| `parallel_engine` | 2 requests at once, batches of 2, 1 teacher slot, 2 batches of up to 3 requests, every fault; each worker on a replica or on the primary model | `ModelUndisturbed`: no request is inside while the adapter is updated, hashed or sent out. `ReceiptsTrue`, `OnPolicy`: receipts and accepted answers belong to the snapshot of their batch, though requests are retried and left behind. `ScoresFirst`: no generation begins on the primary model while an admitted score waits for it. `RunEnds` |
| `phased_teacher` | 2 runs, two instances: 1 request each, 2 rounds, every fault but a kill; 2 requests each, 1 round, runs killed and resumed | `BackendMatchesPhase`: while the cohort is not aborted the backend is the one its members need. `SwitchDisturbsNobody`: no switch takes the backend from a request that is waited for, or starts a second one. `FailClosed`: an abort is final, for the switch that is under way as well. `EndUnlessKilled`: nobody is left at the barrier |
| `student_replica` | 2 callers, 2 adapters, 6 messages; errors, exits, interrupts, time-outs, close | `AnswersBelong`: a call returns the result of its own request, by the adapter it named. `Acknowledged`: an acknowledged snapshot is what the child has loaded |
| `migration` | 2 operators, 3 bindings, 3 batches; plans only of a stopped run | `Journaled`: no rebinding without its complete journal. `HistoryKept`: no committed batch is lost, however late, often or interrupted a plan is applied |
| `migration_running` | the same with 2 batches and plans of a running run | a violation of `HistoryKept`, see below |

Every property of a passing run has a mutant in `PROJECT.json`: a plausible slip in one
mapped definition under which TLC finds the property violated. The mutated definitions
stand beside the originals in the modules, marked "Mutant of".

### What the violation runs show

* `telemetry_conflict` (`ReplayAgrees`, formal_run.py:116): a process stopped between
  the rename of `state.json` and the sync of its directory leaves a ledger that readers
  see and the disk may not have. The next process replays its updates into the log, which
  is synced. If the power fails before the directory is synced, the ledger falls back,
  the batch is trained again, and its update has the same key as the event in the log with
  other values: every start from then on raises "Conflicting replayed telemetry". The
  ledger itself survives (`StaysRecoverable`); the telemetry opened on the way to a
  resume does not.
* `migration_running` (`HistoryKept`, execution_migration.py:5): planning takes no lock; it
  reads `state.json` at :265 and takes the digest of the file at :280, after the code and
  the checkpoint have been verified. When the run commits a batch in between, the plan has
  the old content and the new digest; `apply` compares the digest alone (:305) and writes
  the old content with the new binding (:315). The committed batch is gone. "Existing
  committed history is retained" holds as long as plans are made of a stopped run
  (`migration`, and `NothingLost` for every instance).

Two more refusals after a power failure are states of `RunTelemetry` without a run of
their own: an incomplete last line, which no later start can parse (`pc = "log
unreadable"`, telemetry.py:75), and `diagnostics.json` or `batch_validation.json` cut off,
which are written without a sync (social_loop.py:63-66) and read by the replay of
committed, durable checkpoints (`pc = "evidence unreadable"`).

### What is not promised

Met on the way, and contradicted by no text of the repository:

* A `close` of the phased teacher that comes between the creation of the `VLLMTeacher` and
  that of its process leaves the process behind (phased_teacher.py:47-49). `PhasedTeacher`
  has it.
* When a run was killed and resumed, the report of its first process may still arrive and
  change the phase between the check of a request and its submission
  (phased_teacher.py:97-98); the request is then refused. `SwitchDisturbsNobody` excepts it.
* A migration stopped between the archive directory and `plan.json` can never be applied
  (execution_migration.py:308-309).
* A scoring replica waits for the GPU lease within the 900 s of its RPC; a long queue of
  exact passes ends it. `StudentReplica` lets the time-out come at any time.
* A fresh run stopped before its first `state.json` leaves a directory that a start and
  `--resume` both refuse (formal_run.py:73).

### Bounds, and why they suffice

* `RunLedger`: with 3 batches of 2 nodes against a quota of 3, a batch can fit, be cut
  by the quota or be empty; there are up to three commits, so a ledger with a
  predecessor that has a predecessor; 3 processes give two resumes, so a resume after
  a resume. `acked` and `opt` are bounded by `MaxBatches`.
* `RunTelemetry`: two committed updates, one with diagnostics and one without, give logs
  of up to three lines; three processes give a replay of a replay. Every refusal is
  reached with them.
* `GpuLease`: conflicts are between pairs; two of each kind give all of them plus a
  third party.
* `TeacherPhases`: `Slots` bounds the requests of one run in flight, `MaxRounds` the
  rounds, `MaxStarts` the processes of a run. Two slots (*stops*) let a phase report meet
  the handler of a request that was left behind; with one slot (*down*) a request that
  timed out still runs without a handler while its run is resumed and reports. Every
  fault together with two slots is left to the proofs.
* `FairScheduler`: two callers of one run let scores overtake a generation, again and
  again, since a caller comes back; one caller of another run is enough for the limits
  to bind in all and not per run. `streak` is not counted beyond `MaxStreak` (the code
  compares with 2 only).
* `PhasedTeacher`: two rounds let the cohort go through both switches and the last one,
  with a switch that must not find what an earlier one left; two requests in flight
  (second instance) let a report left behind meet a request of the resumed run.
* `ParallelEngine`: two requests at once give a full batch of the two generation workers,
  or a score next to a generation; three requests in a batch leave one for a retry; two
  batches let what is left of the first reach the second. The queues' bound of 256 is not
  reached, and their order is not told apart.
* `StudentReplica`: six messages are a sync, a call, another sync and a call with two
  interrupted ones between them; `MaxCalls` bounds nothing else.
* `ExecutionMigration`: three bindings are two migrations, with commits before, between
  and after them; two operators let a plan be applied while another is made. Every binding
  has a configuration of its own, so that the next plan waits for `Configure`, which
  writes it (execution_migration.py:267); two bindings of one configuration are left out.

### Fairness, and why the code justifies it

* `RunLedger`: the process runs on (WF of its steps) and an operator starts and
  resumes it (WF of `Start` and `Resume`); the bound on processes makes that finite.
* `RunTelemetry`: the same, and WF of the upload, which the SDK does on its own thread;
  nothing is assumed of the SDK's failures.
* `GpuLease`: WF of every process's next step; SF of taking the turnstile, because
  `flock` promises no order but the kernel wakes waiters. The wait for the *resource*
  needs no SF: that is what the turnstile is for.
* `TeacherPhases`: WF of the server threads and of answers of one run; SF that a run's
  collection and update end, since a batch has finitely many requests. No fairness for
  its peers.
* `FairScheduler`: WF of the dispatcher, of each worker and of `close`'s waits. The
  lock is assumed not to be monopolised and every execution to return (its HTTP calls
  have time-outs).
* `PhasedTeacher`: WF of each run's handlers, requests and answers, and of `close` once it
  has begun; SF of `Collected` and `Updated` as in `TeacherPhases`. No time-out is needed
  for progress, so none is assumed to come.
* `ParallelEngine`: WF of the run, of each worker thread, of each handler and of the end
  of a collector that waits for nothing. Forward passes and teacher calls return, by
  their time-outs; nothing is assumed of the requests a collector sends or gives up.

`StudentReplica` and `ExecutionMigration` state no liveness: whoever calls has a time-out
of its own, and a migration may stop for good.

### Deadlock

Deadlock is checked for `gpu_lease`. In the other systems everything may end: a run is
done, all runs are finished, a scheduler is closed, a replica is closed, or a bound is
used up; liveness properties say where they must not.

## 4. What is proved

Every constant is arbitrary within the named assumption of its module.

`RunProofs` (`ConstantsAssumption`: quota, batch size and numbers of batches and processes
are naturals, the quota positive) has five parts, each resting on the ones before:

* *The versions of `state.json`*: `TypeCorrect`, `CommitsAreDurable`, `AlwaysRecoverable`.
  The inductive invariant `IInv` adds to the types: what is synced is there
  (`SafeIsThere`); every version of `state.json` is valid and its checkpoints are whole,
  durable, match their receipts and belong to attempts already made (`VersionsSound`);
  a live process has in memory what a reader sees (`InMemory`), and its next attempt is
  named by no ledger, so that `Train` overwrites nothing that matters (`NoOverwrite`);
  how far the current attempt's checkpoint has been synced (`AttemptSound`); and that
  the candidate of a commit is sound once its files are (`CommitSound`). Neither
  property is inductive alone: they hold of *all* versions only because the candidate's
  checkpoint is synced before the rename, which is a fact about `pc` and `store`.
  `DInv` is the part of `IInv` that a process leaves on disk when it ends in whatever
  state; a stop and a power failure need no more.
* *The contents of the ledger*: `NothingRefused` and `WeightsChain`. The
  invariant `JInv` follows the contents: in the loop the process is at the batch, the
  weights and the optimizer step of its ledger (`AtCommit`); what `Collect` chose fits
  the quota and is new (`ChosenSound`); the checkpoint just saved is the one on the GPU
  (`SavedHere`); and the candidate is a valid ledger whose last update left the weights
  and the step in memory (`CandidateSound`). That a resumed process is `AtCommit` again
  rests on `IInv`: the checkpoint it loads is the one its receipt names.
* *The refinement*: `ImplementsQuotaLog`. Under the mapping of `RunLedger`
  every step is a step of `QuotaLog` or a stutter. Its invariant says that the versions
  of `state.json` since the last sync are prefixes of one log (`OneLog`), which makes a
  power failure a loss of a suffix, and that a candidate has one batch and at most one
  receipt more than the ledger in memory (`NextBatch`), which makes the rename a
  `Commit`; that it is within the quota and reuses no node comes from `JInv`.
* *The event log*: `StaysRecoverable`, `LoggedOnce`, `CloudIsPrefix`,
  `LogIsLedger`, `NothingForgotten` and `ReplaysAgree`, for any set of batches with
  diagnostics and any failures (`TelemetryAssumption`). `TLInv` is `IInv` except in a
  process that telemetry has killed, of which `DInv` is left (from which
  `StaysRecoverable`). `OInv`: before `Open` nothing is pending, and the loop goes on only
  when nothing is. `Uploading`: what W&B has, followed by what has been handed over, is
  numbered as the lines the process knows (`InOrder`). `PInv`: without an outage the log
  is a prefix of the events of the ledger that a reader sees (`LogBehind`), and what is
  pending is the rest of them, or overlaps with the log in a replay (`Publishing`); with
  an outage, what is not in the log is still pending (`Accounted`). A replayed event meets
  only itself under its key because the events of a valid ledger have different keys
  (`EventsOnce`), and an event is appended to an agreeing log at the place that it has
  among the events of the ledger. That a commit adds its events at the end
  (`EventsAppend`) is a fact about `FlattenSeq`, which the community modules define by a
  recursive function of its own; the lemmas about it are proved by least counterexample
  (`Least`), since the induction theorems are out of the provers' reach.
* *The run with telemetry keeps what the run without it promises*: `TelemetryKeepsPromise`,
  `TelemetryRefusesNothing` and `TelemetryKeepsChain`. Telemetry adds steps before and
  after those of the loop, and ends the process where a publication raises, which the
  ledger alone never does in those places. Each of its steps is a step of `RunLedger`, a
  stutter, or such a dead end (`TelemetryStepIs`). `IInv` does not survive a dead end,
  the invariants of the contents and of the refinement do (`DeadEndKept`): they speak of
  what is on disk and of what a *live* process has in memory, so there is nothing that
  the killed process could still contradict.

The other modules:

* `GpuLeaseProofs`, for any sets of readers and writers (`LeaseAssumption`: disjoint, the
  free turnstile's holder is none of them): `TypeCorrect`, `WriterExcludes`,
  `MemoryExcludes`, `WriterFirst`. The invariant ties the two locks to the control
  states; a writer keeps the turnstile while it works and memory is in use only
  between `Forward` and `FreeMemory`.
* `TeacherPhasesProofs`, for any set of runs, any finite number of requests in flight, any
  bounds and every combination of faults (`TeacherAssumption`): `PhasesMatchWork`,
  `StopsOnlyUnused`, `AbortIsFinal`. The invariant says that `active` is the number of
  handlers between `enter` and `leave` (`Counted`), that such a handler pins its run's
  phase (`HandlerSound`), and that a request in a scheduler either has such a handler or
  the teacher is aborted (`WorkSound`). Without the last part a time-out breaks the
  induction: the count goes down while the backend works on. What makes it true is that
  `dispatch` aborts before it leaves (persistent_teacher.py:194-199). `RunsInStep`: a run
  in its first process and the teacher agree on the phase (`InStep`). The invariant `LInv`
  says which requests such a run has in flight (`OwnRequests`) and that the phase changes
  between the request for it and the answer (`PhaseFits`), so a peer's report never moves
  it. `NothingWrongNothingAborted`: with `Faults = {}` the teacher is never aborted; it is
  what `CalmNeverAborted` says of the fault-free instance, for every instance. `CInv`
  shows that no check of `dispatch`, made before or without the lock, refuses a request
  (`NoRefusal`), although its peers change phase meanwhile. `CalmInstanceNeverAborted`
  states it of the run's instance, which is chosen in the initial state: each step
  of the *calm* instance is one of `TeacherPhases` other than a fault (`Smooth`), whatever
  faults and bounds the other instances allow.
* `PhasedTeacherProofs`, for any runs, any number of requests in flight and every
  combination of faults (`PhasedAssumption`): `BackendFits`, `AbortIsFinal` and
  `SwitchIsClean`. While the cohort is not aborted and the teacher open, at most one
  handler is in the switch (`OneSwitch`), and as long as it is every member waits at the
  barrier or is finished (`SwitchSound`): the phases stand still, though the switch does
  not hold the lock. Only so can the mode be changed in several steps and still fit the
  phases at its end. `SwitchIsClean` has to hold in an aborted cohort as well, where a
  switch goes on. There the switch is still the only one and every member still waits
  (`AllWait`), nothing is started before the old backend is gone (`Emptied`), and a
  request that was let in finds its run in the phase that it needs until it is answered
  (`InPhase`): so no run that waits for an answer is in a phase in which a switch can be
  under way.
* `FairSchedulerProofs`, for any number of bindings, any set of callers and any limits
  (`SchedulerAssumption`): `TypeCorrect`, `PassedTwiceAtMost`, `CloseDrains`,
  `NoWakeUpIsLost`, the last for every instance and, as `NoWakeUpIsLostMC`, for the two
  that TLC checks; `LimitsHold` and `ImplementsPool`. The invariant: a queue holds exactly
  the requests that wait, once each (`QueuesHold`); `active` is the number of requests
  dispatched and not finished (`ActiveCounts`); a generation at the head has been passed
  at most as often as `streak` says (`PassedInStreak`); where `close` and the dispatcher
  are, and what is drained by then (`Ending`). No wake-up is lost because each step that
  makes a request dispatchable, or the exit possible, wakes the dispatcher: that the
  others make neither possible is what has to be shown.
  `LimitsHold`: the dispatcher compares `sum(active.values())` with `max_active`; that
  this sum is the number of the requests that have begun is `TotalCounts`, about the fold
  of the community modules that `Total` is. Two functions that satisfy its recursive
  equation agree on a finite set, by smallest counterexample (`SumsAgree`).
  `ImplementsPool` is the refinement of `RequestPool`: `Submit` is `Accept`, `Dispatch`
  is `Begin`, `Release` is `End`, `Answer` is `Answer`, `Close` and `ShutdownPool` are
  `Close` and `Closed`, and all other steps stutter. What the abstract guards ask comes
  from the invariant: the length of a queue is the number of its requests
  (`QueueLength`), a score passes a generation only while `passed` is below the limit,
  and nothing waits or has begun when `close` is about to return.
* `StudentReplicaProofs`, for any workers, adapters and faults and any number of calls
  (`ReplicaAssumption`: names of threads and adapters differ): `TypeCorrect`,
  `OwnAnswers`, `AcknowledgedIsLoaded`. The invariant: who waits holds the lock and waits
  for the last number sent (`LockHeld`); messages are taken and answered in the order of
  their numbers, so what an interrupted call left is older than what a caller waits for
  (`InOrder`); a result names the adapter it was computed with (`TrueResults`); and while
  the run relies on a snapshot, no sync is on its way to the child (`Relied`), which is
  why `sync` takes the acknowledgement back before it sends.
* `ParallelEngineProofs`, for any finite number of requests, any batch size, any number of
  teacher slots and every combination of faults (`EngineAssumption`): `NeverDisturbed`,
  `ReceiptsAreTrue`, `CollectsOnPolicy`, `ScoresGoFirst`. The invariant: `active` is the
  number of requests inside (`Counts`), and with one inside the engine is open; an open
  engine has the weights of its snapshot (`Gate`); a busy worker has a request (`Busy`);
  whatever has a result has it from the snapshot (`Computed`); a client that waits named
  the weights of this batch (`Waits`). So a closed engine is empty, and what is inside an
  open one computes with the snapshot, whichever client has given up. For `ScoresGoFirst`,
  `JInv` adds that `pending` is the number of scores on the primary model that are
  waiting, being computed or answered, and that it stays 0 from the admission of a batch
  of generation to its begin, since the lock `model_admission` is held for so long.
* `ExecutionMigrationProofs`, for any operators, bindings and batches, as long as plans
  are made only while the run is stopped (`~PlanWhileRunning`, a hypothesis of all three
  theorems): `AlwaysJournaled`, `NothingLost` (of the batches) and `BindingNeverTakenBack`
  (of the binding, which `HistoryKept` does not speak of: a step leaves it, or rebinds a
  stopped run from the binding of its `config.json` to the next, with `plan.json` in the
  journal and the batches as they are). The invariant: whoever writes has the lock
  (`LockSound`); a run that is up knows what is on disk (`RunSound`); a plan carries over
  the batches of the very file whose digest it names (`PlansSound`, `PlannerSound`) and an
  apply under way has its journal (`ApplierSound`). The hypothesis is needed for
  `PlannerSound` alone.

Only model-checked: every liveness property (`EndsWhenResumed`, `Served`, `EndsAlone`,
`CloseEnds`, `EndsPublished`, `RunEnds`, `EndUnlessKilled`), because fairness and ENABLED are
beyond the prover. Every safety property of a passing run is stated by a theorem. What the
runs of `MCFairScheduler`, `MCTeacherPhases` and `MCPhasedTeacher` say of the instance that
was chosen in the initial state, the theorems say of every instance, and of the chosen one
where the property names it (`NoWakeUpIsLostMC`, `CalmInstanceNeverAborted`). The two
violation runs show what does *not* hold: `ReplayAgrees` across a power failure, against
`ReplaysAgree` without one; `HistoryKept` for plans of a running run, against `NothingLost`
of a stopped one.

## 5. What is not modelled, and why

The repository has some 155 000 lines of implementation, of which `src/budgetsi` is about
5 %. The rest, `verl/`, `LlamaFactory/` and the scripts for inference and evaluation, is
upstream code that the training system starts or imports and does not change. The models
cover the state machines of `src/budgetsi`; what they leave out is

* **Vendored frameworks**: their correctness is not this repository's claim, and what the
  system uses of them (a forward pass, an optimizer step, a checkpoint file) is one step
  of a model.
* **Actor update and losses** (`top16.py`, `adapter.py`, `variant_bridge.py`): tensor
  arithmetic; an update is one step that changes the adapter.
* **Schedules and validation** (`schedule_batch`, `batch_scenes`, `validate_batch`):
  functions of their arguments, without state; a property would repeat their definition.
* **The launch gate** and the checks of `formal_run.py`, `verify_config` and `verify_code`:
  comparisons of hashes and configurations in sequence; they are taken to succeed, or a
  refusal of theirs is a stop.
* **The text of the dialogues** (`runner.py` beyond its requests, `adapter.py`,
  `token_contract.py`): sequential functions of texts and token lists.
* **Transport and start-up** (HTTP bodies and their digests, model loading, the child's
  imports): the handler threads, time-outs and failures are in the models, the bytes are
  not.
* **Trace rows, the status file, `export_wandb.py`, smoke tests, benchmarks, audits**:
  nothing depends on what they write.

A composition of `RunLedger` with a teacher would be needed to say that a *resumed* run
meets the phase its predecessor left in every respect; `TeacherPhases` and `PhasedTeacher` have the phases and
processes of a run, but not its ledger. `InStep` and `SwitchDisturbsNobody` speak for this
reason of runs in their first process.

## 6. Running

    tlc -workers 2 -config RunLedger.cfg RunLedger.tla
    tlapm RunProofs.tla

Each run's module and configuration are listed under `runs` in `PROJECT.json`.
