--------------------------- MODULE ParallelEngine ---------------------------
(***************************************************************************)
(* The collection engine of a run (budgetsi/parallel_collect.py) with the  *)
(* loop of formal_run.py that opens and closes it and the collector's      *)
(* client (social_protocol/runner.py) that sends its requests.             *)
(*                                                                         *)
(* Every request has a handler thread, which hands it to a worker of the   *)
(* student (two share one queue for generation, the second runs a replica; *)
(* another takes the scores) or, as a client, to the remote teacher.  A    *)
(* client that gives up leaves its handler behind.                         *)
(*                                                                         *)
(* The order of a queue is not told apart: a batch of dialogues is finite, *)
(* so nothing waits behind an endless stream, and its bound of 256 is not  *)
(* reached.  Trace rows and the lock of the receipts are left out.         *)
(* Requests and results are represented by the version of the weights they *)
(* name or were computed with; StudentReplica has the inside of a replica. *)
(***************************************************************************)
EXTENDS Naturals, FiniteSets

CONSTANTS
  Slots,         \* bound: requests that have a handler at once
  BatchSize,     \* batch_size of the generation workers
  TeacherSlots,  \* capacity of teacher_rpc_slots
  MaxBatches,    \* bound: batches of the run
  MaxSends,      \* bound: requests of a batch, retries included
  Faults         \* what may go wrong, a subset of AllFaults

AllFaults ==
  {"execute",    \* a forward pass, a replica or the teacher raises
   "timeout",    \* the client's connection times out or breaks
   "sync",       \* a replica does not acknowledge an adapter
   "collector",  \* the collector fails or takes too long
   "run"}        \* the run fails anywhere else, or is interrupted

ASSUME EngineAssumption ==
  /\ IsFiniteSet(Slots)
  /\ BatchSize \in Nat \ {0} /\ TeacherSlots \in Nat \ {0}
  /\ MaxBatches \in Nat \ {0} /\ MaxSends \in Nat
  /\ Faults \subseteq AllFaults

VARIABLES
  replicas,   \* the workers that run on a replica; fixed by the configuration
  main,       \* where the run is
  batch,      \* number of the batch
  weights,    \* version of the student's adapter
  synced,     \* version each replica has acknowledged, 0 for none
  snapshot,   \* Engine.snapshot
  accepting,  \* Engine.accepting
  closing,    \* ParallelEngine.closing
  active,     \* ParallelEngine.active
  pending,    \* ParallelEngine.pending_scores
  worker,     \* what each worker thread does
  handler,    \* the handler of each request
  collector,  \* the collector process
  sends,      \* requests it has sent in this batch
  receipts    \* engine_requests.jsonl: <<recorded snapshot, weights used>>

run == <<main, batch, weights, synced, snapshot>>
gate == <<accepting, closing>>
child == <<collector, sends>>
vars == <<replicas, run, gate, active, pending, worker, handler, child, receipts>>

Workers == {"primary", "replica", "scorer"}
Kinds == {"generate", "score", "teacher"}

\* live: the client still waits.  snap: the snapshot id that the client was given.
\* used: the weights of the result, 0 if there is none.
NoHandler == [at |-> "none", kind |-> "teacher", live |-> FALSE, snap |-> 0, used |-> 0]

Put(s, at) == handler' = [handler EXCEPT ![s].at = at]

At(place) == {s \in Slots : handler[s].at = place}

\* The places of a request between the admission of call and its finally clause.
Inside ==
  {"count", "queued", "answered", "rpc wait", "rpc", "leave"} \cup Workers

Init ==
  /\ replicas \in SUBSET {"replica", "scorer"}
  /\ main = "prepare" /\ batch = 1 /\ weights = 1
  /\ synced = [w \in Workers |-> 0]
  /\ snapshot = 0
  /\ accepting = FALSE /\ closing = FALSE
  /\ active = 0 /\ pending = 0
  /\ worker = [w \in Workers |-> IF w = "replica" /\ w \notin replicas THEN "gone" ELSE "idle"]
  /\ handler = [s \in Slots |-> NoHandler]
  /\ collector = "off" /\ sends = 0
  /\ receipts = {}

-----------------------------------------------------------------------------
(* The run *)

BeginSync ==
  /\ main = "prepare"
  /\ main' = "syncing"
  /\ synced' = [w \in Workers |-> 0]
  /\ UNCHANGED <<replicas, batch, weights, snapshot, gate, active, pending, worker, handler,
                 child, receipts>>

EndSync ==
  /\ main = "syncing"
  /\ main' = "open"
  /\ synced' = [w \in Workers |-> IF w \in replicas THEN weights ELSE 0]
  /\ UNCHANGED <<replicas, batch, weights, snapshot, gate, active, pending, worker, handler,
                 child, receipts>>

\* Mutant of OpenSnapshot: the engine keeps the snapshot of the last batch.
OpenSnapshotOld == IF snapshot = 0 THEN weights ELSE snapshot

\* The state hash of the adapter, as the collector is told.
OpenSnapshot == weights

Open ==
  /\ main = "open"
  /\ main' = "collecting"
  /\ snapshot' = OpenSnapshot
  /\ accepting' = TRUE
  /\ collector' = "running" /\ sends' = 0
  /\ UNCHANGED <<replicas, batch, weights, synced, closing, active, pending, worker, handler,
                 receipts>>

\* The collector has exited with code 0; close_collection refuses new requests ...
BeginClose ==
  /\ main = "collecting" /\ collector = "finished"
  /\ main' = "closing"
  /\ closing' = TRUE
  /\ UNCHANGED <<replicas, batch, weights, synced, snapshot, accepting, active, pending, worker,
                 handler, child, receipts>>

\* Mutant of Drained: the requests that nobody waits for are not waited for.
DrainedLive == \A s \in Slots : ~handler[s].live

Drained == active = 0

Closed == accepting' = FALSE /\ closing' = FALSE

\* ... and waits until every handler has left.
EndClose ==
  /\ main = "closing" /\ Drained
  /\ main' = "updating"
  /\ Closed
  /\ UNCHANGED <<replicas, batch, weights, synced, snapshot, active, pending, worker, handler,
                 child, receipts>>

\* The adapter is updated, unless the batch has no record that is needed.
Update ==
  /\ main = "updating"
  /\ weights' \in {weights, weights + 1}
  /\ batch' = batch + 1
  /\ main' = IF batch < MaxBatches THEN "prepare" ELSE "leave"
  /\ UNCHANGED <<replicas, synced, snapshot, gate, active, pending, worker, handler, child,
                 receipts>>

Abandoned == [s \in Slots |-> [handler[s] EXCEPT !.live = FALSE]]

\* An exception anywhere in the loop; the collector is terminated.
Fail ==
  /\ \/ main = "collecting" /\ collector = "failed"
     \/ main = "syncing" /\ "sync" \in Faults
     \/ main \in {"prepare", "syncing", "open", "collecting", "closing", "updating"}
          /\ "run" \in Faults
  /\ main' = "leave"
  /\ collector' = "off"
  /\ handler' = Abandoned
  /\ UNCHANGED <<replicas, batch, weights, synced, snapshot, gate, active, pending, worker, sends,
                 receipts>>

\* finally: the server stops, and close closes the collection once more ...
BeginLeave ==
  /\ main = "leave"
  /\ main' = "draining"
  /\ closing' = TRUE
  /\ UNCHANGED <<replicas, batch, weights, synced, snapshot, accepting, active, pending, worker,
                 handler, child, receipts>>

EndLeave ==
  /\ main = "draining" /\ Drained
  /\ main' = "joining"
  /\ Closed
  /\ UNCHANGED <<replicas, batch, weights, synced, snapshot, active, pending, worker, handler,
                 child, receipts>>

\* ... ends every worker with a None in its queue, and closes the replicas.
EndWorker(w) ==
  /\ main = "joining" /\ worker[w] = "idle"
  /\ \A s \in At("queued") : (w = "scorer") # (handler[s].kind = "score")
  /\ worker' = [worker EXCEPT ![w] = "gone"]
  /\ UNCHANGED <<replicas, run, gate, active, pending, handler, child, receipts>>

End ==
  /\ main = "joining" /\ \A w \in Workers : worker[w] = "gone"
  /\ main' = "ended"
  /\ synced' = [w \in Workers |-> 0]
  /\ UNCHANGED <<replicas, batch, weights, snapshot, gate, active, pending, worker, handler,
                 child, receipts>>

-----------------------------------------------------------------------------
(* The collector *)

Send(s) ==
  /\ collector = "running" /\ handler[s] = NoHandler /\ sends < MaxSends
  /\ \E k \in Kinds :
       handler' = [handler EXCEPT
         ![s] = [at |-> "sent", kind |-> k, live |-> TRUE, snap |-> weights, used |-> 0]]
  /\ sends' = sends + 1
  /\ UNCHANGED <<replicas, run, gate, active, pending, worker, collector, receipts>>

\* request tries again, and its first handler goes on for nobody.  (After the third
\* attempt the collector fails.)
GiveUp(s) ==
  /\ "timeout" \in Faults
  /\ handler[s].live
  /\ handler' = [handler EXCEPT ![s].live = FALSE]
  /\ UNCHANGED <<replicas, run, gate, active, pending, worker, child, receipts>>

\* An answer with an error fails the collector, which cancels its other requests.
Receive(s) ==
  /\ handler[s].at \in {"ok", "error"}
  /\ IF handler[s].at = "error" /\ handler[s].live
     THEN /\ collector' = "failed"
          /\ handler' = [Abandoned EXCEPT ![s] = NoHandler]
     ELSE /\ handler' = [handler EXCEPT ![s] = NoHandler]
          /\ UNCHANGED collector
  /\ UNCHANGED <<replicas, run, gate, active, pending, worker, sends, receipts>>

CollectorEnds ==
  /\ collector = "running" /\ \A s \in Slots : ~handler[s].live
  /\ collector' = "finished"
  /\ UNCHANGED <<replicas, run, gate, active, pending, worker, handler, sends, receipts>>

CollectorFails ==
  /\ "collector" \in Faults
  /\ collector = "running"
  /\ collector' = "failed"
  /\ handler' = Abandoned
  /\ UNCHANGED <<replicas, run, gate, active, pending, worker, sends, receipts>>

-----------------------------------------------------------------------------
(* The handler of a request: call *)

MayEnter == accepting /\ ~closing

\* A score on the primary model goes before generation.
NeedsPrimary(s) == handler[s].kind = "score" /\ "scorer" \notin replicas

Enter(s) ==
  /\ handler[s].at = "sent"
  /\ IF MayEnter
     THEN /\ active' = active + 1
          /\ Put(s, CASE handler[s].kind = "teacher" -> "rpc wait"
                      [] NeedsPrimary(s) -> "count"
                      [] OTHER -> "queued")
     ELSE Put(s, "error") /\ UNCHANGED active
  /\ UNCHANGED <<replicas, run, gate, pending, worker, child, receipts>>

\* Once the server has stopped, a connection may never get its handler.
Drop(s) ==
  /\ handler[s].at = "sent" /\ main \in {"draining", "joining", "ended"}
  /\ handler' = [handler EXCEPT ![s] = NoHandler]
  /\ UNCHANGED <<replicas, run, gate, active, pending, worker, child, receipts>>

\* model_admission is held by the primary worker while it waits for the model.
AdmissionFree == worker["primary"] # "admitted"

\* Mutant of Counted: a waiting score is not counted.
CountedNot == pending

Counted == pending + 1

Count(s) ==
  /\ handler[s].at = "count" /\ AdmissionFree
  /\ pending' = Counted
  /\ Put(s, "queued")
  /\ UNCHANGED <<replicas, run, gate, active, worker, child, receipts>>

\* Mutant of Uncounted: the count is not restored.
UncountedNot == pending

Uncounted == IF pending = 0 THEN 0 ELSE pending - 1

\* The future has its result or its exception.
Answered(s) ==
  /\ handler[s].at = "answered"
  /\ IF NeedsPrimary(s) THEN AdmissionFree /\ pending' = Uncounted ELSE UNCHANGED pending
  /\ Put(s, "leave")
  /\ UNCHANGED <<replicas, run, gate, active, worker, child, receipts>>

BeginRpc(s) ==
  /\ handler[s].at = "rpc wait"
  /\ Cardinality(At("rpc")) < TeacherSlots
  /\ handler' = [handler EXCEPT ![s].at = "rpc", ![s].used = snapshot]
  /\ UNCHANGED <<replicas, run, gate, active, pending, worker, child, receipts>>

\* The receipt names the snapshot of the moment at which the answer is there.
EndRpc(s) ==
  /\ handler[s].at = "rpc"
  /\ \/ /\ Put(s, "leave")
        /\ receipts' = receipts \cup {<<snapshot, handler[s].used>>}
     \/ /\ "execute" \in Faults
        /\ handler' = [handler EXCEPT ![s].at = "leave", ![s].used = 0]
        /\ UNCHANGED receipts
  /\ UNCHANGED <<replicas, run, gate, active, pending, worker, child>>

\* finally
Leave(s) ==
  /\ handler[s].at = "leave"
  /\ active' = active - 1
  /\ Put(s, IF handler[s].used = 0 THEN "error" ELSE "ok")
  /\ UNCHANGED <<replicas, run, gate, pending, worker, child, receipts>>

-----------------------------------------------------------------------------
(* The workers *)

Goto(w, at) == worker' = [worker EXCEPT ![w] = at]

\* A worker takes a request; a generation worker takes more until its deadline.
Take(w, s) ==
  /\ handler[s].at = "queued" /\ (w = "scorer") = (handler[s].kind = "score")
  /\ \/ worker[w] = "idle"
     \/ w # "scorer" /\ worker[w] = "gathering" /\ Cardinality(At(w)) < BatchSize
  /\ Goto(w, "gathering")
  /\ Put(s, w)
  /\ UNCHANGED <<replicas, run, gate, active, pending, child, receipts>>

\* Mutant of NoScores: generation does not wait for the scores.
NoScoresNot == TRUE

NoScores == pending = 0

\* wait_for, after which model_admission is kept ...
Admit ==
  /\ worker["primary"] = "gathering" /\ NoScores
  /\ Goto("primary", "admitted")
  /\ UNCHANGED <<replicas, run, gate, active, pending, handler, child, receipts>>

OnReplica(w) == w \in replicas

\* The model of the workers that run on the primary GPU.
ModelFree == \A w \in Workers \ replicas : worker[w] # "running"

Use(w, version) ==
  handler' = [s \in Slots |->
    IF handler[s].at = w THEN [handler[s] EXCEPT !.used = version] ELSE handler[s]]

Begin(w, version) ==
  /\ Goto(w, "running")
  /\ Use(w, version)
  /\ UNCHANGED <<replicas, run, gate, active, pending, child, receipts>>

\* ... until local_model_lock is taken.
BeginPrimary ==
  /\ worker["primary"] = "admitted" /\ ModelFree
  /\ Begin("primary", weights)

\* Every future of the batch gets the exception.
Refuse(w) ==
  /\ Goto(w, "idle")
  /\ handler' = [s \in Slots |->
       IF handler[s].at = w THEN [handler[s] EXCEPT !.at = "answered", !.used = 0]
       ELSE handler[s]]
  /\ UNCHANGED <<replicas, run, gate, active, pending, child, receipts>>

\* Both replicas compare their snapshot with the engine's, execute and the replica itself.
BeginOnReplica(w) ==
  /\ OnReplica(w) /\ worker[w] = "gathering"
  /\ IF synced[w] = snapshot THEN Begin(w, synced[w]) ELSE Refuse(w)

\* Engine.call, under local_model_lock.
BeginScore ==
  /\ ~OnReplica("scorer") /\ worker["scorer"] = "gathering" /\ ModelFree
  /\ IF accepting THEN Begin("scorer", weights) ELSE Refuse("scorer")

\* The lock is released, the receipts are written, the futures set.
Finish(w) ==
  /\ worker[w] = "running"
  /\ \/ /\ Goto(w, "idle")
        /\ handler' = [s \in Slots |->
             IF handler[s].at = w THEN [handler[s] EXCEPT !.at = "answered"] ELSE handler[s]]
        /\ receipts' = receipts \cup {<<snapshot, handler[s].used>> : s \in At(w)}
        /\ UNCHANGED <<replicas, run, gate, active, pending, child>>
     \/ "execute" \in Faults /\ Refuse(w)

Work(w) ==
  \/ \E s \in Slots : Take(w, s)
  \/ w = "primary" /\ (Admit \/ BeginPrimary)
  \/ w = "scorer" /\ BeginScore
  \/ BeginOnReplica(w) \/ Finish(w) \/ EndWorker(w)

Handle(s) ==
  \/ Enter(s) \/ Drop(s) \/ Count(s) \/ Answered(s) \/ BeginRpc(s) \/ EndRpc(s) \/ Leave(s)
  \/ Receive(s)

Main ==
  \/ BeginSync \/ EndSync \/ Open \/ BeginClose \/ EndClose \/ Update
  \/ BeginLeave \/ EndLeave \/ End
  \/ collector = "failed" /\ Fail

Next ==
  \/ Main \/ Fail
  \/ \E w \in Workers : Work(w)
  \/ \E s \in Slots : Handle(s) \/ Send(s) \/ GiveUp(s)
  \/ CollectorEnds \/ CollectorFails

Spec == Init /\ [][Next]_vars

\* Threads run, every forward pass and every call of the teacher returns (they have
\* timeouts), and the dialogues of a batch come to an end.
FairSpec ==
  /\ Spec
  /\ WF_vars(Main) /\ WF_vars(CollectorEnds)
  /\ \A w \in Workers : WF_vars(Work(w))
  /\ \A s \in Slots : WF_vars(Handle(s))

-----------------------------------------------------------------------------
(* Correctness *)

Places == {"none", "sent", "ok", "error"} \cup Inside

\* The variables keep their types.
TypeOK ==
  /\ replicas \in SUBSET {"replica", "scorer"}
  /\ main \in {"prepare", "syncing", "open", "collecting", "closing", "updating", "leave",
               "draining", "joining", "ended"}
  /\ batch \in Nat /\ weights \in Nat \ {0} /\ snapshot \in Nat
  /\ synced \in [Workers -> Nat]
  /\ accepting \in BOOLEAN /\ closing \in BOOLEAN
  /\ active \in Nat /\ pending \in Nat
  /\ worker \in [Workers -> {"idle", "gathering", "admitted", "running", "gone"}]
  /\ handler \in [Slots -> [at : Places, kind : Kinds, live : BOOLEAN, snap : Nat, used : Nat]]
  /\ collector \in {"off", "running", "finished", "failed"} /\ sends \in Nat
  /\ receipts \subseteq Nat \X Nat

\* While the adapter is updated, hashed and sent to the replicas no request is inside
\* the engine, not even one that its client has given up: close_collection has waited
\* for it (parallel_collect.py:307-312, formal_run.py:243-250, 306).
ModelUndisturbed ==
  main \in {"prepare", "syncing", "open", "updating", "joining", "ended"} =>
    /\ \A s \in Slots : handler[s].at \notin Inside
    /\ \A w \in Workers : worker[w] \in {"idle", "gone"}

\* The snapshot that a receipt names, read when the answer is there, is that of the
\* weights which computed it (parallel_collect.py:215, 233-262, 294-298).
ReceiptsTrue == \A r \in receipts : r[1] = r[2]

\* What the collector takes for an answer was computed with the snapshot that the
\* collector was started for (formal_run.py:247-250, 282-283): collection is on policy.
OnPolicy ==
  \A s \in Slots : handler[s].live /\ handler[s].at = "ok" => handler[s].used = handler[s].snap

\* "Drain already admitted cheap score requests before starting another long primary
\* generation" (parallel_collect.py:221-222).
ScoresDrained ==
  worker["primary"] # "running" /\ worker'["primary"] = "running" =>
    \A s \in At("queued") \cup At("scorer") : ~NeedsPrimary(s)
ScoresFirst == [][ScoresDrained]_vars

\* The run gets to its end: no request is lost between the queues, nobody waits for a
\* lock or a count for ever, and close joins every worker (parallel_collect.py:108-170,
\* 220-225, 277-286, 307-317).
RunEnds == <>(main = "ended")
=============================================================================
