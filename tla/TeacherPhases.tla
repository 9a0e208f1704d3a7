--------------------------- MODULE TeacherPhases ----------------------------
(***************************************************************************)
(* The teacher shared by several training runs: PersistentTeacher.dispatch *)
(* and IndependentPhases (budgetsi/persistent_teacher.py) on the server,   *)
(* and the teacher calls of each run (formal_run.py through RemoteTeacher) *)
(* as its clients.                                                         *)
(*                                                                         *)
(* Every request has a handler thread of its own.  The two schedulers are  *)
(* the set of requests they hold or execute: FairScheduler has the rest.   *)
(* A handler that gives up leaves its request in that set.                 *)
(*                                                                         *)
(* A run that stops, orderly or not, leaves its requests behind as well:   *)
(* their handlers go on without anyone to answer.                          *)
(***************************************************************************)
EXTENDS Naturals, FiniteSets

CONSTANTS
  Runs,       \* the experiments bound to this teacher
  Slots,      \* bound: requests of one run in flight at once
  MaxRounds,  \* bound: rounds after which a run has met its quota
  MaxStarts,  \* bound: processes started per run
  Faults      \* what may go wrong, a subset of AllFaults

AllFaults ==
  {"timeout",   \* a handler waits 21600 s for a scheduler in vain
   "refused",   \* a scheduler queue is full
   "backend",   \* a backend process exits or a forward pass raises
   "stop",      \* a run fails or is killed, and may be resumed
   "rerun",     \* a completed run is started again
   "shutdown"}  \* the teacher is stopped

ASSUME TeacherAssumption ==
  /\ IsFiniteSet(Slots)
  /\ Faults \subseteq AllFaults
  /\ MaxRounds \in Nat \ {0}
  /\ MaxStarts \in Nat \ {0}

VARIABLES
  phase,     \* IndependentPhases.states
  rounds,    \* IndependentPhases.rounds
  active,    \* IndependentPhases.active
  error,     \* whether IndependentPhases.error is set
  backends,  \* the generation and scoring backends
  closing,   \* whether the teacher is shutting down
  handler,   \* the handler of each request slot of each run
  work,      \* requests that a scheduler holds or executes
  client,    \* what each run is doing
  starts     \* processes started for each run

server == <<phase, rounds, active, error, backends, closing>>
vars == <<server, handler, work, client, starts>>

-----------------------------------------------------------------------------
(* Data *)

\* live: the client still waits for the answer.
NoHandler == [at |-> "none", op |-> "none", live |-> FALSE]

DataOps == {"collect", "opd"}        \* diagnostics and validate_raw are like opd
PhaseOps == {"collected", "updated", "done"}
Ops == DataOps \cup PhaseOps \cup {"status"}

\* Where a handler is in dispatch.
Working == {"entered", "waiting", "raised", "leave ok", "leave error"}
Positions == {"none", "new", "alive", "stop", "ok", "error"} \cup Working

Expected(op) == IF op \in {"collect", "collected"} THEN "collecting" ELSE "updating"

Put(r, s, at) == handler' = [handler EXCEPT ![r][s].at = at]

Init ==
  /\ phase = [r \in Runs |-> "collecting"]
  /\ rounds = [r \in Runs |-> 0]
  /\ active = [r \in Runs |-> 0]
  /\ error = FALSE
  /\ backends = "up"
  /\ closing = FALSE
  /\ handler = [r \in Runs |-> [s \in Slots |-> NoHandler]]
  /\ work = {}
  /\ client = [r \in Runs |-> "collecting"]
  /\ starts = [r \in Runs |-> 1]

-----------------------------------------------------------------------------
(* Requests for data: enter, submit to a scheduler, leave *)

Enter(r, s) ==
  /\ handler[r][s].at = "new" /\ handler[r][s].op \in DataOps
  /\ IF error \/ phase[r] # Expected(handler[r][s].op)
     THEN Put(r, s, "error") /\ UNCHANGED active
     ELSE Put(r, s, "entered") /\ active' = [active EXCEPT ![r] = @ + 1]
  /\ UNCHANGED <<phase, rounds, error, backends, closing, work, client, starts>>

Submit(r, s) ==
  /\ handler[r][s].at = "entered"
  /\ \/ Put(r, s, "waiting") /\ work' = work \cup {<<r, s, handler[r][s].op>>}
     \/ /\ "refused" \in Faults \/ closing
        /\ Put(r, s, "raised") /\ UNCHANGED work
  /\ UNCHANGED <<server, client, starts>>

\* A scheduler is done with a request; whoever waits for it learns the outcome.
\* execute refuses to begin without live backends.
Complete(r, s, op) ==
  /\ <<r, s, op>> \in work
  /\ work' = work \ {<<r, s, op>>}
  /\ \/ backends = "up" /\ Put(r, s, IF handler[r][s].at = "waiting" THEN "leave ok"
                                     ELSE handler[r][s].at)
     \/ /\ "backend" \in Faults \/ backends # "up" \/ error
        /\ Put(r, s, IF handler[r][s].at = "waiting" THEN "raised" ELSE handler[r][s].at)
  /\ UNCHANGED <<server, client, starts>>

TimeOut(r, s) ==
  /\ "timeout" \in Faults
  /\ handler[r][s].at = "waiting"
  /\ Put(r, s, "raised")
  /\ UNCHANGED <<server, work, client, starts>>

\* Mutant of Abort: a request that failed ends without further consequence.
AbortNot == error' = error

\* IndependentPhases.abort: the error stays, for every run.
Abort == error' = TRUE

\* Any exception of a request aborts the teacher ...
Raise(r, s) ==
  /\ handler[r][s].at = "raised"
  /\ Abort
  /\ Put(r, s, "leave error")
  /\ UNCHANGED <<phase, rounds, active, backends, closing, work, client, starts>>

\* Mutant of Left: the count of outstanding requests is not restored.
LeftNot(r) == active

Left(r) == [active EXCEPT ![r] = @ - 1]

\* ... before it leaves.
Leave(r, s) ==
  /\ handler[r][s].at \in {"leave ok", "leave error"}
  /\ active' = Left(r)
  /\ Put(r, s, IF handler[r][s].at = "leave ok" THEN "ok" ELSE "error")
  /\ UNCHANGED <<phase, rounds, error, backends, closing, work, client, starts>>

-----------------------------------------------------------------------------
(* Requests that read or change the phase *)

\* Mutant of AllFinished: one finished run is enough.
AllFinishedAny(ph) == \E r \in Runs : ph[r] = "finished"

AllFinished(ph) == \A r \in Runs : ph[r] = "finished"

\* check_alive: an exited backend aborts, an aborted or closing teacher refuses.
CheckAlive(r, s, next) ==
  /\ error' = (error \/ backends # "up")
  /\ Put(r, s, IF error \/ closing \/ backends # "up" THEN "error" ELSE next)

BeginPhase(r, s) ==
  /\ handler[r][s].at = "new" /\ handler[r][s].op \in PhaseOps
  /\ CheckAlive(r, s, "alive")
  /\ UNCHANGED <<phase, rounds, active, backends, closing, work, client, starts>>

\* Mutant of MayArrive: the error is looked at before the lock is taken only.
MayArriveInError(r, op) == phase[r] = Expected(op) /\ active[r] = 0

\* Mutant of MayArrive: outstanding requests are not looked at.
MayArriveOutstanding(r, op) == ~error /\ phase[r] = Expected(op)

MayArrive(r, op) == ~error /\ phase[r] = Expected(op) /\ active[r] = 0

\* Mutant of PhaseAfter: the completion flag is not passed on.
PhaseAfterAlwaysMore(op) == IF op = "collected" THEN "updating" ELSE "collecting"

PhaseAfter(op) ==
  CASE op = "collected" -> "updating"
    [] op = "updated" -> "collecting"
    [] op = "done" -> "finished"

\* Mutant of Barrier: a run waits until no other is behind it.
BarrierOfAll(r) == \A q \in Runs : rounds[q] >= rounds[r] /\ phase[q] # "collecting"

\* Each run advances on its own.
Barrier(r) == TRUE

\* arrive, under the lock; the last run to finish goes on to stop the backends.
Arrive(r, s) ==
  LET op == handler[r][s].op IN
  /\ handler[r][s].at = "alive" /\ op \in PhaseOps
  /\ Barrier(r)
  /\ IF MayArrive(r, op)
     THEN /\ phase' = [phase EXCEPT ![r] = PhaseAfter(op)]
          /\ rounds' = IF op = "collected" THEN rounds ELSE [rounds EXCEPT ![r] = @ + 1]
          /\ Put(r, s, IF AllFinished(phase') THEN "stop" ELSE "ok")
     ELSE Put(r, s, "error") /\ UNCHANGED <<phase, rounds>>
  /\ UNCHANGED <<active, error, backends, closing, work, client, starts>>

StopBackends(r, s) ==
  /\ handler[r][s].at = "stop"
  /\ backends' = "stopped"
  /\ Put(r, s, "ok")
  /\ UNCHANGED <<phase, rounds, active, error, closing, work, client, starts>>

\* A status request reads the states without the lock, then looks at the backends.
ReadStatus(r, s) ==
  /\ handler[r][s].at = "new" /\ handler[r][s].op = "status"
  /\ Put(r, s, IF AllFinished(phase) THEN "ok" ELSE "alive")
  /\ UNCHANGED <<server, work, client, starts>>

FinishStatus(r, s) ==
  /\ handler[r][s].at = "alive" /\ handler[r][s].op = "status"
  /\ \/ CheckAlive(r, s, "ok")
     \/ "backend" \in Faults /\ CheckAlive(r, s, "error")
  /\ UNCHANGED <<phase, rounds, active, backends, closing, work, client, starts>>

-----------------------------------------------------------------------------
(* The runs *)

Outstanding(r) == {s \in Slots : handler[r][s].live}

\* One request goes out; the run waits for the answers of some kinds of request.
Send(r, op) ==
  \E s \in Slots :
    /\ handler[r][s] = NoHandler
    /\ handler' = [handler EXCEPT ![r][s] = [at |-> "new", op |-> op, live |-> TRUE]]
    /\ UNCHANGED <<server, work, starts>>

\* The dialogues of a batch have many requests in flight at once.
Sample(r) ==
  /\ client[r] = "collecting"
  /\ Send(r, "collect")
  /\ UNCHANGED client

\* close_collection has waited for every request.
Collected(r) ==
  /\ client[r] = "collecting" /\ Outstanding(r) = {}
  /\ Send(r, "collected")
  /\ client' = [client EXCEPT ![r] = "collected"]

\* Exact scores, diagnostics and the status check, one at a time.
Score(r) ==
  /\ client[r] = "updating" /\ Outstanding(r) = {}
  /\ Send(r, "opd") \/ Send(r, "status")
  /\ UNCHANGED client

\* The update is committed; the run says whether its quota is met.
Updated(r) ==
  /\ client[r] = "updating" /\ Outstanding(r) = {}
  /\ \/ rounds[r] + 1 < MaxRounds /\ Send(r, "updated")
        /\ client' = [client EXCEPT ![r] = "updated"]
     \/ Send(r, "done") /\ client' = [client EXCEPT ![r] = "done"]

After(at) ==
  CASE at = "collected" -> "updating"
    [] at = "updated" -> "collecting"
    [] at = "done" -> "finished"
    [] OTHER -> at

\* An answer arrives; an error fails the run.
Receive(r, s) ==
  /\ handler[r][s].at \in {"ok", "error"} /\ handler[r][s].live
  /\ IF handler[r][s].at = "ok"
     THEN /\ client' = [client EXCEPT ![r] = After(@)]
          /\ handler' = [handler EXCEPT ![r][s] = NoHandler]
     ELSE /\ client' = [client EXCEPT ![r] = "failing"]
          /\ handler' = [handler EXCEPT ![r] =
               [t \in Slots |-> IF t = s THEN NoHandler ELSE [@[t] EXCEPT !.live = FALSE]]]
  /\ UNCHANGED <<server, work, starts>>

\* The answer to a request whose run is gone.
Discard(r, s) ==
  /\ handler[r][s].at \in {"ok", "error"} /\ ~handler[r][s].live
  /\ handler' = [handler EXCEPT ![r][s] = NoHandler]
  /\ UNCHANGED <<server, work, client, starts>>

\* A failing run aborts the teacher.  (When that request is lost, the run has ended
\* like a killed one.)
Fail(r) ==
  /\ client[r] = "failing"
  /\ Abort
  /\ client' = [client EXCEPT ![r] = "failed"]
  /\ UNCHANGED <<phase, rounds, active, backends, closing, handler, work, starts>>

Ended == {"finished", "failed", "dead"}

Abandon(r, at) ==
  /\ client' = [client EXCEPT ![r] = at]
  /\ handler' = [handler EXCEPT ![r] = [s \in Slots |-> [@[s] EXCEPT !.live = FALSE]]]
  /\ UNCHANGED <<server, work, starts>>

\* A run fails on its own account, or is killed and cannot even abort the teacher.
StopRun(r) ==
  /\ "stop" \in Faults /\ client[r] \notin Ended \cup {"failing"}
  /\ Abandon(r, "failing") \/ Abandon(r, "dead")

\* --resume: the run asks for the status, then starts at the batch after its last
\* commit, whatever phase the teacher believes it to be in.  (A run with its quota met
\* reports both phases again without sampling; here it may also sample.)
Resume(r) ==
  /\ starts[r] < MaxStarts
  /\ \/ "stop" \in Faults /\ client[r] \in {"failed", "dead"}
     \/ "rerun" \in Faults /\ client[r] = "finished"
  /\ client' = [client EXCEPT ![r] = "collecting"]
  /\ starts' = [starts EXCEPT ![r] = @ + 1]
  /\ UNCHANGED <<server, handler, work>>

-----------------------------------------------------------------------------
(* The teacher process *)

BackendExit ==
  /\ "backend" \in Faults /\ backends = "up"
  /\ backends' = "exited"
  /\ UNCHANGED <<phase, rounds, active, error, closing, handler, work, client, starts>>

Shutdown ==
  /\ "shutdown" \in Faults /\ ~closing
  /\ closing' = TRUE /\ Abort
  /\ UNCHANGED <<phase, rounds, active, backends, handler, work, client, starts>>

CloseBackends ==
  /\ closing /\ backends # "stopped"
  /\ backends' = "stopped"
  /\ UNCHANGED <<phase, rounds, active, error, closing, handler, work, client, starts>>

Serve(r) ==
  \/ \E s \in Slots :
       \/ Enter(r, s) \/ Submit(r, s) \/ Raise(r, s) \/ Leave(r, s)
       \/ BeginPhase(r, s) \/ Arrive(r, s) \/ StopBackends(r, s)
       \/ ReadStatus(r, s) \/ FinishStatus(r, s) \/ Discard(r, s)
       \/ \E op \in DataOps : Complete(r, s, op)

Answered(r) == Fail(r) \/ \E s \in Slots : Receive(r, s)

Next ==
  \/ \E r \in Runs :
       \/ Serve(r) \/ Answered(r) \/ Sample(r) \/ Collected(r) \/ Score(r) \/ Updated(r)
       \/ StopRun(r) \/ Resume(r)
       \/ \E s \in Slots : TimeOut(r, s)
  \/ BackendExit \/ Shutdown \/ CloseBackends

Spec == Init /\ [][Next]_vars

-----------------------------------------------------------------------------
(* Correctness *)

\* The variables keep their types; no run is served more rounds than it has batches.
TypeOK ==
  /\ phase \in [Runs -> {"collecting", "updating", "finished"}]
  /\ rounds \in [Runs -> 0..MaxRounds]
  /\ active \in [Runs -> Nat]
  /\ error \in BOOLEAN /\ closing \in BOOLEAN
  /\ backends \in {"up", "exited", "stopped"}
  /\ handler \in [Runs -> [Slots ->
       [at : Positions, op : Ops \cup {"none"}, live : BOOLEAN]]]
  /\ work \subseteq Runs \X Slots \X DataOps
  /\ client \in [Runs -> {"collecting", "collected", "updating", "updated", "done",
                          "failing"} \cup Ended]
  /\ starts \in [Runs -> 1..MaxStarts]

\* No sampling for a run that is updating and no exact scoring for one that is
\* collecting, even for requests whose handlers gave up and whose runs are gone: a
\* phase ends only when its last request has (persistent_teacher.py:55-57, 190-199).
WorkMatchesPhase ==
  \A w \in work : phase[w[1]] = Expected(w[3])

\* "Completion of one never unloads the shared teacher required by another"
\* (persistent_teacher.py:4-5): while the teacher is not shut down its backends are
\* stopped only when every run is finished and no request is left in them.
StoppedWhenUnused ==
  backends = "stopped" => closing \/ (AllFinished(phase) /\ work = {})

\* After an abort no run ever changes its phase again, and the abort is final: a run
\* cannot slip through on a check made before it (persistent_teacher.py:46-57).
Frozen == error => error' /\ UNCHANGED <<phase, rounds>>
FailClosed == [][Frozen]_vars

\* A run that was never restarted and its teacher agree on the phase.
InStep ==
  \A r \in Runs : starts[r] = 1 =>
    /\ client[r] = "collecting" => phase[r] = "collecting"
    /\ client[r] = "updating" => phase[r] = "updating"
    /\ client[r] = "finished" => phase[r] = "finished"

\* As long as nothing goes wrong nothing is aborted: the unlocked reads of the states
\* and of the backends (persistent_teacher.py:177-187) never see a half-made change.
NeverAborted == ~error

\* The threads that serve a run and the run itself proceed; a batch has finitely many
\* requests, so the run reports a phase it can report again and again (SF).
FairFor(r) ==
  /\ WF_vars(Serve(r)) /\ WF_vars(Answered(r))
  /\ SF_vars(Collected(r)) /\ SF_vars(Updated(r))

\* "Each bound experiment advances its own phase" (persistent_teacher.py:4): every run
\* ends on its own, whether or not its peers ever make progress.
EndsAlone ==
  \A r \in Runs : FairFor(r) => <>(client[r] \in Ended)
=============================================================================
