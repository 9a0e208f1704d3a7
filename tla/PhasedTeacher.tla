--------------------------- MODULE PhasedTeacher ----------------------------
(***************************************************************************)
(* The teacher that has one backend at a time: PhasedTeacher               *)
(* (budgetsi/phased_teacher.py) with its Cohort                            *)
(* (budgetsi/teacher_schedule.py), and the runs (formal_run.py through     *)
(* RemoteTeacher) as its clients.  All runs sample with vLLM, wait for     *)
(* each other, score with the exact model, and wait again; the last to     *)
(* arrive switches the backend while it does not hold the lock.            *)
(*                                                                         *)
(* The scheduler is the set of requests that it holds or executes          *)
(* (FairScheduler has the rest).  A handler that gives up leaves its       *)
(* request there, a run that ends leaves its handlers.                     *)
(***************************************************************************)
EXTENDS Naturals, FiniteSets

CONSTANTS
  Runs,       \* the experiments bound to this teacher
  Slots,      \* bound: requests of one run in flight at once
  MaxRounds,  \* bound: rounds after which every run has met its quota
  MaxStarts,  \* bound: processes started per run
  Faults      \* what may go wrong, a subset of AllFaults

AllFaults ==
  {"timeout",   \* a handler waits 21600 s for the scheduler or at the barrier in vain
   "refused",   \* the queue of the scheduler is full
   "load",      \* a backend does not come up
   "backend",   \* a backend exits or a request to it raises
   "fail",      \* a run fails, and aborts the teacher
   "kill",      \* a run is killed, and may be resumed
   "shutdown"}  \* the teacher is stopped

ASSUME PhasedAssumption ==
  /\ IsFiniteSet(Slots)
  /\ Faults \subseteq AllFaults
  /\ MaxRounds \in Nat \ {0} /\ MaxStarts \in Nat \ {0}

VARIABLES
  phase,    \* Cohort.states
  round,    \* Cohort.round
  error,    \* whether Cohort.error is set
  mode,     \* PhasedTeacher.mode
  backend,  \* the backend process
  closer,   \* how far close has come
  handler,  \* the handler of each request slot of each run
  work,     \* requests of the scheduler: <<run, slot, operation, where>>
  client,   \* what each run is doing
  starts    \* processes started for each run

cohort == <<phase, round, error>>
service == <<mode, backend, closer>>
runs == <<client, starts>>
vars == <<cohort, service, handler, work, runs>>

-----------------------------------------------------------------------------
(* Data *)

\* live: the client still waits.  before: the round at the arrival.
NoHandler == [at |-> "none", op |-> "none", live |-> FALSE, before |-> 0]

DataOps == {"collect", "opd"}        \* diagnostics and validate_raw are like opd
PhaseOps == {"collected", "updated", "done"}

\* Where the last member to arrive is in switch.
Switching == {"switch", "stop", "clear", "load", "loading", "loaded", "switched"}

Put(r, s, at) == handler' = [handler EXCEPT ![r][s].at = at]

\* The phase in which a request is allowed, and that in which its run waits.
Expected(op) == IF op \in {"collect", "collected"} THEN "collecting" ELSE "updating"
Waiting(op) == IF op = "collected" THEN "collected" ELSE "updated"

BackendOf(op) == IF op = "collect" THEN "vllm" ELSE "hf"

Init ==
  /\ phase = [r \in Runs |-> "collecting"]
  /\ round = 0
  /\ error = FALSE
  /\ mode = "vllm" /\ backend = "vllm" /\ closer = "open"
  /\ handler = [r \in Runs |-> [s \in Slots |-> NoHandler]]
  /\ work = {}
  /\ client = [r \in Runs |-> "collecting"]
  /\ starts = [r \in Runs |-> 1]

-----------------------------------------------------------------------------
(* Requests for data: check, submit to the scheduler, wait *)

Check(r, s) ==
  /\ handler[r][s].at = "new" /\ handler[r][s].op \in DataOps
  /\ Put(r, s, IF error \/ phase[r] # Expected(handler[r][s].op) THEN "error" ELSE "checked")
  /\ UNCHANGED <<cohort, service, work, runs>>

Submit(r, s) ==
  /\ handler[r][s].at = "checked"
  /\ \/ /\ Put(r, s, "waiting")
        /\ work' = work \cup {<<r, s, handler[r][s].op, "queue">>}
     \/ ("refused" \in Faults \/ closer = "stopped") /\ Put(r, s, "raised") /\ UNCHANGED work
  /\ UNCHANGED <<cohort, service, runs>>

\* execute accepts the operation.
Served(op) == mode = BackendOf(op)

\* The scheduler is done with a request; whoever waits for it learns the outcome.
Settle(w, outcome) ==
  /\ work' = work \ {w}
  /\ handler' = [handler EXCEPT ![w[1]][w[2]].at = IF @ = "waiting" THEN outcome ELSE @]

Execute(w) ==
  /\ w[4] = "queue"
  /\ IF Served(w[3])
     THEN work' = (work \ {w}) \cup {<<w[1], w[2], w[3], mode>>} /\ UNCHANGED handler
     ELSE Settle(w, "raised")
  /\ UNCHANGED <<cohort, service, runs>>

Complete(w) ==
  /\ w[4] # "queue"
  /\ \/ backend = w[4] /\ Settle(w, "ok")
     \/ (backend # w[4] \/ "backend" \in Faults) /\ Settle(w, "raised")
  /\ UNCHANGED <<cohort, service, runs>>

TimeOut(r, s) ==
  /\ "timeout" \in Faults /\ handler[r][s].at = "waiting"
  /\ Put(r, s, "raised")
  /\ UNCHANGED <<cohort, service, work, runs>>

\* Cohort.abort: whatever ends the wait with an exception ends the cohort.
Raise(r, s) ==
  /\ handler[r][s].at = "raised"
  /\ error' = TRUE
  /\ Put(r, s, "error")
  /\ UNCHANGED <<phase, round, service, work, runs>>

-----------------------------------------------------------------------------
(* The barrier *)

\* Mutant of AllThere: one member that waits is enough.
AllThereAny(ph, op) == \E r \in Runs : ph[r] = Waiting(op)

AllThere(ph, op) == \A r \in Runs : ph[r] \in {Waiting(op), "finished"}

Arrive(r, s) ==
  LET op == handler[r][s].op IN
  /\ handler[r][s].at = "new" /\ op \in PhaseOps
  /\ IF error \/ phase[r] # Expected(op)
     THEN Put(r, s, "error") /\ UNCHANGED phase
     ELSE /\ phase' = [phase EXCEPT ![r] = IF op = "done" THEN "finished" ELSE Waiting(op)]
          /\ handler' = [handler EXCEPT
               ![r][s].at = IF AllThere(phase', op) THEN "switch" ELSE "barrier",
               ![r][s].before = round]
  /\ UNCHANGED <<round, error, service, work, runs>>

\* A waiter looks at the states when it is woken.
Held(r, s) ==
  \/ phase[r] = Waiting(handler[r][s].op)
  \/ phase[r] = "finished" /\ round = handler[r][s].before

Pass(r, s) ==
  /\ handler[r][s].at = "barrier" /\ (error \/ ~Held(r, s))
  /\ Put(r, s, IF error THEN "error" ELSE "ok")
  /\ UNCHANGED <<cohort, service, work, runs>>

BarrierTimeOut(r, s) ==
  /\ "timeout" \in Faults /\ handler[r][s].at = "barrier" /\ Held(r, s)
  /\ error' = TRUE
  /\ Put(r, s, "error")
  /\ UNCHANGED <<phase, round, service, work, runs>>

Target(op) ==
  IF op = "collected" THEN "hf"
  ELSE IF \A r \in Runs : phase[r] = "finished" THEN "closed" ELSE "vllm"

Idle == work = {}

\* An exception of switch, once the lock is taken again.
SwitchFails(r, s) == error' = TRUE /\ Put(r, s, "error")

BeginSwitch(r, s) ==
  /\ handler[r][s].at = "switch"
  /\ IF Idle THEN Put(r, s, "stop") /\ UNCHANGED error ELSE SwitchFails(r, s)
  /\ UNCHANGED <<phase, round, service, work, runs>>

StopBackend(r, s) ==
  /\ handler[r][s].at = "stop"
  /\ backend' = "none"
  /\ Put(r, s, "clear")
  /\ UNCHANGED <<cohort, mode, closer, work, runs>>

ClearMode(r, s) ==
  /\ handler[r][s].at = "clear"
  /\ mode' = "none"
  /\ IF closer # "open" THEN SwitchFails(r, s) ELSE Put(r, s, "load") /\ UNCHANGED error
  /\ UNCHANGED <<phase, round, backend, closer, work, runs>>

\* The process is started ...
Start(r, s) ==
  /\ handler[r][s].at = "load"
  /\ LET target == Target(handler[r][s].op) IN
       IF target = "closed" THEN Put(r, s, "loaded") /\ UNCHANGED backend
       ELSE Put(r, s, "loading") /\ backend' = target
  /\ UNCHANGED <<cohort, mode, closer, work, runs>>

\* ... and is ready, or has exited or been stopped, or takes too long.
Load(r, s) ==
  /\ handler[r][s].at = "loading"
  /\ \/ backend \in {"vllm", "hf"} /\ Put(r, s, "loaded") /\ UNCHANGED error
     \/ ("load" \in Faults \/ backend \notin {"vllm", "hf"}) /\ SwitchFails(r, s)
  /\ UNCHANGED <<phase, round, service, work, runs>>

\* A teacher that is closed during the load stops the backend again, unless close came
\* between the creation of the vLLM object and that of its process, which then stays.
EndLoad(r, s) ==
  /\ handler[r][s].at = "loaded"
  /\ IF closer # "open"
     THEN /\ backend' \in {"none"} \cup (IF closer = "stopped" THEN {backend} \cap {"vllm"} ELSE {})
          /\ SwitchFails(r, s) /\ UNCHANGED mode
     ELSE mode' = Target(handler[r][s].op) /\ Put(r, s, "switched")
          /\ UNCHANGED <<error, backend>>
  /\ UNCHANGED <<phase, round, closer, work, runs>>

\* Mutant of Refused: the error is not looked at again after the switch.
RefusedNot == FALSE

\* The cohort was aborted while the lock was released.
Refused == error

\* The lock is taken again and everybody is released.
EndSwitch(r, s) ==
  LET op == handler[r][s].op IN
  /\ handler[r][s].at = "switched"
  /\ IF Refused
     THEN Put(r, s, "error") /\ UNCHANGED <<phase, round>>
     ELSE /\ phase' = [q \in Runs |-> IF phase[q] = "finished" THEN "finished"
                        ELSE IF op = "collected" THEN "updating" ELSE "collecting"]
          /\ round' = IF op = "collected" THEN round ELSE round + 1
          /\ Put(r, s, "ok")
  /\ UNCHANGED <<error, service, work, runs>>

Switch(r, s) ==
  \/ BeginSwitch(r, s) \/ StopBackend(r, s) \/ ClearMode(r, s) \/ Start(r, s) \/ Load(r, s)
  \/ EndLoad(r, s) \/ EndSwitch(r, s)

-----------------------------------------------------------------------------
(* Status: error, mode and backend are read one after the other, without a lock *)

ReadStatus(r, s) ==
  /\ handler[r][s].at = "new" /\ handler[r][s].op = "status"
  /\ Put(r, s, CASE error -> "error"
                 [] ~error /\ mode = "vllm" -> "status vllm"
                 [] ~error /\ mode = "hf" -> "status hf"
                 [] OTHER -> "ok")
  /\ UNCHANGED <<cohort, service, work, runs>>

\* An exited vLLM aborts; a backend that was taken away only fails the request.
FinishStatus(r, s) ==
  /\ \/ /\ handler[r][s].at = "status vllm"
        /\ error' = (error \/ backend = "exited")
        /\ Put(r, s, IF backend = "vllm" THEN "ok" ELSE "error")
     \/ /\ handler[r][s].at = "status hf"
        /\ \/ backend = "hf" /\ Put(r, s, "ok")
           \/ (backend # "hf" \/ "backend" \in Faults) /\ Put(r, s, "error")
        /\ UNCHANGED error
  /\ UNCHANGED <<phase, round, service, work, runs>>

-----------------------------------------------------------------------------
(* The runs *)

Live(r) == {s \in Slots : handler[r][s].live}

Send(r, op) ==
  \E s \in Slots :
    /\ handler[r][s] = NoHandler
    /\ handler' = [handler EXCEPT ![r][s] = [NoHandler EXCEPT !.at = "new", !.op = op, !.live = TRUE]]
    /\ UNCHANGED <<cohort, service, work, starts>>

\* A process that starts asks for the status; the dialogues of a batch have many
\* requests in flight at once.
Sample(r) ==
  /\ client[r] \in {"starting", "collecting"}
  /\ IF client[r] = "starting" THEN Live(r) = {} /\ Send(r, "status") ELSE Send(r, "collect")
  /\ UNCHANGED client

\* close_collection has waited for every request.
Collected(r) ==
  /\ client[r] = "collecting" /\ Live(r) = {}
  /\ Send(r, "collected")
  /\ client' = [client EXCEPT ![r] = "collected"]

\* Exact scores, diagnostics and the status check, one at a time.
Score(r) ==
  /\ client[r] = "updating" /\ Live(r) = {}
  /\ Send(r, "opd") \/ Send(r, "status")
  /\ UNCHANGED client

\* The update is committed; the run says whether its quota is met.
Updated(r) ==
  /\ client[r] = "updating" /\ Live(r) = {}
  /\ \/ round + 1 < MaxRounds /\ Send(r, "updated") /\ client' = [client EXCEPT ![r] = "updated"]
     \/ Send(r, "done") /\ client' = [client EXCEPT ![r] = "done"]

After(at) ==
  CASE at \in {"starting", "updated"} -> "collecting"
    [] at = "collected" -> "updating"
    [] at = "done" -> "finished"
    [] OTHER -> at

Abandoned(r) == [s \in Slots |-> [handler[r][s] EXCEPT !.live = FALSE]]

\* An answer arrives; an error fails the run.  Nobody waits for the answer of an orphan.
Receive(r, s) ==
  /\ handler[r][s].at \in {"ok", "error"}
  /\ IF handler[r][s].live /\ handler[r][s].at = "error"
     THEN /\ client' = [client EXCEPT ![r] = "failing"]
          /\ handler' = [handler EXCEPT ![r] = [Abandoned(r) EXCEPT ![s] = NoHandler]]
     ELSE /\ client' = IF handler[r][s].live THEN [client EXCEPT ![r] = After(@)] ELSE client
          /\ handler' = [handler EXCEPT ![r][s] = NoHandler]
  /\ UNCHANGED <<cohort, service, work, starts>>

\* Mutant of Aborted: a failing run does not tell the teacher.
AbortedNot == error

\* The request abort of a failing run.
Aborted == TRUE

Fail(r) ==
  /\ client[r] = "failing"
  /\ error' = Aborted
  /\ client' = [client EXCEPT ![r] = "failed"]
  /\ UNCHANGED <<phase, round, service, handler, work, starts>>

Ended == {"finished", "failed", "dead"}

\* A run fails on its own account, or is killed and cannot even abort the teacher.
StopRun(r) ==
  /\ client[r] \notin Ended \cup {"failing"}
  /\ \/ "fail" \in Faults /\ client' = [client EXCEPT ![r] = "failing"]
     \/ "kill" \in Faults /\ client' = [client EXCEPT ![r] = "dead"]
  /\ handler' = [handler EXCEPT ![r] = Abandoned(r)]
  /\ UNCHANGED <<cohort, service, work, starts>>

\* --resume: the run samples the batch after its last commit, whatever the teacher
\* believes.
Resume(r) ==
  /\ client[r] = "dead" /\ starts[r] < MaxStarts
  /\ client' = [client EXCEPT ![r] = "starting"]
  /\ starts' = [starts EXCEPT ![r] = @ + 1]
  /\ UNCHANGED <<cohort, service, handler, work>>

-----------------------------------------------------------------------------
(* The teacher process *)

BackendExit ==
  /\ "backend" \in Faults /\ backend \in {"vllm", "hf"}
  /\ backend' = "exited"
  /\ UNCHANGED <<cohort, mode, closer, handler, work, runs>>

\* close: closing is set, the cohort aborted, the backend stopped, the scheduler closed.
Close ==
  /\ \/ /\ "shutdown" \in Faults /\ closer = "open"
        /\ closer' = "closing" /\ UNCHANGED <<error, backend>>
     \/ /\ closer = "closing"
        /\ closer' = "aborted" /\ error' = TRUE /\ UNCHANGED backend
     \/ /\ closer = "aborted"
        /\ closer' = "stopped" /\ backend' = "none" /\ UNCHANGED error
  /\ UNCHANGED <<phase, round, mode, handler, work, runs>>

\* What the handlers and the scheduler do for a run without a time-out.
Serve(r) ==
  \/ \E s \in Slots :
       \/ Check(r, s) \/ Submit(r, s) \/ Raise(r, s) \/ Arrive(r, s) \/ Pass(r, s)
       \/ Switch(r, s) \/ ReadStatus(r, s) \/ FinishStatus(r, s)
  \/ \E w \in work : w[1] = r /\ (Execute(w) \/ Complete(w))

Answered(r) == Fail(r) \/ \E s \in Slots : Receive(r, s)

Next ==
  \/ \E r \in Runs :
       \/ Serve(r) \/ Answered(r) \/ Sample(r) \/ Collected(r) \/ Score(r) \/ Updated(r)
       \/ StopRun(r) \/ Resume(r)
       \/ \E s \in Slots : TimeOut(r, s) \/ BarrierTimeOut(r, s)
  \/ BackendExit \/ Close

Spec == Init /\ [][Next]_vars

-----------------------------------------------------------------------------
(* Correctness *)

Places ==
  {"none", "new", "checked", "waiting", "raised", "barrier", "status vllm", "status hf",
   "ok", "error"} \cup Switching

\* The variables keep their types.
TypeOK ==
  /\ phase \in [Runs -> {"collecting", "collected", "updating", "updated", "finished"}]
  /\ round \in 0..MaxRounds
  /\ error \in BOOLEAN
  /\ mode \in {"vllm", "hf", "closed", "none"}
  /\ backend \in {"vllm", "hf", "none", "exited"}
  /\ closer \in {"open", "closing", "aborted", "stopped"}
  /\ handler \in [Runs -> [Slots ->
       [at : Places, op : DataOps \cup PhaseOps \cup {"status", "none"}, live : BOOLEAN,
        before : 0..MaxRounds]]]
  /\ work \subseteq Runs \X Slots \X DataOps \X {"queue", "vllm", "hf"}
  /\ client \in [Runs -> {"starting", "collecting", "collected", "updating", "updated",
                          "done", "failing"} \cup Ended]
  /\ starts \in [Runs -> 1..MaxStarts]

\* "No switch until every live experiment has drained its current phase"
\* (teacher_schedule.py:89): as long as the cohort is not aborted the backend is the
\* one that every member which may send requests needs, and a switch, which runs
\* without the lock, is never seen by one of them.
BackendMatchesPhase ==
  ~error /\ closer = "open" => \A r \in Runs :
    /\ phase[r] = "collecting" => mode = "vllm" /\ backend \in {"vllm", "exited"}
    /\ phase[r] = "updating" => mode = "hf" /\ backend \in {"hf", "exited"}

\* The teacher never takes a backend away from a request that a run waits for
\* (phased_teacher.py:43, teacher_schedule.py:113-120), nor starts one next to another:
\* "never two resident 27B GPU copies" (phased_teacher.py:3).  Not so for a run that was
\* killed and resumed: the report that its first process left behind may arrive between
\* check and submit (phased_teacher.py:97-98), and its request is then refused.
Undisturbed ==
  closer = "open" /\ backend' # backend /\ backend' # "exited" =>
    /\ \A r \in Runs, s \in Slots :
         starts[r] = 1 /\ handler[r][s].live => handler[r][s].at # "waiting"
    /\ backend = "none" \/ backend' = "none"
SwitchDisturbsNobody == [][Undisturbed]_vars

\* After an abort nobody changes phase any more, not even the member whose switch was
\* under way (teacher_schedule.py:118-128), and the abort is final.
Frozen == error => error' /\ UNCHANGED <<phase, round>>
FailClosed == [][Frozen]_vars

=============================================================================
