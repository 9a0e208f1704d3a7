------------------------ MODULE PhasedTeacherProofs -------------------------
(***************************************************************************)
(* What is proved of PhasedTeacher for any runs, any number of requests in *)
(* flight and every combination of faults: an abort is final, and as long  *)
(* as there is none the backend is the one that the members need.          *)
(***************************************************************************)
EXTENDS PhasedTeacher, TLAPS

Phases == {"collecting", "collected", "updating", "updated", "finished"}
Operations == DataOps \cup PhaseOps \cup {"status", "none"}
Requests == Runs \X Slots \X Operations \X {"queue", "vllm", "hf"}
Handlers == [at : Places, op : Operations, live : BOOLEAN, before : Nat]

Typed ==
  /\ phase \in [Runs -> Phases]
  /\ round \in Nat
  /\ error \in BOOLEAN
  /\ handler \in [Runs -> [Slots -> Handlers]]
  /\ work \subseteq Requests

\* The backend that a switch has loaded, unless it has nothing to load.
Ready(op) == backend \in {Target(op), "exited"}

\* While a switch is under way every member waits or is finished.
SwitchSound(r, s) ==
  LET h == handler[r][s] IN
  h.at \in Switching =>
    /\ \A q \in Runs : phase[q] \in {Waiting(h.op), "finished"}
    /\ h.at = "loading" => Ready(h.op)
    /\ h.at \in {"loaded", "switched"} => Target(h.op) = "closed" \/ Ready(h.op)
    /\ h.at = "switched" => mode = Target(h.op)

\* There is one at a time.
OneSwitch ==
  \A q, r \in Runs, s, t \in Slots :
    handler[r][s].at \in Switching /\ handler[q][t].at \in Switching => q = r /\ t = s

Works == ~error /\ closer = "open"

IInv ==
  /\ Typed
  /\ BackendMatchesPhase
  /\ Works => OneSwitch /\ \A r \in Runs, s \in Slots : SwitchSound(r, s)

LEMMA InitEstablishes == Init => IInv
<1> SUFFICES ASSUME Init PROVE IInv OBVIOUS
<1>1. NoHandler \in Handlers /\ NoHandler.at = "none"
  BY DEF NoHandler, Handlers, Operations, Places
<1>2. handler \in [Runs -> [Slots -> Handlers]] BY <1>1 DEF Init
<1>3. Typed BY <1>2 DEF Init, Typed, Phases
<1>4. \A r \in Runs, s \in Slots : handler[r][s].at = "none" BY <1>1 DEF Init
<1>5. OneSwitch /\ \A r \in Runs, s \in Slots : SwitchSound(r, s)
  BY <1>4 DEF OneSwitch, SwitchSound, Switching
<1>6. BackendMatchesPhase BY DEF Init, BackendMatchesPhase
<1> QED BY <1>3, <1>5, <1>6 DEF IInv

-----------------------------------------------------------------------------
(* Handlers that move *)

\* One handler becomes h.
Becomes(r, s, h) ==
  handler' = [handler EXCEPT ![r] = [handler[r] EXCEPT ![s] = h]]

LEMMA Others ==
  ASSUME Typed, NEW r \in Runs, NEW s \in Slots, NEW h \in Handlers, Becomes(r, s, h)
  PROVE  /\ handler' \in [Runs -> [Slots -> Handlers]]
         /\ handler'[r][s] = h
         /\ \A q \in Runs, t \in Slots : q # r \/ t # s => handler'[q][t] = handler[q][t]
<1>1. handler \in [Runs -> [Slots -> Handlers]] BY DEF Typed
<1>2. handler[r] \in [Slots -> Handlers] BY <1>1
<1>3. [handler[r] EXCEPT ![s] = h] \in [Slots -> Handlers] BY <1>2
<1>4. handler'[r] = [handler[r] EXCEPT ![s] = h] BY <1>1 DEF Becomes
<1>5. handler' \in [Runs -> [Slots -> Handlers]] BY <1>1, <1>3 DEF Becomes
<1>6. \A q \in Runs : q # r => handler'[q] = handler[q] BY <1>1 DEF Becomes
<1>7. handler'[r][s] = h /\ \A t \in Slots : t # s => handler'[r][t] = handler[r][t]
  BY <1>2, <1>4
<1> QED BY <1>5, <1>6, <1>7

\* Only its place changes.
LEMMA PutIs ==
  ASSUME Typed, NEW r \in Runs, NEW s \in Slots, NEW at \in Places, Put(r, s, at)
  PROVE  /\ handler' \in [Runs -> [Slots -> Handlers]]
         /\ handler'[r][s].at = at /\ handler'[r][s].op = handler[r][s].op
         /\ \A q \in Runs, t \in Slots : q # r \/ t # s => handler'[q][t] = handler[q][t]
<1> DEFINE h == [handler[r][s] EXCEPT !.at = at]
<1>1. handler[r][s] \in Handlers BY DEF Typed
<1>2. h \in Handlers /\ h.at = at /\ h.op = handler[r][s].op BY <1>1 DEF Handlers
<1>3. Becomes(r, s, h) BY DEF Put, Becomes
<1> HIDE DEF h
<1> QED BY <1>2, <1>3, Others

\* No step lifts an abort or reopens the teacher.
Onward == (error => error') /\ (closer # "open" => closer' # "open")

\* A handler that is in no switch, before and after, or that stays where it is.
OutsideSwitch(r, s) ==
  \/ handler'[r][s].at = handler[r][s].at /\ handler'[r][s].op = handler[r][s].op
  \/ handler[r][s].at \notin Switching /\ handler'[r][s].at \notin Switching

LEMMA Aside ==
  ASSUME IInv, Typed', Onward, UNCHANGED <<phase, mode, backend>>,
         \A r \in Runs, s \in Slots : OutsideSwitch(r, s)
  PROVE  IInv'
<1>1. Works' => Works BY DEF Works, Onward
<1>2. BackendMatchesPhase' BY <1>1 DEF IInv, BackendMatchesPhase, Works
<1>3. ASSUME Works PROVE OneSwitch'
  BY <1>3 DEF IInv, OneSwitch, OutsideSwitch
<1>4. ASSUME Works, NEW r \in Runs, NEW s \in Slots PROVE SwitchSound(r, s)'
  <2>1. SwitchSound(r, s) /\ OutsideSwitch(r, s) BY <1>4 DEF IInv
  <2> QED BY <2>1 DEF SwitchSound, OutsideSwitch, Ready, Target
<1> QED BY <1>1, <1>2, <1>3, <1>4 DEF IInv

\* After an abort, or once the teacher is being closed, nothing is claimed.
LEMMA AbortedHolds == ASSUME Typed', ~Works' PROVE IInv'
BY DEF IInv, BackendMatchesPhase, Works

LEMMA PutAside ==
  ASSUME IInv, NEW r \in Runs, NEW s \in Slots, NEW at \in Places \ Switching, Put(r, s, at),
         handler[r][s].at \notin Switching, Onward, error' \in BOOLEAN,
         UNCHANGED <<phase, mode, backend, round>>,
         work' \subseteq Requests
  PROVE  IInv'
<1>0. Typed BY DEF IInv
<1>1. /\ handler' \in [Runs -> [Slots -> Handlers]]
      /\ handler'[r][s].at = at
      /\ \A q \in Runs, t \in Slots : q # r \/ t # s => handler'[q][t] = handler[q][t]
  BY <1>0, PutIs
<1>2. Typed' BY <1>0, <1>1 DEF Typed
<1>3. \A q \in Runs, t \in Slots : OutsideSwitch(q, t) BY <1>1 DEF OutsideSwitch
<1> QED BY <1>2, <1>3, Aside

-----------------------------------------------------------------------------
(* Requests for data, and the status *)

LEMMA PlacesOf ==
  /\ Switching = {"switch", "stop", "clear", "load", "loading", "loaded", "switched"}
  /\ Places = {"none", "new", "checked", "waiting", "raised", "barrier", "status vllm",
               "status hf", "ok", "error"} \cup Switching
BY DEF Switching, Places

LEMMA CheckKeeps == ASSUME IInv, NEW r \in Runs, NEW s \in Slots, Check(r, s) PROVE IInv'
<1>1. PICK at \in {"error", "checked"} : Put(r, s, at) BY DEF Check
<1>2. handler[r][s].at \notin Switching BY PlacesOf DEF Check
<1> QED BY <1>1, <1>2, PlacesOf, PutAside DEF Check, cohort, service, Onward, IInv, Typed

LEMMA SubmitKeeps == ASSUME IInv, NEW r \in Runs, NEW s \in Slots, Submit(r, s) PROVE IInv'
<1>1. PICK at \in {"waiting", "raised"} : Put(r, s, at) BY DEF Submit
<1>2. handler[r][s].at \notin Switching BY PlacesOf DEF Submit
<1>3. work' \subseteq Requests
  <2>1. work \subseteq Requests BY DEF IInv, Typed
  <2>2. handler[r][s].op \in Operations BY DEF IInv, Typed, Handlers
  <2>3. <<r, s, handler[r][s].op, "queue">> \in Requests BY <2>2 DEF Requests
  <2> QED BY <2>1, <2>3 DEF Submit
<1>4. error' \in BOOLEAN BY DEF Submit, cohort, IInv, Typed
<1> QED BY <1>1, <1>2, <1>3, <1>4, PlacesOf, PutAside DEF Submit, cohort, service, Onward

\* The scheduler's answer reaches a handler that still waits.
LEMMA SettleKeeps ==
  ASSUME IInv, NEW w \in work, NEW outcome \in {"ok", "raised"}, Settle(w, outcome),
         UNCHANGED <<cohort, service>>
  PROVE  IInv'
<1>0. Typed BY DEF IInv
<1>1. w \in Requests BY <1>0 DEF Typed
<1>2. w[1] \in Runs /\ w[2] \in Slots BY <1>1 DEF Requests
<1> DEFINE r == w[1]
           s == w[2]
           at == IF handler[r][s].at = "waiting" THEN outcome ELSE handler[r][s].at
<1>3. handler[r][s] \in Handlers BY <1>0, <1>2 DEF Typed
<1>4. at \in Places BY <1>3, PlacesOf DEF Handlers
<1>5. Put(r, s, at) BY DEF Settle, Put
<1> HIDE DEF at
<1>6. /\ handler' \in [Runs -> [Slots -> Handlers]]
      /\ handler'[r][s].at = at /\ handler'[r][s].op = handler[r][s].op
      /\ \A q \in Runs, t \in Slots : q # r \/ t # s => handler'[q][t] = handler[q][t]
  BY <1>0, <1>2, <1>4, <1>5, PutIs
<1>7. work' \subseteq Requests BY <1>0 DEF Typed, Settle
<1>8. Typed' BY <1>0, <1>6, <1>7 DEF Typed, cohort
<1>9. \/ at = handler[r][s].at
      \/ at \notin Switching /\ handler[r][s].at \notin Switching
  BY PlacesOf DEF at
<1>10. \A q \in Runs, t \in Slots : OutsideSwitch(q, t) BY <1>6, <1>9 DEF OutsideSwitch
<1> QED BY <1>8, <1>10, Aside DEF cohort, service, Onward

LEMMA ExecuteKeeps == ASSUME IInv, NEW w \in work, Execute(w) PROVE IInv'
<1>1. CASE ~Served(w[3]) BY <1>1, SettleKeeps DEF Execute
<1>2. CASE Served(w[3])
  <2>0. Typed BY DEF IInv
  <2>1. w \in Requests BY <2>0 DEF Typed
  <2>2. mode \in {"vllm", "hf"} BY <1>2 DEF Served, BackendOf
  <2>3. <<w[1], w[2], w[3], mode>> \in Requests BY <2>1, <2>2 DEF Requests
  <2>4. work' = (work \ {w}) \cup {<<w[1], w[2], w[3], mode>>} /\ UNCHANGED handler
    BY <1>2 DEF Execute
  <2>5. work' \subseteq Requests BY <2>0, <2>3, <2>4 DEF Typed
  <2>6. Typed' BY <2>0, <2>4, <2>5 DEF Typed, Execute, cohort
  <2>7. \A q \in Runs, t \in Slots : OutsideSwitch(q, t) BY <2>4 DEF OutsideSwitch
  <2> QED BY <2>6, <2>7, Aside DEF Execute, cohort, service, Onward
<1> QED BY <1>1, <1>2

LEMMA CompleteKeeps == ASSUME IInv, NEW w \in work, Complete(w) PROVE IInv'
BY SettleKeeps DEF Complete

LEMMA TimeOutKeeps == ASSUME IInv, NEW r \in Runs, NEW s \in Slots, TimeOut(r, s) PROVE IInv'
<1>1. handler[r][s].at \notin Switching BY PlacesOf DEF TimeOut
<1> QED BY <1>1, PlacesOf, PutAside DEF TimeOut, cohort, service, Onward, IInv, Typed

LEMMA RaiseKeeps == ASSUME IInv, NEW r \in Runs, NEW s \in Slots, Raise(r, s) PROVE IInv'
<1>1. handler[r][s].at \notin Switching BY PlacesOf DEF Raise
<1> QED BY <1>1, PlacesOf, PutAside DEF Raise, service, Onward, IInv, Typed

LEMMA ReadStatusKeeps ==
  ASSUME IInv, NEW r \in Runs, NEW s \in Slots, ReadStatus(r, s) PROVE IInv'
<1>1. PICK at \in {"error", "status vllm", "status hf", "ok"} : Put(r, s, at) BY DEF ReadStatus
<1>2. handler[r][s].at \notin Switching BY PlacesOf DEF ReadStatus
<1> QED BY <1>1, <1>2, PlacesOf, PutAside DEF ReadStatus, cohort, service, Onward, IInv, Typed

LEMMA FinishStatusKeeps ==
  ASSUME IInv, NEW r \in Runs, NEW s \in Slots, FinishStatus(r, s) PROVE IInv'
<1>1. PICK at \in {"error", "ok"} : Put(r, s, at) BY DEF FinishStatus
<1>2. handler[r][s].at \notin Switching BY PlacesOf DEF FinishStatus
<1>3. error' \in BOOLEAN /\ (error => error') BY DEF FinishStatus, IInv, Typed
<1> QED BY <1>1, <1>2, <1>3, PlacesOf, PutAside DEF FinishStatus, service, Onward, IInv, Typed

\* A waiter at the barrier is released or gives up.
LEMMA PassKeeps ==
  ASSUME IInv, NEW r \in Runs, NEW s \in Slots, Pass(r, s) \/ BarrierTimeOut(r, s) PROVE IInv'
<1>1. PICK at \in {"error", "ok"} : Put(r, s, at) BY DEF Pass, BarrierTimeOut
<1>2. handler[r][s].at \notin Switching BY PlacesOf DEF Pass, BarrierTimeOut
<1>3. error' \in BOOLEAN /\ (error => error')
  BY DEF Pass, BarrierTimeOut, cohort, IInv, Typed
<1> QED BY <1>1, <1>2, <1>3, PlacesOf, PutAside
        DEF Pass, BarrierTimeOut, cohort, service, Onward, IInv, Typed

-----------------------------------------------------------------------------
(* The runs *)

LEMMA NobodyIs == NoHandler \in Handlers /\ NoHandler.at \notin Switching
BY PlacesOf DEF NoHandler, Handlers, Operations

LEMMA SendKeeps ==
  ASSUME IInv, NEW r \in Runs, NEW op \in Operations, Send(r, op) PROVE IInv'
<1>0. Typed BY DEF IInv
<1> DEFINE h == [NoHandler EXCEPT !.at = "new", !.op = op, !.live = TRUE]
<1>1. h \in Handlers /\ h.at = "new" BY PlacesOf DEF NoHandler, Handlers, Operations
<1>2. PICK s \in Slots : handler[r][s] = NoHandler /\ handler' = [handler EXCEPT ![r][s] = h]
  BY DEF Send
<1>3. UNCHANGED <<cohort, service, work>> BY DEF Send
<1> HIDE DEF h
<1>4. Becomes(r, s, h) BY <1>2 DEF Becomes
<1>5. /\ handler' \in [Runs -> [Slots -> Handlers]] /\ handler'[r][s] = h
      /\ \A q \in Runs, t \in Slots : q # r \/ t # s => handler'[q][t] = handler[q][t]
  BY <1>0, <1>1, <1>4, Others
<1>6. Typed' BY <1>0, <1>3, <1>5 DEF Typed, cohort
<1>7. handler[r][s].at \notin Switching /\ h.at \notin Switching
  BY <1>1, <1>2, NobodyIs, PlacesOf
<1>8. \A q \in Runs, t \in Slots : OutsideSwitch(q, t) BY <1>5, <1>7 DEF OutsideSwitch
<1> QED BY <1>3, <1>6, <1>8, Aside DEF cohort, service, Onward

\* What a run leaves behind.
LEMMA AbandonedHas ==
  ASSUME Typed, NEW r \in Runs
  PROVE  /\ Abandoned(r) \in [Slots -> Handlers]
         /\ \A s \in Slots : /\ Abandoned(r)[s].at = handler[r][s].at
                             /\ Abandoned(r)[s].op = handler[r][s].op
<1>1. ASSUME NEW s \in Slots
      PROVE  LET h == [handler[r][s] EXCEPT !.live = FALSE] IN
             h \in Handlers /\ h.at = handler[r][s].at /\ h.op = handler[r][s].op
  <2>1. handler[r][s] \in Handlers BY DEF Typed
  <2> QED BY <2>1 DEF Handlers
<1> QED BY <1>1 DEF Abandoned

\* The handlers of one run change, none of them in a switch.
LEMMA OneRun ==
  ASSUME IInv, NEW r \in Runs, NEW hs \in [Slots -> Handlers],
         handler' = [handler EXCEPT ![r] = hs], Onward, error' \in BOOLEAN,
         UNCHANGED <<phase, round, mode, backend, work>>,
         \A s \in Slots :
           \/ hs[s].at = handler[r][s].at /\ hs[s].op = handler[r][s].op
           \/ handler[r][s].at \notin Switching /\ hs[s].at \notin Switching
  PROVE  IInv'
<1>0. Typed BY DEF IInv
<1>1. /\ handler' \in [Runs -> [Slots -> Handlers]] /\ handler'[r] = hs
      /\ \A q \in Runs : q # r => handler'[q] = handler[q]
  BY <1>0 DEF Typed
<1>2. Typed' BY <1>0, <1>1 DEF Typed
<1>3. \A q \in Runs, t \in Slots : OutsideSwitch(q, t) BY <1>1 DEF OutsideSwitch
<1> QED BY <1>2, <1>3, Aside

LEMMA ReceiveKeeps == ASSUME IInv, NEW r \in Runs, NEW s \in Slots, Receive(r, s) PROVE IInv'
<1>0. Typed BY DEF IInv
<1>1. handler[r][s].at \notin Switching BY PlacesOf DEF Receive
<1>2. /\ Onward /\ error' \in BOOLEAN
      /\ UNCHANGED <<phase, round, mode, backend, work>>
  BY <1>0 DEF Receive, cohort, service, Onward, Typed
<1>3. CASE handler[r][s].live /\ handler[r][s].at = "error"
  <2> DEFINE hs == [Abandoned(r) EXCEPT ![s] = NoHandler]
  <2>1. hs \in [Slots -> Handlers] BY <1>0, AbandonedHas, NobodyIs
  <2>2. hs[s] = NoHandler /\ \A t \in Slots : t # s => hs[t] = Abandoned(r)[t]
    BY <1>0, AbandonedHas
  <2>3. handler' = [handler EXCEPT ![r] = hs] BY <1>3 DEF Receive
  <2> HIDE DEF hs
  <2>4. ASSUME NEW t \in Slots
        PROVE  \/ hs[t].at = handler[r][t].at /\ hs[t].op = handler[r][t].op
               \/ handler[r][t].at \notin Switching /\ hs[t].at \notin Switching
    <3>1. CASE t = s BY <1>1, <2>2, <3>1, NobodyIs
    <3>2. CASE t # s BY <1>0, <2>2, <3>2, AbandonedHas
    <3> QED BY <3>1, <3>2
  <2> QED BY <1>2, <2>1, <2>3, <2>4, OneRun
<1>4. CASE ~(handler[r][s].live /\ handler[r][s].at = "error")
  <2> DEFINE hs == [handler[r] EXCEPT ![s] = NoHandler]
  <2>1. handler[r] \in [Slots -> Handlers] BY <1>0 DEF Typed
  <2>2. hs \in [Slots -> Handlers] BY <2>1, NobodyIs
  <2>3. hs[s] = NoHandler /\ \A t \in Slots : t # s => hs[t] = handler[r][t] BY <2>1
  <2>4. handler' = [handler EXCEPT ![r] = hs] BY <1>4 DEF Receive
  <2> HIDE DEF hs
  <2>5. ASSUME NEW t \in Slots
        PROVE  \/ hs[t].at = handler[r][t].at /\ hs[t].op = handler[r][t].op
               \/ handler[r][t].at \notin Switching /\ hs[t].at \notin Switching
    BY <1>1, <2>3, NobodyIs
  <2> QED BY <1>2, <2>2, <2>4, <2>5, OneRun
<1> QED BY <1>3, <1>4

LEMMA StopRunKeeps == ASSUME IInv, NEW r \in Runs, StopRun(r) PROVE IInv'
<1>0. Typed BY DEF IInv
<1>1. handler' = [handler EXCEPT ![r] = Abandoned(r)] BY DEF StopRun
<1>2. /\ Onward /\ error' \in BOOLEAN
      /\ UNCHANGED <<phase, round, mode, backend, work>>
  BY <1>0 DEF StopRun, cohort, service, Onward, Typed
<1> DEFINE hs == Abandoned(r)
<1>3. /\ hs \in [Slots -> Handlers]
      /\ \A s \in Slots : hs[s].at = handler[r][s].at /\ hs[s].op = handler[r][s].op
  BY <1>0, AbandonedHas
<1>4. handler' = [handler EXCEPT ![r] = hs] BY <1>1
<1> HIDE DEF hs
<1> QED BY <1>2, <1>3, <1>4, OneRun

\* Steps that move no handler and no backend.
LEMMA StillKeeps ==
  ASSUME IInv, UNCHANGED <<phase, round, mode, backend, handler, work>>, Onward,
         error' \in BOOLEAN
  PROVE  IInv'
<1>1. Typed' BY DEF IInv, Typed
<1>2. \A r \in Runs, s \in Slots : OutsideSwitch(r, s) BY DEF OutsideSwitch
<1> QED BY <1>1, <1>2, Aside

LEMMA FailKeeps == ASSUME IInv, NEW r \in Runs, Fail(r) PROVE IInv'
BY StillKeeps DEF Fail, Aborted, service, Onward

LEMMA ResumeKeeps == ASSUME IInv, NEW r \in Runs, Resume(r) PROVE IInv'
BY StillKeeps DEF Resume, cohort, service, Onward, IInv, Typed

LEMMA RunKeeps ==
  ASSUME IInv, NEW r \in Runs, Sample(r) \/ Collected(r) \/ Score(r) \/ Updated(r) PROVE IInv'
<1>1. PICK op \in Operations : Send(r, op)
  BY DEF Sample, Collected, Score, Updated, Operations, DataOps, PhaseOps
<1> QED BY <1>1, SendKeeps

-----------------------------------------------------------------------------
(* The teacher *)

LEMMA CloseKeeps == ASSUME IInv, Close PROVE IInv'
<1>1. Typed' BY DEF Close, IInv, Typed
<1>2. ~Works' BY DEF Close, Works
<1> QED BY <1>1, <1>2, AbortedHolds

LEMMA BackendExitKeeps == ASSUME IInv, BackendExit PROVE IInv'
<1> USE DEF BackendExit, cohort, runs
<1>1. Typed' BY DEF IInv, Typed
<1>2. BackendMatchesPhase' BY DEF IInv, BackendMatchesPhase
<1>3. ASSUME Works' PROVE OneSwitch' /\ \A r \in Runs, s \in Slots : SwitchSound(r, s)'
  <2>1. Works /\ OneSwitch BY <1>3 DEF Works, IInv
  <2>2. OneSwitch' BY <2>1 DEF OneSwitch
  <2>3. ASSUME NEW r \in Runs, NEW s \in Slots PROVE SwitchSound(r, s)'
    <3>1. SwitchSound(r, s) BY <2>1 DEF IInv
    <3> QED BY <3>1 DEF SwitchSound, Ready, Target
  <2> QED BY <2>2, <2>3
<1> QED BY <1>1, <1>2, <1>3 DEF IInv

-----------------------------------------------------------------------------
(* The barrier and the switch *)

\* A member arrives; when all are there nobody collects or updates any more, and a
\* switch that is under way would have kept it out.
LEMMA ArriveKeeps == ASSUME IInv, NEW r \in Runs, NEW s \in Slots, Arrive(r, s) PROVE IInv'
<1> DEFINE op == handler[r][s].op
<1>0. Typed BY DEF IInv
<1>1. handler[r][s].at = "new" /\ op \in PhaseOps /\ handler[r][s] \in Handlers
  BY <1>0 DEF Arrive, Typed
<1>2. CASE error \/ phase[r] # Expected(op)
  <2>1. Put(r, s, "error") /\ UNCHANGED phase BY <1>2 DEF Arrive
  <2> QED BY <1>0, <1>1, <2>1, PlacesOf, PutAside DEF Arrive, service, Onward, Typed
<1>3. CASE ~(error \/ phase[r] # Expected(op))
  <2> DEFINE at == IF AllThere(phase', op) THEN "switch" ELSE "barrier"
             h == [handler[r][s] EXCEPT !.at = at, !.before = round]
             next == IF op = "done" THEN "finished" ELSE Waiting(op)
  <2>1. phase' = [phase EXCEPT ![r] = next] BY <1>3 DEF Arrive
  <2>2. handler' = [handler EXCEPT ![r][s].at = at, ![r][s].before = round]
    BY <1>3 DEF Arrive
  <2>3. UNCHANGED <<round, error, service, work, runs>> BY DEF Arrive
  <2>4. at \in {"switch", "barrier"} OBVIOUS
  <2>5. next \in {"finished", "collected", "updated"} BY DEF Waiting
  <2>6. AllThere(phase', op) <=> at = "switch" OBVIOUS
  <2> HIDE DEF at, next
  <2>7. h \in Handlers /\ h.at = at /\ h.op = op
    <3>1. at \in Places /\ round \in Nat BY <1>0, <2>4, PlacesOf DEF Typed
    <3> QED BY <1>1, <3>1 DEF Handlers
  <2>8. Becomes(r, s, h) BY <1>0, <2>2 DEF Becomes, Typed
  <2> HIDE DEF h
  <2>9. /\ handler' \in [Runs -> [Slots -> Handlers]] /\ handler'[r][s] = h
        /\ \A q \in Runs, t \in Slots : q # r \/ t # s => handler'[q][t] = handler[q][t]
    BY <1>0, <2>7, <2>8, Others
  <2>10. phase' \in [Runs -> Phases] BY <1>0, <2>1, <2>5 DEF Typed, Phases
  <2>11. Typed' BY <1>0, <2>3, <2>9, <2>10 DEF Typed
  <2>12. \A q \in Runs : phase'[q] \in {phase[q], "finished", "collected", "updated"}
    BY <1>0, <2>1, <2>5 DEF Typed
  <2>13. BackendMatchesPhase'
    BY <2>3, <2>12 DEF IInv, BackendMatchesPhase, service
  <2>14. ASSUME Works' PROVE OneSwitch' /\ \A q \in Runs, t \in Slots : SwitchSound(q, t)'
    <3>1. Works BY <2>3, <2>14 DEF Works, service
    <3>2. phase[r] \in {"collecting", "updating"} BY <1>3 DEF Expected
    <3>3. ASSUME NEW q \in Runs, NEW t \in Slots PROVE handler[q][t].at \notin Switching
      <4>1. SwitchSound(q, t) BY <3>1 DEF IInv
      <4> QED BY <3>2, <4>1 DEF SwitchSound, Waiting
    <3>4. \A q \in Runs, t \in Slots : handler'[q][t].at \in Switching => q = r /\ t = s
      BY <2>9, <3>3
    <3>5. OneSwitch' BY <3>4 DEF OneSwitch
    <3>6. SwitchSound(r, s)'
      <4>1. handler'[r][s].at \in Switching => handler'[r][s].at = "switch"
        BY <2>4, <2>7, <2>9, PlacesOf
      <4>2. handler'[r][s].at = "switch" =>
              \A q \in Runs : phase'[q] \in {Waiting(op), "finished"}
        BY <2>6, <2>7, <2>9 DEF AllThere
      <4>3. handler'[r][s].op = op BY <2>7, <2>9
      <4> QED BY <4>1, <4>2, <4>3 DEF SwitchSound
    <3> QED BY <3>4, <3>5, <3>6 DEF SwitchSound
  <2> QED BY <2>11, <2>13, <2>14 DEF IInv
<1> QED BY <1>2, <1>3

\* One step of a switch: what it promises of itself is what the invariant says of it.
LEMMA SwitchStep ==
  ASSUME IInv, NEW r \in Runs, NEW s \in Slots, NEW at \in Switching, Put(r, s, at),
         handler[r][s].at \in Switching, UNCHANGED <<cohort, closer, work>>,
         Works => SwitchSound(r, s)'
  PROVE  IInv'
<1> USE DEF cohort
<1>0. Typed BY DEF IInv
<1>1. at \in Places BY PlacesOf
<1>2. /\ handler' \in [Runs -> [Slots -> Handlers]]
      /\ \A q \in Runs, t \in Slots : q # r \/ t # s => handler'[q][t] = handler[q][t]
  BY <1>0, <1>1, PutIs
<1>3. Typed' BY <1>0, <1>2 DEF Typed
<1>4. ASSUME Works'
      PROVE  /\ BackendMatchesPhase'
             /\ OneSwitch' /\ \A q \in Runs, t \in Slots : SwitchSound(q, t)'
  <2>1. Works BY <1>4 DEF Works
  <2>2. SwitchSound(r, s) /\ OneSwitch BY <2>1 DEF IInv
  <2>3. \A q \in Runs : phase[q] \in {"collected", "updated", "finished"}
    BY <2>2 DEF SwitchSound, Waiting
  <2>4. BackendMatchesPhase' BY <2>3 DEF BackendMatchesPhase
  <2>5. \A q \in Runs, t \in Slots : handler'[q][t].at \in Switching => q = r /\ t = s
    BY <1>2, <2>2 DEF OneSwitch
  <2>6. OneSwitch' BY <2>5 DEF OneSwitch
  <2>7. ASSUME NEW q \in Runs, NEW t \in Slots PROVE SwitchSound(q, t)'
    <3>1. CASE q = r /\ t = s BY <2>1, <3>1
    <3>2. CASE ~(q = r /\ t = s) BY <2>5, <3>2 DEF SwitchSound
    <3> QED BY <3>1, <3>2
  <2> QED BY <2>4, <2>6, <2>7
<1>5. CASE Works' BY <1>3, <1>4, <1>5 DEF IInv
<1>6. CASE ~Works' BY <1>3, <1>6, AbortedHolds
<1> QED BY <1>5, <1>6

\* A switch that fails aborts the cohort.
LEMMA FailedSwitch ==
  ASSUME IInv, NEW r \in Runs, NEW s \in Slots, SwitchFails(r, s), UNCHANGED <<phase, round, work>>
  PROVE  IInv'
<1>0. Typed BY DEF IInv
<1>1. handler' \in [Runs -> [Slots -> Handlers]] BY <1>0, PutIs, PlacesOf DEF SwitchFails
<1>2. Typed' BY <1>0, <1>1 DEF Typed, SwitchFails
<1>3. ~Works' BY DEF SwitchFails, Works
<1> QED BY <1>2, <1>3, AbortedHolds

\* What a step of a switch leaves of the requests.
LEMMA SwitchOp ==
  ASSUME IInv, NEW r \in Runs, NEW s \in Slots, NEW at \in Places, Put(r, s, at),
         handler[r][s].at \in Switching, Works
  PROVE  /\ handler'[r][s].at = at /\ handler'[r][s].op = handler[r][s].op
         /\ \A q \in Runs : phase[q] \in {Waiting(handler[r][s].op), "finished"}
<1>0. Typed BY DEF IInv
<1>1. handler'[r][s].at = at /\ handler'[r][s].op = handler[r][s].op BY <1>0, PutIs
<1>2. SwitchSound(r, s) BY DEF IInv
<1> QED BY <1>1, <1>2 DEF SwitchSound

LEMMA BeginSwitchKeeps ==
  ASSUME IInv, NEW r \in Runs, NEW s \in Slots, BeginSwitch(r, s) PROVE IInv'
<1>1. CASE ~Idle BY <1>1, FailedSwitch DEF BeginSwitch
<1>2. CASE Idle
  <2>1. Put(r, s, "stop") /\ handler[r][s].at \in Switching
        /\ UNCHANGED <<cohort, service, closer, work>>
    BY <1>2, PlacesOf DEF BeginSwitch, cohort, service
  <2>2. "stop" \in Switching /\ "stop" \in Places BY PlacesOf
  <2>3. Works => SwitchSound(r, s)'
    BY <2>1, <2>2, SwitchOp DEF SwitchSound, cohort
  <2> QED BY <2>1, <2>2, <2>3, SwitchStep
<1> QED BY <1>1, <1>2

LEMMA StopBackendKeeps ==
  ASSUME IInv, NEW r \in Runs, NEW s \in Slots, StopBackend(r, s) PROVE IInv'
<1>1. Put(r, s, "clear") /\ handler[r][s].at \in Switching /\ UNCHANGED <<cohort, closer, work>>
  BY PlacesOf DEF StopBackend
<1>2. "clear" \in Switching /\ "clear" \in Places BY PlacesOf
<1>3. Works => SwitchSound(r, s)' BY <1>1, <1>2, SwitchOp DEF SwitchSound, cohort
<1> QED BY <1>1, <1>2, <1>3, SwitchStep

LEMMA ClearModeKeeps ==
  ASSUME IInv, NEW r \in Runs, NEW s \in Slots, ClearMode(r, s) PROVE IInv'
<1>1. CASE closer # "open" BY <1>1, FailedSwitch DEF ClearMode
<1>2. CASE closer = "open"
  <2>1. Put(r, s, "load") /\ handler[r][s].at \in Switching /\ UNCHANGED <<cohort, closer, work>>
    BY <1>2, PlacesOf DEF ClearMode, cohort
  <2>2. "load" \in Switching /\ "load" \in Places BY PlacesOf
  <2>3. Works => SwitchSound(r, s)' BY <2>1, <2>2, SwitchOp DEF SwitchSound, cohort
  <2> QED BY <2>1, <2>2, <2>3, SwitchStep
<1> QED BY <1>1, <1>2

\* The phases, and so the target, stand still while a switch is under way.
LEMMA StartKeeps == ASSUME IInv, NEW r \in Runs, NEW s \in Slots, Start(r, s) PROVE IInv'
<1> DEFINE target == Target(handler[r][s].op)
<1>1. handler[r][s].at \in Switching /\ UNCHANGED <<cohort, closer, work>>
  BY PlacesOf DEF Start
<1>2. "loaded" \in Switching /\ "loading" \in Switching /\ Switching \subseteq Places
  BY PlacesOf
<1>3. CASE target = "closed"
  <2>1. Put(r, s, "loaded") BY <1>3 DEF Start
  <2>2. Works => SwitchSound(r, s)'
    BY <1>1, <1>2, <1>3, <2>1, SwitchOp DEF SwitchSound, cohort, Target
  <2> QED BY <1>1, <1>2, <2>1, <2>2, SwitchStep
<1>4. CASE target # "closed"
  <2>1. Put(r, s, "loading") /\ backend' = target BY <1>4 DEF Start
  <2>2. Works => SwitchSound(r, s)'
    BY <1>1, <1>2, <2>1, SwitchOp DEF SwitchSound, cohort, Target, Ready
  <2> QED BY <1>1, <1>2, <2>1, <2>2, SwitchStep
<1> QED BY <1>3, <1>4

LEMMA LoadKeeps == ASSUME IInv, NEW r \in Runs, NEW s \in Slots, Load(r, s) PROVE IInv'
<1>1. handler[r][s].at = "loading" /\ UNCHANGED <<phase, round, service, work, runs>>
  BY DEF Load
<1>2. CASE SwitchFails(r, s) BY <1>1, <1>2, FailedSwitch
<1>3. CASE ~SwitchFails(r, s)
  <2>1. Put(r, s, "loaded") /\ UNCHANGED <<cohort, closer, work, backend>>
    BY <1>1, <1>3 DEF Load, cohort, service
  <2>2. "loaded" \in Switching /\ "loading" \in Switching /\ Switching \subseteq Places
    BY PlacesOf
  <2>3. Works => SwitchSound(r, s) BY DEF IInv
  <2>4. Works => SwitchSound(r, s)'
    BY <1>1, <2>1, <2>2, <2>3, SwitchOp DEF SwitchSound, cohort, Target, Ready
  <2> QED BY <1>1, <2>1, <2>2, <2>4, SwitchStep
<1> QED BY <1>2, <1>3

LEMMA EndLoadKeeps == ASSUME IInv, NEW r \in Runs, NEW s \in Slots, EndLoad(r, s) PROVE IInv'
<1>1. handler[r][s].at = "loaded" /\ UNCHANGED <<phase, round, closer, work, runs>>
  BY DEF EndLoad
<1>2. CASE closer # "open" BY <1>1, <1>2, FailedSwitch DEF EndLoad
<1>3. CASE closer = "open"
  <2>1. /\ Put(r, s, "switched") /\ UNCHANGED <<cohort, closer, work, backend>>
        /\ mode' = Target(handler[r][s].op)
    BY <1>1, <1>3 DEF EndLoad, cohort
  <2>2. "loaded" \in Switching /\ "switched" \in Switching /\ Switching \subseteq Places
    BY PlacesOf
  <2>3. Works => SwitchSound(r, s) BY DEF IInv
  <2>4. Works => SwitchSound(r, s)'
    BY <1>1, <2>1, <2>2, <2>3, SwitchOp DEF SwitchSound, cohort, Target, Ready
  <2> QED BY <1>1, <2>1, <2>2, <2>4, SwitchStep
<1> QED BY <1>2, <1>3

\* The members are released into the phase whose backend was loaded.
LEMMA EndSwitchKeeps ==
  ASSUME IInv, NEW r \in Runs, NEW s \in Slots, EndSwitch(r, s) PROVE IInv'
<1> DEFINE op == handler[r][s].op
<1> USE DEF service
<1>0. Typed BY DEF IInv
<1>1. handler[r][s].at = "switched" /\ UNCHANGED <<error, service, work, runs>>
  BY DEF EndSwitch
<1>2. PICK at \in {"error", "ok"} : Put(r, s, at) BY DEF EndSwitch
<1>3. at \in Places /\ at \notin Switching BY PlacesOf
<1>4. /\ handler' \in [Runs -> [Slots -> Handlers]] /\ handler'[r][s].at = at
      /\ \A q \in Runs, t \in Slots : q # r \/ t # s => handler'[q][t] = handler[q][t]
  BY <1>0, <1>2, <1>3, PutIs
<1>5. phase' \in [Runs -> Phases] /\ round' \in Nat
  BY <1>0 DEF EndSwitch, Typed, Phases
<1>6. Typed' BY <1>0, <1>1, <1>4, <1>5 DEF Typed
<1>7. ASSUME Works'
      PROVE  /\ BackendMatchesPhase'
             /\ OneSwitch' /\ \A q \in Runs, t \in Slots : SwitchSound(q, t)'
  <2>1. Works BY <1>1, <1>7 DEF Works
  <2>2. SwitchSound(r, s) /\ OneSwitch BY <2>1 DEF IInv
  <2>3. ASSUME NEW q \in Runs, NEW t \in Slots PROVE handler'[q][t].at \notin Switching
    <3>1. CASE q = r /\ t = s BY <1>3, <1>4, <3>1
    <3>2. CASE ~(q = r /\ t = s)
      <4>1. handler[r][s].at \in Switching BY <1>1, PlacesOf
      <4>2. handler[q][t].at \notin Switching BY <2>2, <3>2, <4>1 DEF OneSwitch
      <4> QED BY <1>4, <3>2, <4>2
    <3> QED BY <3>1, <3>2
  <2>4. OneSwitch' /\ \A q \in Runs, t \in Slots : SwitchSound(q, t)'
    BY <2>3 DEF OneSwitch, SwitchSound
  <2>5. phase' = [q \in Runs |-> IF phase[q] = "finished" THEN "finished"
                   ELSE IF op = "collected" THEN "updating" ELSE "collecting"]
    BY <2>1 DEF EndSwitch, Refused, Works
  <2>6. mode = Target(op) /\ (Target(op) = "closed" \/ Ready(op))
    BY <1>1, <2>2, PlacesOf DEF SwitchSound
  <2>7. CASE op = "collected"
    <3>1. mode = "hf" /\ backend \in {"hf", "exited"} BY <2>6, <2>7 DEF Target, Ready
    <3>2. \A q \in Runs : phase'[q] # "collecting" BY <2>5, <2>7
    <3> QED BY <1>1, <2>4, <3>1, <3>2 DEF BackendMatchesPhase
  <2>8. CASE op # "collected"
    <3>1. \A q \in Runs : phase'[q] # "updating" BY <2>5, <2>8
    <3>2. ASSUME NEW q \in Runs, phase'[q] = "collecting"
          PROVE  mode = "vllm" /\ backend \in {"vllm", "exited"}
      <4>1. phase[q] # "finished" BY <2>5, <3>2
      <4>2. Target(op) = "vllm" BY <2>8, <4>1 DEF Target
      <4> QED BY <2>6, <4>2 DEF Ready
    <3> QED BY <1>1, <2>4, <3>1, <3>2 DEF BackendMatchesPhase
  <2> QED BY <2>7, <2>8
<1>8. CASE Works' BY <1>6, <1>7, <1>8 DEF IInv
<1>9. CASE ~Works' BY <1>6, <1>9, AbortedHolds
<1> QED BY <1>8, <1>9

-----------------------------------------------------------------------------
(* The theorems *)

LEMMA ServeKeeps == ASSUME IInv, NEW r \in Runs, Serve(r) PROVE IInv'
BY CheckKeeps, SubmitKeeps, RaiseKeeps, ArriveKeeps, PassKeeps, BeginSwitchKeeps,
   StopBackendKeeps, ClearModeKeeps, StartKeeps, LoadKeeps, EndLoadKeeps, EndSwitchKeeps,
   ReadStatusKeeps, FinishStatusKeeps, ExecuteKeeps, CompleteKeeps DEF Serve, Switch

LEMMA StepInvariant == ASSUME IInv, [Next]_vars PROVE IInv'
<1>1. CASE UNCHANGED vars
  BY <1>1, StillKeeps DEF vars, cohort, service, Onward, IInv, Typed
<1>2. ASSUME NEW r \in Runs, Answered(r) PROVE IInv'
  BY <1>2, FailKeeps, ReceiveKeeps DEF Answered
<1>3. CASE Next
  BY <1>2, <1>3, ServeKeeps, RunKeeps, StopRunKeeps, ResumeKeeps, TimeOutKeeps, PassKeeps,
     BackendExitKeeps, CloseKeeps DEF Next
<1> QED BY <1>1, <1>3

\* As long as the cohort is not aborted the backend is the one that every member needs,
\* though the switch runs without the lock (teacher_schedule.py:89, 113-128):
\* BackendMatchesPhase.
THEOREM BackendFits == Spec => []BackendMatchesPhase
<1>1. IInv /\ [Next]_vars => IInv' BY StepInvariant
<1>2. IInv => BackendMatchesPhase BY DEF IInv
<1> QED BY InitEstablishes, <1>1, <1>2, PTL DEF Spec

LEMMA ServeFrozen == ASSUME NEW r \in Runs, Serve(r), error PROVE error' /\ UNCHANGED <<phase, round>>
BY DEF Serve, Check, Submit, Raise, Arrive, Pass, Switch, BeginSwitch, StopBackend, ClearMode,
       Start, Load, EndLoad, EndSwitch, Refused, SwitchFails, ReadStatus, FinishStatus, Execute,
       Complete, cohort

\* After an abort nobody changes phase any more, not even the member whose switch was
\* under way (teacher_schedule.py:118-128), and the abort is final: FailClosed.
THEOREM AbortIsFinal == Spec => FailClosed
<1>1. ASSUME Next PROVE Frozen
  <2>1. SUFFICES ASSUME error PROVE error' /\ UNCHANGED <<phase, round>> BY DEF Frozen
  <2>2. ASSUME NEW r \in Runs, Answered(r) \/ Sample(r) \/ Collected(r) \/ Score(r) \/ Updated(r)
        PROVE  error' /\ UNCHANGED <<phase, round>>
    BY <2>1, <2>2 DEF Answered, Fail, Aborted, Receive, Sample, Collected, Score, Updated, Send,
                      cohort
  <2>3. ASSUME NEW r \in Runs, StopRun(r) \/ Resume(r) \/ \E s \in Slots : TimeOut(r, s)
        PROVE  error' /\ UNCHANGED <<phase, round>>
    BY <2>1, <2>3 DEF StopRun, Resume, TimeOut, cohort
  <2>4. ASSUME NEW r \in Runs, NEW s \in Slots, BarrierTimeOut(r, s)
        PROVE  error' /\ UNCHANGED <<phase, round>>
    BY <2>4 DEF BarrierTimeOut
  <2>5. CASE BackendExit \/ Close BY <2>1, <2>5 DEF BackendExit, Close, cohort
  <2> QED BY <1>1, <2>1, <2>2, <2>3, <2>4, <2>5, ServeFrozen DEF Next
<1>2. [Next]_vars => [Frozen]_vars BY <1>1
<1> QED BY <1>2, PTL DEF Spec, FailClosed

-----------------------------------------------------------------------------
(* A switch disturbs nobody: the switch, aborted or not *)

\* Every member waits or is finished while there is a switch, and stays so after an abort.
AllWait ==
  \A r \in Runs, s \in Slots : handler[r][s].at \in Switching =>
    \A q \in Runs : phase[q] \in {Waiting(handler[r][s].op), "finished"}

\* Between the stop of a backend and the start of the next there is none.
Emptied ==
  closer = "open" =>
    \A r \in Runs, s \in Slots : handler[r][s].at \in {"clear", "load"} => backend = "none"

SwitchInv == OneSwitch /\ AllWait /\ Emptied

LEMMA InitSwitchInv == Init => SwitchInv
<1> SUFFICES ASSUME Init PROVE SwitchInv OBVIOUS
<1>1. \A r \in Runs, s \in Slots : handler[r][s].at = "none" BY DEF Init, NoHandler
<1>2. "none" \notin Switching BY PlacesOf
<1> QED BY <1>1, <1>2 DEF SwitchInv, OneSwitch, AllWait, Emptied

\* Whoever is in the switch was in it.
LEMMA FewerSwitch ==
  ASSUME OneSwitch, AllWait, UNCHANGED phase,
         \A q \in Runs, t \in Slots : handler'[q][t].at \in Switching =>
           handler[q][t].at \in Switching /\ handler'[q][t].op = handler[q][t].op
  PROVE  OneSwitch' /\ AllWait'
BY DEF OneSwitch, AllWait

\* Handlers move outside the switch and the backend stays, or exits.
LEMMA AsideSwitch ==
  ASSUME SwitchInv, UNCHANGED phase, closer' = "open" => closer = "open",
         backend' = backend \/ closer' # "open",
         \A q \in Runs, t \in Slots : OutsideSwitch(q, t)
  PROVE  SwitchInv'
<1>1. \A q \in Runs, t \in Slots : handler'[q][t].at \in Switching =>
        handler[q][t].at \in Switching /\ handler'[q][t].op = handler[q][t].op
  BY DEF OutsideSwitch
<1>2. OneSwitch' /\ AllWait' BY <1>1, FewerSwitch DEF SwitchInv
<1>3. {"clear", "load"} \subseteq Switching BY PlacesOf
<1>4. \A q \in Runs, t \in Slots : handler'[q][t].at \in {"clear", "load"} =>
        handler[q][t].at \in {"clear", "load"}
  BY <1>3 DEF OutsideSwitch
<1> QED BY <1>2, <1>4 DEF SwitchInv, Emptied

LEMMA PutIsAside ==
  ASSUME Typed, NEW r \in Runs, NEW s \in Slots, NEW at \in Places, Put(r, s, at),
         \/ at = handler[r][s].at
         \/ at \notin Switching /\ handler[r][s].at \notin Switching
  PROVE  \A q \in Runs, t \in Slots : OutsideSwitch(q, t)
BY PutIs DEF OutsideSwitch

\* What the handlers do outside the switch.
LEMMA HandlerSwitchInv ==
  ASSUME IInv, SwitchInv, NEW r \in Runs, NEW s \in Slots,
         \/ Check(r, s) \/ Submit(r, s) \/ TimeOut(r, s) \/ Raise(r, s) \/ Pass(r, s)
         \/ BarrierTimeOut(r, s) \/ ReadStatus(r, s) \/ FinishStatus(r, s)
  PROVE  SwitchInv'
<1>0. Typed BY DEF IInv
<1>1. PICK at \in {"checked", "waiting", "raised", "error", "ok", "status vllm", "status hf"} :
        Put(r, s, at)
  BY DEF Check, Submit, TimeOut, Raise, Pass, BarrierTimeOut, ReadStatus, FinishStatus
<1>2. handler[r][s].at \in {"new", "checked", "waiting", "raised", "barrier", "status vllm",
                            "status hf"}
  BY DEF Check, Submit, TimeOut, Raise, Pass, BarrierTimeOut, ReadStatus, FinishStatus
<1>3. at \in Places /\ at \notin Switching /\ handler[r][s].at \notin Switching
  BY <1>2, PlacesOf
<1>4. \A q \in Runs, t \in Slots : OutsideSwitch(q, t) BY <1>0, <1>1, <1>3, PutIsAside
<1>5. UNCHANGED <<phase, closer, backend>>
  BY DEF Check, Submit, TimeOut, Raise, Pass, BarrierTimeOut, ReadStatus, FinishStatus,
         cohort, service
<1> QED BY <1>4, <1>5, AsideSwitch

\* The scheduler does not touch a handler in the switch.
LEMMA SchedulerSwitchInv ==
  ASSUME IInv, SwitchInv, NEW w \in work, Execute(w) \/ Complete(w)
  PROVE  SwitchInv'
<1>0. Typed BY DEF IInv
<1>1. UNCHANGED <<phase, closer, backend>> BY DEF Execute, Complete, cohort, service
<1>2. CASE handler' = handler BY <1>1, <1>2, AsideSwitch DEF OutsideSwitch
<1>3. ASSUME NEW outcome \in {"ok", "raised"}, Settle(w, outcome) PROVE SwitchInv'
  <2>1. w[1] \in Runs /\ w[2] \in Slots BY <1>0 DEF Typed, Requests
  <2> DEFINE r == w[1]
             s == w[2]
             at == IF handler[r][s].at = "waiting" THEN outcome ELSE handler[r][s].at
  <2>2. handler[r][s] \in Handlers BY <1>0, <2>1 DEF Typed
  <2>3. at \in Places BY <2>2, PlacesOf DEF Handlers
  <2>4. Put(r, s, at) BY <1>3 DEF Settle, Put
  <2>5. \/ at = handler[r][s].at
        \/ at \notin Switching /\ handler[r][s].at \notin Switching
    BY PlacesOf
  <2> HIDE DEF at
  <2>6. \A q \in Runs, t \in Slots : OutsideSwitch(q, t)
    BY <1>0, <2>1, <2>3, <2>4, <2>5, PutIsAside
  <2> QED BY <1>1, <2>6, AsideSwitch
<1> QED BY <1>2, <1>3 DEF Execute, Complete

\* A member that arrives last finds no switch under way: it would not have been there.
LEMMA ArriveSwitchInv ==
  ASSUME IInv, SwitchInv, NEW r \in Runs, NEW s \in Slots, Arrive(r, s)
  PROVE  SwitchInv'
<1> DEFINE op == handler[r][s].op
<1>0. Typed /\ UNCHANGED <<closer, backend>> BY DEF IInv, Arrive, service
<1>1. handler[r][s].at = "new" /\ handler[r][s] \in Handlers BY <1>0 DEF Arrive, Typed
<1>2. CASE error \/ phase[r] # Expected(op)
  <2>1. Put(r, s, "error") /\ UNCHANGED phase BY <1>2 DEF Arrive
  <2>2. \A q \in Runs, t \in Slots : OutsideSwitch(q, t)
    BY <1>0, <1>1, <2>1, PlacesOf, PutIsAside
  <2> QED BY <1>0, <2>1, <2>2, AsideSwitch
<1>3. CASE ~(error \/ phase[r] # Expected(op))
  <2> DEFINE at == IF AllThere(phase', op) THEN "switch" ELSE "barrier"
             h == [handler[r][s] EXCEPT !.at = at, !.before = round]
  <2>1. handler' = [handler EXCEPT ![r][s].at = at, ![r][s].before = round]
    BY <1>3 DEF Arrive
  <2>2. at \in {"switch", "barrier"} /\ (at = "switch" => AllThere(phase', op)) OBVIOUS
  <2> HIDE DEF at
  <2>3. h \in Handlers /\ h.at = at /\ h.op = op
    <3>1. at \in Places /\ round \in Nat BY <1>0, <2>2, PlacesOf DEF Typed
    <3> QED BY <1>1, <3>1 DEF Handlers
  <2>4. Becomes(r, s, h) BY <1>0, <2>1 DEF Becomes, Typed
  <2> HIDE DEF h
  <2>5. /\ handler'[r][s].at = at /\ handler'[r][s].op = op
        /\ \A q \in Runs, t \in Slots : q # r \/ t # s => handler'[q][t] = handler[q][t]
    BY <1>0, <2>3, <2>4, Others
  <2>6. phase[r] \in {"collecting", "updating"} BY <1>3 DEF Expected
  <2>7. ASSUME NEW q \in Runs, NEW t \in Slots PROVE handler[q][t].at \notin Switching
    BY <2>6 DEF SwitchInv, AllWait, Waiting
  <2>8. \A q \in Runs, t \in Slots : handler'[q][t].at \in Switching => q = r /\ t = s
    BY <2>5, <2>7
  <2>9. handler'[r][s].at \in Switching => AllThere(phase', op) BY <2>2, <2>5, PlacesOf
  <2>10. OneSwitch' BY <2>8 DEF OneSwitch
  <2>11. AllWait' BY <2>5, <2>8, <2>9 DEF AllWait, AllThere
  <2>12. \A q \in Runs, t \in Slots : handler'[q][t].at \notin {"clear", "load"}
    BY <2>2, <2>5, <2>8, PlacesOf
  <2> QED BY <2>10, <2>11, <2>12 DEF SwitchInv, Emptied
<1> QED BY <1>2, <1>3

\* The steps of a switch.
LEMMA SwitchSwitchInv ==
  ASSUME IInv, SwitchInv, NEW r \in Runs, NEW s \in Slots, Switch(r, s)
  PROVE  SwitchInv'
<1>0. Typed BY DEF IInv
<1>1. handler[r][s].at \in Switching BY PlacesOf DEF Switch, BeginSwitch, StopBackend,
        ClearMode, Start, Load, EndLoad, EndSwitch
<1>2. PICK at \in Switching \cup {"ok", "error"} : Put(r, s, at)
  BY PlacesOf DEF Switch, BeginSwitch, StopBackend, ClearMode, Start, Load, EndLoad, EndSwitch,
     SwitchFails
<1>3. /\ handler'[r][s].at = at /\ handler'[r][s].op = handler[r][s].op
      /\ \A q \in Runs, t \in Slots : q # r \/ t # s => handler'[q][t] = handler[q][t]
  <2>1. at \in Places BY PlacesOf
  <2> QED BY <1>0, <1>2, <2>1, PutIs
<1>4. \A q \in Runs, t \in Slots : q # r \/ t # s => handler'[q][t].at \notin Switching
  BY <1>1, <1>3 DEF SwitchInv, OneSwitch
<1>5. OneSwitch' /\ AllWait'
  <2>1. CASE EndSwitch(r, s)
    <3>1. Put(r, s, "ok") \/ Put(r, s, "error") BY <2>1 DEF EndSwitch
    <3>2. handler'[r][s].at \in {"ok", "error"}
      <4>1. "ok" \in Places /\ "error" \in Places BY PlacesOf
      <4> QED BY <1>0, <3>1, <4>1, PutIs
    <3>3. \A q \in Runs, t \in Slots : handler'[q][t].at \notin Switching
      BY <1>4, <3>2, PlacesOf
    <3> QED BY <3>3 DEF OneSwitch, AllWait
  <2>2. CASE ~EndSwitch(r, s)
    <3>1. UNCHANGED phase
      BY <2>2 DEF Switch, BeginSwitch, StopBackend, ClearMode, Start, Load, EndLoad, cohort
    <3>2. \A q \in Runs, t \in Slots : handler'[q][t].at \in Switching =>
            handler[q][t].at \in Switching /\ handler'[q][t].op = handler[q][t].op
      BY <1>1, <1>3
    <3> QED BY <3>1, <3>2, FewerSwitch DEF SwitchInv
  <2> QED BY <2>1, <2>2
<1>6. Emptied'
  <2>1. closer' = closer
    BY DEF Switch, BeginSwitch, StopBackend, ClearMode, Start, Load, EndLoad, EndSwitch, service
  <2>2. SUFFICES ASSUME closer = "open", handler'[r][s].at \in {"clear", "load"}
                 PROVE  backend' = "none"
    BY <1>4, <2>1, PlacesOf DEF Emptied
  <2>3. CASE StopBackend(r, s) BY <2>3 DEF StopBackend
  <2>4. CASE ClearMode(r, s)
    <3>1. backend = "none" BY <2>2, <2>4 DEF ClearMode, SwitchInv, Emptied
    <3> QED BY <2>4, <3>1 DEF ClearMode
  <2>5. CASE ~StopBackend(r, s) /\ ~ClearMode(r, s)
    <3>1. PICK to \in {"stop", "loading", "loaded", "switched", "ok", "error"} : Put(r, s, to)
      BY <2>5 DEF Switch, BeginSwitch, Start, Load, EndLoad, EndSwitch, SwitchFails
    <3>2. to \in Places BY PlacesOf
    <3>3. handler'[r][s].at = to BY <1>0, <3>1, <3>2, PutIs
    <3> QED BY <2>2, <3>3
  <2> QED BY <2>3, <2>4, <2>5
<1> QED BY <1>5, <1>6 DEF SwitchInv

\* The runs do not touch a handler in the switch, but for leaving it behind.
LEMMA RunSwitchInv ==
  ASSUME IInv, SwitchInv, NEW r \in Runs,
         \/ Sample(r) \/ Collected(r) \/ Score(r) \/ Updated(r) \/ StopRun(r) \/ Resume(r)
         \/ Answered(r)
  PROVE  SwitchInv'
<1>0. Typed BY DEF IInv
<1>1. UNCHANGED <<phase, closer, backend>>
  BY DEF Sample, Collected, Score, Updated, Send, StopRun, Resume, Answered, Fail, Receive,
         cohort, service
<1>2. CASE handler' = handler BY <1>1, <1>2, AsideSwitch DEF OutsideSwitch
<1>3. ASSUME NEW op, Send(r, op) PROVE SwitchInv'
  <2>1. PICK s \in Slots :
          /\ handler[r][s] = NoHandler
          /\ handler' = [handler EXCEPT ![r][s] =
                           [NoHandler EXCEPT !.at = "new", !.op = op, !.live = TRUE]]
    BY <1>3 DEF Send
  <2>2. /\ handler'[r][s] = [NoHandler EXCEPT !.at = "new", !.op = op, !.live = TRUE]
        /\ \A q \in Runs, t \in Slots : q # r \/ t # s => handler'[q][t] = handler[q][t]
    BY <1>0, <2>1 DEF Typed
  <2>3. handler'[r][s].at = "new" /\ handler[r][s].at = "none"
    <3>1. [NoHandler EXCEPT !.at = "new", !.op = op, !.live = TRUE].at = "new"
          /\ NoHandler.at = "none"
      BY DEF NoHandler
    <3> QED BY <2>1, <2>2, <3>1
  <2>4. \A q \in Runs, t \in Slots : OutsideSwitch(q, t)
    BY <2>2, <2>3, PlacesOf DEF OutsideSwitch
  <2> QED BY <1>1, <2>4, AsideSwitch
<1>4. ASSUME NEW hs \in [Slots -> Handlers], handler' = [handler EXCEPT ![r] = hs],
             \A s \in Slots :
               \/ hs[s].at = handler[r][s].at /\ hs[s].op = handler[r][s].op
               \/ handler[r][s].at \notin Switching /\ hs[s].at \notin Switching
      PROVE  SwitchInv'
  <2>1. handler'[r] = hs /\ \A q \in Runs : q # r => handler'[q] = handler[q]
    BY <1>0, <1>4 DEF Typed
  <2>2. \A q \in Runs, t \in Slots : OutsideSwitch(q, t) BY <1>4, <2>1 DEF OutsideSwitch
  <2> QED BY <1>1, <2>2, AsideSwitch
<1>5. CASE StopRun(r)
  <2>1. handler' = [handler EXCEPT ![r] = Abandoned(r)] BY <1>5 DEF StopRun
  <2> QED BY <1>0, <1>4, <2>1, AbandonedHas
<1>6. ASSUME NEW s \in Slots, Receive(r, s) PROVE SwitchInv'
  <2>1. handler[r][s].at \notin Switching BY <1>6, PlacesOf DEF Receive
  <2>2. PICK hs \in [Slots -> Handlers] :
          /\ handler' = [handler EXCEPT ![r] = hs]
          /\ hs[s] = NoHandler
          /\ \A t \in Slots : t # s => hs[t].at = handler[r][t].at /\ hs[t].op = handler[r][t].op
    <3>1. handler[r] \in [Slots -> Handlers] BY <1>0 DEF Typed
    <3>2. CASE handler' = [handler EXCEPT ![r] = [Abandoned(r) EXCEPT ![s] = NoHandler]]
      <4> DEFINE f == [Abandoned(r) EXCEPT ![s] = NoHandler]
      <4>1. f \in [Slots -> Handlers] BY <1>0, AbandonedHas, NobodyIs
      <4>2. f[s] = NoHandler /\ \A t \in Slots : t # s => f[t] = Abandoned(r)[t]
        BY <1>0, AbandonedHas
      <4>3. handler' = [handler EXCEPT ![r] = f] BY <3>2
      <4> HIDE DEF f
      <4>4. \A t \in Slots : t # s => f[t].at = handler[r][t].at /\ f[t].op = handler[r][t].op
        BY <1>0, <4>2, AbandonedHas
      <4> QED BY <4>1, <4>2, <4>3, <4>4
    <3>3. CASE handler' = [handler EXCEPT ![r][s] = NoHandler]
      <4> DEFINE f == [handler[r] EXCEPT ![s] = NoHandler]
      <4>1. f \in [Slots -> Handlers] BY <3>1, NobodyIs
      <4>2. f[s] = NoHandler /\ \A t \in Slots : t # s => f[t] = handler[r][t] BY <3>1
      <4>3. handler' = [handler EXCEPT ![r] = f] BY <3>3
      <4> HIDE DEF f
      <4> QED BY <4>1, <4>2, <4>3
    <3> QED BY <1>6, <3>2, <3>3 DEF Receive
  <2>3. ASSUME NEW t \in Slots
        PROVE  \/ hs[t].at = handler[r][t].at /\ hs[t].op = handler[r][t].op
               \/ handler[r][t].at \notin Switching /\ hs[t].at \notin Switching
    BY <2>1, <2>2, NobodyIs
  <2> QED BY <1>4, <2>2, <2>3
<1>7. CASE Fail(r) \/ Resume(r) BY <1>2, <1>7 DEF Fail, Resume
<1>8. CASE Sample(r) \/ Collected(r) \/ Score(r) \/ Updated(r)
  <2>1. PICK op : Send(r, op) BY <1>8 DEF Sample, Collected, Score, Updated
  <2> QED BY <1>3, <2>1
<1> QED BY <1>5, <1>6, <1>7, <1>8 DEF Answered

LEMMA StepSwitchInv == ASSUME IInv, SwitchInv, [Next]_vars PROVE SwitchInv'
<1>1. CASE UNCHANGED vars
  BY <1>1, AsideSwitch DEF vars, cohort, service, OutsideSwitch
<1>2. ASSUME NEW r \in Runs, Serve(r) PROVE SwitchInv'
  BY <1>2, HandlerSwitchInv, ArriveSwitchInv, SwitchSwitchInv, SchedulerSwitchInv DEF Serve
<1>3. ASSUME NEW r \in Runs, NEW s \in Slots, TimeOut(r, s) \/ BarrierTimeOut(r, s)
      PROVE  SwitchInv'
  BY <1>3, HandlerSwitchInv
<1>4. CASE BackendExit
  <2>1. UNCHANGED <<phase, handler, closer>> /\ backend \in {"vllm", "hf"}
    BY <1>4 DEF BackendExit, cohort
  <2>2. OneSwitch' /\ AllWait' BY <2>1 DEF SwitchInv, OneSwitch, AllWait
  <2>3. Emptied' BY <2>1 DEF SwitchInv, Emptied
  <2> QED BY <2>2, <2>3 DEF SwitchInv
<1>5. CASE Close
  <2>1. UNCHANGED <<phase, handler>> /\ closer' # "open" BY <1>5 DEF Close
  <2>2. OneSwitch' /\ AllWait' BY <2>1 DEF SwitchInv, OneSwitch, AllWait
  <2> QED BY <2>1, <2>2 DEF SwitchInv, Emptied
<1> QED BY <1>1, <1>2, <1>3, <1>4, <1>5, RunSwitchInv DEF Next

-----------------------------------------------------------------------------
(* A switch disturbs nobody: the runs *)

Clients ==
  /\ client \in [Runs -> {"starting", "collecting", "collected", "updating", "updated", "done",
                          "failing"} \cup Ended]
  /\ starts \in [Runs -> Nat \ {0}]

Gone == {"failing", "failed", "dead"}

OpsOf(at) ==
  CASE at = "starting" -> {"status"}
    [] at = "collecting" -> {"collect"}
    [] at = "updating" -> {"opd", "status"}
    [] at = "finished" -> {}
    [] OTHER -> {at}

\* The requests of a run are those that its place in the loop makes, one at a time except
\* for sampling; nobody waits for the answer to one that a run has left behind.
OwnRequests(r) ==
  /\ \A s \in Slots : handler[r][s] # NoHandler =>
       IF client[r] \in Gone THEN ~handler[r][s].live
       ELSE handler[r][s].live /\ handler[r][s].op \in OpsOf(client[r])
  /\ client[r] \notin Gone \cup {"collecting"} =>
       \A s, t \in Slots : handler[r][s] # NoHandler /\ handler[r][t] # NoHandler => s = t

\* A request that was let in finds its run in the phase that it needs until it is answered.
InPhase(r) ==
  \A s \in Slots :
    handler[r][s].live /\ handler[r][s].at \in {"checked", "waiting"} =>
      phase[r] = Expected(handler[r][s].op)

Follows(r) == starts[r] = 1 => OwnRequests(r) /\ InPhase(r)

RunInv == Clients /\ \A r \in Runs : Follows(r)

LEMMA InitRunInv == Init => RunInv
<1> SUFFICES ASSUME Init PROVE RunInv OBVIOUS
<1>1. Clients BY DEF Init, Clients
<1>2. ASSUME NEW r \in Runs, NEW s \in Slots PROVE handler[r][s] = NoHandler BY DEF Init
<1>3. ~NoHandler.live BY DEF NoHandler
<1>4. \A r \in Runs : client[r] = "collecting" BY DEF Init
<1> QED BY <1>1, <1>2, <1>3, <1>4 DEF RunInv, Follows, OwnRequests, InPhase

\* A step of one run leaves the others where they are.
LEMMA OneFollows ==
  ASSUME RunInv, NEW r \in Runs, Clients',
         \A q \in Runs : q # r => /\ client'[q] = client[q] /\ starts'[q] = starts[q]
                                /\ handler'[q] = handler[q] /\ phase'[q] = phase[q],
         Follows(r)'
  PROVE  RunInv'
<1>1. ASSUME NEW q \in Runs PROVE Follows(q)'
  <2>1. CASE q # r
    <3>1. /\ client'[q] = client[q] /\ starts'[q] = starts[q]
          /\ handler'[q] = handler[q] /\ phase'[q] = phase[q] /\ Follows(q)
      BY <2>1 DEF RunInv
    <3> QED BY <3>1 DEF Follows, OwnRequests, InPhase
  <2> QED BY <2>1
<1> QED BY <1>1 DEF RunInv

LEMMA StillRunInv ==
  ASSUME RunInv, UNCHANGED <<phase, handler, client, starts>>
  PROVE  RunInv'
BY DEF RunInv, Clients, Follows, OwnRequests, InPhase

\* What a change of the place leaves of a handler.
LEMMA PutLeaves ==
  ASSUME Typed, NEW r \in Runs, NEW s \in Slots, NEW at, Put(r, s, at)
  PROVE  /\ handler'[r][s].at = at /\ handler'[r][s].op = handler[r][s].op
         /\ handler'[r][s].live = handler[r][s].live
         /\ \A t \in Slots : t # s => handler'[r][t] = handler[r][t]
         /\ \A q \in Runs : q # r => handler'[q] = handler[q]
<1>1. /\ handler \in [Runs -> [Slots -> Handlers]] /\ handler[r] \in [Slots -> Handlers]
      /\ handler[r][s] \in Handlers
  BY DEF Typed
<1>2. /\ handler'[r] = [handler[r] EXCEPT ![s] = [handler[r][s] EXCEPT !.at = at]]
      /\ \A q \in Runs : q # r => handler'[q] = handler[q]
  BY <1>1 DEF Put
<1>3. /\ handler'[r][s] = [handler[r][s] EXCEPT !.at = at]
      /\ \A t \in Slots : t # s => handler'[r][t] = handler[r][t]
  BY <1>1, <1>2
<1>4. /\ handler'[r][s].at = at /\ handler'[r][s].op = handler[r][s].op
      /\ handler'[r][s].live = handler[r][s].live
  BY <1>1, <1>3 DEF Handlers
<1> QED BY <1>2, <1>3, <1>4

\* A handler moves on: only one whose run is in the right phase is let in.
LEMMA PutRunInv ==
  ASSUME IInv, RunInv, NEW r \in Runs, NEW s \in Slots, NEW at, Put(r, s, at),
         UNCHANGED <<client, starts>>, handler[r][s].at # "none",
         at \in {"checked", "waiting"} =>
           handler[r][s].at \in {"checked", "waiting"} \/ phase[r] = Expected(handler[r][s].op),
         UNCHANGED phase
  PROVE  RunInv'
<1>0. Typed BY DEF IInv
<1>1. /\ handler'[r][s].at = at /\ handler'[r][s].op = handler[r][s].op
      /\ handler'[r][s].live = handler[r][s].live
      /\ \A t \in Slots : t # s => handler'[r][t] = handler[r][t]
      /\ \A q \in Runs : q # r => handler'[q] = handler[q]
  BY <1>0, PutLeaves
<1>2. handler[r][s] # NoHandler BY DEF NoHandler
<1>3. ASSUME OwnRequests(r), InPhase(r) PROVE OwnRequests(r)' /\ InPhase(r)'
  <2>1. OwnRequests(r)'
    <3>1. ASSUME NEW t \in Slots, handler'[r][t] # NoHandler
          PROVE  /\ handler[r][t] # NoHandler /\ handler'[r][t].op = handler[r][t].op
                 /\ handler'[r][t].live = handler[r][t].live
      BY <1>1, <1>2, <3>1
    <3> QED BY <1>3, <3>1 DEF OwnRequests
  <2>2. ASSUME NEW t \in Slots, handler'[r][t].live, handler'[r][t].at \in {"checked", "waiting"}
        PROVE  phase[r] = Expected(handler'[r][t].op)
    <3>1. CASE t = s BY <1>1, <1>3, <2>2, <3>1 DEF InPhase
    <3>2. CASE t # s BY <1>1, <1>3, <2>2, <3>2 DEF InPhase
    <3> QED BY <3>1, <3>2
  <2> QED BY <2>1, <2>2 DEF InPhase
<1>4. Follows(r)' BY <1>3 DEF RunInv, Follows
<1> QED BY <1>1, <1>4, OneFollows DEF RunInv, Clients

LEMMA HandlerRunInv ==
  ASSUME IInv, RunInv, NEW r \in Runs, NEW s \in Slots,
         \/ Check(r, s) \/ Submit(r, s) \/ TimeOut(r, s) \/ Raise(r, s) \/ Pass(r, s)
         \/ BarrierTimeOut(r, s) \/ ReadStatus(r, s) \/ FinishStatus(r, s)
         \/ BeginSwitch(r, s) \/ StopBackend(r, s) \/ ClearMode(r, s) \/ Start(r, s)
         \/ Load(r, s) \/ EndLoad(r, s)
  PROVE  RunInv'
<1>1. UNCHANGED <<phase, client, starts>>
  BY DEF Check, Submit, TimeOut, Raise, Pass, BarrierTimeOut, ReadStatus, FinishStatus,
     BeginSwitch, StopBackend, ClearMode, Start, Load, EndLoad, cohort, runs
<1>2. handler[r][s].at # "none"
  BY DEF Check, Submit, TimeOut, Raise, Pass, BarrierTimeOut, ReadStatus, FinishStatus,
     BeginSwitch, StopBackend, ClearMode, Start, Load, EndLoad
<1>3. PICK at :
        /\ Put(r, s, at)
        /\ at \in {"checked", "waiting"} =>
             handler[r][s].at \in {"checked", "waiting"} \/ phase[r] = Expected(handler[r][s].op)
  <2>1. CASE Check(r, s) BY <2>1 DEF Check
  <2>2. CASE Submit(r, s) BY <2>2 DEF Submit
  <2>3. CASE ~Check(r, s) /\ ~Submit(r, s)
    <3>1. PICK at \in {"raised", "error", "ok", "status vllm", "status hf"} \cup Switching :
            Put(r, s, at)
      BY <2>3, PlacesOf DEF TimeOut, Raise, Pass, BarrierTimeOut, ReadStatus, FinishStatus,
         BeginSwitch, StopBackend, ClearMode, Start, Load, EndLoad, SwitchFails
    <3> QED BY <3>1, PlacesOf
  <2> QED BY <2>1, <2>2, <2>3
<1> QED BY <1>1, <1>2, <1>3, PutRunInv

LEMMA SchedulerRunInv ==
  ASSUME IInv, RunInv, NEW w \in work, Execute(w) \/ Complete(w)
  PROVE  RunInv'
<1>0. Typed BY DEF IInv
<1>1. UNCHANGED <<phase, client, starts>> BY DEF Execute, Complete, cohort, runs
<1>2. CASE handler' = handler BY <1>1, <1>2, StillRunInv
<1>3. ASSUME NEW outcome \in {"ok", "raised"}, Settle(w, outcome) PROVE RunInv'
  <2>1. w[1] \in Runs /\ w[2] \in Slots BY <1>0 DEF Typed, Requests
  <2> DEFINE r == w[1]
             s == w[2]
  <2>2. CASE handler[r][s].at = "waiting"
    <3>1. Put(r, s, outcome) BY <1>3, <2>2 DEF Settle, Put
    <3> QED BY <1>1, <2>1, <2>2, <3>1, PutRunInv
  <2>3. CASE handler[r][s].at # "waiting"
    <3>1. /\ handler \in [Runs -> [Slots -> Handlers]] /\ handler[r] \in [Slots -> Handlers]
          /\ handler[r][s] \in Handlers
      BY <1>0, <2>1 DEF Typed
    <3>2. [handler[r][s] EXCEPT !.at = handler[r][s].at] = handler[r][s]
      BY <3>1 DEF Handlers
    <3>3. handler' = [handler EXCEPT ![r] =
                        [handler[r] EXCEPT ![s] = [handler[r][s] EXCEPT !.at = handler[r][s].at]]]
      BY <1>3, <2>3 DEF Settle
    <3>4. [handler[r] EXCEPT ![s] = handler[r][s]] = handler[r] BY <3>1
    <3>5. handler' = [handler EXCEPT ![r] = handler[r]] BY <3>2, <3>3, <3>4
    <3>6. handler' = handler BY <3>1, <3>5
    <3> QED BY <1>2, <3>6
  <2> QED BY <2>2, <2>3
<1> QED BY <1>2, <1>3 DEF Execute, Complete

\* A run that reports a phase has no other request under way.
LEMMA ArriveRunInv ==
  ASSUME IInv, RunInv, NEW r \in Runs, NEW s \in Slots, Arrive(r, s)
  PROVE  RunInv'
<1> DEFINE op == handler[r][s].op
<1>0. Typed /\ UNCHANGED <<client, starts>> BY DEF IInv, Arrive, runs
<1>1. /\ handler[r][s].at = "new" /\ op \in PhaseOps /\ handler[r][s] # NoHandler
      /\ handler[r][s] \in Handlers /\ handler[r] \in [Slots -> Handlers]
  BY <1>0 DEF Arrive, NoHandler, Typed
<1>2. CASE error \/ phase[r] # Expected(op)
  <2>1. Put(r, s, "error") /\ UNCHANGED phase BY <1>2 DEF Arrive
  <2> QED BY <1>0, <1>1, <2>1, PutRunInv
<1>3. CASE ~(error \/ phase[r] # Expected(op))
  <2> DEFINE at == IF AllThere(phase', op) THEN "switch" ELSE "barrier"
             h == [handler[r][s] EXCEPT !.at = at, !.before = round]
  <2>1. handler' = [handler EXCEPT ![r] = [handler[r] EXCEPT ![s] = h]]
    <3>1. handler' = [handler EXCEPT ![r][s].at = at, ![r][s].before = round]
      BY <1>3 DEF Arrive
    <3> QED BY <1>0, <3>1 DEF Typed
  <2>2. at \in {"switch", "barrier"} OBVIOUS
  <2> HIDE DEF at
  <2>3. h.at = at /\ h.op = op /\ h.live = handler[r][s].live BY <1>1 DEF Handlers
  <2> HIDE DEF h
  <2>4. /\ handler'[r] = [handler[r] EXCEPT ![s] = h]
        /\ \A q \in Runs : q # r => handler'[q] = handler[q]
    BY <1>0, <2>1 DEF Typed
  <2>5. handler'[r][s] = h /\ \A t \in Slots : t # s => handler'[r][t] = handler[r][t]
    BY <1>1, <2>4
  <2>6. \A q \in Runs : q # r => phase'[q] = phase[q] BY <1>0, <1>3 DEF Arrive, Typed
  <2>7. ASSUME OwnRequests(r) PROVE OwnRequests(r)' /\ InPhase(r)'
    <3>1. ASSUME NEW t \in Slots, handler'[r][t] # NoHandler
          PROVE  /\ handler[r][t] # NoHandler /\ handler'[r][t].op = handler[r][t].op
                 /\ handler'[r][t].live = handler[r][t].live
      BY <1>1, <2>3, <2>5, <3>1
    <3>2. OwnRequests(r)' BY <1>0, <2>7, <3>1 DEF OwnRequests
    <3>3. ASSUME NEW t \in Slots, handler'[r][t].live,
                 handler'[r][t].at \in {"checked", "waiting"}
          PROVE  FALSE
      <4>1. t # s BY <2>2, <2>3, <2>5, <3>3
      <4>2. ~NoHandler.live BY DEF NoHandler
      <4>3. handler[r][t] # NoHandler /\ handler[r][t].live BY <2>5, <3>3, <4>1, <4>2
      <4>4. client[r] \notin Gone BY <2>7, <4>3 DEF OwnRequests
      <4>5. op \in OpsOf(client[r]) BY <1>1, <2>7, <4>4 DEF OwnRequests
      <4>6. client[r] # "collecting" BY <1>1, <4>5 DEF OpsOf, PhaseOps
      <4> QED BY <1>1, <2>7, <4>1, <4>3, <4>4, <4>6 DEF OwnRequests
    <3> QED BY <3>2, <3>3 DEF InPhase
  <2>8. Follows(r)' BY <1>0, <2>7 DEF RunInv, Follows
  <2> QED BY <1>0, <2>4, <2>6, <2>8, OneFollows DEF RunInv, Clients
<1> QED BY <1>2, <1>3

\* All members wait when the switch ends: no request of theirs is under way.
LEMMA EndSwitchRunInv ==
  ASSUME IInv, SwitchInv, RunInv, NEW r \in Runs, NEW s \in Slots, EndSwitch(r, s)
  PROVE  RunInv'
<1>0. Typed BY DEF IInv
<1>1. /\ handler[r][s].at = "switched" /\ handler[r][s] # NoHandler
      /\ UNCHANGED <<client, starts>>
  BY DEF EndSwitch, runs, NoHandler
<1>2. PICK at \in {"ok", "error"} : Put(r, s, at) BY DEF EndSwitch
<1>3. /\ handler'[r][s].at = at /\ handler'[r][s].op = handler[r][s].op
      /\ handler'[r][s].live = handler[r][s].live
      /\ \A t \in Slots : t # s => handler'[r][t] = handler[r][t]
      /\ \A q \in Runs : q # r => handler'[q] = handler[q]
  BY <1>0, <1>2, PutLeaves
<1>4. \A q \in Runs : phase[q] \in {"collected", "updated", "finished"}
  BY <1>1, PlacesOf DEF SwitchInv, AllWait, Waiting
<1>5. ASSUME NEW q \in Runs, OwnRequests(q), InPhase(q) PROVE OwnRequests(q)' /\ InPhase(q)'
  <2>1. ASSUME NEW t \in Slots
        PROVE  /\ handler'[q][t].op = handler[q][t].op
               /\ handler'[q][t].live = handler[q][t].live
               /\ handler'[q][t] # NoHandler => handler[q][t] # NoHandler
               /\ handler'[q][t].at \in {"checked", "waiting"} =>
                    handler[q][t].at \in {"checked", "waiting"}
    <3>1. CASE q = r /\ t = s BY <1>1, <1>3, <3>1
    <3>2. CASE q = r /\ t # s BY <1>3, <3>2
    <3>3. CASE q # r BY <1>3, <3>3
    <3> QED BY <3>1, <3>2, <3>3
  <2>2. OwnRequests(q)' BY <1>1, <1>5, <2>1 DEF OwnRequests
  <2>3. \A t \in Slots : ~(handler[q][t].live /\ handler[q][t].at \in {"checked", "waiting"})
    BY <1>4, <1>5 DEF InPhase, Expected
  <2>4. InPhase(q)' BY <2>1, <2>3 DEF InPhase
  <2> QED BY <2>2, <2>4
<1>6. Clients' BY <1>1 DEF RunInv, Clients
<1> QED BY <1>1, <1>5, <1>6 DEF RunInv, Follows

\* One more request of the kind that the run's place calls for.
LEMMA SendRunInv ==
  ASSUME IInv, RunInv, NEW r \in Runs, NEW c, NEW op \in OpsOf(c), Send(r, op),
         client' = [client EXCEPT ![r] = c], c \notin Gone, client[r] \notin Gone, Clients',
         \/ c = "collecting" /\ client[r] = "collecting"
         \/ Live(r) = {}
  PROVE  RunInv'
<1>0. Typed BY DEF IInv
<1> DEFINE h == [NoHandler EXCEPT !.at = "new", !.op = op, !.live = TRUE]
<1>1. PICK s \in Slots :
        handler[r][s] = NoHandler /\ handler' = [handler EXCEPT ![r][s] = h]
  BY DEF Send
<1>2. h.at = "new" /\ h.op = op /\ h.live BY DEF NoHandler
<1>3. UNCHANGED <<phase, starts>> BY DEF Send, cohort
<1> HIDE DEF h
<1>4. /\ handler'[r][s] = h
      /\ \A t \in Slots : t # s => handler'[r][t] = handler[r][t]
      /\ \A q \in Runs : q # r => handler'[q] = handler[q]
  BY <1>0, <1>1 DEF Typed
<1>5. client'[r] = c /\ \A q \in Runs : q # r => client'[q] = client[q]
  BY DEF RunInv, Clients
<1>6. ASSUME OwnRequests(r), InPhase(r) PROVE OwnRequests(r)' /\ InPhase(r)'
  <2>1. InPhase(r)'
    <3>1. ASSUME NEW t \in Slots, handler'[r][t].at \in {"checked", "waiting"} PROVE t # s
      BY <1>2, <1>4, <3>1
    <3> QED BY <1>3, <1>4, <1>6, <3>1 DEF InPhase
  <2>2. CASE c = "collecting" /\ client[r] = "collecting"
    <3>1. "collecting" \notin Gone BY DEF Gone
    <3>2. OwnRequests(r)' BY <1>2, <1>4, <1>5, <1>6, <2>2, <3>1 DEF OwnRequests
    <3> QED BY <2>1, <3>2
  <2>3. CASE Live(r) = {}
    <3>1. \A t \in Slots : handler[r][t] = NoHandler BY <1>6, <2>3 DEF Live, OwnRequests
    <3>2. \A t \in Slots : t # s => handler'[r][t] = NoHandler BY <1>4, <3>1
    <3>3. OwnRequests(r)' BY <1>2, <1>4, <1>5, <3>2 DEF OwnRequests
    <3> QED BY <2>1, <3>3
  <2> QED BY <2>2, <2>3
<1>7. Follows(r)' BY <1>3, <1>6 DEF RunInv, Follows
<1> QED BY <1>3, <1>4, <1>5, <1>7, OneFollows

LEMMA SendsRunInv ==
  ASSUME IInv, RunInv, NEW r \in Runs, Sample(r) \/ Collected(r) \/ Score(r) \/ Updated(r)
  PROVE  RunInv'
<1>1. PICK c \in {"starting", "collecting", "collected", "updating", "updated", "done"} :
        /\ \E op \in OpsOf(c) : Send(r, op)
        /\ client' = [client EXCEPT ![r] = c]
        /\ client[r] \notin Gone
        /\ \/ c = "collecting" /\ client[r] = "collecting"
           \/ Live(r) = {}
  <2>1. client = [client EXCEPT ![r] = client[r]] BY DEF RunInv, Clients
  <2>2. /\ "collect" \in OpsOf("collecting") /\ "collected" \in OpsOf("collected")
        /\ "opd" \in OpsOf("updating") /\ "status" \in OpsOf("updating")
        /\ "updated" \in OpsOf("updated") /\ "done" \in OpsOf("done")
        /\ "status" \in OpsOf("starting")
    BY DEF OpsOf
  <2>3. "starting" \notin Gone /\ "collecting" \notin Gone /\ "updating" \notin Gone
    BY DEF Gone
  <2>4. CASE Sample(r)
    <3>1. CASE client[r] = "starting" BY <2>1, <2>2, <2>3, <2>4, <3>1 DEF Sample
    <3>2. CASE client[r] = "collecting" BY <2>1, <2>2, <2>3, <2>4, <3>2 DEF Sample
    <3> QED BY <2>4, <3>1, <3>2 DEF Sample
  <2>5. CASE Collected(r) BY <2>2, <2>3, <2>5 DEF Collected
  <2>6. CASE Score(r) BY <2>1, <2>2, <2>3, <2>6 DEF Score
  <2>7. CASE Updated(r) BY <2>2, <2>3, <2>7 DEF Updated
  <2> QED BY <2>4, <2>5, <2>6, <2>7
<1>2. c \notin Gone BY DEF Gone
<1>3. Clients'
  <2>1. client' \in [Runs -> {"starting", "collecting", "collected", "updating", "updated",
                              "done", "failing"} \cup Ended]
    BY <1>1 DEF RunInv, Clients
  <2>2. starts' = starts BY <1>1 DEF Send
  <2> QED BY <2>1, <2>2 DEF RunInv, Clients
<1> QED BY <1>1, <1>2, <1>3, SendRunInv

\* A run that hears an answer moves on with nothing under way, except while it samples.
LEMMA ReceiveRunInv ==
  ASSUME IInv, RunInv, NEW r \in Runs, NEW s \in Slots, Receive(r, s)
  PROVE  RunInv'
<1>0. Typed BY DEF IInv
<1>1. /\ UNCHANGED <<phase, starts>> /\ handler[r][s].at \in {"ok", "error"}
      /\ handler[r][s] # NoHandler
  BY DEF Receive, cohort, NoHandler
<1>2. \A q \in Runs : q # r => client'[q] = client[q] /\ handler'[q] = handler[q]
  BY <1>0 DEF Receive, RunInv, Clients, Typed
<1>3. /\ client \in [Runs -> {"starting", "collecting", "collected", "updating", "updated",
                              "done", "failing"} \cup Ended]
      /\ handler[r] \in [Slots -> Handlers]
  BY <1>0 DEF RunInv, Clients, Typed
<1>4. Clients'
  <2>1. After(client[r]) \in {"starting", "collecting", "collected", "updating", "updated",
                              "done", "failing"} \cup Ended
    BY <1>3 DEF After, Ended
  <2>2. \/ client' = client
        \/ client' = [client EXCEPT ![r] = After(client[r])]
        \/ client' = [client EXCEPT ![r] = "failing"]
    BY DEF Receive
  <2>3. client' \in [Runs -> {"starting", "collecting", "collected", "updating", "updated",
                              "done", "failing"} \cup Ended]
    BY <1>3, <2>1, <2>2
  <2> QED BY <1>1, <2>3 DEF RunInv, Clients
<1>5. ~NoHandler.live BY DEF NoHandler
<1>6. CASE handler[r][s].live /\ handler[r][s].at = "error"
  <2>1. client'[r] = "failing" BY <1>3, <1>6 DEF Receive
  <2>2. handler'[r] = [Abandoned(r) EXCEPT ![s] = NoHandler] BY <1>0, <1>6 DEF Receive, Typed
  <2>3. \A t \in Slots : ~Abandoned(r)[t].live
    <3>1. ASSUME NEW t \in Slots PROVE ~[handler[r][t] EXCEPT !.live = FALSE].live
      BY <1>3 DEF Handlers
    <3> QED BY <3>1 DEF Abandoned
  <2>4. \A t \in Slots : ~handler'[r][t].live
    BY <1>0, <1>5, <2>2, <2>3, AbandonedHas
  <2>5. "failing" \in Gone BY DEF Gone
  <2>6. Follows(r)' BY <2>1, <2>4, <2>5 DEF Follows, OwnRequests, InPhase
  <2> QED BY <1>1, <1>2, <1>4, <2>6, OneFollows
<1>7. CASE ~(handler[r][s].live /\ handler[r][s].at = "error")
  <2>1. /\ handler'[r][s] = NoHandler
        /\ \A t \in Slots : t # s => handler'[r][t] = handler[r][t]
    BY <1>0, <1>7 DEF Receive, Typed
  <2>2. client'[r] = IF handler[r][s].live THEN After(client[r]) ELSE client[r]
    BY <1>3, <1>7 DEF Receive
  <2>3. ASSUME OwnRequests(r), InPhase(r) PROVE OwnRequests(r)' /\ InPhase(r)'
    <3>1. InPhase(r)' BY <1>1, <1>5, <2>1, <2>3 DEF InPhase
    <3>2. CASE client[r] \in Gone
      <4>1. ~handler[r][s].live BY <1>1, <2>3, <3>2 DEF OwnRequests
      <4>2. client'[r] = client[r] BY <2>2, <4>1
      <4>3. OwnRequests(r)' BY <2>1, <2>3, <3>2, <4>2 DEF OwnRequests
      <4> QED BY <3>1, <4>3
    <3>3. CASE client[r] \notin Gone
      <4>1. handler[r][s].live BY <1>1, <2>3, <3>3 DEF OwnRequests
      <4>2. client'[r] = After(client[r]) BY <2>2, <4>1
      <4>3. CASE client[r] = "collecting"
        <5>1. client'[r] = client[r] BY <4>2, <4>3 DEF After
        <5>2. OwnRequests(r)' BY <2>1, <2>3, <5>1 DEF OwnRequests
        <5> QED BY <3>1, <5>2
      <4>4. CASE client[r] # "collecting"
        <5>1. \A t \in Slots : handler'[r][t] = NoHandler
          BY <1>1, <2>1, <2>3, <3>3, <4>4 DEF OwnRequests
        <5>2. OwnRequests(r)' BY <5>1 DEF OwnRequests
        <5> QED BY <3>1, <5>2
      <4> QED BY <4>3, <4>4
    <3> QED BY <3>2, <3>3
  <2>4. Follows(r)' BY <1>1, <2>3 DEF RunInv, Follows
  <2> QED BY <1>1, <1>2, <1>4, <2>4, OneFollows
<1> QED BY <1>6, <1>7

LEMMA LeaveRunInv ==
  ASSUME IInv, RunInv, NEW r \in Runs, Fail(r) \/ StopRun(r) \/ Resume(r)
  PROVE  RunInv'
<1>0. Typed BY DEF IInv
<1>1. /\ UNCHANGED phase
      /\ \A q \in Runs : q # r => /\ client'[q] = client[q] /\ starts'[q] = starts[q]
                                  /\ handler'[q] = handler[q]
  BY <1>0 DEF Fail, StopRun, Resume, cohort, RunInv, Clients, Typed
<1>2. Clients' BY DEF Fail, StopRun, Resume, RunInv, Clients, Ended
<1>3. CASE Fail(r)
  <2>1. /\ client[r] = "failing" /\ client'[r] = "failed"
        /\ UNCHANGED <<phase, handler, starts>>
    BY <1>3 DEF Fail, RunInv, Clients
  <2>2. "failing" \in Gone /\ "failed" \in Gone BY DEF Gone
  <2>3. Follows(r)' BY <2>1, <2>2 DEF RunInv, Follows, OwnRequests, InPhase
  <2> QED BY <1>1, <1>2, <2>3, OneFollows
<1>4. CASE StopRun(r)
  <2>1. /\ client'[r] \in {"failing", "dead"} /\ handler'[r] = Abandoned(r)
    BY <1>0, <1>4 DEF StopRun, RunInv, Clients, Typed
  <2>2. \A t \in Slots : ~handler'[r][t].live
    <3>1. ASSUME NEW t \in Slots PROVE ~[handler[r][t] EXCEPT !.live = FALSE].live
      BY <1>0 DEF Handlers, Typed
    <3> QED BY <2>1, <3>1 DEF Abandoned
  <2>3. client'[r] \in Gone BY <2>1 DEF Gone
  <2>4. Follows(r)' BY <2>2, <2>3 DEF Follows, OwnRequests, InPhase
  <2> QED BY <1>1, <1>2, <2>4, OneFollows
<1>5. CASE Resume(r)
  <2>1. starts'[r] = starts[r] + 1 /\ starts[r] \in Nat \ {0}
    BY <1>5 DEF Resume, RunInv, Clients
  <2>2. Follows(r)' BY <2>1 DEF Follows
  <2> QED BY <1>1, <1>2, <2>2, OneFollows
<1> QED BY <1>3, <1>4, <1>5

LEMMA StepRunInv == ASSUME IInv, SwitchInv, RunInv, [Next]_vars PROVE RunInv'
<1>1. CASE UNCHANGED vars \/ BackendExit \/ Close
  BY <1>1, StillRunInv DEF vars, cohort, runs, BackendExit, Close
<1>2. ASSUME NEW r \in Runs, Serve(r) PROVE RunInv'
  BY <1>2, HandlerRunInv, ArriveRunInv, EndSwitchRunInv, SchedulerRunInv DEF Serve, Switch
<1>3. ASSUME NEW r \in Runs, NEW s \in Slots, TimeOut(r, s) \/ BarrierTimeOut(r, s)
      PROVE  RunInv'
  BY <1>3, HandlerRunInv
<1> QED BY <1>1, <1>2, <1>3, SendsRunInv, ReceiveRunInv, LeaveRunInv DEF Next, Answered

\* The teacher never takes a backend away from a request that a run waits for, nor starts
\* one next to another, aborted or not: SwitchDisturbsNobody (PhasedTeacher.switch, called
\* by Cohort.arrive without its lock).
THEOREM SwitchIsClean == Spec => SwitchDisturbsNobody
<1>1. ASSUME IInv, SwitchInv, RunInv, [Next]_vars PROVE [Undisturbed]_vars
  <2>1. SUFFICES ASSUME Next, closer = "open", backend' # backend, backend' # "exited"
                 PROVE  /\ \A r \in Runs, s \in Slots :
                             starts[r] = 1 /\ handler[r][s].live => handler[r][s].at # "waiting"
                        /\ backend = "none" \/ backend' = "none"
    BY <1>1 DEF Undisturbed
  <2>2. PICK r \in Runs, s \in Slots : StopBackend(r, s) \/ Start(r, s)
    <3>1. ASSUME NEW r \in Runs, Serve(r)
          PROVE  \E s \in Slots : StopBackend(r, s) \/ Start(r, s)
      <4>1. ASSUME NEW w, Execute(w) \/ Complete(w) PROVE backend' = backend
        BY <4>1 DEF Execute, Complete, service
      <4>2. ASSUME NEW s \in Slots,
                   \/ Check(r, s) \/ Submit(r, s) \/ Raise(r, s) \/ Arrive(r, s) \/ Pass(r, s)
                   \/ ReadStatus(r, s) \/ FinishStatus(r, s) \/ BeginSwitch(r, s)
                   \/ ClearMode(r, s) \/ Load(r, s) \/ EndLoad(r, s) \/ EndSwitch(r, s)
            PROVE  backend' = backend
        BY <2>1, <4>2 DEF Check, Submit, Raise, Arrive, Pass, ReadStatus, FinishStatus,
           BeginSwitch, ClearMode, Load, EndLoad, EndSwitch, service
      <4> QED BY <2>1, <3>1, <4>1, <4>2 DEF Serve, Switch
    <3>2. ASSUME NEW r \in Runs,
                 \/ Answered(r) \/ Sample(r) \/ Collected(r) \/ Score(r) \/ Updated(r)
                 \/ StopRun(r) \/ Resume(r)
                 \/ \E s \in Slots : TimeOut(r, s) \/ BarrierTimeOut(r, s)
          PROVE  backend' = backend
      BY <3>2 DEF Answered, Fail, Receive, Sample, Collected, Score, Updated, Send, StopRun,
         Resume, TimeOut, BarrierTimeOut, service
    <3>3. ~BackendExit /\ ~Close BY <2>1 DEF BackendExit, Close
    <3> QED BY <2>1, <3>1, <3>2, <3>3 DEF Next
  <2>3. handler[r][s].at \in Switching BY <2>2, PlacesOf DEF StopBackend, Start
  <2>4. \A q \in Runs : phase[q] \in {"collected", "updated", "finished"}
    BY <1>1, <2>3 DEF SwitchInv, AllWait, Waiting
  <2>5. ASSUME NEW q \in Runs, NEW t \in Slots, starts[q] = 1, handler[q][t].live
        PROVE  handler[q][t].at # "waiting"
    <3>1. InPhase(q) BY <1>1, <2>5 DEF RunInv, Follows
    <3> QED BY <2>4, <2>5, <3>1 DEF InPhase, Expected
  <2>6. backend = "none" \/ backend' = "none"
    <3>1. CASE StopBackend(r, s) BY <3>1 DEF StopBackend
    <3>2. CASE Start(r, s) BY <1>1, <2>1, <3>2 DEF Start, SwitchInv, Emptied
    <3> QED BY <2>2, <3>1, <3>2
  <2> QED BY <2>5, <2>6
<1>2. Init => IInv /\ SwitchInv /\ RunInv BY InitEstablishes, InitSwitchInv, InitRunInv
<1>3. IInv /\ SwitchInv /\ RunInv /\ [Next]_vars => IInv' /\ SwitchInv' /\ RunInv'
  BY StepInvariant, StepSwitchInv, StepRunInv
<1> QED BY <1>1, <1>2, <1>3, PTL DEF Spec, SwitchDisturbsNobody
=============================================================================
