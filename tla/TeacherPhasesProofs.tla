------------------------ MODULE TeacherPhasesProofs -------------------------
(***************************************************************************)
(* Proofs about TeacherPhases, for any set of runs, any number of requests *)
(* in flight and every combination of faults.                              *)
(***************************************************************************)
EXTENDS MCTeacherPhases, FiniteSetTheorems, TLAPS

Handler == [at : Positions, op : Ops \cup {"none"}, live : BOOLEAN]

Typed ==
  /\ phase \in [Runs -> {"collecting", "updating", "finished"}]
  /\ rounds \in [Runs -> Nat]
  /\ active \in [Runs -> Nat]
  /\ error \in BOOLEAN /\ closing \in BOOLEAN
  /\ handler \in [Runs -> [Slots -> Handler]]
  /\ work \subseteq Runs \X Slots \X DataOps

Busy(r) == {s \in Slots : handler[r][s].at \in Working}

\* IndependentPhases.active counts the handlers between enter and leave.
Counted == \A r \in Runs : active[r] = Cardinality(Busy(r))

\* A handler between enter and leave holds its run in the phase that it entered in; one
\* that leaves with an error has aborted; one that stops the backends may.
HandlerSound ==
  \A r \in Runs, s \in Slots :
    LET h == handler[r][s] IN
      /\ h.at \in Working => h.op \in DataOps /\ phase[r] = Expected(h.op)
      /\ h.at = "leave error" => error
      /\ h.at = "stop" => AllFinished(phase)

Held(r, s, op) == handler[r][s].at \in {"waiting", "raised"} /\ handler[r][s].op = op

\* A request in a scheduler has a handler that is still counted, or the teacher is
\* aborted and no phase will change.
WorkSound ==
  \A r \in Runs, s \in Slots, op \in DataOps :
    <<r, s, op>> \in work => phase[r] = Expected(op) /\ (error \/ Held(r, s, op))

IInv == Typed /\ Counted /\ HandlerSound /\ WorkSound /\ StoppedWhenUnused

-----------------------------------------------------------------------------

LEMMA BusyIsFinite ==
  \A r \in Runs : IsFiniteSet(Busy(r)) /\ Cardinality(Busy(r)) \in Nat
<1> TAKE r \in Runs
<1>1. Busy(r) \subseteq Slots /\ IsFiniteSet(Slots)
  BY TeacherAssumption DEF Busy
<1>2. IsFiniteSet(Busy(r))
  BY <1>1, FS_Subset
<1>3. QED
  BY <1>2, FS_CardinalityType

\* While the handlers of every run that are between enter and leave stay the same, the
\* counts stay right.
LEMMA CountKept ==
  ASSUME Counted, active' = active, \A r \in Runs : Busy(r)' = Busy(r)
  PROVE  Counted'
  BY DEF Counted

LEMMA InitIInv == Init => IInv
<1> SUFFICES ASSUME Init PROVE IInv
  OBVIOUS
<1>1. Typed
  BY DEF Init, Typed, Handler, Positions, NoHandler, Ops, Working
<1>2. \A r \in Runs : Busy(r) = {}
  BY DEF Init, Busy, Working, NoHandler
<1>3. Counted
  BY <1>2, FS_EmptySet DEF Counted, Init
<1>4. HandlerSound
  BY DEF Init, HandlerSound, NoHandler, Working
<1>5. WorkSound /\ StoppedWhenUnused
  BY DEF Init, WorkSound, StoppedWhenUnused
<1>6. QED
  BY <1>1, <1>3, <1>4, <1>5 DEF IInv

LEMMA PutIsTyped ==
  ASSUME Typed, NEW r \in Runs, NEW s \in Slots, NEW at \in Positions, Put(r, s, at)
  PROVE  /\ handler' \in [Runs -> [Slots -> Handler]]
         /\ handler'[r][s].at = at /\ handler'[r][s].op = handler[r][s].op
         /\ \A q \in Runs, t \in Slots :
              <<q, t>> # <<r, s>> => handler'[q][t] = handler[q][t]
<1>1. handler[r] \in [Slots -> Handler] /\ handler[r][s] \in Handler
  BY DEF Typed
<1>2. [handler[r][s] EXCEPT !.at = at] \in Handler
  BY <1>1 DEF Handler
<1>3. handler' = [handler EXCEPT ![r] =
                    [handler[r] EXCEPT ![s] = [handler[r][s] EXCEPT !.at = at]]]
  BY DEF Put
<1>4. handler'[r] = [handler[r] EXCEPT ![s] = [handler[r][s] EXCEPT !.at = at]]
  BY <1>3 DEF Typed
<1>5. handler'[r][s] = [handler[r][s] EXCEPT !.at = at]
  BY <1>4, <1>1
<1>6. \A q \in Runs, t \in Slots : <<q, t>> # <<r, s>> => handler'[q][t] = handler[q][t]
  BY <1>3, <1>4, <1>1 DEF Typed
<1>7. handler'[r] \in [Slots -> Handler]
  BY <1>1, <1>2, <1>4
<1>8. handler' \in [Runs -> [Slots -> Handler]]
  BY <1>7, <1>3, <1>4 DEF Typed
<1>9. QED
  BY <1>1, <1>5, <1>6, <1>8 DEF Handler

\* Steps that keep the counts, the phases and the work, and stop the backends only when
\* that is allowed.
Quiet ==
  /\ UNCHANGED <<phase, rounds, active, work>>
  /\ error => error'
  /\ closing => closing'
  /\ backends' = "stopped" =>
       backends = "stopped" \/ closing' \/ (AllFinished(phase) /\ work = {})
  /\ error' \in BOOLEAN /\ closing' \in BOOLEAN

\* A handler that is not between enter and leave moves on, or stays as it is.
MovesOutside(r, s) ==
  \/ /\ handler'[r][s].at = handler[r][s].at
     /\ handler'[r][s].op = handler[r][s].op
  \/ /\ handler[r][s].at \notin Working
     /\ handler'[r][s].at \notin Working \cup {"stop"}

LEMMA QuietStep ==
  ASSUME IInv, Quiet, handler' \in [Runs -> [Slots -> Handler]],
         \A r \in Runs, s \in Slots : MovesOutside(r, s)
  PROVE  IInv'
<1> USE DEF IInv
<1>1. Typed'
  BY DEF Typed, Quiet
<1>2. \A r \in Runs : Busy(r)' = Busy(r)
  BY DEF Busy, MovesOutside
<1>3. Counted'
  BY <1>2, CountKept DEF Quiet
<1>4. HandlerSound'
  <2> SUFFICES ASSUME NEW r \in Runs, NEW s \in Slots
               PROVE  LET h == handler'[r][s] IN
                        /\ h.at \in Working => h.op \in DataOps /\ phase'[r] = Expected(h.op)
                        /\ h.at = "leave error" => error'
                        /\ h.at = "stop" => AllFinished(phase')
    BY DEF HandlerSound, AllFinished
  <2>1. MovesOutside(r, s)
    OBVIOUS
  <2>2. QED
    BY <2>1 DEF Quiet, HandlerSound, Working, MovesOutside
<1>5. WorkSound'
  <2> SUFFICES ASSUME NEW r \in Runs, NEW s \in Slots, NEW op \in DataOps,
                      <<r, s, op>> \in work'
               PROVE  phase'[r] = Expected(op) /\ (error' \/ Held(r, s, op)')
    BY DEF WorkSound
  <2>1. <<r, s, op>> \in work /\ phase' = phase /\ (error => error')
    BY DEF Quiet
  <2>2. phase[r] = Expected(op) /\ (error \/ Held(r, s, op))
    BY <2>1 DEF WorkSound
  <2>3. Held(r, s, op) => Held(r, s, op)'
    BY DEF Held, MovesOutside, Working
  <2>4. QED
    BY <2>1, <2>2, <2>3
<1>6. StoppedWhenUnused'
  BY DEF StoppedWhenUnused, Quiet, AllFinished, Typed
<1>7. QED
  BY <1>1, <1>3, <1>4, <1>5, <1>6

LEMMA QuietPut ==
  ASSUME IInv, Quiet, NEW r \in Runs, NEW s \in Slots, NEW at \in Positions, Put(r, s, at),
         handler[r][s].at \notin Working, at \notin Working \cup {"stop"}
  PROVE  IInv'
<1>1. Typed
  BY DEF IInv
<1>2. \A q \in Runs, t \in Slots : MovesOutside(q, t)
  BY <1>1, PutIsTyped DEF MovesOutside
<1>3. QED
  BY <1>1, <1>2, PutIsTyped, QuietStep

\* Between enter and leave a handler moves on; its request joins or leaves the work.
LEMMA InsideStep ==
  ASSUME IInv, NEW r \in Runs, NEW s \in Slots, NEW at \in Working,
         handler[r][s].at \in Working, Put(r, s, at),
         UNCHANGED <<phase, rounds, active, backends, closing>>,
         error => error', error' \in BOOLEAN,
         at = "leave error" => error',
         work' \subseteq work \cup {<<r, s, handler[r][s].op>>},
         \A op \in DataOps : <<r, s, op>> \in work' =>
           error' \/ (at \in {"waiting", "raised"} /\ handler[r][s].op = op)
  PROVE  IInv'
<1>1. /\ Typed /\ at \in Positions
      /\ handler[r][s].op \in DataOps /\ phase[r] = Expected(handler[r][s].op)
  BY DEF IInv, HandlerSound, Positions
<1>2. /\ handler' \in [Runs -> [Slots -> Handler]]
      /\ handler'[r][s].at = at /\ handler'[r][s].op = handler[r][s].op
      /\ \A q \in Runs, t \in Slots :
           <<q, t>> # <<r, s>> => handler'[q][t] = handler[q][t]
  BY <1>1, PutIsTyped
<1>3. Typed'
  <2>1. work \subseteq Runs \X Slots \X DataOps
    BY <1>1 DEF Typed
  <2>2. <<r, s, handler[r][s].op>> \in Runs \X Slots \X DataOps
    BY <1>1
  <2>3. work' \subseteq Runs \X Slots \X DataOps
    BY <2>1, <2>2
  <2>4. QED
    BY <1>1, <1>2, <2>3 DEF Typed
<1>4. \A q \in Runs : Busy(q)' = Busy(q)
  BY <1>2 DEF Busy
<1>5. Counted'
  BY <1>4, CountKept DEF IInv
<1>6. HandlerSound'
  <2> SUFFICES ASSUME NEW q \in Runs, NEW t \in Slots
               PROVE  LET h == handler'[q][t] IN
                        /\ h.at \in Working => h.op \in DataOps /\ phase'[q] = Expected(h.op)
                        /\ h.at = "leave error" => error'
                        /\ h.at = "stop" => AllFinished(phase')
    BY DEF HandlerSound, AllFinished
  <2>1. CASE <<q, t>> = <<r, s>>
    BY <2>1, <1>1, <1>2 DEF Working
  <2>2. CASE <<q, t>> # <<r, s>>
    <3>1. handler'[q][t] = handler[q][t]
      BY <2>2, <1>2
    <3>2. /\ handler[q][t].at \in Working =>
               handler[q][t].op \in DataOps /\ phase[q] = Expected(handler[q][t].op)
          /\ handler[q][t].at = "leave error" => error
          /\ handler[q][t].at = "stop" => AllFinished(phase)
      BY DEF IInv, HandlerSound
    <3>3. QED
      BY <3>1, <3>2
  <2>3. QED
    BY <2>1, <2>2
<1>7. WorkSound'
  <2> SUFFICES ASSUME NEW q \in Runs, NEW t \in Slots, NEW op \in DataOps,
                      <<q, t, op>> \in work'
               PROVE  phase'[q] = Expected(op) /\ (error' \/ Held(q, t, op)')
    BY DEF WorkSound
  <2>1. CASE <<q, t, op>> = <<r, s, handler[r][s].op>>
    BY <2>1, <1>1, <1>2 DEF Held
  <2>2. CASE <<q, t, op>> # <<r, s, handler[r][s].op>>
    <3>1. <<q, t, op>> \in work
      BY <2>2
    <3>2. phase[q] = Expected(op) /\ (error \/ Held(q, t, op))
      BY <3>1 DEF IInv, WorkSound
    <3>3. CASE <<q, t>> = <<r, s>>
      BY <3>2, <3>3, <1>2 DEF Held
    <3>4. CASE <<q, t>> # <<r, s>>
      BY <3>2, <3>4, <1>2 DEF Held
    <3>5. QED
      BY <3>3, <3>4
  <2>3. QED
    BY <2>1, <2>2
<1>8. ~AllFinished(phase)
  BY <1>1 DEF AllFinished, Expected
<1>9. StoppedWhenUnused'
  BY <1>8 DEF IInv, StoppedWhenUnused
<1>10. QED
  BY <1>3, <1>5, <1>6, <1>7, <1>9 DEF IInv

-----------------------------------------------------------------------------
(* Requests for data *)

LEMMA EnterStep ==
  ASSUME IInv, NEW r \in Runs, NEW s \in Slots, Enter(r, s)
  PROVE  IInv'
<1>1. CASE error \/ phase[r] # Expected(handler[r][s].op)
  <2>1. Quiet /\ Put(r, s, "error")
    BY <1>1 DEF Enter, Quiet, IInv, Typed
  <2>2. handler[r][s].at \notin Working /\ "error" \in Positions
        /\ "error" \notin Working \cup {"stop"}
    BY DEF Enter, Working, Positions
  <2>3. QED
    BY <2>1, <2>2, QuietPut
<1>2. CASE ~(error \/ phase[r] # Expected(handler[r][s].op))
  <2>1. /\ Typed /\ "entered" \in Positions /\ Put(r, s, "entered")
        /\ active' = [active EXCEPT ![r] = @ + 1]
        /\ UNCHANGED <<phase, rounds, error, backends, closing, work>>
        /\ handler[r][s].at = "new" /\ handler[r][s].op \in DataOps
        /\ phase[r] = Expected(handler[r][s].op)
    BY <1>2 DEF Enter, IInv, Positions, Working
  <2>2. /\ handler' \in [Runs -> [Slots -> Handler]]
        /\ handler'[r][s].at = "entered" /\ handler'[r][s].op = handler[r][s].op
        /\ \A q \in Runs, t \in Slots :
             <<q, t>> # <<r, s>> => handler'[q][t] = handler[q][t]
    BY <2>1, PutIsTyped
  <2>3. Typed'
    <3>1. active' \in [Runs -> Nat]
      BY <2>1 DEF Typed
    <3>2. QED
      BY <2>1, <2>2, <3>1 DEF Typed
  <2>4. Counted'
    <3>1. Busy(r)' = Busy(r) \cup {s} /\ s \notin Busy(r)
      BY <2>1, <2>2 DEF Busy, Working
    <3>2. Cardinality(Busy(r)') = Cardinality(Busy(r)) + 1
      BY <3>1, BusyIsFinite, FS_AddElement
    <3>3. \A q \in Runs : q # r => Busy(q)' = Busy(q)
      BY <2>2 DEF Busy
    <3>4. QED
      BY <2>1, <3>2, <3>3 DEF Counted, IInv, Typed
  <2>5. HandlerSound'
    <3> SUFFICES ASSUME NEW q \in Runs, NEW t \in Slots
                 PROVE  LET h == handler'[q][t] IN
                          /\ h.at \in Working => h.op \in DataOps /\ phase[q] = Expected(h.op)
                          /\ h.at = "leave error" => error
                          /\ h.at = "stop" => AllFinished(phase)
      BY <2>1 DEF HandlerSound, AllFinished
    <3>1. CASE <<q, t>> = <<r, s>>
      BY <2>1, <2>2, <3>1
    <3>2. CASE <<q, t>> # <<r, s>>
      <4>1. handler'[q][t] = handler[q][t]
        BY <2>2, <3>2
      <4>2. QED
        BY <4>1 DEF IInv, HandlerSound
    <3>3. QED
      BY <3>1, <3>2
  <2>6. WorkSound'
    BY <2>1, <2>2 DEF IInv, WorkSound, Held
  <2>7. StoppedWhenUnused'
    BY <2>1 DEF IInv, StoppedWhenUnused
  <2>8. QED
    BY <2>3, <2>4, <2>5, <2>6, <2>7 DEF IInv
<1>3. QED
  BY <1>1, <1>2

LEMMA SubmitStep ==
  ASSUME IInv, NEW r \in Runs, NEW s \in Slots, Submit(r, s)
  PROVE  IInv'
<1>1. /\ handler[r][s].at = "entered" /\ handler[r][s].at \in Working
      /\ UNCHANGED <<phase, rounds, active, backends, closing, error>>
      /\ error \in BOOLEAN
  BY DEF Submit, Working, server, IInv, Typed
<1>2. \A op \in DataOps : <<r, s, op>> \in work => error
  BY <1>1 DEF IInv, WorkSound, Held
<1>3. CASE Put(r, s, "waiting") /\ work' = work \cup {<<r, s, handler[r][s].op>>}
  <2>1. "waiting" \in Working
    BY DEF Working
  <2>2. \A op \in DataOps : <<r, s, op>> \in work' => error' \/ handler[r][s].op = op
    BY <1>1, <1>2, <1>3
  <2>3. QED
    BY <1>1, <1>3, <2>1, <2>2, InsideStep
<1>4. CASE Put(r, s, "raised") /\ work' = work
  <2>1. "raised" \in Working
    BY DEF Working
  <2>2. QED
    BY <1>1, <1>2, <1>4, <2>1, InsideStep
<1>5. QED
  BY <1>3, <1>4 DEF Submit

\* A request that nobody waits for any more leaves the work.
LEMMA UnheardStep ==
  ASSUME IInv, NEW r \in Runs, NEW s \in Slots, NEW op \in DataOps,
         UNCHANGED server, work' = work \ {<<r, s, op>>}, Put(r, s, handler[r][s].at)
  PROVE  IInv'
<1>1. Typed /\ handler[r][s].at \in Positions
  BY DEF IInv, Typed, Handler
<1>2. /\ handler' \in [Runs -> [Slots -> Handler]]
      /\ \A q \in Runs, t \in Slots : /\ handler'[q][t].at = handler[q][t].at
                                      /\ handler'[q][t].op = handler[q][t].op
  BY <1>1, PutIsTyped
<1>3. Typed'
  BY <1>1, <1>2 DEF Typed, server
<1>4. \A q \in Runs : Busy(q)' = Busy(q)
  BY <1>2 DEF Busy
<1>5. Counted'
  BY <1>4, CountKept DEF IInv, server
<1>6. HandlerSound'
  <2> SUFFICES ASSUME NEW q \in Runs, NEW t \in Slots
               PROVE  LET h == handler'[q][t] IN
                        /\ h.at \in Working => h.op \in DataOps /\ phase'[q] = Expected(h.op)
                        /\ h.at = "leave error" => error'
                        /\ h.at = "stop" => AllFinished(phase')
    BY DEF HandlerSound, AllFinished
  <2>1. phase' = phase /\ error' = error
    BY DEF server
  <2>2. handler'[q][t].at = handler[q][t].at /\ handler'[q][t].op = handler[q][t].op
    BY <1>2
  <2>3. /\ handler[q][t].at \in Working =>
             handler[q][t].op \in DataOps /\ phase[q] = Expected(handler[q][t].op)
        /\ handler[q][t].at = "leave error" => error
        /\ handler[q][t].at = "stop" => AllFinished(phase)
    BY DEF IInv, HandlerSound
  <2>4. QED
    BY <2>1, <2>2, <2>3
<1>7. WorkSound'
  BY <1>2 DEF IInv, WorkSound, Held, server
<1>8. StoppedWhenUnused'
  BY DEF IInv, StoppedWhenUnused, server, AllFinished
<1>9. QED
  BY <1>3, <1>5, <1>6, <1>7, <1>8 DEF IInv

LEMMA CompleteStep ==
  ASSUME IInv, NEW r \in Runs, NEW s \in Slots, NEW op \in DataOps, Complete(r, s, op)
  PROVE  IInv'
<1>1. /\ <<r, s, op>> \in work /\ work' = work \ {<<r, s, op>>}
      /\ UNCHANGED server
  BY DEF Complete
<1>2. CASE handler[r][s].at = "waiting"
  <2>1. PICK at \in {"leave ok", "raised"} : Put(r, s, at)
    BY <1>2 DEF Complete
  <2>2. \A o \in DataOps : <<r, s, o>> \in work' => error
    <3> SUFFICES ASSUME NEW o \in DataOps, <<r, s, o>> \in work', ~error PROVE FALSE
      OBVIOUS
    <3>1. o # op /\ <<r, s, o>> \in work
      BY <1>1
    <3>2. Held(r, s, o) /\ Held(r, s, op)
      BY <3>1, <1>1 DEF IInv, WorkSound
    <3>3. QED
      BY <3>1, <3>2 DEF Held
  <2>3. /\ at \in Working /\ handler[r][s].at \in Working
        /\ error \in BOOLEAN /\ at # "leave error"
    BY <1>2 DEF Working, IInv, Typed
  <2>4. UNCHANGED <<phase, rounds, active, backends, closing, error>>
    BY <1>1 DEF server
  <2>5. QED
    BY <1>1, <2>1, <2>2, <2>3, <2>4, InsideStep
<1>3. CASE handler[r][s].at # "waiting"
  <2>1. Put(r, s, handler[r][s].at)
    BY <1>3 DEF Complete
  <2>2. QED
    BY <1>1, <2>1, UnheardStep
<1>4. QED
  BY <1>2, <1>3

LEMMA TimeOutStep ==
  ASSUME IInv, NEW r \in Runs, NEW s \in Slots, TimeOut(r, s)
  PROVE  IInv'
<1>1. /\ handler[r][s].at = "waiting" /\ handler[r][s].at \in Working
      /\ Put(r, s, "raised") /\ "raised" \in Working
      /\ UNCHANGED <<phase, rounds, active, backends, closing, error, work>>
      /\ error \in BOOLEAN
  BY DEF TimeOut, Working, server, IInv, Typed
<1>2. \A op \in DataOps : <<r, s, op>> \in work => error \/ handler[r][s].op = op
  BY DEF IInv, WorkSound, Held
<1>3. QED
  BY <1>1, <1>2, InsideStep

LEMMA RaiseStep ==
  ASSUME IInv, NEW r \in Runs, NEW s \in Slots, Raise(r, s)
  PROVE  IInv'
<1>1. /\ handler[r][s].at \in Working /\ Put(r, s, "leave error")
      /\ "leave error" \in Working /\ error' = TRUE
      /\ UNCHANGED <<phase, rounds, active, backends, closing, work>>
  BY DEF Raise, Working, Abort
<1>2. QED
  BY <1>1, InsideStep

LEMMA LeaveStep ==
  ASSUME IInv, NEW r \in Runs, NEW s \in Slots, Leave(r, s)
  PROVE  IInv'
<1>1. PICK at \in {"ok", "error"} : Put(r, s, at)
  BY DEF Leave
<1>2. /\ Typed /\ at \in Positions /\ at \notin Working \cup {"stop"}
      /\ active' = [active EXCEPT ![r] = @ - 1]
      /\ UNCHANGED <<phase, rounds, error, backends, closing, work>>
      /\ handler[r][s].at \in {"leave ok", "leave error"}
      /\ handler[r][s].at = "leave error" => error
  BY DEF Leave, Left, IInv, HandlerSound, Positions, Working
<1>3. /\ handler' \in [Runs -> [Slots -> Handler]]
      /\ handler'[r][s].at = at /\ handler'[r][s].op = handler[r][s].op
      /\ \A q \in Runs, t \in Slots :
           <<q, t>> # <<r, s>> => handler'[q][t] = handler[q][t]
  BY <1>1, <1>2, PutIsTyped
<1>4. Counted' /\ active' \in [Runs -> Nat]
  <2>1. Busy(r)' = Busy(r) \ {s} /\ s \in Busy(r)
    BY <1>2, <1>3 DEF Busy, Working
  <2>2. /\ Cardinality(Busy(r)') = Cardinality(Busy(r)) - 1
        /\ Cardinality(Busy(r)') \in Nat
    BY <2>1, BusyIsFinite, FS_RemoveElement, FS_CardinalityType
  <2>3. \A q \in Runs : q # r => Busy(q)' = Busy(q)
    BY <1>3 DEF Busy
  <2>4. active[r] = Cardinality(Busy(r)) /\ active \in [Runs -> Nat]
    BY DEF IInv, Counted, Typed
  <2>5. QED
    BY <1>2, <2>2, <2>3, <2>4 DEF Counted, IInv
<1>5. Typed'
  BY <1>2, <1>3, <1>4 DEF Typed
<1>6. HandlerSound'
  <2> SUFFICES ASSUME NEW q \in Runs, NEW t \in Slots
               PROVE  LET h == handler'[q][t] IN
                        /\ h.at \in Working => h.op \in DataOps /\ phase'[q] = Expected(h.op)
                        /\ h.at = "leave error" => error'
                        /\ h.at = "stop" => AllFinished(phase')
    BY DEF HandlerSound, AllFinished
  <2>1. CASE <<q, t>> = <<r, s>>
    BY <2>1, <1>2, <1>3 DEF Working
  <2>2. CASE <<q, t>> # <<r, s>>
    BY <2>2, <1>2, <1>3 DEF IInv, HandlerSound
  <2>3. QED
    BY <2>1, <2>2
<1>7. WorkSound'
  <2> SUFFICES ASSUME NEW q \in Runs, NEW t \in Slots, NEW op \in DataOps,
                      <<q, t, op>> \in work'
               PROVE  phase'[q] = Expected(op) /\ (error' \/ Held(q, t, op)')
    BY DEF WorkSound
  <2>1. phase[q] = Expected(op) /\ (error \/ Held(q, t, op))
    BY <1>2 DEF IInv, WorkSound
  <2>2. CASE <<q, t>> = <<r, s>>
    BY <2>1, <2>2, <1>2 DEF Held
  <2>3. CASE <<q, t>> # <<r, s>>
    BY <2>1, <2>3, <1>2, <1>3 DEF Held
  <2>4. QED
    BY <2>2, <2>3
<1>8. StoppedWhenUnused'
  BY <1>2 DEF IInv, StoppedWhenUnused
<1>9. QED
  BY <1>4, <1>5, <1>6, <1>7, <1>8 DEF IInv

-----------------------------------------------------------------------------
(* Phases and status *)

\* arrive moves a run only when it has no handler between enter and leave, hence no
\* request in a scheduler.
LEMMA ArriveStep ==
  ASSUME IInv, NEW r \in Runs, NEW s \in Slots, Arrive(r, s)
  PROVE  IInv'
<1> DEFINE op == handler[r][s].op
<1>1. CASE ~MayArrive(r, op)
  <2>1. Quiet /\ Put(r, s, "error")
    BY <1>1 DEF Arrive, Quiet, IInv, Typed
  <2>2. handler[r][s].at \notin Working /\ "error" \in Positions
        /\ "error" \notin Working \cup {"stop"}
    BY DEF Arrive, Working, Positions
  <2>3. QED
    BY <2>1, <2>2, QuietPut
<1>2. CASE MayArrive(r, op)
  <2>1. /\ Typed /\ handler[r][s].at = "alive" /\ op \in PhaseOps
        /\ phase' = [phase EXCEPT ![r] = PhaseAfter(op)]
        /\ rounds' = IF op = "collected" THEN rounds ELSE [rounds EXCEPT ![r] = @ + 1]
        /\ Put(r, s, IF AllFinished(phase') THEN "stop" ELSE "ok")
        /\ UNCHANGED <<active, error, backends, closing, work>>
    BY <1>2 DEF Arrive, IInv
  <2>2. ~error /\ active[r] = 0 /\ phase[r] \in {"collecting", "updating"}
    BY <1>2 DEF MayArrive, Expected
  <2>3. PICK at \in {"stop", "ok"} : Put(r, s, at) /\ (at = "stop" => AllFinished(phase'))
    BY <2>1
  <2>4. at \in Positions /\ at \notin Working
    BY DEF Positions, Working
  <2>5. /\ handler' \in [Runs -> [Slots -> Handler]]
        /\ handler'[r][s].at = at /\ handler'[r][s].op = handler[r][s].op
        /\ \A q \in Runs, t \in Slots :
             <<q, t>> # <<r, s>> => handler'[q][t] = handler[q][t]
    BY <2>1, <2>3, <2>4, PutIsTyped
  <2>6. Busy(r) = {}
    <3>1. Cardinality(Busy(r)) = 0
      BY <2>2 DEF IInv, Counted
    <3>2. QED
      BY <3>1, BusyIsFinite, FS_EmptySet
  <2>7. PhaseAfter(op) \in {"collecting", "updating", "finished"}
    BY <2>1 DEF PhaseOps, PhaseAfter
  <2>8. Typed'
    <3>1. phase' \in [Runs -> {"collecting", "updating", "finished"}]
      BY <2>1, <2>7 DEF Typed
    <3>2. rounds' \in [Runs -> Nat]
      BY <2>1 DEF Typed
    <3>3. QED
      BY <2>1, <2>5, <3>1, <3>2 DEF Typed
  <2>9. Counted'
    <3>1. \A q \in Runs : Busy(q)' = Busy(q)
      BY <2>1, <2>4, <2>5 DEF Busy, Working
    <3>2. QED
      BY <3>1, <2>1, CountKept DEF IInv
  <2>10. ~AllFinished(phase) /\ \A q \in Runs : q # r => phase'[q] = phase[q]
    BY <2>1, <2>2 DEF AllFinished, Typed
  <2>11. HandlerSound'
    <3> SUFFICES ASSUME NEW q \in Runs, NEW t \in Slots
                 PROVE  LET h == handler'[q][t] IN
                          /\ h.at \in Working => h.op \in DataOps /\ phase'[q] = Expected(h.op)
                          /\ h.at = "leave error" => error'
                          /\ h.at = "stop" => AllFinished(phase')
      BY DEF HandlerSound, AllFinished
    <3>1. CASE <<q, t>> = <<r, s>>
      BY <3>1, <2>3, <2>4, <2>5 DEF Working
    <3>2. CASE <<q, t>> # <<r, s>>
      <4>1. handler'[q][t] = handler[q][t] /\ error' = error
        BY <3>2, <2>1, <2>5
      <4>2. handler[q][t].at # "stop"
        BY <2>10 DEF IInv, HandlerSound
      <4>3. q = r => handler[q][t].at \notin Working
        BY <2>6 DEF Busy
      <4>4. QED
        BY <4>1, <4>2, <4>3, <2>10 DEF IInv, HandlerSound
    <3>3. QED
      BY <3>1, <3>2
  <2>12. \A t \in Slots, o \in DataOps : <<r, t, o>> \notin work
    <3>1. \A t \in Slots : handler[r][t].at \notin {"waiting", "raised"}
      BY <2>6 DEF Busy, Working
    <3>2. QED
      BY <3>1, <2>2 DEF IInv, WorkSound, Held
  <2>13. WorkSound'
    <3> SUFFICES ASSUME NEW q \in Runs, NEW t \in Slots, NEW o \in DataOps,
                        <<q, t, o>> \in work'
                 PROVE  phase'[q] = Expected(o) /\ (error' \/ Held(q, t, o)')
      BY DEF WorkSound
    <3>1. <<q, t, o>> \in work /\ q # r
      BY <2>1, <2>12
    <3>2. phase[q] = Expected(o) /\ (error \/ Held(q, t, o))
      BY <3>1 DEF IInv, WorkSound
    <3>3. QED
      BY <3>1, <3>2, <2>1, <2>5, <2>10 DEF Held
  <2>14. StoppedWhenUnused'
    BY <2>1, <2>10 DEF IInv, StoppedWhenUnused
  <2>15. QED
    BY <2>8, <2>9, <2>11, <2>13, <2>14 DEF IInv
<1>3. QED
  BY <1>1, <1>2

\* The last run has finished: every phase is over, so no request is left.
LEMMA StopBackendsStep ==
  ASSUME IInv, NEW r \in Runs, NEW s \in Slots, StopBackends(r, s)
  PROVE  IInv'
<1>1. AllFinished(phase)
  BY DEF StopBackends, IInv, HandlerSound
<1>2. work = {}
  BY <1>1 DEF IInv, WorkSound, AllFinished, Expected, Typed
<1>3. Quiet /\ Put(r, s, "ok")
  BY <1>1, <1>2 DEF StopBackends, Quiet, IInv, Typed
<1>4. handler[r][s].at \notin Working /\ "ok" \in Positions
      /\ "ok" \notin Working \cup {"stop"}
  BY DEF StopBackends, Working, Positions
<1>5. QED
  BY <1>3, <1>4, QuietPut

LEMMA CheckStep ==
  ASSUME IInv, NEW r \in Runs, NEW s \in Slots,
         BeginPhase(r, s) \/ ReadStatus(r, s) \/ FinishStatus(r, s)
  PROVE  IInv'
<1>1. PICK at \in {"alive", "ok", "error"} : Put(r, s, at)
  BY DEF BeginPhase, ReadStatus, FinishStatus, CheckAlive
<1>2. Quiet
  BY DEF BeginPhase, ReadStatus, FinishStatus, CheckAlive, Quiet, IInv, Typed, server
<1>3. handler[r][s].at \notin Working /\ at \in Positions
      /\ at \notin Working \cup {"stop"}
  BY DEF BeginPhase, ReadStatus, FinishStatus, Working, Positions
<1>4. QED
  BY <1>1, <1>2, <1>3, QuietPut

-----------------------------------------------------------------------------
(* The runs and the teacher process *)

LEMMA SendStep ==
  ASSUME IInv, NEW r \in Runs, NEW op \in Ops, Send(r, op)
  PROVE  IInv'
<1>1. PICK s \in Slots :
        /\ handler[r][s] = NoHandler
        /\ handler' = [handler EXCEPT ![r][s] = [at |-> "new", op |-> op, live |-> TRUE]]
  BY DEF Send
<1>2. [at |-> "new", op |-> op, live |-> TRUE] \in Handler
  BY DEF Handler, Positions
<1>3. handler' \in [Runs -> [Slots -> Handler]]
  BY <1>1, <1>2 DEF IInv, Typed
<1>4. \A q \in Runs, t \in Slots : MovesOutside(q, t)
  <2> TAKE q \in Runs, t \in Slots
  <2>1. handler \in [Runs -> [Slots -> Handler]] /\ handler[r] \in [Slots -> Handler]
    BY DEF IInv, Typed
  <2>2. CASE q = r /\ t = s
    <3>1. handler'[r][s] = [at |-> "new", op |-> op, live |-> TRUE]
      BY <1>1, <2>1
    <3>2. handler'[q][t].at = "new" /\ handler[q][t].at = "none"
      BY <1>1, <2>2, <3>1 DEF NoHandler
    <3>3. "none" \notin Working /\ "new" \notin Working \cup {"stop"}
      BY DEF Working
    <3>4. QED
      BY <3>2, <3>3 DEF MovesOutside
  <2>3. CASE ~(q = r /\ t = s)
    <3>1. handler'[q][t] = handler[q][t]
      BY <1>1, <2>1, <2>3
    <3>2. QED
      BY <3>1 DEF MovesOutside
  <2>4. QED
    BY <2>2, <2>3
<1>5. Quiet
  BY DEF Send, server, Quiet, IInv, Typed
<1>6. QED
  BY <1>3, <1>4, <1>5, QuietStep

LEMMA DropStep ==
  ASSUME IInv, NEW r \in Runs, NEW s \in Slots, Receive(r, s) \/ Discard(r, s)
  PROVE  IInv'
<1>1. handler[r][s].at \in {"ok", "error"} /\ UNCHANGED <<server, work>>
  BY DEF Receive, Discard
<1>2. PICK f \in [Slots -> Handler] :
        /\ handler' = [handler EXCEPT ![r] = f]
        /\ f[s] = NoHandler
        /\ \A t \in Slots : t # s => f[t].at = handler[r][t].at /\ f[t].op = handler[r][t].op
  <2>1. handler[r] \in [Slots -> Handler] /\ NoHandler \in Handler
    BY DEF IInv, Typed, NoHandler, Handler, Positions, Ops
  <2>2. CASE handler' = [handler EXCEPT ![r][s] = NoHandler]
    <3>1. [handler[r] EXCEPT ![s] = NoHandler] \in [Slots -> Handler]
      BY <2>1
    <3>2. QED
      BY <2>1, <2>2, <3>1
  <2>3. CASE handler' = [handler EXCEPT ![r] =
               [t \in Slots |-> IF t = s THEN NoHandler ELSE [@[t] EXCEPT !.live = FALSE]]]
    <3> DEFINE g == [t \in Slots |->
                       IF t = s THEN NoHandler ELSE [handler[r][t] EXCEPT !.live = FALSE]]
    <3>1. g \in [Slots -> Handler]
      BY <2>1 DEF Handler
    <3>2. \A t \in Slots : t # s => g[t].at = handler[r][t].at /\ g[t].op = handler[r][t].op
      BY <2>1 DEF Handler
    <3>3. handler' = [handler EXCEPT ![r] = g]
      BY <2>3
    <3>4. QED
      BY <3>1, <3>2, <3>3
  <2>4. QED
    BY <2>2, <2>3 DEF Receive, Discard
<1>3. handler' \in [Runs -> [Slots -> Handler]]
  BY <1>2 DEF IInv, Typed
<1>4. \A q \in Runs, t \in Slots : MovesOutside(q, t)
  <2> TAKE q \in Runs, t \in Slots
  <2>1. handler \in [Runs -> [Slots -> Handler]]
    BY DEF IInv, Typed
  <2>2. CASE q = r /\ t = s
    <3>1. handler'[q][t] = NoHandler
      BY <1>2, <2>1, <2>2
    <3>2. handler'[q][t].at = "none" /\ handler[q][t].at \in {"ok", "error"}
      BY <1>1, <2>2, <3>1 DEF NoHandler
    <3>3. /\ "none" \notin Working \cup {"stop"}
          /\ "ok" \notin Working /\ "error" \notin Working
      BY DEF Working
    <3>4. QED
      BY <3>2, <3>3 DEF MovesOutside
  <2>3. CASE q = r /\ t # s
    <3>1. handler'[q][t] = f[t]
      BY <1>2, <2>1, <2>3
    <3>2. QED
      BY <1>2, <2>3, <3>1 DEF MovesOutside
  <2>4. CASE q # r
    <3>1. handler'[q][t] = handler[q][t]
      BY <1>2, <2>1, <2>4
    <3>2. QED
      BY <3>1 DEF MovesOutside
  <2>5. QED
    BY <2>2, <2>3, <2>4
<1>5. Quiet
  BY <1>1 DEF server, Quiet, IInv, Typed
<1>6. QED
  BY <1>3, <1>4, <1>5, QuietStep

LEMMA AbandonStep ==
  ASSUME IInv, NEW r \in Runs, StopRun(r)
  PROVE  IInv'
<1>1. handler' = [handler EXCEPT ![r] = [s \in Slots |-> [@[s] EXCEPT !.live = FALSE]]]
  BY DEF StopRun, Abandon
<1>2. [s \in Slots |-> [handler[r][s] EXCEPT !.live = FALSE]] \in [Slots -> Handler]
  <2> SUFFICES ASSUME NEW s \in Slots PROVE [handler[r][s] EXCEPT !.live = FALSE] \in Handler
    OBVIOUS
  <2>1. handler[r] \in [Slots -> Handler]
    BY DEF IInv, Typed
  <2>2. handler[r][s] \in Handler
    BY <2>1
  <2>3. QED
    BY <2>2 DEF Handler
<1>3. handler' \in [Runs -> [Slots -> Handler]]
  BY <1>1, <1>2 DEF IInv, Typed
<1>4. \A q \in Runs, t \in Slots : MovesOutside(q, t)
  BY <1>1 DEF MovesOutside, IInv, Typed, Handler
<1>5. Quiet
  BY DEF StopRun, Abandon, server, Quiet, IInv, Typed
<1>6. QED
  BY <1>3, <1>4, <1>5, QuietStep

\* Steps that leave the handlers alone.
LEMMA StillStep ==
  ASSUME IInv, Quiet, handler' = handler
  PROVE  IInv'
<1>1. \A q \in Runs, t \in Slots : MovesOutside(q, t)
  BY DEF MovesOutside
<1>2. QED
  BY <1>1, QuietStep DEF IInv, Typed

\* Updated, however many batches are left.
Reports(r) ==
  /\ client[r] = "updating" /\ Outstanding(r) = {}
  /\ \E op \in {"updated", "done"} :
       Send(r, op) /\ client' = [client EXCEPT ![r] = op]

LEMMA UpdatedReports ==
  ASSUME NEW r \in Runs, Updated(r)
  PROVE  Reports(r)
BY DEF Updated, Reports

\* The steps of a teacher with any quotas.
Step == Next \/ \E r \in Runs : Reports(r)

LEMMA StepIInv == IInv /\ [Step]_vars => IInv'
<1> SUFFICES ASSUME IInv, [Step]_vars PROVE IInv'
  OBVIOUS
<1>1. ASSUME NEW r \in Runs, Serve(r) PROVE IInv'
  BY <1>1, EnterStep, SubmitStep, RaiseStep, LeaveStep, CheckStep, ArriveStep,
     StopBackendsStep, DropStep, CompleteStep DEF Serve
<1>2. ASSUME NEW r \in Runs, Answered(r) PROVE IInv'
  <2>1. CASE Fail(r)
    <3>1. Quiet /\ handler' = handler
      BY <2>1 DEF Fail, Abort, Quiet, IInv, Typed
    <3>2. QED
      BY <3>1, StillStep
  <2>2. ASSUME NEW s \in Slots, Receive(r, s) PROVE IInv'
    BY <2>2, DropStep
  <2>3. QED
    BY <1>2, <2>1, <2>2 DEF Answered
<1>3. ASSUME NEW r \in Runs, Sample(r) \/ Collected(r) \/ Score(r) \/ Reports(r) PROVE IInv'
  BY <1>3, SendStep DEF Sample, Collected, Score, Reports, Ops, DataOps, PhaseOps
<1>4. ASSUME NEW r \in Runs, StopRun(r) PROVE IInv'
  BY <1>4, AbandonStep
<1>5. ASSUME NEW r \in Runs, NEW s \in Slots, TimeOut(r, s) PROVE IInv'
  BY <1>5, TimeOutStep
<1>6. ASSUME \/ \E r \in Runs : Resume(r)
             \/ BackendExit \/ Shutdown \/ CloseBackends \/ UNCHANGED vars
      PROVE  IInv'
  <2>1. Quiet /\ handler' = handler
    BY <1>6 DEF Resume, BackendExit, Shutdown, CloseBackends, vars, server, Abort, Quiet,
                IInv, Typed
  <2>2. QED
    BY <2>1, StillStep
<1>7. QED
  BY <1>1, <1>2, <1>3, <1>4, <1>5, <1>6, UpdatedReports DEF Next, Step

LEMMA Invariance == Spec => []IInv
<1>1. [Next]_vars => [Step]_vars
  BY DEF Step
<1>2. QED
  BY <1>1, InitIInv, StepIInv, PTL DEF Spec

-----------------------------------------------------------------------------

\* No sampling for a run that is updating and no scoring for one that is collecting,
\* however requests, time-outs, aborts and deaths of the runs interleave
\* (IndependentPhases.enter, leave and arrive).
THEOREM PhasesMatchWork == Spec => []WorkMatchesPhase
<1>1. IInv => WorkMatchesPhase
  <2> SUFFICES ASSUME IInv, NEW w \in work PROVE phase[w[1]] = Expected(w[3])
    BY DEF WorkMatchesPhase
  <2>1. PICK r \in Runs, s \in Slots, op \in DataOps : w = <<r, s, op>>
    BY DEF IInv, Typed
  <2>2. QED
    BY <2>1 DEF IInv, WorkSound
<1>2. QED
  BY Invariance, <1>1, PTL

\* The backends of a teacher that is not shut down are stopped only when every run is
\* finished and nothing is left in them (PersistentTeacher.dispatch, stop_backends).
THEOREM StopsOnlyUnused == Spec => []StoppedWhenUnused
<1>1. IInv => StoppedWhenUnused
  BY DEF IInv
<1>2. QED
  BY Invariance, <1>1, PTL

\* An abort is final and freezes every run's phase (IndependentPhases.abort, arrive).
THEOREM AbortIsFinal == Spec => FailClosed
<1>1. ASSUME IInv, [Next]_vars PROVE [Frozen]_vars
  <2> SUFFICES ASSUME error, Next PROVE error' /\ UNCHANGED <<phase, rounds>>
    BY <1>1 DEF Frozen
  <2>1. ASSUME NEW r \in Runs, Serve(r) PROVE error' /\ UNCHANGED <<phase, rounds>>
    BY <2>1 DEF Serve, Enter, Submit, Raise, Leave, BeginPhase, Arrive, StopBackends,
       ReadStatus, FinishStatus, Discard, Complete, CheckAlive, MayArrive, Abort, server
  <2>2. ASSUME NEW r \in Runs, Answered(r) PROVE error' /\ UNCHANGED <<phase, rounds>>
    BY <2>2 DEF Answered, Fail, Receive, Abort, server
  <2>3. ASSUME NEW r \in Runs,
               Sample(r) \/ Collected(r) \/ Score(r) \/ Updated(r) \/ StopRun(r) \/ Resume(r)
        PROVE  error' /\ UNCHANGED <<phase, rounds>>
    BY <2>3 DEF Sample, Collected, Score, Updated, Send, StopRun, Abandon, Resume, server
  <2>4. ASSUME \/ \E r \in Runs, s \in Slots : TimeOut(r, s)
               \/ BackendExit \/ Shutdown \/ CloseBackends
        PROVE  error' /\ UNCHANGED <<phase, rounds>>
    BY <2>4 DEF TimeOut, BackendExit, Shutdown, CloseBackends, Abort, server
  <2>5. QED
    BY <2>1, <2>2, <2>3, <2>4 DEF Next
<1>2. QED
  BY Invariance, <1>1, PTL DEF Spec, FailClosed

-----------------------------------------------------------------------------
(* A run and its teacher *)

Clients ==
  /\ client \in [Runs -> {"collecting", "collected", "updating", "updated", "done", "failing"}
                        \cup Ended]
  /\ starts \in [Runs -> Nat \ {0}]

\* A run whose first process has not failed.
Healthy(r) == starts[r] = 1 /\ client[r] \notin {"failing", "failed", "dead"}

OpsOf(at) ==
  CASE at = "collecting" -> {"collect"}
    [] at = "updating" -> {"opd", "status"}
    [] at = "finished" -> {}
    [] OTHER -> {at}

\* The requests of such a run are those that its place in the loop makes, one at a time
\* except for sampling.
OwnRequests(r) ==
  /\ \A s \in Slots : handler[r][s] # NoHandler =>
       handler[r][s].live /\ handler[r][s].op \in OpsOf(client[r])
  /\ client[r] # "collecting" =>
       \A s, t \in Slots : handler[r][s] # NoHandler /\ handler[r][t] # NoHandler => s = t

\* While a run reports a phase, the teacher changes it between the request and the answer.
PhaseFits(r) ==
  /\ client[r] \in {"collecting", "updating", "finished"} => phase[r] = client[r]
  /\ client[r] \in PhaseOps => \A s \in Slots :
       /\ handler[r][s].at \in {"new", "alive"} => phase[r] = Expected(client[r])
       /\ handler[r][s].at \in {"stop", "ok"} => phase[r] = PhaseAfter(client[r])

Follows(r) == Healthy(r) => OwnRequests(r) /\ PhaseFits(r)

LInv == Clients /\ \A r \in Runs : Follows(r)

LEMMA InitLInv == Init => LInv
<1> SUFFICES ASSUME Init PROVE LInv
  OBVIOUS
<1>1. Clients
  BY DEF Init, Clients
<1>2. ASSUME NEW r \in Runs PROVE OwnRequests(r) /\ PhaseFits(r)
  <2>1. /\ client[r] = "collecting" /\ phase[r] = "collecting"
        /\ \A s \in Slots : handler[r][s] = NoHandler
    BY DEF Init
  <2>2. QED
    BY <2>1 DEF OwnRequests, PhaseFits, PhaseOps
<1>3. QED
  BY <1>1, <1>2 DEF LInv, Follows

\* A step of one run leaves the others where they are.
LEMMA OneRunStep ==
  ASSUME LInv, NEW r \in Runs, Clients',
         \A q \in Runs : q # r => /\ client'[q] = client[q] /\ starts'[q] = starts[q]
                                /\ handler'[q] = handler[q] /\ phase'[q] = phase[q],
         Follows(r)'
  PROVE  LInv'
<1>1. ASSUME NEW q \in Runs PROVE Follows(q)'
  <2>1. CASE q = r
    BY <2>1
  <2>2. CASE q # r
    <3>1. /\ client'[q] = client[q] /\ starts'[q] = starts[q]
          /\ handler'[q] = handler[q] /\ phase'[q] = phase[q] /\ Follows(q)
      BY <2>2 DEF LInv
    <3>2. QED
      BY <3>1 DEF Follows, Healthy, OwnRequests, PhaseFits
  <2>3. QED
    BY <2>1, <2>2
<1>2. QED
  BY <1>1 DEF LInv

\* A handler moves on; one that reports a phase moves towards the answer.
LEMMA PutLInv ==
  ASSUME IInv, LInv, NEW r \in Runs, NEW s \in Slots, NEW at \in Positions, Put(r, s, at),
         UNCHANGED <<phase, client, starts>>,
         handler[r][s].at # "none",
         handler[r][s].op \in PhaseOps =>
           \/ at = "error"
           \/ at = "alive" /\ handler[r][s].at \in {"new", "alive"}
           \/ at = "ok" /\ handler[r][s].at = "stop"
  PROVE  LInv'
<1>1. Typed
  BY DEF IInv
<1>2. /\ handler' = [handler EXCEPT ![r] =
                       [handler[r] EXCEPT ![s] = [handler[r][s] EXCEPT !.at = at]]]
      /\ handler[r] \in [Slots -> Handler] /\ handler[r][s] \in Handler
  BY <1>1 DEF Put, Typed
<1>3. /\ \A q \in Runs : q # r => handler'[q] = handler[q]
      /\ handler'[r] = [handler[r] EXCEPT ![s] = [handler[r][s] EXCEPT !.at = at]]
  BY <1>1, <1>2 DEF Typed
<1>4. /\ \A t \in Slots : t # s => handler'[r][t] = handler[r][t]
      /\ handler'[r][s] = [handler[r][s] EXCEPT !.at = at]
  BY <1>2, <1>3
<1>5. /\ handler'[r][s].at = at /\ handler'[r][s].op = handler[r][s].op
      /\ handler'[r][s].live = handler[r][s].live
      /\ handler[r][s] # NoHandler
  BY <1>2, <1>4 DEF Handler, NoHandler
<1>6. ASSUME Healthy(r)', OwnRequests(r), PhaseFits(r) PROVE OwnRequests(r)' /\ PhaseFits(r)'
  <2>1. OwnRequests(r)'
    BY <1>4, <1>5, <1>6 DEF OwnRequests
  <2>2. ASSUME client[r] \in PhaseOps, NEW t \in Slots
        PROVE  /\ handler'[r][t].at \in {"new", "alive"} => phase[r] = Expected(client[r])
               /\ handler'[r][t].at \in {"stop", "ok"} => phase[r] = PhaseAfter(client[r])
    <3>1. CASE t # s
      BY <3>1, <2>2, <1>4, <1>6 DEF PhaseFits
    <3>2. CASE t = s
      <4>1. handler[r][s].op \in PhaseOps
        BY <2>2, <1>5, <1>6 DEF OwnRequests, OpsOf, PhaseOps
      <4>2. QED
        BY <3>2, <4>1, <2>2, <1>5, <1>6 DEF PhaseFits
    <3>3. QED
      BY <3>1, <3>2
  <2>3. PhaseFits(r)'
    BY <2>2, <1>6 DEF PhaseFits
  <2>4. QED
    BY <2>1, <2>3
<1>7. Follows(r)'
  BY <1>6 DEF LInv, Follows, Healthy
<1>8. QED
  BY <1>3, <1>7, OneRunStep DEF LInv, Clients

LEMMA PhaseOpMoves ==
  ASSUME IInv, NEW r \in Runs, NEW s \in Slots, handler[r][s].op \in PhaseOps
  PROVE  handler[r][s].at \notin Working
<1>1. QED
  BY DEF IInv, HandlerSound, PhaseOps, DataOps

\* Everything that a handler does, except that the phase changes or an answer is heard.
LEMMA HandlerLInv ==
  ASSUME IInv, LInv, NEW r \in Runs, NEW s \in Slots,
         \/ Enter(r, s) \/ Submit(r, s) \/ Raise(r, s) \/ Leave(r, s) \/ TimeOut(r, s)
         \/ BeginPhase(r, s) \/ StopBackends(r, s) \/ ReadStatus(r, s) \/ FinishStatus(r, s)
         \/ \E op \in DataOps : Complete(r, s, op)
  PROVE  LInv'
<1>1. UNCHANGED <<phase, client, starts>>
  BY DEF Enter, Submit, Raise, Leave, TimeOut, BeginPhase, StopBackends, ReadStatus,
     FinishStatus, Complete, server
<1>2. PICK at \in Positions :
        /\ Put(r, s, at)
        /\ \/ /\ handler[r][s].at # "none"
              /\ handler[r][s].op \in PhaseOps =>
                   \/ handler[r][s].at \in Working
                   \/ at = "error"
                   \/ at = "alive" /\ handler[r][s].at \in {"new", "alive"}
                   \/ at = "ok" /\ handler[r][s].at = "stop"
           \/ at = handler[r][s].at
  <2>1. Working \subseteq Positions /\ {"none", "new", "alive", "stop", "ok", "error"} \subseteq Positions
        /\ DataOps \cap PhaseOps = {} /\ "status" \notin PhaseOps
        /\ {"entered", "waiting", "raised", "leave ok", "leave error"} = Working
        /\ "none" \notin Working /\ handler[r][s].at \in Positions
    BY DEF Positions, Working, DataOps, PhaseOps, IInv, Typed, Handler
  <2>2. CASE Enter(r, s)
    BY <2>1, <2>2 DEF Enter
  <2>3. CASE Submit(r, s)
    BY <2>1, <2>3 DEF Submit
  <2>4. CASE Raise(r, s) \/ TimeOut(r, s)
    BY <2>1, <2>4 DEF Raise, TimeOut
  <2>5. CASE Leave(r, s)
    BY <2>1, <2>5 DEF Leave
  <2>6. CASE BeginPhase(r, s)
    BY <2>1, <2>6 DEF BeginPhase, CheckAlive
  <2>7. CASE StopBackends(r, s)
    BY <2>1, <2>7 DEF StopBackends
  <2>8. CASE ReadStatus(r, s) \/ FinishStatus(r, s)
    BY <2>1, <2>8 DEF ReadStatus, FinishStatus, CheckAlive
  <2>9. ASSUME NEW op \in DataOps, Complete(r, s, op)
        PROVE  \/ Put(r, s, handler[r][s].at)
               \/ handler[r][s].at = "waiting" /\ (Put(r, s, "leave ok") \/ Put(r, s, "raised"))
    BY <2>9 DEF Complete
  <2>10. QED
    BY <2>1, <2>2, <2>3, <2>4, <2>5, <2>6, <2>7, <2>8, <2>9
<1>3. CASE at = handler[r][s].at
  <2>1. handler' = handler
    <3>1. handler \in [Runs -> [Slots -> Handler]]
      BY DEF IInv, Typed
    <3>2. handler[r][s] \in Handler /\ handler[r] \in [Slots -> Handler]
      BY <3>1
    <3>3. [handler[r][s] EXCEPT !.at = at] = handler[r][s]
      BY <3>2, <1>3 DEF Handler
    <3>4. [handler[r] EXCEPT ![s] = handler[r][s]] = handler[r]
      BY <3>2
    <3>5. handler' = [handler EXCEPT ![r] = handler[r]]
      BY <1>2, <3>3, <3>4 DEF Put
    <3>6. QED
      BY <3>1, <3>5
  <2>2. QED
    BY <1>1, <2>1 DEF LInv, Clients, Follows, Healthy, OwnRequests, PhaseFits
<1>4. CASE at # handler[r][s].at
  BY <1>1, <1>2, <1>4, PhaseOpMoves, PutLInv
<1>5. QED
  BY <1>3, <1>4

\* The phase changes while the run waits for the answer, and it has no other request.
LEMMA ArriveLInv ==
  ASSUME IInv, LInv, NEW r \in Runs, NEW s \in Slots, Arrive(r, s)
  PROVE  LInv'
<1> DEFINE op == handler[r][s].op
<1>1. /\ handler[r][s].at = "alive" /\ op \in PhaseOps
      /\ UNCHANGED <<client, starts>>
  BY DEF Arrive
<1>2. CASE ~MayArrive(r, op)
  <2>1. Put(r, s, "error") /\ UNCHANGED phase
    BY <1>2 DEF Arrive
  <2>2. "error" \in Positions
    BY DEF Positions
  <2>3. QED
    BY <1>1, <2>1, <2>2, PutLInv
<1>3. CASE MayArrive(r, op)
  <2>1. PICK at \in {"stop", "ok"} : Put(r, s, at)
    BY <1>3 DEF Arrive
  <2>2. phase' = [phase EXCEPT ![r] = PhaseAfter(op)]
    BY <1>3 DEF Arrive
  <2>3. /\ phase'[r] = PhaseAfter(op)
        /\ \A q \in Runs : q # r => phase'[q] = phase[q]
    BY <2>2 DEF IInv, Typed
  <2>4. /\ handler[r] \in [Slots -> Handler] /\ handler[r][s] \in Handler
        /\ \A q \in Runs : q # r => handler'[q] = handler[q]
        /\ handler'[r] = [handler[r] EXCEPT ![s] = [handler[r][s] EXCEPT !.at = at]]
    BY <2>1 DEF Put, IInv, Typed
  <2>5. /\ \A t \in Slots : t # s => handler'[r][t] = handler[r][t]
        /\ handler'[r][s] = [handler[r][s] EXCEPT !.at = at]
    BY <2>4
  <2>6. /\ handler'[r][s].at = at /\ handler'[r][s].op = op
        /\ handler'[r][s].live = handler[r][s].live
        /\ handler[r][s] # NoHandler
    BY <1>1, <2>4, <2>5 DEF Handler, NoHandler
  <2>7. ASSUME OwnRequests(r) PROVE OwnRequests(r)' /\ PhaseFits(r)'
    <3>1. client[r] = op
      BY <1>1, <2>6, <2>7 DEF OwnRequests, OpsOf, PhaseOps
    <3>2. \A t \in Slots : t # s => handler[r][t] = NoHandler
      BY <1>1, <2>6, <2>7, <3>1 DEF OwnRequests, PhaseOps
    <3>3. \A t \in Slots : t # s => handler'[r][t].at = "none"
      BY <2>5, <3>2 DEF NoHandler
    <3>4. OwnRequests(r)'
      <4>1. client'[r] = client[r] /\ NoHandler' = NoHandler
        BY <1>1
      <4>2. \A t \in Slots : t # s => handler'[r][t] = NoHandler
        BY <2>5, <3>2
      <4>3. handler'[r][s].live /\ handler'[r][s].op \in OpsOf(client'[r])
        BY <2>6, <2>7, <4>1 DEF OwnRequests
      <4>4. QED
        BY <4>2, <4>3 DEF OwnRequests
    <3>5. client'[r] = op /\ op \in PhaseOps
      BY <1>1, <3>1
    <3>6. client'[r] \notin {"collecting", "updating", "finished"}
      BY <3>5 DEF PhaseOps
    <3>7. ASSUME NEW t \in Slots, handler'[r][t].at # "none" PROVE handler'[r][t].at \in {"stop", "ok"}
      BY <3>3, <3>7, <2>6
    <3>8. PhaseFits(r)'
      <4>1. ASSUME NEW t \in Slots PROVE handler'[r][t].at \notin {"new", "alive"}
        BY <3>7
      <4>2. QED
        BY <4>1, <3>5, <3>6, <2>3 DEF PhaseFits
    <3>9. QED
      BY <3>4, <3>8
  <2>8. Follows(r)'
    BY <1>1, <2>7 DEF LInv, Follows, Healthy
  <2>9. QED
    BY <1>1, <2>3, <2>4, <2>8, OneRunStep DEF LInv, Clients
<1>4. QED
  BY <1>2, <1>3

\* No answer is discarded while the run that asked goes on, and the answer to a report of
\* a phase is heard when the teacher has changed it.
LEMMA DropLInv ==
  ASSUME IInv, LInv, NEW r \in Runs, NEW s \in Slots, Receive(r, s) \/ Discard(r, s)
  PROVE  LInv'
<1>1. /\ UNCHANGED <<phase, starts>>
      /\ handler[r][s].at \in {"ok", "error"}
      /\ handler[r][s] # NoHandler
  BY DEF Receive, Discard, server, NoHandler
<1>2. \A q \in Runs : q # r => client'[q] = client[q] /\ handler'[q] = handler[q]
  BY DEF Receive, Discard, LInv, Clients, IInv, Typed
<1>3. client' \in [Runs -> {"collecting", "collected", "updating", "updated", "done", "failing"}
                             \cup Ended]
  <2>1. \/ client' = client
        \/ client' = [client EXCEPT ![r] = After(client[r])]
        \/ client' = [client EXCEPT ![r] = "failing"]
    BY DEF Receive, Discard
  <2>2. client \in [Runs -> {"collecting", "collected", "updating", "updated", "done", "failing"}
                             \cup Ended]
    BY DEF LInv, Clients
  <2>3. After(client[r]) \in {"collecting", "collected", "updating", "updated", "done", "failing"}
                             \cup Ended
    BY <2>2 DEF After, Ended
  <2>4. QED
    BY <2>1, <2>2, <2>3
<1>4. Clients'
  BY <1>1, <1>3 DEF Clients, LInv
<1>5. CASE Healthy(r) /\ Receive(r, s) /\ handler[r][s].at = "ok"
  <2>1. OwnRequests(r) /\ PhaseFits(r)
    BY <1>5 DEF LInv, Follows
  <2>2. /\ client'[r] = After(client[r])
        /\ handler' = [handler EXCEPT ![r][s] = NoHandler]
    BY <1>5 DEF Receive, LInv, Clients
  <2>3. /\ handler'[r][s] = NoHandler
        /\ \A t \in Slots : t # s => handler'[r][t] = handler[r][t]
    BY <2>2 DEF IInv, Typed
  <2>4. CASE client[r] = "collecting"
    <3>1. client'[r] = "collecting"
      BY <2>2, <2>4 DEF After
    <3>2. OwnRequests(r)'
      BY <2>1, <2>3, <2>4, <3>1 DEF OwnRequests
    <3>3. PhaseFits(r)'
      BY <1>1, <2>1, <2>4, <3>1 DEF PhaseFits, PhaseOps
    <3>4. QED
      BY <1>1, <1>2, <1>4, <3>2, <3>3, OneRunStep DEF Follows
  <2>5. CASE client[r] # "collecting"
    <3>1. \A t \in Slots : handler'[r][t] = NoHandler
      BY <1>1, <2>1, <2>3, <2>5 DEF OwnRequests
    <3>2. client[r] \in {"updating"} \cup PhaseOps
      <4>1. handler[r][s].op \in OpsOf(client[r])
        BY <1>1, <2>1 DEF OwnRequests
      <4>2. client[r] # "finished"
        BY <4>1 DEF OpsOf
      <4>3. client[r] \in {"collecting", "collected", "updating", "updated", "done", "finished"}
        BY <1>5 DEF Healthy, LInv, Clients, Ended
      <4>4. QED
        BY <2>5, <4>2, <4>3 DEF PhaseOps
    <3>3. client'[r] = phase[r] /\ client'[r] \in {"updating", "collecting", "finished"}
      <4>1. CASE client[r] = "updating"
        BY <4>1, <2>1, <2>2 DEF After, PhaseFits
      <4>2. CASE client[r] \in PhaseOps
        BY <4>2, <1>5, <2>1, <2>2 DEF After, PhaseFits, PhaseAfter, PhaseOps
      <4>3. QED
        BY <3>2, <4>1, <4>2
    <3>4. OwnRequests(r)'
      BY <3>1 DEF OwnRequests
    <3>5. PhaseFits(r)'
      BY <1>1, <3>3 DEF PhaseFits, PhaseOps
    <3>6. QED
      BY <1>1, <1>2, <1>4, <3>4, <3>5, OneRunStep DEF Follows
  <2>6. QED
    BY <2>4, <2>5
<1>6. CASE Receive(r, s) /\ handler[r][s].at = "error"
  <2>1. client'[r] = "failing"
    BY <1>6 DEF Receive, LInv, Clients
  <2>2. QED
    BY <2>1, <1>1, <1>2, <1>4, OneRunStep DEF Follows, Healthy
<1>7. CASE Discard(r, s)
  <2>1. ~Healthy(r)
    BY <1>1, <1>7 DEF Discard, LInv, Follows, OwnRequests
  <2>2. ~Healthy(r)'
    BY <2>1, <1>7 DEF Discard, Healthy
  <2>3. QED
    BY <2>2, <1>1, <1>2, <1>4, OneRunStep DEF Follows
<1>8. CASE ~Healthy(r) /\ Receive(r, s) /\ handler[r][s].at = "ok"
  <2>1. client'[r] = After(client[r]) /\ starts'[r] = starts[r]
    BY <1>1, <1>8 DEF Receive, LInv, Clients
  <2>2. ~Healthy(r)'
    BY <2>1, <1>8 DEF Healthy, After
  <2>3. QED
    BY <2>2, <1>1, <1>2, <1>4, OneRunStep DEF Follows
<1>9. QED
  BY <1>1, <1>5, <1>6, <1>7, <1>8

\* One more request of the kind that the run's place calls for.
LEMMA SendLInv ==
  ASSUME IInv, LInv, NEW r \in Runs, NEW c, NEW op \in OpsOf(c), Send(r, op),
         client' = [client EXCEPT ![r] = c],
         \/ c = "collecting" /\ client[r] = "collecting"
         \/ /\ Outstanding(r) = {}
            /\ \/ c = "updating" /\ client[r] = "updating"
               \/ c = "collected" /\ client[r] = "collecting"
               \/ c \in {"updated", "done"} /\ client[r] = "updating"
  PROVE  LInv'
<1>1. PICK s \in Slots :
        /\ handler[r][s] = NoHandler
        /\ handler' = [handler EXCEPT ![r][s] = [at |-> "new", op |-> op, live |-> TRUE]]
  BY DEF Send
<1>2. /\ handler'[r][s] = [at |-> "new", op |-> op, live |-> TRUE]
      /\ \A t \in Slots : t # s => handler'[r][t] = handler[r][t]
      /\ \A q \in Runs : q # r => handler'[q] = handler[q]
  BY <1>1 DEF IInv, Typed
<1>3. /\ UNCHANGED <<phase, starts>>
      /\ client'[r] = c /\ \A q \in Runs : q # r => client'[q] = client[q]
  BY DEF Send, server, LInv, Clients
<1>4. Clients'
  BY DEF Send, LInv, Clients
<1>5. ASSUME Healthy(r)' PROVE OwnRequests(r)' /\ PhaseFits(r)'
  <2>1. Healthy(r)
    BY <1>3, <1>5 DEF Healthy
  <2>2. OwnRequests(r) /\ PhaseFits(r)
    BY <2>1 DEF LInv, Follows
  <2>3. phase[r] = client[r]
    BY <2>2 DEF PhaseFits
  <2>4. handler'[r][s].live /\ handler'[r][s].op = op /\ handler'[r][s].at = "new"
    BY <1>2
  <2>5. CASE c = "collecting"
    <3>1. client[r] = "collecting"
      BY <2>5
    <3>2. OwnRequests(r)'
      BY <1>2, <1>3, <2>2, <2>4, <2>5, <3>1 DEF OwnRequests
    <3>3. PhaseFits(r)'
      BY <1>3, <2>3, <2>5, <3>1 DEF PhaseFits, PhaseOps
    <3>4. QED
      BY <3>2, <3>3
  <2>6. CASE c # "collecting"
    <3>1. \A t \in Slots : handler[r][t] = NoHandler
      BY <2>2, <2>6 DEF Outstanding, OwnRequests
    <3>2. \A t \in Slots : t # s => handler'[r][t] = NoHandler
      BY <1>2, <3>1
    <3>3. OwnRequests(r)'
      BY <1>3, <2>4, <3>2 DEF OwnRequests
    <3>4. CASE c = "updating"
      BY <3>3, <3>4, <1>3, <2>3 DEF PhaseFits, PhaseOps
    <3>5. CASE c \in PhaseOps
      <4>1. phase'[r] = Expected(c)
        BY <1>3, <2>3, <2>6, <3>5 DEF Expected, PhaseOps
      <4>2. \A t \in Slots : handler'[r][t].at \in {"none", "new"}
        BY <2>4, <3>2 DEF NoHandler
      <4>3. c \notin {"collecting", "updating", "finished"}
        BY <3>5 DEF PhaseOps
      <4>4. PhaseFits(r)'
        BY <4>1, <4>2, <4>3, <1>3 DEF PhaseFits
      <4>5. QED
        BY <3>3, <4>4
    <3>6. QED
      BY <2>6, <3>4, <3>5 DEF PhaseOps
  <2>7. QED
    BY <2>5, <2>6
<1>6. QED
  BY <1>2, <1>3, <1>4, <1>5, OneRunStep DEF Follows

\* A run that fails, is killed or starts again is no longer one that was never restarted.
LEMMA FailLInv ==
  ASSUME IInv, LInv, NEW r \in Runs, Fail(r) \/ StopRun(r) \/ Resume(r)
  PROVE  LInv'
<1>1. /\ UNCHANGED phase
      /\ \A q \in Runs : q # r => /\ client'[q] = client[q] /\ starts'[q] = starts[q]
                                  /\ handler'[q] = handler[q]
  BY DEF Fail, StopRun, Abandon, Resume, server, LInv, Clients, IInv, Typed
<1>2. \/ client'[r] \in {"failed", "failing", "dead"}
      \/ starts'[r] = starts[r] + 1
  BY DEF Fail, StopRun, Abandon, Resume, LInv, Clients
<1>3. Clients'
  BY DEF Fail, StopRun, Abandon, Resume, server, LInv, Clients, Ended
<1>4. starts[r] \in Nat \ {0}
  BY DEF LInv, Clients
<1>5. ~Healthy(r)'
  BY <1>2, <1>4 DEF Healthy
<1>6. QED
  BY <1>1, <1>3, <1>5, OneRunStep DEF Follows

LEMMA StepLInv == IInv /\ LInv /\ [Step]_vars => LInv'
<1> SUFFICES ASSUME IInv, LInv, [Step]_vars PROVE LInv'
  OBVIOUS
<1>1. ASSUME NEW r \in Runs, Serve(r) PROVE LInv'
  BY <1>1, HandlerLInv, ArriveLInv, DropLInv DEF Serve
<1>2. ASSUME NEW r \in Runs, Answered(r) PROVE LInv'
  BY <1>2, FailLInv, DropLInv DEF Answered
<1>3. ASSUME NEW r \in Runs, Sample(r) \/ Collected(r) \/ Score(r) \/ Reports(r) PROVE LInv'
  <2>1. PICK c \in {"collecting", "collected", "updating", "updated", "done"} :
          /\ \E op \in OpsOf(c) : Send(r, op)
          /\ client' = [client EXCEPT ![r] = c]
          /\ \/ c = "collecting" /\ client[r] = "collecting"
             \/ /\ Outstanding(r) = {}
                /\ \/ c = "updating" /\ client[r] = "updating"
                   \/ c = "collected" /\ client[r] = "collecting"
                   \/ c \in {"updated", "done"} /\ client[r] = "updating"
    <3>1. client = [client EXCEPT ![r] = client[r]]
      BY DEF LInv, Clients
    <3>2. /\ "collect" \in OpsOf("collecting") /\ "collected" \in OpsOf("collected")
          /\ "opd" \in OpsOf("updating") /\ "status" \in OpsOf("updating")
          /\ "updated" \in OpsOf("updated") /\ "done" \in OpsOf("done")
      BY DEF OpsOf
    <3>3. CASE Sample(r)
      BY <3>1, <3>2, <3>3 DEF Sample
    <3>4. CASE Collected(r)
      BY <3>2, <3>4 DEF Collected
    <3>5. CASE Score(r)
      BY <3>1, <3>2, <3>5 DEF Score
    <3>6. CASE Reports(r)
      BY <3>2, <3>6 DEF Reports
    <3>7. QED
      BY <1>3, <3>3, <3>4, <3>5, <3>6
  <2>2. QED
    BY <2>1, SendLInv
<1>4. ASSUME NEW r \in Runs, StopRun(r) \/ Resume(r) PROVE LInv'
  BY <1>4, FailLInv
<1>5. ASSUME NEW r \in Runs, NEW s \in Slots, TimeOut(r, s) PROVE LInv'
  BY <1>5, HandlerLInv
<1>6. ASSUME BackendExit \/ Shutdown \/ CloseBackends \/ UNCHANGED vars PROVE LInv'
  BY <1>6 DEF BackendExit, Shutdown, CloseBackends, vars, server, LInv, Clients, Follows,
              Healthy, OwnRequests, PhaseFits
<1>7. QED
  BY <1>1, <1>2, <1>3, <1>4, <1>5, <1>6, UpdatedReports DEF Next, Step

LEMMA LInvariance == Spec => []LInv
<1>1. [Next]_vars => [Step]_vars
  BY DEF Step
<1>2. QED
  BY <1>1, InitLInv, StepLInv, Invariance, PTL DEF Spec

\* A run that was never restarted and the teacher agree on the phase whenever the run is
\* not between a report and its answer (IndependentPhases.arrive, run_loop and report_phase
\* of the run).
THEOREM RunsInStep == Spec => []InStep
<1>1. LInv => InStep
  BY DEF LInv, Follows, Healthy, PhaseFits, InStep
<1>2. QED
  BY LInvariance, <1>1, PTL

-----------------------------------------------------------------------------
(* When nothing goes wrong *)

Refusals == {"raised", "leave error", "error"}

NoRefusal == \A r \in Runs, s \in Slots : handler[r][s].at \notin Refusals

CInv ==
  /\ ~error /\ ~closing
  /\ backends \in {"up", "stopped"}
  /\ backends = "stopped" => AllFinished(phase)
  /\ \A r \in Runs : Healthy(r)
  /\ NoRefusal

LEMMA InitCInv == Init => CInv
<1> SUFFICES ASSUME Init PROVE CInv
  OBVIOUS
<1>1. \A r \in Runs : Healthy(r)
  BY DEF Init, Healthy
<1>2. NoRefusal
  <2>1. \A r \in Runs, s \in Slots : handler[r][s] = NoHandler
    BY DEF Init
  <2>2. \A r \in Runs, s \in Slots : handler[r][s].at = "none"
    BY <2>1 DEF NoHandler
  <2>3. QED
    BY <2>2 DEF NoRefusal, Refusals
<1>3. QED
  BY <1>1, <1>2 DEF Init, CInv

LEMMA PutNoRefusal ==
  ASSUME IInv, NoRefusal, NEW r \in Runs, NEW s \in Slots, NEW at, Put(r, s, at),
         at \notin Refusals
  PROVE  NoRefusal'
<1> SUFFICES ASSUME NEW q \in Runs, NEW t \in Slots PROVE handler'[q][t].at \notin Refusals
  BY DEF NoRefusal
<1>1. /\ handler \in [Runs -> [Slots -> Handler]] /\ handler[r] \in [Slots -> Handler]
      /\ handler[r][s] \in Handler
  BY DEF IInv, Typed
<1>2. /\ q # r => handler'[q] = handler[q]
      /\ handler'[r] = [handler[r] EXCEPT ![s] = [handler[r][s] EXCEPT !.at = at]]
  BY <1>1 DEF Put
<1>3. /\ t # s => handler'[r][t] = handler[r][t]
      /\ handler'[r][s] = [handler[r][s] EXCEPT !.at = at]
  BY <1>1, <1>2
<1>4. handler'[r][s].at = at
  BY <1>1, <1>3 DEF Handler
<1>5. QED
  BY <1>2, <1>3, <1>4 DEF NoRefusal

\* What a run asks for is what its phase allows, and as long as it asks the backends are
\* not stopped.
LEMMA AskedInPhase ==
  ASSUME IInv, LInv, CInv, NEW r \in Runs, NEW s \in Slots, handler[r][s].at \in {"new", "alive"}
  PROVE  /\ handler[r][s].op \in DataOps => phase[r] = Expected(handler[r][s].op)
         /\ handler[r][s].op \in PhaseOps => MayArrive(r, handler[r][s].op)
         /\ backends = "up"
<1> DEFINE op == handler[r][s].op
<1>1. OwnRequests(r) /\ PhaseFits(r) /\ ~error
  BY DEF CInv, LInv, Follows
<1>2. handler[r][s] # NoHandler
  BY DEF NoHandler
<1>3. op \in OpsOf(client[r])
  BY <1>1, <1>2 DEF OwnRequests
<1>4. client[r] \in {"collecting", "updating"} \cup PhaseOps
  <2>1. client[r] \in {"collecting", "collected", "updating", "updated", "done", "finished"}
    BY DEF CInv, Healthy, LInv, Clients, Ended
  <2>2. QED
    BY <2>1, <1>3 DEF OpsOf, PhaseOps
<1>5. CASE client[r] \in {"collecting", "updating"}
  <2>1. phase[r] = client[r]
    BY <1>1, <1>5 DEF PhaseFits
  <2>2. op \notin PhaseOps /\ (op \in DataOps => client[r] = Expected(op))
    BY <1>3, <1>5 DEF OpsOf, Expected, DataOps, PhaseOps
  <2>3. phase[r] # "finished"
    BY <1>5, <2>1
  <2>4. QED
    BY <2>1, <2>2, <2>3 DEF CInv, AllFinished
<1>6. CASE client[r] \in PhaseOps
  <2>1. op = client[r] /\ client[r] # "collecting" /\ op \notin DataOps
    BY <1>3, <1>6 DEF OpsOf, PhaseOps, DataOps
  <2>2. phase[r] = Expected(op)
    BY <1>1, <1>6, <2>1 DEF PhaseFits
  <2>3. Busy(r) = {}
    <3>1. ASSUME NEW t \in Slots PROVE handler[r][t].at \notin Working
      <4>1. CASE t = s
        BY <4>1 DEF Working
      <4>2. CASE t # s
        <5>1. handler[r][t] = NoHandler
          BY <4>2, <1>1, <1>2, <2>1 DEF OwnRequests
        <5>2. QED
          BY <5>1 DEF NoHandler, Working
      <4>3. QED
        BY <4>1, <4>2
    <3>2. QED
      BY <3>1 DEF Busy
  <2>4. active[r] = 0
    BY <2>3, FS_EmptySet DEF IInv, Counted
  <2>5. phase[r] # "finished"
    BY <2>2 DEF Expected
  <2>6. QED
    BY <1>1, <2>1, <2>2, <2>4, <2>5 DEF MayArrive, CInv, AllFinished
<1>7. QED
  BY <1>4, <1>5, <1>6

\* What a handler's scheduler does to it when it does not fail.
Served(r, s) ==
  Put(r, s, IF handler[r][s].at = "waiting" THEN "leave ok" ELSE handler[r][s].at)

\* The steps of a handler that need no fault.
Handles(r, s) ==
  \/ Enter(r, s) \/ Raise(r, s) \/ Leave(r, s) \/ BeginPhase(r, s) \/ ReadStatus(r, s)
  \/ Submit(r, s) /\ (Put(r, s, "waiting") \/ closing)
  \/ FinishStatus(r, s) /\ CheckAlive(r, s, "ok")
  \/ \E op \in DataOps : Complete(r, s, op) /\ (Served(r, s) \/ backends # "up" \/ error)

Smooth ==
  \/ \E r \in Runs, s \in Slots :
       \/ Handles(r, s) \/ Arrive(r, s) \/ StopBackends(r, s)
       \/ Receive(r, s) \/ Discard(r, s)
  \/ \E r \in Runs : Fail(r) \/ Sample(r) \/ Collected(r) \/ Score(r) \/ Reports(r)
  \/ CloseBackends

LEMMA SmoothStep == Smooth => Step
<1> SUFFICES ASSUME Smooth PROVE Step
  OBVIOUS
<1>1. ASSUME NEW r \in Runs, NEW s \in Slots,
             \/ Handles(r, s) \/ Arrive(r, s) \/ StopBackends(r, s) \/ Discard(r, s)
      PROVE  Serve(r)
  BY <1>1 DEF Handles, Serve
<1>2. ASSUME NEW r \in Runs, Fail(r) \/ \E s \in Slots : Receive(r, s)
      PROVE  Answered(r)
  BY <1>2 DEF Answered
<1>3. QED
  BY <1>1, <1>2 DEF Smooth, Step, Next

LEMMA StepCInv ==
  ASSUME IInv, LInv, CInv, [Smooth]_vars
  PROVE  CInv'
<1>1. /\ ~error /\ ~closing /\ NoRefusal
      /\ backends \in {"up", "stopped"}
      /\ backends = "stopped" => AllFinished(phase)
      /\ \A r \in Runs : Healthy(r)
  BY DEF CInv
<1>2. ASSUME UNCHANGED <<phase, closing, backends, client, starts>>, ~error', NoRefusal'
      PROVE  CInv'
  BY <1>1, <1>2 DEF CInv, Healthy, AllFinished
<1>3. ASSUME NEW r \in Runs, NEW s \in Slots, Handles(r, s) PROVE CInv'
  <2>1. handler[r][s].at \notin Refusals
    BY <1>1 DEF NoRefusal
  <2>2. PICK at : at \notin Refusals /\ Put(r, s, at)
    <3>1. CASE Enter(r, s)
      <4>1. Put(r, s, "entered")
        BY <1>1, <3>1, AskedInPhase DEF Enter
      <4>2. QED
        BY <4>1 DEF Refusals
    <3>2. CASE Submit(r, s) /\ (Put(r, s, "waiting") \/ closing)
      BY <1>1, <3>2 DEF Refusals
    <3>3. CASE Raise(r, s)
      BY <2>1, <3>3 DEF Raise, Refusals
    <3>4. CASE Leave(r, s)
      BY <2>1, <3>4 DEF Leave, Refusals
    <3>5. CASE BeginPhase(r, s)
      <4>1. backends = "up"
        BY <3>5, AskedInPhase DEF BeginPhase
      <4>2. QED
        BY <1>1, <4>1, <3>5 DEF BeginPhase, CheckAlive, Refusals
    <3>6. CASE ReadStatus(r, s)
      BY <3>6 DEF ReadStatus, Refusals
    <3>7. CASE FinishStatus(r, s) /\ CheckAlive(r, s, "ok")
      <4>1. backends = "up"
        BY <3>7, AskedInPhase DEF FinishStatus
      <4>2. QED
        BY <1>1, <4>1, <3>7 DEF CheckAlive, Refusals
    <3>8. ASSUME NEW op \in DataOps, Complete(r, s, op),
                 Served(r, s) \/ backends # "up" \/ error
          PROVE  \E at : at \notin Refusals /\ Put(r, s, at)
      <4>1. backends = "up"
        <5>1. phase[r] = Expected(op)
          BY <3>8 DEF Complete, IInv, WorkSound
        <5>2. phase[r] # "finished"
          BY <5>1 DEF Expected
        <5>3. QED
          BY <1>1, <5>2 DEF AllFinished
      <4>2. QED
        BY <1>1, <2>1, <4>1, <3>8 DEF Served, Refusals
    <3>9. QED
      BY <1>3, <3>1, <3>2, <3>3, <3>4, <3>5, <3>6, <3>7, <3>8 DEF Handles
  <2>3. NoRefusal'
    BY <1>1, <2>2, PutNoRefusal
  <2>4. UNCHANGED <<phase, closing, backends, client, starts>>
    BY <1>3 DEF Handles, Enter, Submit, Raise, Leave, BeginPhase, ReadStatus, FinishStatus,
       Complete, server
  <2>5. ~error'
    <3>1. (BeginPhase(r, s) \/ FinishStatus(r, s)) => backends = "up"
      BY AskedInPhase DEF BeginPhase, FinishStatus
    <3>2. ~Raise(r, s)
      BY <2>1 DEF Raise, Refusals
    <3>3. QED
      BY <1>1, <1>3, <3>1, <3>2 DEF Handles, Enter, Submit, Leave, BeginPhase, ReadStatus,
         FinishStatus, Complete, CheckAlive, server
  <2>6. QED
    BY <1>1, <1>2, <2>3, <2>4, <2>5
<1>4. ASSUME NEW r \in Runs, NEW s \in Slots, Arrive(r, s) PROVE CInv'
  <2>1. MayArrive(r, handler[r][s].op)
    BY <1>4, AskedInPhase DEF Arrive
  <2>2. PICK at \in {"stop", "ok"} : Put(r, s, at)
    BY <1>4, <2>1 DEF Arrive
  <2>3. NoRefusal'
    BY <1>1, <2>2, PutNoRefusal DEF Refusals
  <2>4. backends = "up"
    BY <1>4, AskedInPhase DEF Arrive
  <2>5. UNCHANGED <<error, closing, backends, client, starts>>
    BY <1>4 DEF Arrive
  <2>6. QED
    BY <1>1, <2>3, <2>4, <2>5 DEF CInv, Healthy
<1>5. ASSUME NEW r \in Runs, NEW s \in Slots, StopBackends(r, s) PROVE CInv'
  <2>1. NoRefusal'
    BY <1>1, <1>5, PutNoRefusal DEF StopBackends, Refusals
  <2>2. AllFinished(phase)
    BY <1>5 DEF StopBackends, IInv, HandlerSound
  <2>3. QED
    BY <1>1, <1>5, <2>1, <2>2 DEF StopBackends, CInv, Healthy, AllFinished
<1>6. ASSUME NEW r \in Runs, NEW s \in Slots, Receive(r, s) \/ Discard(r, s) PROVE CInv'
  <2>1. handler[r][s].at \notin Refusals
    BY <1>1 DEF NoRefusal
  <2>2. /\ handler' = [handler EXCEPT ![r][s] = NoHandler]
        /\ client' = client \/ client' = [client EXCEPT ![r] = After(client[r])]
        /\ UNCHANGED <<phase, error, closing, backends, starts>>
    BY <2>1, <1>6 DEF Receive, Discard, server, Refusals
  <2>3. NoRefusal'
    <3> SUFFICES ASSUME NEW q \in Runs, NEW t \in Slots PROVE handler'[q][t].at \notin Refusals
      BY DEF NoRefusal
    <3>1. handler'[q][t] = handler[q][t] \/ handler'[q][t] = NoHandler
      BY <2>2 DEF IInv, Typed
    <3>2. handler[q][t].at \notin Refusals
      BY <1>1 DEF NoRefusal
    <3>3. CASE handler'[q][t] = NoHandler
      BY <3>3 DEF NoHandler, Refusals
    <3>4. QED
      BY <3>1, <3>2, <3>3
  <2>4. ASSUME NEW q \in Runs PROVE Healthy(q)'
    <3>1. Healthy(q)
      BY <1>1
    <3>2. client'[q] = client[q] \/ client'[q] = After(client[q])
      BY <2>2 DEF LInv, Clients
    <3>3. QED
      BY <2>2, <3>1, <3>2 DEF Healthy, After
  <2>5. QED
    BY <1>1, <2>2, <2>3, <2>4 DEF CInv, AllFinished
<1>7. ASSUME NEW r \in Runs, Sample(r) \/ Collected(r) \/ Score(r) \/ Reports(r) PROVE CInv'
  <2>1. PICK op : Send(r, op)
    BY <1>7 DEF Sample, Collected, Score, Reports
  <2>2. PICK s \in Slots :
          handler' = [handler EXCEPT ![r][s] = [at |-> "new", op |-> op, live |-> TRUE]]
    BY <2>1 DEF Send
  <2>3. UNCHANGED <<phase, error, closing, backends, starts>>
    BY <2>1 DEF Send, server
  <2>4. NoRefusal'
    <3> SUFFICES ASSUME NEW q \in Runs, NEW t \in Slots PROVE handler'[q][t].at \notin Refusals
      BY DEF NoRefusal
    <3>1. \/ handler'[q][t] = handler[q][t]
          \/ handler'[q][t] = [at |-> "new", op |-> op, live |-> TRUE]
      BY <2>2 DEF IInv, Typed
    <3>2. handler[q][t].at \notin Refusals
      BY <1>1 DEF NoRefusal
    <3>3. CASE handler'[q][t] = [at |-> "new", op |-> op, live |-> TRUE]
      BY <3>3 DEF Refusals
    <3>4. QED
      BY <3>1, <3>2, <3>3
  <2>5. ASSUME NEW q \in Runs PROVE Healthy(q)'
    <3>1. client'[q] = client[q] \/ client'[q] \in {"collected", "updated", "done"}
      BY <1>7 DEF Sample, Collected, Score, Reports, LInv, Clients
    <3>2. QED
      BY <1>1, <2>3, <3>1 DEF Healthy
  <2>6. QED
    BY <1>1, <2>3, <2>4, <2>5 DEF CInv, AllFinished
<1>8. ~CloseBackends /\ \A r \in Runs : ~Fail(r)
  BY <1>1 DEF Healthy, Fail, CloseBackends
<1>9. CASE UNCHANGED vars
  BY <1>1, <1>2, <1>9 DEF vars, server, NoRefusal
<1>10. QED
  BY <1>3, <1>4, <1>5, <1>6, <1>7, <1>8, <1>9 DEF Smooth

LEMMA FaultlessSmooth ==
  ASSUME Faults = {}, Next
  PROVE  Smooth
<1>1. ASSUME NEW r \in Runs, Serve(r) PROVE Smooth
  <2>1. ASSUME NEW s \in Slots, Submit(r, s) PROVE Handles(r, s)
    BY <2>1 DEF Submit, Handles
  <2>2. ASSUME NEW s \in Slots, FinishStatus(r, s) PROVE Handles(r, s)
    BY <2>2 DEF FinishStatus, Handles
  <2>3. ASSUME NEW s \in Slots, NEW op \in DataOps, Complete(r, s, op) PROVE Handles(r, s)
    BY <2>3 DEF Complete, Served, Handles
  <2>4. ASSUME NEW s \in Slots,
               Enter(r, s) \/ Raise(r, s) \/ Leave(r, s) \/ BeginPhase(r, s) \/ ReadStatus(r, s)
        PROVE  Handles(r, s)
    BY <2>4 DEF Handles
  <2>5. QED
    BY <1>1, <2>1, <2>2, <2>3, <2>4 DEF Serve, Smooth
<1>2. ~BackendExit /\ ~Shutdown
  BY DEF BackendExit, Shutdown
<1>3. ASSUME NEW r \in Runs
      PROVE  ~StopRun(r) /\ ~Resume(r) /\ \A s \in Slots : ~TimeOut(r, s)
  BY DEF StopRun, Resume, TimeOut
<1>4. QED
  BY <1>1, <1>2, <1>3, UpdatedReports DEF Next, Answered, Smooth

\* As long as nothing goes wrong nothing is aborted, for any number of runs, requests in
\* flight and rounds: the checks and reads that PersistentTeacher.dispatch makes without
\* the lock never refuse a run that keeps to its phases.
THEOREM NothingWrongNothingAborted ==
  ASSUME Faults = {}
  PROVE  Spec => []NeverAborted
<1>1. IInv /\ LInv /\ CInv /\ [Next]_vars => CInv'
  BY FaultlessSmooth, StepCInv
<1>2. CInv => NeverAborted
  BY DEF CInv, NeverAborted
<1>3. QED
  BY <1>1, <1>2, InitCInv, Invariance, LInvariance, PTL DEF Spec

-----------------------------------------------------------------------------
(* The calm one of the instances that are model-checked *)

LEMMA CalmHandles ==
  ASSUME NEW r \in Runs, NEW s \in Slots,
         \/ Calm!Enter(r, s) \/ Calm!Raise(r, s) \/ Calm!Leave(r, s)
         \/ Calm!BeginPhase(r, s) \/ Calm!ReadStatus(r, s)
         \/ Calm!Submit(r, s) \/ Calm!FinishStatus(r, s)
         \/ \E op \in Calm!DataOps : Calm!Complete(r, s, op)
  PROVE  Handles(r, s)
<1> USE DEF Calm!Put, Put, Calm!server, server, Calm!DataOps, DataOps
<1>1. CASE Calm!Enter(r, s)
  BY <1>1 DEF Handles, Calm!Enter, Enter, Calm!Expected, Expected
<1>2. CASE Calm!Raise(r, s)
  BY <1>2 DEF Handles, Calm!Raise, Raise, Calm!Abort, Abort
<1>3. CASE Calm!Leave(r, s)
  BY <1>3 DEF Handles, Calm!Leave, Leave, Calm!Left, Left
<1>4. CASE Calm!BeginPhase(r, s)
  BY <1>4 DEF Handles, Calm!BeginPhase, BeginPhase, Calm!CheckAlive, CheckAlive,
     Calm!PhaseOps, PhaseOps
<1>5. CASE Calm!ReadStatus(r, s)
  BY <1>5 DEF Handles, Calm!ReadStatus, ReadStatus, Calm!AllFinished, AllFinished
<1>6. CASE Calm!Submit(r, s)
  BY <1>6 DEF Handles, Calm!Submit, Submit
<1>7. CASE Calm!FinishStatus(r, s)
  BY <1>7 DEF Handles, Calm!FinishStatus, FinishStatus, Calm!CheckAlive, CheckAlive
<1>8. ASSUME NEW op \in Calm!DataOps, Calm!Complete(r, s, op) PROVE Handles(r, s)
  BY <1>8 DEF Handles, Calm!Complete, Complete, Served
<1>9. QED
  BY <1>1, <1>2, <1>3, <1>4, <1>5, <1>6, <1>7, <1>8

LEMMA CalmSmooth ==
  ASSUME Calm!Next
  PROVE  Smooth
<1> USE DEF Calm!Put, Put, Calm!server, server
<1>1. ASSUME NEW r \in Runs, NEW s \in Slots, Calm!Arrive(r, s) PROVE Arrive(r, s)
  BY <1>1 DEF Calm!Arrive, Arrive, Calm!PhaseOps, PhaseOps, Calm!Barrier, Barrier,
     Calm!MayArrive, MayArrive, Calm!Expected, Expected, Calm!PhaseAfter, PhaseAfter,
     Calm!AllFinished, AllFinished
<1>2. ASSUME NEW r \in Runs, NEW s \in Slots, Calm!StopBackends(r, s) PROVE StopBackends(r, s)
  BY <1>2 DEF Calm!StopBackends, StopBackends
<1>3. ASSUME NEW r \in Runs, NEW s \in Slots, Calm!Receive(r, s) PROVE Receive(r, s)
  BY <1>3 DEF Calm!Receive, Receive, Calm!After, After, Calm!NoHandler, NoHandler
<1>4. ASSUME NEW r \in Runs, NEW s \in Slots, Calm!Discard(r, s) PROVE Discard(r, s)
  BY <1>4 DEF Calm!Discard, Discard, Calm!NoHandler, NoHandler
<1>5. ASSUME NEW r \in Runs, Calm!Fail(r) PROVE Fail(r)
  BY <1>5 DEF Calm!Fail, Fail, Calm!Abort, Abort
<1>6. ASSUME NEW r \in Runs, Calm!Sample(r) \/ Calm!Collected(r) \/ Calm!Score(r)
      PROVE  Sample(r) \/ Collected(r) \/ Score(r)
  BY <1>6 DEF Calm!Sample, Sample, Calm!Collected, Collected, Calm!Score, Score,
     Calm!Send, Send, Calm!Outstanding, Outstanding, Calm!NoHandler, NoHandler
<1>7. ASSUME NEW r \in Runs, Calm!Updated(r) PROVE Reports(r)
  BY <1>7 DEF Calm!Updated, Reports, Calm!Send, Send, Calm!Outstanding, Outstanding,
     Calm!NoHandler, NoHandler
<1>8. Calm!CloseBackends => CloseBackends
  BY DEF Calm!CloseBackends, CloseBackends
<1>9. ~Calm!BackendExit /\ ~Calm!Shutdown
  BY DEF Calm!BackendExit, Calm!Shutdown
<1>10. ASSUME NEW r \in Runs
       PROVE  ~Calm!StopRun(r) /\ ~Calm!Resume(r) /\ \A s \in Slots : ~Calm!TimeOut(r, s)
  BY DEF Calm!StopRun, Calm!Resume, Calm!TimeOut
<1>11. ASSUME NEW r \in Runs, Calm!Serve(r) PROVE Smooth
  BY <1>1, <1>2, <1>4, <1>11, CalmHandles DEF Calm!Serve, Smooth
<1>12. ASSUME NEW r \in Runs, Calm!Answered(r) PROVE Smooth
  BY <1>3, <1>5, <1>12 DEF Calm!Answered, Smooth
<1>13. QED
  BY <1>6, <1>7, <1>8, <1>9, <1>10, <1>11, <1>12 DEF Calm!Next, Smooth

\* In the model-checked instance where nothing goes wrong nothing is aborted, with any
\* runs and any number of requests in flight: what PersistentTeacher.dispatch reads
\* without the lock (the states and the backends) never shows it a half-made change.
THEOREM CalmInstanceNeverAborted == MCSpec => []CalmNeverAborted
<1> DEFINE Inv == scenario = "calm" => IInv /\ LInv /\ CInv
<1>1. MCInit => Inv
  <2>1. Calm!Init => Init
    BY DEF Calm!Init, Init, Calm!NoHandler, NoHandler
  <2>2. QED
    BY <2>1, InitIInv, InitLInv, InitCInv DEF MCInit
<1>2. Inv /\ [MCNext]_<<vars, scenario>> => Inv'
  <2> SUFFICES ASSUME Inv, [MCNext]_<<vars, scenario>>, scenario' = "calm"
               PROVE  (IInv /\ LInv /\ CInv)'
    OBVIOUS
  <2>1. scenario = "calm" /\ IInv /\ LInv /\ CInv
    BY DEF MCNext
  <2>2. [Smooth]_vars
    BY <2>1, CalmSmooth DEF MCNext
  <2>3. [Step]_vars
    BY <2>2, SmoothStep
  <2>4. QED
    BY <2>1, <2>2, <2>3, StepIInv, StepLInv, StepCInv
<1>3. Inv => CalmNeverAborted
  BY DEF CInv, CalmNeverAborted, NeverAborted
<1>4. QED
  BY <1>1, <1>2, <1>3, PTL DEF MCSpec
=============================================================================
