-------------------------- MODULE MCFairScheduler ---------------------------
(***************************************************************************)
(* FairScheduler on two small instances, one of which is chosen in the     *)
(* initial state: with as many places as two runs may take, where the      *)
(* limit of a run binds, and with one place, for which the runs compete.   *)
(***************************************************************************)
EXTENDS FairScheduler

VARIABLE narrow  \* whether there is one place

OnePlace == INSTANCE FairScheduler WITH MaxActive <- 1

\* Two callers that compete within their run, and one of another run.
TwoAndOne == {<<1, "a">>, <<1, "b">>, <<2, "d">>}

MCInit == narrow \in BOOLEAN /\ Init

MCNext ==
  /\ UNCHANGED narrow
  /\ \/ ~narrow /\ Next
     \/ narrow /\ OnePlace!Next

\* The fairness of FairScheduler, for the instance that was chosen.
MCFairness ==
  /\ WF_vars(~narrow /\ Dispatcher) /\ WF_vars(narrow /\ OnePlace!Dispatcher)
  /\ \A c \in Callers :
       WF_vars(~narrow /\ Work(c)) /\ WF_vars(narrow /\ OnePlace!Work(c))
  /\ WF_vars(JoinDispatcher) /\ WF_vars(ShutdownPool)

MCSpec == MCInit /\ [][MCNext]_<<vars, narrow>> /\ MCFairness

\* No wake-up is lost: the dispatcher sleeps only while nothing can be dispatched and
\* there is no reason to exit (teacher_schedule.py:30, 50-62, 78, 84).
NoLostWakeUp == IF narrow THEN OnePlace!SleepsWithReason ELSE SleepsWithReason
=============================================================================
