-------------------------- MODULE MCPhasedTeacher ---------------------------
(***************************************************************************)
(* PhasedTeacher on two small instances, one of which is chosen in the     *)
(* initial state.  In the first, whose constants the configuration gives,  *)
(* anything may fail but no run is killed; in the second the runs are      *)
(* killed and resumed, with two requests in flight.                        *)
(***************************************************************************)
EXTENDS PhasedTeacher

CONSTANT MoreSlots  \* the slots of the second instance

VARIABLE killed  \* whether it is the second instance

Killed == INSTANCE PhasedTeacher
  WITH Slots <- MoreSlots, MaxRounds <- 1, MaxStarts <- 2, Faults <- {"kill"}

MCInit ==
  \/ killed = FALSE /\ Init
  \/ killed = TRUE /\ Killed!Init

MCNext ==
  /\ UNCHANGED killed
  /\ \/ ~killed /\ Next
     \/ killed /\ Killed!Next

\* The threads of the teacher and the runs proceed; a batch has finitely many requests,
\* so that a run reports a phase it can report again and again (SF).  No time-out is
\* ever needed.
MCFairness ==
  /\ WF_vars(~killed /\ closer # "open" /\ Close)
  /\ \A r \in Runs :
       /\ WF_vars(~killed /\ Serve(r)) /\ WF_vars(~killed /\ Answered(r))
       /\ SF_vars(~killed /\ Collected(r)) /\ SF_vars(~killed /\ Updated(r))

MCSpec == MCInit /\ [][MCNext]_<<vars, killed>> /\ MCFairness

\* Every run ends, without help from a time-out, as long as none is killed: an abort
\* wakes those that wait, and no member is left behind at the barrier, not even one
\* that is finished (teacher_schedule.py:97-98, 129-135).
EndUnlessKilled == \A r \in Runs : <>(killed \/ client[r] \in Ended)
=============================================================================
