-------------------------- MODULE MCTeacherPhases ---------------------------
(***************************************************************************)
(* TeacherPhases on three small instances, one of which is chosen in the   *)
(* initial state: what goes wrong and how much may happen differ, so that  *)
(* no instance has to cover every combination.  In the first, whose        *)
(* constants the configuration gives, runs are stopped, resumed and run    *)
(* again, with two requests in flight.                                     *)
(***************************************************************************)
EXTENDS TeacherPhases, TLC

CONSTANT Slot  \* the slot of the instance that has one

VARIABLE scenario  \* the instance

\* Requests fail, the backends exit, the teacher is shut down, over two rounds.
Down == INSTANCE TeacherPhases
  WITH Slots <- {Slot}, MaxRounds <- 2, MaxStarts <- 2,
       Faults <- {"timeout", "refused", "backend", "shutdown", "stop"}

\* Nothing goes wrong, with two requests in flight, over two rounds.
Calm == INSTANCE TeacherPhases
  WITH MaxRounds <- 2, MaxStarts <- 1, Faults <- {}

MCInit ==
  \/ scenario = "stops" /\ Init
  \/ scenario = "down" /\ Down!Init
  \/ scenario = "calm" /\ Calm!Init

MCNext ==
  /\ UNCHANGED scenario
  /\ \/ scenario = "stops" /\ Next
     \/ scenario = "down" /\ Down!Next
     \/ scenario = "calm" /\ Calm!Next

MCSpec == MCInit /\ [][MCNext]_<<vars, scenario>>

\* Runs and request slots are interchangeable.
Symmetry == Permutations(Runs) \cup Permutations(Slots)

\* As long as nothing goes wrong nothing is aborted: the unlocked reads of the states
\* and of the backends (persistent_teacher.py:177-187) never see a half-made change.
CalmNeverAborted == scenario = "calm" => NeverAborted
=============================================================================
