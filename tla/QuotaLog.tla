------------------------------ MODULE QuotaLog ------------------------------
(***************************************************************************)
(* What a training run promises about the nodes it has trained on, with   *)
(* no checkpoints, files or processes: a log of scene batches, each with   *)
(* the set of nodes its update used (the empty set for a batch without an  *)
(* update).  A prefix of the log is stable: it survives a power failure.   *)
(* Progress is acknowledged only once it is stable.                        *)
(*                                                                         *)
(* RunLedger implements this specification.                                *)
(***************************************************************************)
EXTENDS Naturals, Sequences, FiniteSets, SequencesExt

CONSTANTS
  Target,      \* the node quota of the run: config["target_nodes"]
  NodesOf(_)   \* the nodes that the scenes of a batch can yield

VARIABLES
  log,     \* the node sets of the committed batches, in batch order
  stable,  \* length of the prefix that no failure can take back
  acked    \* length of the prefix the trainer has reported as committed

vars == <<log, stable, acked>>

\* Every node some committed batch has used.
Used(l) == UNION ToSet(l)

Init == log = <<>> /\ stable = 0 /\ acked = 0

\* The next batch in order joins the log, within the quota and with no node used before.
Commit(S) ==
  /\ S \subseteq NodesOf(Len(log))
  /\ S \cap Used(log) = {}
  /\ Cardinality(Used(log) \cup S) <= Target
  /\ log' = Append(log, S)
  /\ UNCHANGED <<stable, acked>>

Stabilise ==
  /\ stable' \in stable..Len(log)
  /\ UNCHANGED <<log, acked>>

\* The log becomes stable and its whole length is acknowledged in the same step.
Acknowledge ==
  /\ stable' = Len(log)
  /\ acked' = Len(log)
  /\ UNCHANGED log

\* A power failure: some suffix that was not stable is gone, the rest is stable.
Lose ==
  \E k \in stable..Len(log) :
    /\ log' = SubSeq(log, 1, k)
    /\ stable' = k
    /\ UNCHANGED acked

Next ==
  \/ \E S \in SUBSET NodesOf(Len(log)) : Commit(S)
  \/ Stabilise
  \/ Acknowledge
  \/ Lose

Spec == Init /\ [][Next]_vars
=============================================================================
