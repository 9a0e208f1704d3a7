----------------------------- MODULE RequestPool -----------------------------
(***************************************************************************)
(* What the admission scheduler promises those who call it, with no queue, *)
(* thread, lock or wake-up: a request that is let in begins once and is    *)
(* answered once, within the limits on what waits and on what runs; scores *)
(* pass a generation of their run that waits MaxPassed times at most;      *)
(* nothing is let in once the pool is closing, and it is closed when       *)
(* everything is answered.                                                 *)
(*                                                                         *)
(* FairScheduler implements this specification.                            *)
(***************************************************************************)
EXTENDS Naturals, FiniteSets

CONSTANTS
  Callers,    \* callers, each <<run, name>>
  MaxActive,  \* requests that have begun and not ended
  PerRun,     \* the same of one run
  MaxQueued,  \* requests of one run that wait
  MaxPassed   \* scores that may pass a waiting generation

VARIABLES
  waiting,  \* callers whose requests wait, by kind
  begun,    \* callers whose requests have begun
  ended,    \* callers whose requests have ended and are not answered
  passed,   \* by run, the scores in a row that passed a waiting generation
  gate      \* "open", "closing" or "closed"

vars == <<waiting, begun, ended, passed, gate>>

Runs == {c[1] : c \in Callers}
Kinds == {"score", "generation"}

OfRun(S, b) == {c \in S : c[1] = b}
Waiting == waiting["score"] \cup waiting["generation"]

Init ==
  /\ waiting = [k \in Kinds |-> {}] /\ begun = {} /\ ended = {}
  /\ \A b \in Runs : passed[b] = 0
  /\ gate = "open"

Accept(c, k) ==
  /\ gate = "open"
  /\ c \notin Waiting \cup begun \cup ended
  /\ Cardinality(OfRun(Waiting, c[1])) < MaxQueued
  /\ waiting' = [waiting EXCEPT ![k] = @ \cup {c}]
  /\ UNCHANGED <<begun, ended, passed, gate>>

\* The request passes a generation of its run.
Passes(c, k) == k = "score" /\ OfRun(waiting["generation"], c[1]) # {}

Begin(c, k) ==
  /\ c \in waiting[k]
  /\ Cardinality(begun) < MaxActive
  /\ Cardinality(OfRun(begun, c[1])) < PerRun
  /\ Passes(c, k) => passed[c[1]] < MaxPassed
  /\ waiting' = [waiting EXCEPT ![k] = @ \ {c}]
  /\ begun' = begun \cup {c}
  /\ passed' = [passed EXCEPT ![c[1]] = IF Passes(c, k) THEN @ + 1 ELSE 0]
  /\ UNCHANGED <<ended, gate>>

End(c) ==
  /\ c \in begun
  /\ begun' = begun \ {c} /\ ended' = ended \cup {c}
  /\ UNCHANGED <<waiting, passed, gate>>

Answer(c) ==
  /\ c \in ended
  /\ ended' = ended \ {c}
  /\ UNCHANGED <<waiting, begun, passed, gate>>

Close ==
  /\ gate = "open"
  /\ gate' = "closing"
  /\ UNCHANGED <<waiting, begun, ended, passed>>

Closed ==
  /\ gate = "closing"
  /\ Waiting \cup begun \cup ended = {}
  /\ gate' = "closed"
  /\ UNCHANGED <<waiting, begun, ended, passed>>

Next ==
  \/ \E c \in Callers :
       \/ \E k \in Kinds : Accept(c, k) \/ Begin(c, k)
       \/ End(c) \/ Answer(c)
  \/ Close \/ Closed

Spec == Init /\ [][Next]_vars
=============================================================================
