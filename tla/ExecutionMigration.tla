------------------------- MODULE ExecutionMigration -------------------------
(***************************************************************************)
(* The rebinding of a stopped run to other code and configuration          *)
(* (budgetsi/execution_migration.py) next to the run itself (formal_run.py *)
(* and the ledger of run_state.py, of which RunLedger has the inside).     *)
(* Operators plan without a lock and apply plan files under the run's      *)
(* lock; runs commit, stop and resume in between.                          *)
(*                                                                         *)
(* Binding b is the b-th pair of configuration and commit; a plan goes     *)
(* from one to the next.  That the pairs differ in execution only          *)
(* (verify_config, verify_code) and that the checkpoint is sound           *)
(* (verify_checkpoint) is taken for granted.  A digest is represented by   *)
(* what it is the digest of.  Processes may be killed at every step; a     *)
(* file that was written stays (power failures are RunLedger's).           *)
(***************************************************************************)
EXTENDS Naturals

CONSTANTS
  Operators,        \* processes that plan and apply
  MaxBinding,       \* bound: bindings
  MaxCommits,       \* bound: batches committed
  PlanWhileRunning  \* whether plans are made while the run is going, too

ASSUME MigrationAssumption ==
  /\ MaxBinding \in Nat \ {0} /\ MaxCommits \in Nat
  /\ PlanWhileRunning \in BOOLEAN
  /\ "run" \notin Operators /\ "nobody" \notin Operators

VARIABLES
  state,     \* state.json: the binding and the committed batches
  config,    \* the binding that config.json belongs to
  lock,      \* who holds run.lock
  run,       \* the training process
  operator,  \* what each operator does, with which plan
  plans,     \* the plan files that were written
  journal,   \* execution_migrations/<id>, by the old binding
  receipts,  \* the migrations that have a receipt
  commits    \* history: batches ever committed

files == <<state, config, plans, journal, receipts>>
vars == <<files, lock, run, operator, commits>>

Bindings == 1..MaxBinding
States == [binding : Bindings, updates : SUBSET (1..MaxCommits)]

\* id: the old binding.  old: the state to carry over.  file, config: what apply is to
\* find in state.json and config.json.
Plans == [id : Bindings, old : States, file : States, config : Bindings]

NoPlan == [id |-> 0]

New(p) == [p.old EXCEPT !.binding = p.id + 1]

\* No journal, one without plan.json, and one with it.
Absent == [at |-> "absent", plan |-> NoPlan]
Partial == [at |-> "partial", plan |-> NoPlan]
Complete(p) == [at |-> "complete", plan |-> p]

\* knows: the ledger in the memory of the process.
Init ==
  /\ state = [binding |-> 1, updates |-> {}]
  /\ config = 1
  /\ lock = "nobody"
  /\ run = [at |-> "down", knows |-> state]
  /\ operator = [o \in Operators |-> [at |-> "idle", plan |-> NoPlan]]
  /\ plans = {}
  /\ journal = [b \in Bindings |-> Absent]
  /\ receipts = {}
  /\ commits = 0

-----------------------------------------------------------------------------
(* The run *)

Free == lock = "nobody"

\* Any start but one with the binding of the ledger is refused.
Resume ==
  /\ run.at = "down" /\ Free
  /\ PlanWhileRunning \/ \A o \in Operators : operator[o].at # "plan"
  /\ lock' = "run"
  /\ run' = [at |-> "resumed", knows |-> state]
  /\ UNCHANGED <<files, operator, commits>>

\* config.json is replaced when the assets are verified.
Configure ==
  /\ run.at = "resumed"
  /\ config' = run.knows.binding
  /\ run' = [run EXCEPT !.at = "up"]
  /\ UNCHANGED <<state, plans, journal, receipts, lock, operator, commits>>

Commit ==
  /\ run.at = "up" /\ commits < MaxCommits
  /\ commits' = commits + 1
  /\ run' = [run EXCEPT !.knows.updates = @ \cup {commits'}]
  /\ state' = run'.knows
  /\ UNCHANGED <<config, plans, journal, receipts, lock, operator>>

Stop ==
  /\ run.at # "down"
  /\ run' = [run EXCEPT !.at = "down"]
  /\ lock' = IF lock = "run" THEN "nobody" ELSE lock
  /\ UNCHANGED <<files, operator, commits>>

-----------------------------------------------------------------------------
(* Planning *)

\* config.json and state.json are read; a ledger without an update is refused.
BeginPlan(o) ==
  /\ operator[o].at = "idle"
  /\ PlanWhileRunning \/ run.at = "down"
  /\ config = state.binding /\ config < MaxBinding /\ state.updates # {}
  /\ operator' = [operator EXCEPT ![o] =
       [at |-> "plan", plan |-> [id |-> config, old |-> state, file |-> state, config |-> config]]]
  /\ UNCHANGED <<files, lock, run, commits>>

\* The digests are taken after the code and the checkpoint have been verified.
EndPlan(o) ==
  /\ operator[o].at = "plan"
  /\ plans' = plans \cup {[operator[o].plan EXCEPT !.file = state, !.config = config]}
  /\ operator' = [operator EXCEPT ![o] = [at |-> "idle", plan |-> NoPlan]]
  /\ UNCHANGED <<state, config, journal, receipts, lock, run, commits>>

-----------------------------------------------------------------------------
(* Applying *)

Goto(o, at) == operator' = [operator EXCEPT ![o].at = at]

\* Mutant of Unchanged: only the binding is compared.
UnchangedBinding(p) == state.binding = p.file.binding /\ config = p.config

\* The run is as it was planned for.
Unchanged(p) == state = p.file /\ config = p.config

\* The state is published already; the receipt may be missing.
Published(p) == state = New(p) /\ journal[p.id].at = "complete"

\* Mutant of FirstStep: the state first.
FirstStepState(p) == "state"

\* A journal that is complete is taken over.
FirstStep(p) == IF journal[p.id] = Complete(p) THEN "state" ELSE "journal"

\* A journal that is not complete, or of another plan, is refused.
BeginApply(o, p) ==
  /\ operator[o].at = "idle" /\ Free
  /\ IF Published(p) THEN journal[p.id] = Complete(p)
     ELSE Unchanged(p) /\ journal[p.id] \in {Absent, Complete(p)}
  /\ lock' = o
  /\ operator' = [operator EXCEPT ![o] =
       [at |-> IF Published(p) THEN "receipt" ELSE FirstStep(p), plan |-> p]]
  /\ UNCHANGED <<files, run, commits>>

\* The directory and its files, plan.json last.
MakeJournal(o) ==
  /\ operator[o].at = "journal"
  /\ journal' = [journal EXCEPT ![operator[o].plan.id] = Partial]
  /\ Goto(o, "publish")
  /\ UNCHANGED <<state, config, plans, receipts, lock, run, commits>>

PublishPlan(o) ==
  /\ operator[o].at = "publish"
  /\ journal' = [journal EXCEPT ![operator[o].plan.id] = Complete(operator[o].plan)]
  /\ Goto(o, "state")
  /\ UNCHANGED <<state, config, plans, receipts, lock, run, commits>>

WriteState(o) ==
  /\ operator[o].at = "state"
  /\ state' = New(operator[o].plan)
  /\ Goto(o, "receipt")
  /\ UNCHANGED <<config, plans, journal, receipts, lock, run, commits>>

Leave(o) ==
  /\ lock' = IF lock = o THEN "nobody" ELSE lock
  /\ operator' = [operator EXCEPT ![o] = [at |-> "idle", plan |-> NoPlan]]

WriteReceipt(o) ==
  /\ operator[o].at = "receipt"
  /\ receipts' = receipts \cup {operator[o].plan.id}
  /\ Leave(o)
  /\ UNCHANGED <<state, config, plans, journal, run, commits>>

Kill(o) ==
  /\ operator[o].at # "idle"
  /\ Leave(o)
  /\ UNCHANGED <<files, run, commits>>

Next ==
  \/ Resume \/ Configure \/ Commit \/ Stop
  \/ \E o \in Operators :
       \/ BeginPlan(o) \/ EndPlan(o) \/ MakeJournal(o) \/ PublishPlan(o) \/ WriteState(o)
       \/ WriteReceipt(o) \/ Kill(o)
       \/ \E p \in plans : BeginApply(o, p)

Spec == Init /\ [][Next]_vars

-----------------------------------------------------------------------------
(* Correctness *)

\* The variables keep their types.
TypeOK ==
  /\ state \in States /\ config \in Bindings
  /\ lock \in {"nobody", "run"} \cup Operators
  /\ run \in [at : {"down", "resumed", "up"}, knows : States]
  /\ operator \in [Operators -> [at : {"idle", "plan", "journal", "publish", "state", "receipt"},
                                 plan : Plans \cup {NoPlan}]]
  /\ plans \subseteq Plans
  /\ journal \in [Bindings -> {Absent, Partial} \cup {Complete(p) : p \in Plans}]
  /\ receipts \subseteq Bindings
  /\ commits \in 0..MaxCommits

\* "Existing committed history is retained" (execution_migration.py:5): no batch that
\* was ever committed is lost, whatever plans are applied, however late and however
\* often, and whatever the run does meanwhile.  It is lost when the run commits between
\* the two times at which a plan reads the ledger (execution_migration.py:265, 280),
\* which apply does not notice (305): not while PlanWhileRunning is FALSE.
Kept == state.updates \subseteq state'.updates
HistoryKept == [][Kept]_vars

\* The run is rebound only with a complete journal of the rebinding, of which a resumed
\* apply needs plan.json, and whose old state is a part of the history; a receipt tells
\* of nothing else (execution_migration.py:297-317).
Journaled ==
  /\ \A b \in 1..state.binding - 1 :
       journal[b].at = "complete" /\ journal[b].plan.old.updates \subseteq state.updates
  /\ \A b \in receipts : b < state.binding
=============================================================================
