---------------------- MODULE ExecutionMigrationProofs ----------------------
(***************************************************************************)
(* What is proved of ExecutionMigration for every number of operators,     *)
(* bindings and batches, as long as plans are made of a stopped run: a run *)
(* is rebound only with its journal, no committed batch is lost, and the   *)
(* binding moves one further at a time and is never taken back.            *)
(***************************************************************************)
EXTENDS ExecutionMigration, TLAPS

Rebinding == {"journal", "publish", "state"}
Applying == Rebinding \cup {"receipt"}

\* Whoever writes has the lock.
LockSound ==
  /\ run.at # "down" <=> lock = "run"
  /\ \A o \in Operators : operator[o].at \in Applying <=> lock = o

\* A run that is up has in memory what is on disk, and config.json may lag behind.
RunSound ==
  /\ run.at # "down" => run.knows = state
  /\ config <= state.binding

\* The ledger a plan carries over has the batches of the one it expects, whose binding
\* may already be the new one, if another apply came between its two reads.
Carries(p) ==
  /\ p \in Plans /\ p.id < MaxBinding
  /\ p.old.binding = p.id
  /\ p.old.updates = p.file.updates
  /\ p.file.binding \in {p.id, p.id + 1}

PlansSound == \A p \in plans : Carries(p) /\ p.id <= config

PlannerSound(o) ==
  LET p == operator[o].plan IN
  operator[o].at = "plan" =>
    /\ run.at = "down"
    /\ p \in Plans /\ p.id < MaxBinding
    /\ p.id = config /\ p.old.binding = p.id
    /\ p.old.updates = state.updates
    /\ state.binding \in {p.id, p.id + 1}

\* Between the first and the last write of an apply nobody else changes the run.
ApplierSound(o) ==
  LET p == operator[o].plan IN
  /\ operator[o].at \in Rebinding =>
       p \in plans /\ state = p.file /\ state.binding = p.id
  /\ operator[o].at = "state" => journal[p.id] = Complete(p)
  /\ operator[o].at = "receipt" => p \in plans /\ p.id < state.binding

IInv ==
  /\ TypeOK
  /\ LockSound
  /\ RunSound
  /\ PlansSound
  /\ \A o \in Operators : PlannerSound(o) /\ ApplierSound(o)
  /\ Journaled

-----------------------------------------------------------------------------
(* Types *)

Places == {"idle", "plan", "journal", "publish", "state", "receipt"}
Operations == [at : Places, plan : Plans \cup {NoPlan}]

\* What an operator turns into, and that the others stay what they are (Goto).
LEMMA GoneTo ==
  ASSUME TypeOK, NEW o \in Operators, NEW at \in Places, Goto(o, at)
  PROVE  /\ operator' \in [Operators -> Operations]
         /\ operator'[o].at = at /\ operator'[o].plan = operator[o].plan
         /\ \A q \in Operators \ {o} : operator'[q] = operator[q]
<1> USE DEF Operations
<1>1. operator \in [Operators -> Operations] BY DEF TypeOK, Places
<1>2. operator[o] \in Operations BY <1>1
<1>3. [operator[o] EXCEPT !.at = at] \in Operations BY <1>2
<1>4. operator' = [operator EXCEPT ![o] = [operator[o] EXCEPT !.at = at]] BY DEF Goto
<1> HIDE DEF Operations
<1>5. operator'[o] = [operator[o] EXCEPT !.at = at] BY <1>1, <1>4
<1>6. operator' \in [Operators -> Operations] BY <1>1, <1>3, <1>4
<1>7. \A q \in Operators \ {o} : operator'[q] = operator[q] BY <1>1, <1>4
<1>8. operator'[o].at = at /\ operator'[o].plan = operator[o].plan
  BY <1>2, <1>5 DEF Operations
<1> QED BY <1>6, <1>7, <1>8

\* The same for an operator that begins or ends an operation.
LEMMA Became ==
  ASSUME TypeOK, NEW o \in Operators, NEW at \in Places, NEW p \in Plans \cup {NoPlan},
         operator' = [operator EXCEPT ![o] = [at |-> at, plan |-> p]]
  PROVE  /\ operator' \in [Operators -> Operations]
         /\ operator'[o].at = at /\ operator'[o].plan = p
         /\ \A q \in Operators \ {o} : operator'[q] = operator[q]
<1>1. operator \in [Operators -> Operations] BY DEF TypeOK, Places, Operations
<1>2. [at |-> at, plan |-> p] \in Operations BY DEF Operations
<1>3. operator'[o] = [at |-> at, plan |-> p] BY <1>1
<1> QED BY <1>1, <1>2, <1>3

LEMMA PlanFields ==
  ASSUME NEW p \in Plans
  PROVE  /\ p.id \in Bindings /\ p.old \in States /\ p.file \in States /\ p.config \in Bindings
BY DEF Plans

LEMMA StateFields ==
  ASSUME NEW s \in States
  PROVE  /\ s.binding \in Bindings /\ s.updates \subseteq 1..MaxCommits
         /\ s = [binding |-> s.binding, updates |-> s.updates]
BY DEF States

LEMMA NewFields ==
  ASSUME NEW p \in Plans, p.id < MaxBinding
  PROVE  /\ New(p) \in States
         /\ New(p).binding = p.id + 1 /\ New(p).updates = p.old.updates
BY MigrationAssumption, PlanFields, StateFields DEF New, States, Bindings

LEMMA SameState ==
  ASSUME NEW s \in States, NEW t \in States, s.binding = t.binding, s.updates = t.updates
  PROVE  s = t
BY StateFields

-----------------------------------------------------------------------------
(* The initial state and the steps of the run *)

LEMMA InitInvariant == Init => IInv
<1> SUFFICES ASSUME Init PROVE IInv
  OBVIOUS
<1> USE MigrationAssumption DEF Init
<1>1. state \in States BY DEF States, Bindings
<1>2. TypeOK BY <1>1 DEF TypeOK, Bindings, Absent
<1>3. LockSound BY DEF LockSound, Applying, Rebinding
<1>4. RunSound BY DEF RunSound
<1>5. PlansSound BY DEF PlansSound
<1>6. \A o \in Operators : PlannerSound(o) /\ ApplierSound(o)
  BY DEF PlannerSound, ApplierSound, Rebinding
<1>7. Journaled BY DEF Journaled
<1> QED BY <1>2, <1>3, <1>4, <1>5, <1>6, <1>7 DEF IInv

LEMMA ResumeStep == ASSUME IInv, ~PlanWhileRunning, Resume PROVE IInv'
<1> USE DEF IInv, Resume, files
<1>0. TypeOK BY DEF IInv
<1>1. TypeOK' BY <1>0 DEF TypeOK
<1>2. LockSound' BY MigrationAssumption DEF LockSound, Free, Applying, Rebinding
<1>3. RunSound' BY DEF RunSound
<1>4. PlansSound' BY DEF PlansSound, Carries
<1>5. ASSUME NEW o \in Operators PROVE PlannerSound(o)'
  BY <1>5 DEF PlannerSound
<1>6. ASSUME NEW o \in Operators PROVE ApplierSound(o)'
  BY <1>6 DEF ApplierSound
<1>7. Journaled' BY DEF Journaled
<1> QED BY <1>1, <1>2, <1>3, <1>4, <1>5, <1>6, <1>7

LEMMA ConfigureStep == ASSUME IInv, Configure PROVE IInv'
<1> USE DEF IInv, Configure
<1>0. TypeOK BY DEF IInv
<1>1. run.knows = state /\ run'.knows = state BY <1>0 DEF RunSound, TypeOK
<1>2. run'.at = "up" /\ run' \in [at : {"down", "resumed", "up"}, knows : States]
  BY <1>0 DEF TypeOK
<1>3. state.binding \in Bindings /\ config \in Bindings BY <1>0, StateFields DEF TypeOK
<1>4. TypeOK' BY <1>0, <1>1, <1>2, <1>3 DEF TypeOK
<1>5. LockSound' BY <1>2 DEF LockSound
<1>6. RunSound' BY <1>1, <1>3 DEF RunSound, Bindings
<1>7. PlansSound'
  <2> SUFFICES ASSUME NEW p \in plans PROVE Carries(p) /\ p.id <= config'
    BY DEF PlansSound, Carries
  <2>1. Carries(p) /\ p.id <= config /\ p.id \in Bindings BY PlanFields DEF PlansSound, Carries
  <2>2. config <= config' BY <1>1 DEF RunSound
  <2> QED BY <2>1, <2>2, <1>1, <1>3, MigrationAssumption DEF Bindings
<1>8. ASSUME NEW o \in Operators PROVE PlannerSound(o)'
  BY <1>8 DEF PlannerSound
<1>9. ASSUME NEW o \in Operators PROVE ApplierSound(o)'
  BY <1>9 DEF ApplierSound
<1>10. Journaled' BY DEF Journaled
<1> QED BY <1>4, <1>5, <1>6, <1>7, <1>8, <1>9, <1>10

\* A commit adds to the ledger in memory, which is the one on disk.
LEMMA Committed ==
  ASSUME IInv, Commit
  PROVE  /\ run'.at = "up" /\ run'.knows = state'
         /\ state' \in States
         /\ state'.binding = state.binding
         /\ state.updates \subseteq state'.updates
<1>0. TypeOK BY DEF IInv
<1>1. run.knows = state BY DEF IInv, RunSound, Commit
<1>2. run \in [at : {"down", "resumed", "up"}, knows : States] BY <1>0 DEF TypeOK
<1>3. commits' \in 1..MaxCommits BY <1>0, MigrationAssumption DEF Commit, TypeOK
<1> DEFINE next == [run.knows EXCEPT !.updates = @ \cup {commits'}]
<1>4. /\ next \in States /\ next.binding = run.knows.binding
      /\ next.updates = run.knows.updates \cup {commits'}
  BY <1>2, <1>3, StateFields DEF States
<1>5. run' = [run EXCEPT !.knows = next] BY DEF Commit
<1> HIDE DEF next
<1>6. run'.at = run.at /\ run'.knows = next BY <1>2, <1>5
<1>7. state' = next BY <1>6 DEF Commit
<1> QED BY <1>1, <1>4, <1>6, <1>7 DEF Commit

LEMMA CommitStep == ASSUME IInv, Commit PROVE IInv'
<1> USE DEF IInv
<1>0. TypeOK BY DEF IInv
<1>1. UNCHANGED <<config, plans, journal, receipts, lock, operator>> /\ run.at = "up"
  BY DEF Commit
<1>3. TypeOK'
  <2>1. commits' \in 0..MaxCommits BY <1>0, MigrationAssumption DEF Commit, TypeOK
  <2>2. run' \in [at : {"down", "resumed", "up"}, knows : States]
    BY <1>0, Committed DEF Commit, TypeOK
  <2> QED BY <1>0, <1>1, <2>1, <2>2, Committed DEF TypeOK
<1>4. LockSound' BY <1>1, Committed DEF LockSound
<1>5. lock = "run" /\ \A o \in Operators : operator[o].at \notin Applying
  BY <1>1, MigrationAssumption DEF LockSound
<1>6. RunSound' BY <1>1, Committed DEF RunSound
<1>7. PlansSound' BY <1>1 DEF PlansSound, Carries
<1>8. ASSUME NEW o \in Operators PROVE PlannerSound(o)'
  BY <1>1, <1>8 DEF PlannerSound
<1>9. ASSUME NEW o \in Operators PROVE ApplierSound(o)'
  BY <1>1, <1>5, <1>9 DEF ApplierSound, Applying, Rebinding
<1>10. Journaled'
  <2>1. \A b \in 1..state'.binding - 1 :
          journal[b].at = "complete" /\ journal[b].plan.old.updates \subseteq state'.updates
    BY Committed DEF Journaled
  <2>2. \A b \in receipts : b < state'.binding BY Committed DEF Journaled
  <2> QED BY <1>1, <2>1, <2>2 DEF Journaled
<1> QED BY <1>3, <1>4, <1>6, <1>7, <1>8, <1>9, <1>10

LEMMA StopStep == ASSUME IInv, Stop PROVE IInv'
<1> USE DEF IInv, Stop, files
<1>0. TypeOK BY DEF IInv
<1>1. run' \in [at : {"down", "resumed", "up"}, knows : States] /\ run'.at = "down"
  BY <1>0 DEF TypeOK
<1>2. lock = "run" /\ lock' = "nobody" BY DEF LockSound
<1>3. TypeOK' BY <1>0, <1>1, <1>2 DEF TypeOK
<1>4. LockSound' BY <1>1, <1>2, MigrationAssumption DEF LockSound
<1>5. RunSound' BY <1>1 DEF RunSound
<1>6. PlansSound' BY DEF PlansSound, Carries
<1>7. ASSUME NEW o \in Operators PROVE PlannerSound(o)'
  BY <1>7 DEF PlannerSound
<1>8. ASSUME NEW o \in Operators PROVE ApplierSound(o)'
  BY <1>8 DEF ApplierSound
<1>9. Journaled' BY DEF Journaled
<1> QED BY <1>3, <1>4, <1>5, <1>6, <1>7, <1>8, <1>9

-----------------------------------------------------------------------------
(* Planning *)

LEMMA BeginPlanStep ==
  ASSUME IInv, ~PlanWhileRunning, NEW o \in Operators, BeginPlan(o)
  PROVE  IInv'
<1> DEFINE p == [id |-> config, old |-> state, file |-> state, config |-> config]
<1> USE DEF IInv
<1>0. TypeOK BY DEF IInv
<1>1. UNCHANGED <<files, lock, run, commits>> /\ run.at = "down" /\ operator[o].at = "idle"
  BY DEF BeginPlan
<1>2. config = state.binding /\ config < MaxBinding BY DEF BeginPlan
<1>3. p \in Plans BY <1>0 DEF TypeOK, Plans
<1>4. /\ operator' \in [Operators -> Operations]
      /\ operator'[o].at = "plan" /\ operator'[o].plan = p
      /\ \A q \in Operators \ {o} : operator'[q] = operator[q]
  BY <1>0, <1>3, Became DEF BeginPlan, Places
<1>5. p.id = config /\ p.old = state OBVIOUS
<1> HIDE DEF p
<1>6. TypeOK' BY <1>0, <1>1, <1>4 DEF TypeOK, files, Operations, Places
<1>7. LockSound' BY <1>1, <1>4 DEF LockSound, files, Applying, Rebinding
<1>8. RunSound' BY <1>1 DEF RunSound, files
<1>9. PlansSound' BY <1>1 DEF PlansSound, Carries, files
<1>10. ASSUME NEW q \in Operators PROVE PlannerSound(q)'
  <2>1. CASE q = o BY <1>1, <1>2, <1>3, <1>4, <1>5, <2>1 DEF PlannerSound, files
  <2>2. CASE q # o BY <1>1, <1>4, <2>2 DEF PlannerSound, files
  <2> QED BY <2>1, <2>2
<1>11. ASSUME NEW q \in Operators PROVE ApplierSound(q)'
  <2>1. CASE q = o BY <1>4, <2>1 DEF ApplierSound, Rebinding
  <2>2. CASE q # o BY <1>1, <1>4, <2>2 DEF ApplierSound, files
  <2> QED BY <2>1, <2>2
<1>12. Journaled' BY <1>1 DEF Journaled, files
<1> QED BY <1>6, <1>7, <1>8, <1>9, <1>10, <1>11, <1>12

\* An operator that is done, or killed.
LEMMA BecameIdle ==
  ASSUME IInv, NEW o \in Operators,
         operator' = [operator EXCEPT ![o] = [at |-> "idle", plan |-> NoPlan]],
         lock' = IF lock = o THEN "nobody" ELSE lock,
         UNCHANGED <<state, config, run, commits>>
  PROVE  /\ operator' \in [Operators -> Operations] /\ lock' \in {"nobody", "run"} \cup Operators
         /\ LockSound'
         /\ \A q \in Operators : operator'[q] = operator[q] \/ operator'[q].at = "idle"
<1> USE DEF IInv
<1>0. TypeOK BY DEF IInv
<1>1. /\ operator' \in [Operators -> Operations]
      /\ operator'[o].at = "idle" /\ \A q \in Operators \ {o} : operator'[q] = operator[q]
  BY <1>0, Became DEF Places
<1>2. lock' \in {"nobody", "run"} \cup Operators BY <1>0 DEF TypeOK
<1>3. run'.at # "down" <=> lock' = "run" BY MigrationAssumption DEF LockSound
<1>4. ASSUME NEW q \in Operators PROVE operator'[q].at \in Applying <=> lock' = q
  <2>1. CASE q = o
    BY <1>1, <2>1, MigrationAssumption DEF Applying, Rebinding
  <2>2. CASE q # o
    BY <1>1, <2>2, MigrationAssumption DEF LockSound
  <2> QED BY <2>1, <2>2
<1> QED BY <1>1, <1>2, <1>3, <1>4 DEF LockSound

LEMMA EndPlanStep ==
  ASSUME IInv, NEW o \in Operators, EndPlan(o)
  PROVE  IInv'
<1> DEFINE p == operator[o].plan
           r == [p EXCEPT !.file = state, !.config = config]
<1> USE DEF IInv
<1>0. TypeOK BY DEF IInv
<1>1. UNCHANGED <<state, config, journal, receipts, lock, run, commits>> BY DEF EndPlan
<1>2. /\ p \in Plans /\ p.id < MaxBinding
      /\ p.id = config /\ p.old.binding = p.id
      /\ p.old.updates = state.updates
      /\ state.binding \in {p.id, p.id + 1}
  BY DEF PlannerSound, EndPlan
<1>3. /\ r \in Plans /\ r.id = p.id /\ r.old = p.old /\ r.file = state
  BY <1>0, <1>2 DEF TypeOK, Plans
<1>4. plans' = plans \cup {r} BY DEF EndPlan
<1>5. operator[o].at \notin Applying BY DEF EndPlan, Applying, Rebinding
<1>6. lock # o /\ lock' = IF lock = o THEN "nobody" ELSE lock BY <1>1, <1>5 DEF LockSound
<1> HIDE DEF p, r
<1>7. /\ operator' \in [Operators -> Operations] /\ LockSound'
      /\ \A q \in Operators : operator'[q] = operator[q] \/ operator'[q].at = "idle"
  BY <1>1, <1>6, BecameIdle DEF EndPlan
<1>8. TypeOK' BY <1>0, <1>1, <1>3, <1>4, <1>7 DEF TypeOK, Operations, Places
<1>9. RunSound' BY <1>1 DEF RunSound
<1>10. PlansSound'
  <2>1. Carries(r) /\ r.id <= config
    BY <1>0, <1>2, <1>3, MigrationAssumption DEF Carries, TypeOK, Bindings
  <2> QED BY <1>1, <1>4, <2>1 DEF PlansSound, Carries
<1>11. ASSUME NEW q \in Operators PROVE PlannerSound(q)'
  BY <1>1, <1>7, <1>11 DEF PlannerSound
<1>12. ASSUME NEW q \in Operators PROVE ApplierSound(q)'
  BY <1>1, <1>4, <1>7, <1>12 DEF ApplierSound, Rebinding
<1>13. Journaled' BY <1>1 DEF Journaled
<1> QED BY <1>7, <1>8, <1>9, <1>10, <1>11, <1>12, <1>13

LEMMA KillStep ==
  ASSUME IInv, NEW o \in Operators, Kill(o)
  PROVE  IInv'
<1> USE DEF IInv
<1>0. TypeOK BY DEF IInv
<1>1. UNCHANGED <<files, run, commits>> BY DEF Kill
<1>2. /\ operator' \in [Operators -> Operations] /\ lock' \in {"nobody", "run"} \cup Operators
      /\ LockSound'
      /\ \A q \in Operators : operator'[q] = operator[q] \/ operator'[q].at = "idle"
  BY <1>1, BecameIdle DEF Kill, Leave, files
<1>3. TypeOK' BY <1>0, <1>1, <1>2 DEF TypeOK, files, Operations, Places
<1>4. RunSound' BY <1>1 DEF RunSound, files
<1>5. PlansSound' BY <1>1 DEF PlansSound, Carries, files
<1>6. ASSUME NEW q \in Operators PROVE PlannerSound(q)'
  BY <1>1, <1>2, <1>6 DEF PlannerSound, files
<1>7. ASSUME NEW q \in Operators PROVE ApplierSound(q)'
  BY <1>1, <1>2, <1>7 DEF ApplierSound, Rebinding, files
<1>8. Journaled' BY <1>1 DEF Journaled, files
<1> QED BY <1>2, <1>3, <1>4, <1>5, <1>6, <1>7, <1>8

-----------------------------------------------------------------------------
(* Applying *)

\* A plan that passes the comparison goes from the binding the run has; if the ledger
\* has the new binding already, it is published.
LEMMA PassedSound ==
  ASSUME IInv, NEW p \in plans, ~Published(p), Unchanged(p)
  PROVE  state = p.file /\ state.binding = p.id
<1> USE DEF IInv
<1>0. TypeOK BY DEF IInv
<1>1. Carries(p) /\ p.id <= config /\ p.id \in Bindings
  BY PlanFields DEF PlansSound, Carries
<1>2. state = p.file /\ state \in States BY <1>0 DEF Unchanged, TypeOK
<1>3. ASSUME state.binding = p.id + 1 PROVE FALSE
  <2>1. New(p) \in States /\ New(p).binding = p.id + 1 /\ New(p).updates = p.old.updates
    BY <1>1, NewFields DEF Carries
  <2>2. state = New(p) BY <1>1, <1>2, <1>3, <2>1, SameState DEF Carries
  <2>3. journal[p.id].at = "complete"
    BY <1>1, <1>3, MigrationAssumption DEF Journaled, Bindings
  <2> QED BY <2>2, <2>3 DEF Published
<1> QED BY <1>1, <1>2, <1>3 DEF Carries

LEMMA BeginApplyStep ==
  ASSUME IInv, NEW o \in Operators, NEW p \in plans, BeginApply(o, p)
  PROVE  IInv'
<1> DEFINE at == IF Published(p) THEN "receipt" ELSE FirstStep(p)
<1> USE DEF IInv
<1>0. TypeOK BY DEF IInv
<1>1. /\ UNCHANGED <<files, run, commits>> /\ lock' = o /\ lock = "nobody"
      /\ operator[o].at = "idle"
  BY DEF BeginApply, Free
<1>2. p \in Plans /\ p.id \in Bindings /\ p.id < MaxBinding
  BY PlanFields DEF PlansSound, Carries
<1>3. at \in Applying /\ at \in Places BY DEF FirstStep, Applying, Rebinding, Places
<1>4. operator' = [operator EXCEPT ![o] = [at |-> at, plan |-> p]] BY DEF BeginApply
<1>5. Published(p) <=> at = "receipt" BY DEF FirstStep
<1>6. at = "state" => journal[p.id] = Complete(p) BY DEF FirstStep
<1>7. ~Published(p) => Unchanged(p) BY DEF BeginApply
<1> HIDE DEF at
<1>8. /\ operator' \in [Operators -> Operations]
      /\ operator'[o].at = at /\ operator'[o].plan = p
      /\ \A q \in Operators \ {o} : operator'[q] = operator[q]
  BY <1>0, <1>2, <1>3, <1>4, Became
<1>9. TypeOK' BY <1>0, <1>1, <1>8 DEF TypeOK, files, Operations, Places
<1>10. LockSound'
  <2>1. run'.at = "down" BY <1>1, MigrationAssumption DEF LockSound
  <2>2. ASSUME NEW q \in Operators PROVE operator'[q].at \in Applying <=> lock' = q
    BY <1>1, <1>3, <1>8, <2>2, MigrationAssumption DEF LockSound
  <2> QED BY <1>1, <2>1, <2>2, MigrationAssumption DEF LockSound
<1>11. RunSound' BY <1>1 DEF RunSound, files
<1>12. PlansSound' BY <1>1 DEF PlansSound, Carries, files
<1>13. ASSUME NEW q \in Operators PROVE PlannerSound(q)'
  <2>1. CASE q = o BY <1>3, <1>8, <2>1 DEF PlannerSound, Applying, Rebinding
  <2>2. CASE q # o BY <1>1, <1>8, <2>2 DEF PlannerSound, files
  <2> QED BY <2>1, <2>2
<1>14. ASSUME NEW q \in Operators PROVE ApplierSound(q)'
  <2>1. CASE q = o
    <3>1. CASE Published(p)
      <4>1. state.binding = p.id + 1
        BY <1>2, <3>1, NewFields DEF Published
      <4> QED BY <1>1, <1>2, <1>5, <1>8, <2>1, <3>1, <4>1, MigrationAssumption
           DEF ApplierSound, files, Rebinding, Bindings
    <3>2. CASE ~Published(p)
      <4>1. state = p.file /\ state.binding = p.id BY <1>7, <3>2, PassedSound
      <4> QED BY <1>1, <1>5, <1>6, <1>8, <2>1, <3>2, <4>1 DEF ApplierSound, files
    <3> QED BY <3>1, <3>2
  <2>2. CASE q # o BY <1>1, <1>8, <2>2 DEF ApplierSound, files
  <2> QED BY <2>1, <2>2
<1>15. Journaled' BY <1>1 DEF Journaled, files
<1> QED BY <1>9, <1>10, <1>11, <1>12, <1>13, <1>14, <1>15

\* What is common to the writes: the operator has the lock, nobody else is applying,
\* the run is down.
LEMMA Writing ==
  ASSUME IInv, NEW o \in Operators, operator[o].at \in Applying
  PROVE  /\ lock = o /\ run.at = "down"
         /\ \A q \in Operators \ {o} : operator[q].at \notin Applying
         /\ operator[o].plan \in plans /\ operator[o].plan \in Plans
         /\ operator[o].plan.id \in Bindings
         /\ Carries(operator[o].plan) /\ operator[o].plan.id <= config
<1> USE DEF IInv
<1>1. lock = o BY DEF LockSound
<1>2. run.at = "down" BY <1>1, MigrationAssumption DEF LockSound
<1>3. \A q \in Operators \ {o} : operator[q].at \notin Applying BY <1>1 DEF LockSound
<1>4. operator[o].plan \in plans BY DEF ApplierSound, Applying
<1>5. Carries(operator[o].plan) /\ operator[o].plan.id <= config BY <1>4 DEF PlansSound
<1>6. operator[o].plan \in Plans BY <1>5 DEF Carries
<1> QED BY <1>1, <1>2, <1>3, <1>4, <1>5, <1>6, PlanFields

\* A step from one write to the next that keeps the ledger.
LEMMA NextWrite ==
  ASSUME IInv, NEW o \in Operators, operator[o].at \in Rebinding,
         NEW at \in {"publish", "state"}, NEW entry \in {Partial, Complete(operator[o].plan)},
         Goto(o, at), at = "state" => entry = Complete(operator[o].plan),
         journal' = [journal EXCEPT ![operator[o].plan.id] = entry],
         UNCHANGED <<state, config, plans, receipts, lock, run, commits>>
  PROVE  IInv'
<1> DEFINE p == operator[o].plan
<1> USE DEF IInv
<1>0. TypeOK BY DEF IInv
<1>1. /\ lock = o /\ run.at = "down"
      /\ \A q \in Operators \ {o} : operator[q].at \notin Applying
      /\ p \in plans /\ p \in Plans /\ p.id \in Bindings
  BY Writing DEF Applying
<1>2. state = p.file /\ state.binding = p.id BY DEF ApplierSound
<1>3. /\ operator' \in [Operators -> Operations]
      /\ operator'[o].at = at /\ operator'[o].plan = p
      /\ \A q \in Operators \ {o} : operator'[q] = operator[q]
  BY <1>0, GoneTo DEF Places
<1> HIDE DEF p
<1>4. journal' \in [Bindings -> {Absent, Partial} \cup {Complete(r) : r \in Plans}]
      /\ journal'[p.id] = entry
      /\ \A b \in Bindings \ {p.id} : journal'[b] = journal[b]
  <2>1. journal \in [Bindings -> {Absent, Partial} \cup {Complete(r) : r \in Plans}]
    BY <1>0 DEF TypeOK
  <2>2. entry \in {Absent, Partial} \cup {Complete(r) : r \in Plans}
    BY <1>1 DEF p
  <2>3. journal' = [journal EXCEPT ![p.id] = entry] BY DEF p
  <2> QED BY <1>1, <2>1, <2>2, <2>3
<1>5. TypeOK' BY <1>0, <1>3, <1>4 DEF TypeOK, Operations, Places
<1>6. LockSound'
  BY <1>1, <1>3, MigrationAssumption DEF LockSound, Applying, Rebinding
<1>7. RunSound' BY DEF RunSound
<1>8. PlansSound' BY DEF PlansSound, Carries
<1>9. ASSUME NEW q \in Operators PROVE PlannerSound(q)'
  BY <1>3, <1>9 DEF PlannerSound
<1>10. ASSUME NEW q \in Operators PROVE ApplierSound(q)'
  <2>1. CASE q = o
    <3>1. at = "state" => entry = Complete(p) BY DEF p
    <3> QED BY <1>1, <1>2, <1>3, <1>4, <2>1, <3>1 DEF ApplierSound
  <2>2. CASE q # o
    BY <1>1, <1>3, <2>2 DEF ApplierSound, Applying, Rebinding
  <2> QED BY <2>1, <2>2
<1>11. Journaled'
  <2>1. ASSUME NEW b \in 1..state.binding - 1 PROVE b \in Bindings /\ b # p.id
    BY <1>0, <1>2, <2>1, StateFields, MigrationAssumption DEF Bindings, TypeOK
  <2> QED BY <1>4, <2>1 DEF Journaled
<1> QED BY <1>5, <1>6, <1>7, <1>8, <1>9, <1>10, <1>11

LEMMA MakeJournalStep == ASSUME IInv, NEW o \in Operators, MakeJournal(o) PROVE IInv'
BY NextWrite DEF MakeJournal, Rebinding

LEMMA PublishPlanStep == ASSUME IInv, NEW o \in Operators, PublishPlan(o) PROVE IInv'
BY NextWrite DEF PublishPlan, Rebinding

\* The new state has the batches of the one it replaces.
LEMMA Rewritten ==
  ASSUME IInv, NEW o \in Operators, WriteState(o)
  PROVE  /\ state' \in States
         /\ state'.binding = state.binding + 1 /\ state.binding = operator[o].plan.id
         /\ state'.updates = state.updates
         /\ operator[o].plan.old.updates = state.updates
<1> USE DEF IInv
<1>1. operator[o].at = "state" /\ state' = New(operator[o].plan) BY DEF WriteState
<1>2. operator[o].plan \in Plans /\ Carries(operator[o].plan)
  BY <1>1, Writing DEF Applying, Rebinding
<1>3. state = operator[o].plan.file /\ state.binding = operator[o].plan.id
  BY <1>1 DEF ApplierSound, Rebinding
<1> QED BY <1>1, <1>2, <1>3, NewFields DEF Carries

LEMMA WriteStateStep == ASSUME IInv, NEW o \in Operators, WriteState(o) PROVE IInv'
<1> DEFINE p == operator[o].plan
<1> USE DEF IInv
<1>0. TypeOK BY DEF IInv
<1>1. /\ operator[o].at = "state" /\ Goto(o, "receipt")
      /\ UNCHANGED <<config, plans, journal, receipts, lock, run, commits>>
  BY DEF WriteState
<1>2. /\ lock = o /\ run.at = "down"
      /\ \A q \in Operators \ {o} : operator[q].at \notin Applying
      /\ p \in plans /\ p.id \in Bindings /\ p.id <= config
  BY <1>1, Writing DEF Applying, Rebinding
<1>3. /\ state' \in States /\ state'.binding = state.binding + 1 /\ state.binding = p.id
      /\ state'.updates = state.updates /\ p.old.updates = state.updates
  BY Rewritten
<1>4. journal[p.id] = Complete(p) BY <1>1 DEF ApplierSound
<1>5. /\ operator' \in [Operators -> Operations]
      /\ operator'[o].at = "receipt" /\ operator'[o].plan = p
      /\ \A q \in Operators \ {o} : operator'[q] = operator[q]
  BY <1>0, <1>1, GoneTo DEF Places
<1> HIDE DEF p
<1>6. config \in Bindings BY <1>0 DEF TypeOK
<1>7. TypeOK' BY <1>0, <1>1, <1>3, <1>5 DEF TypeOK, Operations, Places
<1>8. LockSound'
  BY <1>1, <1>2, <1>5, MigrationAssumption DEF LockSound, Applying, Rebinding
<1>9. RunSound' BY <1>1, <1>2, <1>3, <1>6, MigrationAssumption DEF RunSound, Bindings
<1>10. PlansSound' BY <1>1 DEF PlansSound, Carries
<1>11. ASSUME NEW q \in Operators PROVE PlannerSound(q)'
  <2>1. CASE q = o BY <1>5, <2>1 DEF PlannerSound
  <2>2. CASE q # o
    <3> SUFFICES ASSUME operator[q].at = "plan" PROVE PlannerSound(q)'
      BY <1>5, <2>2 DEF PlannerSound
    <3>1. operator[q].plan.id = config BY DEF PlannerSound
    <3>2. config = p.id BY <1>2, <1>3, <1>6, MigrationAssumption DEF RunSound, Bindings
    <3> QED BY <1>1, <1>3, <1>5, <2>2, <3>1, <3>2 DEF PlannerSound
  <2> QED BY <2>1, <2>2
<1>12. ASSUME NEW q \in Operators PROVE ApplierSound(q)'
  <2>1. CASE q = o
    BY <1>1, <1>2, <1>3, <1>5, <2>1, MigrationAssumption DEF ApplierSound, Rebinding, Bindings
  <2>2. CASE q # o
    BY <1>2, <1>5, <2>2 DEF ApplierSound, Applying, Rebinding
  <2> QED BY <2>1, <2>2
<1>13. Journaled'
  <2>1. ASSUME NEW b \in 1..state'.binding - 1
        PROVE  journal[b].at = "complete" /\ journal[b].plan.old.updates \subseteq state'.updates
    <3>1. CASE b = p.id BY <1>3, <1>4, <3>1 DEF Complete
    <3>2. CASE b # p.id
      <4>1. b \in 1..state.binding - 1
        BY <1>2, <1>3, <2>1, <3>2, MigrationAssumption DEF Bindings
      <4> QED BY <1>3, <4>1 DEF Journaled
    <3> QED BY <3>1, <3>2
  <2>2. ASSUME NEW b \in receipts PROVE b < state'.binding
    <3>1. b < state.binding /\ b \in Bindings BY <1>0 DEF Journaled, TypeOK
    <3> QED BY <1>2, <1>3, <3>1, MigrationAssumption DEF Bindings
  <2> QED BY <1>1, <2>1, <2>2 DEF Journaled
<1> QED BY <1>7, <1>8, <1>9, <1>10, <1>11, <1>12, <1>13

LEMMA WriteReceiptStep == ASSUME IInv, NEW o \in Operators, WriteReceipt(o) PROVE IInv'
<1> USE DEF IInv
<1>0. TypeOK BY DEF IInv
<1>1. /\ operator[o].at = "receipt" /\ receipts' = receipts \cup {operator[o].plan.id}
      /\ UNCHANGED <<state, config, plans, journal, run, commits>>
  BY DEF WriteReceipt
<1>2. operator[o].plan.id \in Bindings BY <1>1, Writing DEF Applying
<1>3. operator[o].plan.id < state.binding BY <1>1 DEF ApplierSound
<1>4. /\ operator' \in [Operators -> Operations] /\ lock' \in {"nobody", "run"} \cup Operators
      /\ LockSound'
      /\ \A q \in Operators : operator'[q] = operator[q] \/ operator'[q].at = "idle"
  BY <1>1, BecameIdle DEF WriteReceipt, Leave
<1>5. TypeOK' BY <1>0, <1>1, <1>2, <1>4 DEF TypeOK, Operations, Places
<1>6. RunSound' BY <1>1 DEF RunSound
<1>7. PlansSound' BY <1>1 DEF PlansSound, Carries
<1>8. ASSUME NEW q \in Operators PROVE PlannerSound(q)'
  BY <1>1, <1>4, <1>8 DEF PlannerSound
<1>9. ASSUME NEW q \in Operators PROVE ApplierSound(q)'
  BY <1>1, <1>4, <1>9 DEF ApplierSound, Rebinding
<1>10. Journaled' BY <1>1, <1>3 DEF Journaled
<1> QED BY <1>4, <1>5, <1>6, <1>7, <1>8, <1>9, <1>10

-----------------------------------------------------------------------------
(* Theorems *)

LEMMA StepInvariant ==
  ASSUME IInv, ~PlanWhileRunning, [Next]_vars
  PROVE  IInv'
<1>1. CASE Resume BY <1>1, ResumeStep
<1>2. CASE Configure BY <1>2, ConfigureStep
<1>3. CASE Commit BY <1>3, CommitStep
<1>4. CASE Stop BY <1>4, StopStep
<1>5. ASSUME NEW o \in Operators, BeginPlan(o) PROVE IInv' BY <1>5, BeginPlanStep
<1>6. ASSUME NEW o \in Operators, EndPlan(o) PROVE IInv' BY <1>6, EndPlanStep
<1>7. ASSUME NEW o \in Operators, MakeJournal(o) PROVE IInv' BY <1>7, MakeJournalStep
<1>8. ASSUME NEW o \in Operators, PublishPlan(o) PROVE IInv' BY <1>8, PublishPlanStep
<1>9. ASSUME NEW o \in Operators, WriteState(o) PROVE IInv' BY <1>9, WriteStateStep
<1>10. ASSUME NEW o \in Operators, WriteReceipt(o) PROVE IInv' BY <1>10, WriteReceiptStep
<1>11. ASSUME NEW o \in Operators, Kill(o) PROVE IInv' BY <1>11, KillStep
<1>12. ASSUME NEW o \in Operators, NEW p \in plans, BeginApply(o, p) PROVE IInv'
  BY <1>12, BeginApplyStep
<1>13. CASE UNCHANGED vars
  BY <1>13 DEF IInv, vars, files, TypeOK, LockSound, RunSound, PlansSound, Carries,
               PlannerSound, ApplierSound, Journaled
<1> QED
  BY <1>1, <1>2, <1>3, <1>4, <1>5, <1>6, <1>7, <1>8, <1>9, <1>10, <1>11, <1>12, <1>13
  DEF Next

LEMMA Inductive == ASSUME ~PlanWhileRunning PROVE Spec => []IInv
<1>1. Init => IInv BY InitInvariant
<1>2. IInv /\ [Next]_vars => IInv' BY StepInvariant
<1> QED BY <1>1, <1>2, PTL DEF Spec

\* A run is rebound only with a complete journal of the rebinding, whose old state is
\* part of its history, and a receipt tells of nothing else
\* (execution_migration.py:297-317): Journaled.
THEOREM AlwaysJournaled == ASSUME ~PlanWhileRunning PROVE Spec => []Journaled
<1>1. IInv => Journaled BY DEF IInv
<1> QED BY <1>1, Inductive, PTL

LEMMA StepKeeps == ASSUME IInv, [Next]_vars PROVE [Kept]_vars
<1>1. CASE Commit BY <1>1, Committed DEF Kept
<1>2. ASSUME NEW o \in Operators, WriteState(o) PROVE Kept BY <1>2, Rewritten DEF Kept
<1>3. CASE UNCHANGED state BY <1>3 DEF Kept
<1> QED
  BY <1>1, <1>2, <1>3
  DEF Next, vars, files, Resume, Configure, Stop, BeginPlan, EndPlan, BeginApply,
      MakeJournal, PublishPlan, WriteReceipt, Kill

\* No committed batch is ever lost, whatever plans are applied and however late, if plans
\* are made of a stopped run ("Existing committed history is retained",
\* execution_migration.py:5): HistoryKept.
THEOREM NothingLost == ASSUME ~PlanWhileRunning PROVE Spec => HistoryKept
<1>1. IInv /\ [Next]_vars => [Kept]_vars BY StepKeeps
<1> QED BY <1>1, Inductive, PTL DEF Spec, HistoryKept

\* The binding stays, or a stopped run that has used its configuration is rebound to the
\* next one, with its journal on disk and its batches as they are.
BindingKept == state'.binding = state.binding
ReboundToNext ==
  /\ state'.binding = state.binding + 1 /\ state'.updates = state.updates
  /\ run.at = "down" /\ config = state.binding
  /\ journal[state.binding].at = "complete"
BindingMoves == BindingKept \/ ReboundToNext

LEMMA WriteStateRebinds ==
  ASSUME IInv, NEW o \in Operators, WriteState(o)
  PROVE  ReboundToNext
<1> DEFINE p == operator[o].plan
<1>1. operator[o].at = "state" BY DEF WriteState
<1>2. run.at = "down" /\ p.id <= config BY <1>1, Writing DEF Applying, Rebinding
<1>3. /\ state'.binding = state.binding + 1 /\ state'.updates = state.updates
      /\ state.binding = p.id
  BY Rewritten
<1>4. journal[p.id] = Complete(p) BY <1>1 DEF IInv, ApplierSound
<1>5. config \in Bindings /\ state.binding \in Bindings /\ config <= state.binding
  BY StateFields DEF IInv, TypeOK, RunSound
<1>6. config = state.binding BY <1>2, <1>3, <1>5, MigrationAssumption DEF Bindings
<1>7. journal[state.binding].at = "complete" BY <1>3, <1>4 DEF Complete
<1> QED BY <1>2, <1>3, <1>6, <1>7 DEF ReboundToNext

LEMMA StepMovesBinding == ASSUME IInv, [Next]_vars PROVE [BindingMoves]_vars
<1> USE DEF BindingMoves
<1>1. CASE Commit BY <1>1, Committed DEF BindingKept
<1>2. ASSUME NEW o \in Operators, WriteState(o) PROVE BindingMoves
  BY <1>2, WriteStateRebinds
<1>3. CASE UNCHANGED state BY <1>3 DEF BindingKept
<1> QED
  BY <1>1, <1>2, <1>3
  DEF Next, vars, files, Resume, Configure, Stop, BeginPlan, EndPlan, BeginApply,
      MakeJournal, PublishPlan, WriteReceipt, Kill

\* No plan, however old and however often it is applied, takes the binding back or skips
\* one: the only step that changes it leads from the binding that config.json has to the
\* next, of a run that is down, with plan.json in the journal and every batch kept
\* (execution_migration.py:297-315, under run.lock and after the digests of :305).
THEOREM BindingNeverTakenBack ==
  ASSUME ~PlanWhileRunning PROVE Spec => [][BindingMoves]_vars
<1>1. IInv /\ [Next]_vars => [BindingMoves]_vars BY StepMovesBinding
<1> QED BY <1>1, Inductive, PTL DEF Spec
=============================================================================
