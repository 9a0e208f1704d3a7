---------------------------- MODULE RunTelemetry ----------------------------
(***************************************************************************)
(* A training run with its telemetry: the append-only event log of         *)
(* budgetsi/telemetry.py, publish of budgetsi/diagnostic_run.py and the    *)
(* replay of committed updates when a run starts (formal_run.py).          *)
(*                                                                         *)
(* The steps of RunLedger, with the telemetry opened between the ledger    *)
(* and the restored weights, and every committed update published before   *)
(* the loop goes on.                                                       *)
(*                                                                         *)
(* The values of an event are functions of the receipt and of two files    *)
(* beside the checkpoint (diagnostics.json, batch_validation.json), so an  *)
(* event is identified by its key and by the attempt it reports.           *)
(***************************************************************************)
EXTENDS RunLedger

CONSTANTS
  Diagnosed,  \* optimizer steps before which the distributions are diagnosed
  Failures    \* what may stop a run: "stop", "power"

ASSUME TelemetryAssumption ==
  /\ Diagnosed \subseteq Nat
  /\ Failures \subseteq {"stop", "power"}

VARIABLES
  opened,    \* whether the process has its Telemetry
  pending,   \* events that publish has still to log
  log,       \* the lines of metrics.jsonl
  seen,      \* number of lines in Telemetry.seen
  safe,      \* number of lines that are on disk
  torn,      \* whether an incomplete line follows them
  evidence,  \* by attempt: the files that publish reads
  sdk,       \* whether Telemetry.run is usable
  sent,      \* events handed to the W&B run, not yet uploaded
  cloud,     \* what the W&B run has: events and their steps
  outage     \* history: whether the power has failed; it fails once

telemetry == <<opened, pending, log, seen, safe, torn, evidence, sdk, sent, cloud>>
allVars == <<vars, telemetry, outage>>

Key(e) == <<e.kind, e.step>>

Event(kind, step, a) == [kind |-> kind, step |-> step, attempt |-> a]

\* publish: the diagnostics before the update, if it has any, then the update.
EventsOf(r) ==
  (IF r.step - 1 \in Diagnosed THEN <<Event("pre", r.step - 1, r.checkpoint)>> ELSE <<>>)
    \o <<Event("update", r.step, r.checkpoint)>>

EventsOfLedger(led) == FlattenSeq([i \in DOMAIN led.updates |-> EventsOf(led.updates[i])])

TelemetryInit ==
  /\ Init
  /\ opened = FALSE /\ pending = <<>>
  /\ log = <<>> /\ seen = 0 /\ safe = 0 /\ torn = FALSE
  /\ evidence = [a \in Attempt |-> "none"]
  /\ sdk = FALSE /\ sent = <<>> /\ cloud = <<>>
  /\ outage = FALSE

-----------------------------------------------------------------------------
(* The run, which waits for its telemetry *)

\* Nothing else happens while the log is opened or events are published.
Idle == pending = <<>> /\ (pc = "restore" => opened)

\* Mutant of Publishes: an update is published when it is trained.
PublishesEarly == pc = "exercise"

\* An update is published when its commit has returned.
Publishes == pc = "sync rename" /\ candidate.updates # state.updates

\* Batch validation and diagnostics are written before the update, and never synced.
RunStep ==
  /\ Idle
  /\ Step
  /\ pending' = IF Publishes /\ pc' # "refused" THEN EventsOf(Last(candidate'.updates)) ELSE <<>>
  /\ evidence' = IF pc = "train" THEN [evidence EXCEPT ![This] = "cached"] ELSE evidence
  /\ UNCHANGED <<opened, log, seen, safe, torn, sdk, sent, cloud, outage>>

Begin == (Start \/ Resume) /\ UNCHANGED <<telemetry, outage>>

-----------------------------------------------------------------------------
(* Telemetry *)

\* Mutant of Replayed: committed updates are not published again.
ReplayedNot == <<>>

\* At start every committed update is published once more.
Replayed == EventsOfLedger(state)

\* Mutant of FirstUnsent: the first event that is missing is taken for acknowledged.
FirstUnsentLate == Len(cloud) + 2

\* The W&B run resumes at its own next step.
FirstUnsent == Len(cloud) + 1

Numbered(i) == [at |-> i, event |-> log[i]]

LinesRead == Len(log)

\* The log is read line by line; the events that W&B misses are sent again.
Open ==
  /\ pc = "restore" /\ ~opened
  /\ IF torn
     THEN /\ pc' = "log unreadable"
          /\ UNCHANGED <<opened, pending, seen, sdk, sent>>
     ELSE /\ opened' = TRUE /\ seen' = LinesRead
          /\ pending' = Replayed
          /\ \/ sdk' = TRUE
                /\ sent' = [k \in 1..(Len(log) + 1 - FirstUnsent) |->
                              Numbered(FirstUnsent + k - 1)]
             \/ sdk' = FALSE /\ sent' = <<>>
          /\ UNCHANGED pc
  /\ UNCHANGED <<runs, disk, memory, acked, log, safe, torn, evidence, cloud, outage>>

\* Mutant of Logged: events are not looked up before they are written.
LoggedNot(e) == {}

\* The lines that have the event's key already.
Logged(e) == {i \in 1..seen : Key(log[i]) = Key(e)}

\* One event: refused if its files cannot be read or another event has its key,
\* skipped if it is there, else appended ...
Write ==
  /\ pending # <<>> /\ seen = Len(log)
  /\ pc \notin {"conflict", "evidence unreadable"}
  /\ LET e == Head(pending) IN
       \/ /\ evidence[e.attempt] = "torn"
          /\ pc' = "evidence unreadable" /\ UNCHANGED <<log, pending>>
       \/ /\ evidence[e.attempt] # "torn" /\ \E i \in Logged(e) : log[i] # e
          /\ pc' = "conflict" /\ UNCHANGED <<log, pending>>
       \/ /\ evidence[e.attempt] # "torn"
          /\ Logged(e) # {} /\ \A i \in Logged(e) : log[i] = e
          /\ pending' = Tail(pending) /\ UNCHANGED <<log, pc>>
       \/ /\ evidence[e.attempt] # "torn" /\ Logged(e) = {}
          /\ log' = Append(log, e) /\ UNCHANGED <<pending, pc>>
  /\ UNCHANGED <<runs, disk, memory, acked, opened, seen, safe, torn, evidence, sdk, sent,
                 cloud, outage>>

\* ... synced, remembered and handed to the SDK.
Sync ==
  /\ opened /\ seen < Len(log)
  /\ safe' = Len(log) /\ seen' = Len(log)
  /\ pending' = Tail(pending)
  /\ sent' = IF sdk THEN Append(sent, Numbered(Len(log))) ELSE sent
  /\ UNCHANGED <<vars, opened, log, torn, evidence, sdk, cloud, outage>>

\* W&B takes a step only when it is not behind its history.
Upload ==
  /\ pc # "down" /\ sent # <<>>
  /\ sent' = Tail(sent)
  /\ cloud' = IF Head(sent).at > Len(cloud) THEN Append(cloud, Head(sent)) ELSE cloud
  /\ UNCHANGED <<vars, opened, pending, log, seen, safe, torn, evidence, sdk, outage>>

\* The SDK raises: the run goes on without it.
SdkFails ==
  /\ sdk
  /\ sdk' = FALSE /\ sent' = <<>>
  /\ UNCHANGED <<vars, opened, pending, log, seen, safe, torn, evidence, cloud, outage>>

-----------------------------------------------------------------------------
(* Stops *)

ForgetTelemetry ==
  opened' = FALSE /\ pending' = <<>> /\ seen' = 0 /\ sdk' = FALSE /\ sent' = <<>>

TelemetryStop ==
  /\ "stop" \in Failures
  /\ Stop
  /\ ForgetTelemetry
  /\ UNCHANGED <<log, safe, torn, evidence, cloud, outage>>

\* The log keeps the lines that were synced and any number of the others, the last
\* perhaps in part; or it is gone, for its own directory is never synced.  The files
\* of an attempt keep their contents or lose them.
TelemetryPowerFailure ==
  /\ "power" \in Failures /\ ~outage /\ outage' = TRUE
  /\ PowerFailure
  /\ ForgetTelemetry
  /\ \/ log' = <<>> /\ torn' = FALSE
     \/ \E k \in safe..Len(log) :
          /\ log' = SubSeq(log, 1, k)
          /\ torn' \in {torn, k < Len(log)}
  /\ safe' = Len(log')
  /\ \E lost \in SUBSET {a \in Attempt : evidence[a] = "cached"} :
       evidence' = [a \in Attempt |->
         CASE a \in lost -> "torn"
           [] evidence[a] = "cached" /\ a \notin lost -> "kept"
           [] OTHER -> evidence[a]]
  /\ UNCHANGED cloud

Progress == RunStep \/ Open \/ Write \/ Sync \/ Upload

TelemetryNext ==
  Begin \/ Progress \/ SdkFails \/ TelemetryStop \/ TelemetryPowerFailure

TelemetrySpec == TelemetryInit /\ [][TelemetryNext]_allVars

\* As in RunLedger: the process runs on and an operator resumes it.
TelemetryFairSpec ==
  /\ TelemetrySpec
  /\ WF_allVars(RunStep \/ Open \/ Write \/ Sync) /\ WF_allVars(Upload)
  /\ WF_allVars(Begin)

-----------------------------------------------------------------------------
(* Correctness *)

EventType ==
  [kind : {"pre", "update"}, step : Nat, attempt : Attempt]

\* Types; and a process knows every line but the one it is writing.
TelemetryTypeOK ==
  /\ opened \in BOOLEAN /\ torn \in BOOLEAN /\ sdk \in BOOLEAN
  /\ \A q \in {pending, log} : q \in Seq(EventType)
  /\ \A q \in {sent, cloud} : q \in Seq([at : Nat, event : EventType])
  /\ safe \in 0..Len(log)
  /\ seen \in 0..Len(log) /\ (opened => Len(log) - seen \in {0, 1})
  /\ pending # <<>> => opened
  /\ evidence \in [Attempt -> {"none", "cached", "kept", "torn"}]

\* When the loop goes on, the log holds the events of exactly the committed updates,
\* once each and in their order, whatever stopped the run between a commit and its
\* publication, as long as the power does not fail (formal_run.py:116-118, 515-517;
\* telemetry.py:66-75).
LogMatchesLedger ==
  ~outage /\ opened /\ Idle /\ pc \in {"loop", "train", "exercise", "done", "exhausted"} =>
    log = EventsOfLedger(state)

\* No update is forgotten by the log, even when power failures take it back or take
\* parts of it.
NothingUnpublished ==
  opened /\ Idle /\ pc \in {"loop", "done", "exhausted"} =>
    ToSet(EventsOfLedger(state)) \subseteq ToSet(log)

\* No key is in the log twice, though every start publishes every update again
\* (telemetry.py:66-69).
OncePerKey == \A i, j \in DOMAIN log : i # j => Key(log[i]) # Key(log[j])

\* W&B has a prefix of the log, each event once and at the step that is its place in
\* the log, however often the run was resumed, as long as the power does not fail
\* (telemetry.py:45-49, 76-80).
CloudFollowsLog == ~outage =>
  /\ Len(cloud) <= Len(log)
  /\ \A i \in DOMAIN cloud : cloud[i] = Numbered(i)

\* "Replay committed updates after a crash between checkpoint commit and logging"
\* (formal_run.py:116): the replay never finds another event under its key.
ReplayAgrees == pc # "conflict"

\* And it does not after any number of stops that the file system survives
\* (telemetry.py:66-69, formal_run.py:116-118).
ReplayAgreesUnlessOutage == outage \/ ReplayAgrees

\* Telemetry never keeps a run with a ledger from its end, and in the end W&B has the whole log
\* unless the SDK failed in the last process (or the run was stopped as often as the
\* bound allows, or the power failed).
EndsPublished ==
  versions[1].kind = "ledger"
    ~> \/ pc \in {"done", "exhausted"} /\ (~sdk \/ Len(cloud) = Len(log))
       \/ pc = "down" /\ runs = MaxRuns
       \/ outage
=============================================================================
