--------------------------- MODULE StudentReplica ---------------------------
(***************************************************************************)
(* A replica of the student in a process of its own                        *)
(* (budgetsi/student_replica.py; score_replica.py is one as well): the     *)
(* object in the run, whose calls take a lock and exchange one message     *)
(* each with the child, and the child.                                     *)
(*                                                                         *)
(* One thread, main, synchronises adapters and closes; workers generate,   *)
(* or score, which is the same exchange.                                   *)
(* Nothing is assumed of the order of their calls.  A refused call (the    *)
(* replica is closed or dead, no snapshot is acknowledged) changes nothing *)
(* and is left out, except that a refused sync takes the snapshot back.    *)
(***************************************************************************)
EXTENDS Naturals, Sequences

CONSTANTS
  Main,      \* the thread that synchronises and closes
  Workers,   \* the threads that generate
  Versions,  \* adapters
  None,      \* no adapter, or one that is not known
  MaxCalls,  \* bound: messages sent to the child
  Faults     \* what may go wrong, a subset of AllFaults

AllFaults ==
  {"raise",      \* the child answers with an error
   "exit",       \* the child exits
   "interrupt"}  \* a signal interrupts main while it waits for an answer

ASSUME ReplicaAssumption ==
  /\ Main \notin Workers /\ None \notin Versions \cup Workers \cup {Main}
  /\ MaxCalls \in Nat /\ Faults \subseteq AllFaults

VARIABLES
  lock,      \* who holds _lock, None if nobody does
  snapshot,  \* _snapshot
  closed,    \* _closed
  serial,    \* _serial
  call,      \* what each thread does, and the request it has sent
  answer,    \* what the last call of each thread has returned
  closer,    \* how far close has come
  open,      \* whether _connection is open
  toChild,   \* messages on their way to the child
  toParent,  \* messages on their way back
  child      \* the child process

pipe == <<toChild, toParent>>
vars == <<lock, snapshot, closed, serial, call, answer, closer, open, pipe, child>>

Threads == Workers \cup {Main}

\* version: the adapter to load, or that to generate with.
NoRequest == [id |-> 0, kind |-> "none", version |-> None]
Idle == [at |-> "idle", request |-> NoRequest]

\* The request that was asked and the version it names; the request that the result is
\* of and the adapter that computed it.
NoAnswer == [asked |-> 0, version |-> None, of |-> 0, by |-> None]

\* loaded: what the weights of the child's model are; snapshot: what the child takes
\* them for.
Init ==
  /\ lock = None
  /\ snapshot = None /\ closed = FALSE /\ serial = 0
  /\ call = [t \in Threads |-> Idle]
  /\ answer = [t \in Threads |-> NoAnswer]
  /\ closer = "open"
  /\ open = TRUE
  /\ toChild = <<>> /\ toParent = <<>>
  /\ child = [at |-> "idle", request |-> NoRequest, snapshot |-> None, loaded |-> None]

Alive == child.at # "gone"

-----------------------------------------------------------------------------
(* Calls *)

\* _rpc sends the request; the lock is held until the call is over.
Rpc(t, kind, version) ==
  LET request == [id |-> serial + 1, kind |-> kind, version |-> version] IN
  /\ lock' = t
  /\ serial' = serial + 1
  /\ call' = [call EXCEPT ![t] = [at |-> "wait", request |-> request]]
  /\ toChild' = Append(toChild, request)

MayCall(t) == call[t].at = "idle" /\ lock = None /\ serial < MaxCalls

Generate(t) ==
  /\ MayCall(t) /\ ~closed /\ Alive /\ snapshot # None
  /\ Rpc(t, "generate", snapshot)
  /\ answer' = [answer EXCEPT ![t] = NoAnswer]
  /\ UNCHANGED <<snapshot, closed, closer, open, toParent, child>>

\* Mutant of Forgotten: the old snapshot stays acknowledged during the transfer.
ForgottenNot == snapshot

\* The acknowledgement is taken back first.
Forgotten == None

Sync(v) ==
  /\ closer = "open" /\ MayCall(Main)
  /\ snapshot' = Forgotten
  /\ answer' = [answer EXCEPT ![Main] = NoAnswer]
  /\ IF ~closed /\ Alive THEN Rpc(Main, "sync", v)
     ELSE UNCHANGED <<lock, serial, call, toChild>>
  /\ UNCHANGED <<closed, closer, open, toParent, child>>

Return(t) == lock' = None /\ call' = [call EXCEPT ![t] = Idle]

\* Mutant of Answers: any result of the right snapshot will do.
AnswersAny(response, request) ==
  response.kind = "result" /\ response.snapshot = request.version

\* The response is the one to this request, and names its snapshot.
Answers(response, request) ==
  /\ response.id = request.id
  /\ response.kind = "result" /\ response.snapshot = request.version

\* An answer is there; everything but the expected result raises.
Receive(t) ==
  LET response == Head(toParent)  request == call[t].request IN
  /\ call[t].at = "wait" /\ open /\ toParent # <<>>
  /\ toParent' = Tail(toParent)
  /\ Return(t)
  /\ IF Answers(response, request)
     THEN /\ answer' = [answer EXCEPT ![t] = [asked |-> request.id, version |-> request.version,
                                              of |-> response.id, by |-> response.by]]
          /\ snapshot' = IF t = Main THEN request.version ELSE snapshot
     ELSE UNCHANGED <<answer, snapshot>>
  /\ UNCHANGED <<closed, serial, closer, open, toChild, child>>

\* The child is gone, or close has closed the connection meanwhile.
Broken(t) ==
  /\ call[t].at = "wait" /\ (~open \/ (~Alive /\ toParent = <<>>))
  /\ Return(t)
  /\ UNCHANGED <<snapshot, closed, serial, answer, closer, open, pipe, child>>

Gone == [child EXCEPT !.at = "gone"]

\* The owned child is terminated; the snapshot stays.
TimeOut(t) ==
  /\ call[t].at = "wait" /\ open /\ Alive /\ toParent = <<>>
  /\ child' = Gone
  /\ closed' = TRUE /\ open' = FALSE
  /\ Return(t)
  /\ UNCHANGED <<snapshot, serial, answer, closer, pipe>>

\* The request stays with the child, and its answer in the pipe.
Interrupt ==
  /\ "interrupt" \in Faults /\ call[Main].at = "wait"
  /\ Return(Main)
  /\ UNCHANGED <<snapshot, closed, serial, answer, closer, open, pipe, child>>

-----------------------------------------------------------------------------
(* close *)

\* The lock is free, or is not to be had within close_timeout.
BeginClose ==
  /\ closer = "open" /\ call[Main].at = "idle"
  /\ closed' = TRUE
  /\ IF lock # None
     THEN closer' = "forcing" /\ UNCHANGED <<lock, serial, toChild>>
     ELSE IF closed
     THEN closer' = "done" /\ UNCHANGED <<lock, serial, toChild>>
     ELSE /\ closer' = "closing" /\ lock' = Main
          /\ IF Alive
             THEN /\ serial' = serial + 1
                  /\ toChild' = Append(toChild, [id |-> serial', kind |-> "close", version |-> None])
             ELSE UNCHANGED <<serial, toChild>>
  /\ UNCHANGED <<snapshot, call, answer, open, toParent, child>>

\* Whether or not the child has left in time.
Terminate ==
  /\ closer \in {"closing", "forcing"}
  /\ closer' = "terminated"
  /\ child' = Gone
  /\ UNCHANGED <<lock, snapshot, closed, serial, call, answer, open, pipe>>

EndClose ==
  /\ closer = "terminated"
  /\ closer' = "done"
  /\ open' = FALSE /\ snapshot' = None
  /\ lock' = IF lock = Main THEN None ELSE lock
  /\ UNCHANGED <<closed, serial, call, answer, pipe, child>>

-----------------------------------------------------------------------------
(* The child *)

\* A sync forgets the snapshot before it touches the weights.
Take ==
  LET request == Head(toChild) IN
  /\ child.at = "idle" /\ toChild # <<>>
  /\ toChild' = Tail(toChild)
  /\ child' = [at |-> "busy", request |-> request,
               snapshot |-> IF request.kind = "sync" THEN None ELSE child.snapshot,
               loaded |-> IF request.kind = "sync" THEN None ELSE child.loaded]
  /\ UNCHANGED <<lock, snapshot, closed, serial, call, answer, closer, open, toParent>>

Send(kind, by) ==
  toParent' = Append(toParent,
    [id |-> child.request.id, kind |-> kind, snapshot |-> by, by |-> by])

\* The hash of what was loaded is compared with that of what was to be loaded.
Loaded ==
  /\ child.request.kind = "sync"
  /\ child' = [child EXCEPT !.at = "idle", !.snapshot = child.request.version,
                            !.loaded = child.request.version]
  /\ Send("result", child.request.version)

\* The request names the snapshot.
Current == child.snapshot # None /\ child.request.version = child.snapshot

Generated ==
  /\ child.request.kind = "generate" /\ Current
  /\ child' = [child EXCEPT !.at = "idle"]
  /\ toParent' = Append(toParent, [id |-> child.request.id, kind |-> "result",
                                  snapshot |-> child.snapshot, by |-> child.loaded])

\* Any exception; a sync may have changed the weights.
Raised ==
  /\ \/ "raise" \in Faults
     \/ child.request.kind = "generate" /\ ~Current
  /\ child.request.kind # "close"
  /\ child' = [child EXCEPT !.at = "idle"]
  /\ Send("error", None)

Left ==
  /\ child.request.kind = "close"
  /\ child' = Gone
  /\ Send("closed", None)

Reply ==
  /\ child.at = "busy"
  /\ Loaded \/ Generated \/ Raised \/ Left
  /\ UNCHANGED <<lock, snapshot, closed, serial, call, answer, closer, open, toChild>>

Exit ==
  /\ "exit" \in Faults /\ Alive
  /\ child' = Gone
  /\ UNCHANGED <<lock, snapshot, closed, serial, call, answer, closer, open, pipe>>

Next ==
  \/ \E t \in Threads : Receive(t) \/ Broken(t) \/ TimeOut(t)
  \/ \E t \in Workers : Generate(t)
  \/ \E v \in Versions : Sync(v)
  \/ Interrupt \/ BeginClose \/ Terminate \/ EndClose
  \/ Take \/ Reply \/ Exit

Spec == Init /\ [][Next]_vars

-----------------------------------------------------------------------------
(* Correctness *)

Requests == [id : Nat, kind : {"none", "sync", "generate", "close"}, version : Versions \cup {None}]
Responses ==
  [id : Nat, kind : {"result", "error", "closed"}, snapshot : Versions \cup {None},
   by : Versions \cup {None}]

\* The variables keep their types.
TypeOK ==
  /\ lock \in Threads \cup {None}
  /\ snapshot \in Versions \cup {None}
  /\ closed \in BOOLEAN /\ open \in BOOLEAN
  /\ serial \in Nat
  /\ call \in [Threads -> [at : {"idle", "wait"}, request : Requests]]
  /\ answer \in [Threads -> [asked : Nat, version : Versions \cup {None}, of : Nat,
                             by : Versions \cup {None}]]
  /\ closer \in {"open", "closing", "forcing", "terminated", "done"}
  /\ toChild \in Seq(Requests) /\ toParent \in Seq(Responses)
  /\ child \in [at : {"idle", "busy", "gone"}, request : Requests,
                snapshot : Versions \cup {None}, loaded : Versions \cup {None}]

\* What a call returns is the result of that very request, computed with the adapter
\* whose acknowledgement the caller relies on: neither the answer that an interrupted
\* call has left in the pipe nor that of an adapter loaded since
\* (student_replica.py:86-107, 193-204, 208-234).
AnswersBelong ==
  \A t \in Threads : answer[t].of = answer[t].asked /\ answer[t].by = answer[t].version

\* As long as a snapshot is acknowledged it is what the living child has loaded and
\* takes it for: no sync that was begun, interrupted, refused or failed since is still
\* on its way (student_replica.py:74-83, 209-223).
Acknowledged ==
  snapshot # None /\ Alive => child.loaded = snapshot /\ child.snapshot = snapshot
=============================================================================
