--------------------------- MODULE FairScheduler ----------------------------
(***************************************************************************)
(* The bounded admission queue in front of each teacher backend            *)
(* (FairScheduler in budgetsi/teacher_schedule.py): callers submit         *)
(* requests and wait for a future, one dispatcher thread picks the next    *)
(* request, a pool of max_active workers executes them.                    *)
(*                                                                         *)
(* A request is identified by the caller that waits for it.  A caller      *)
(* whose wait times out makes no other request before the first is over.   *)
(* Every section under the condition variable is one step.  A refused      *)
(* submission (queue full, scheduler closed) changes nothing and is left   *)
(* out; so are the timing rows.                                            *)
(***************************************************************************)
EXTENDS Naturals, Sequences, SequencesExt, FiniteSetsExt

CONSTANTS
  Experiments,  \* number of bindings
  Callers,      \* callers, each <<binding, name>>
  MaxActive,    \* max_active
  PerRun,       \* per_run
  MaxQueued     \* max_queued

ASSUME SchedulerAssumption ==
  /\ Experiments \in Nat \ {0}
  /\ MaxActive \in Nat \ {0}
  /\ PerRun \in Nat \ {0}
  /\ MaxQueued \in Nat \ {0}
  /\ \A c \in Callers : c[1] \in 1..Experiments

Bindings == 1..Experiments

VARIABLES
  queues,      \* queues: the callers whose requests wait, by binding
  active,      \* active: requests dispatched and not finished, by binding
  streak,      \* score_streak, by binding; not counted beyond MaxStreak
  cursor,      \* cursor
  closed,      \* closed
  dispatcher,  \* what the dispatcher thread does
  request,     \* the request of each caller
  closer,      \* how far close() has come
  passed       \* history: scores in a row that passed a waiting generation

admission == <<queues, active, streak, cursor>>
vars == <<admission, closed, dispatcher, request, closer, passed>>

MaxStreak == 2

\* at: where the request is; heard: its caller still waits.
NoRequest == [at |-> "none", kind |-> "score", heard |-> FALSE]

Init ==
  /\ queues = [b \in Bindings |-> <<>>]
  /\ active = [b \in Bindings |-> 0]
  /\ streak = [b \in Bindings |-> 0]
  /\ cursor = 1
  /\ closed = FALSE
  /\ dispatcher = "look"
  /\ request = [c \in Callers |-> NoRequest]
  /\ closer = "open"
  /\ passed = [b \in Bindings |-> 0]

\* notify_all: the dispatcher looks again.
Notify == dispatcher' = IF dispatcher = "wait" THEN "look" ELSE dispatcher

At(place) == {c \in Callers : request[c].at = place}

-----------------------------------------------------------------------------
(* Callers *)

Submit(c, kind) ==
  /\ request[c] = NoRequest
  /\ ~closed /\ Len(queues[c[1]]) < MaxQueued
  /\ queues' = [queues EXCEPT ![c[1]] = Append(@, c)]
  /\ request' = [request EXCEPT ![c] = [at |-> "queued", kind |-> kind, heard |-> TRUE]]
  /\ Notify
  /\ UNCHANGED <<active, streak, cursor, closed, closer, passed>>

\* future.result gives up; the request stays where it is.
TimeOut(c) ==
  /\ request[c].heard
  /\ request' = [request EXCEPT ![c].heard = FALSE]
  /\ UNCHANGED <<admission, closed, dispatcher, closer, passed>>

-----------------------------------------------------------------------------
(* The dispatcher thread *)

Queued(b, kind) == {i \in DOMAIN queues[b] : request[queues[b][i]].kind = kind}

\* Mutant of ScoreFirst: scores always come first.
ScoreAlwaysFirst(b) == Queued(b, "score") # {}

\* At most MaxStreak scores before a waiting generation.
ScoreFirst(b) ==
  /\ Queued(b, "score") # {}
  /\ streak[b] < MaxStreak \/ Queued(b, "generation") = {}

\* pop_fair: the oldest request of the kind whose turn it is.
PopIndex(b) == Min(Queued(b, IF ScoreFirst(b) THEN "score" ELSE "generation"))

StreakAfter(b) == IF ScoreFirst(b) THEN Min({streak[b] + 1, MaxStreak}) ELSE 0

Total == SumFunction(active)

Ready(b) == queues[b] # <<>> /\ active[b] < PerRun

\* Bindings are tried in cyclic order from the cursor.
Distance(b) == (b + Experiments - cursor) % Experiments

\* Mutant of Turn: the order starts at the first binding every time.
TurnFromFirst(b) == Ready(b) /\ \A d \in Bindings : Ready(d) => b <= d

Turn(b) == Ready(b) /\ \A d \in Bindings : Ready(d) => Distance(b) <= Distance(d)

HasCapacity == Total < MaxActive

Dispatch(b) ==
  /\ dispatcher = "look"
  /\ HasCapacity /\ Turn(b)
  /\ LET c == queues[b][PopIndex(b)] IN
       request' = [request EXCEPT ![c].at = "in hand"]
  /\ queues' = [queues EXCEPT ![b] = RemoveAt(@, PopIndex(b))]
  /\ active' = [active EXCEPT ![b] = @ + 1]
  /\ streak' = [streak EXCEPT ![b] = StreakAfter(b)]
  /\ cursor' = (b % Experiments) + 1
  /\ dispatcher' = "hand over"
  /\ passed' = [passed EXCEPT ![b] =
       IF ScoreFirst(b) /\ Queued(b, "generation") # {} THEN @ + 1 ELSE 0]
  /\ UNCHANGED <<closed, closer>>

\* pool.submit, outside the lock.
HandOver ==
  /\ dispatcher = "hand over"
  /\ request' = [c \in Callers |->
       IF request[c].at = "in hand" THEN [request[c] EXCEPT !.at = "pooled"]
       ELSE request[c]]
  /\ dispatcher' = "look"
  /\ UNCHANGED <<admission, closed, closer, passed>>

\* Mutant of Drained: a closed scheduler stops at once.
DrainedNot == closed

Drained == closed /\ \A b \in Bindings : queues[b] = <<>>

Exit ==
  /\ dispatcher = "look" /\ Drained
  /\ dispatcher' = "exited"
  /\ UNCHANGED <<admission, closed, request, closer, passed>>

Sleep ==
  /\ dispatcher = "look"
  /\ ~Drained /\ ~(HasCapacity /\ \E b \in Bindings : Ready(b))
  /\ dispatcher' = "wait"
  /\ UNCHANGED <<admission, closed, request, closer, passed>>

-----------------------------------------------------------------------------
(* The workers of the pool *)

\* A worker takes the next request.
Execute(c) ==
  /\ request[c].at = "pooled"
  /\ Cardinality(At("executing") \cup At("answer")) < MaxActive
  /\ request' = [request EXCEPT ![c].at = "executing"]
  /\ UNCHANGED <<admission, closed, dispatcher, closer, passed>>

\* Mutant of Wake: nobody is told that a place is free.
WakeNot == dispatcher' = dispatcher

Wake == Notify

PlaceBack(c) == active' = [active EXCEPT ![c[1]] = @ - 1]

\* The execution returned or raised; the place is given back under the lock ...
Release(c) ==
  /\ request[c].at = "executing"
  /\ request' = [request EXCEPT ![c].at = "answer"]
  /\ PlaceBack(c)
  /\ Wake
  /\ UNCHANGED <<queues, streak, cursor, closed, closer, passed>>

\* ... and the future is set after it.
Answer(c) ==
  /\ request[c].at = "answer"
  /\ request' = [request EXCEPT ![c] = NoRequest]
  /\ UNCHANGED <<admission, closed, dispatcher, closer, passed>>

-----------------------------------------------------------------------------
(* close *)

Close ==
  /\ closer = "open"
  /\ closed' = TRUE
  /\ closer' = "join"
  /\ Notify
  /\ UNCHANGED <<admission, request, passed>>

JoinDispatcher ==
  /\ closer = "join" /\ dispatcher = "exited"
  /\ closer' = "shutdown"
  /\ UNCHANGED <<admission, closed, dispatcher, request, passed>>

\* pool.shutdown(wait=True) lets the workers finish what the pool holds.
ShutdownPool ==
  /\ closer = "shutdown"
  /\ At("pooled") \cup At("executing") \cup At("answer") = {}
  /\ closer' = "closed"
  /\ UNCHANGED <<admission, closed, dispatcher, request, passed>>

-----------------------------------------------------------------------------

Dispatcher == HandOver \/ Exit \/ Sleep \/ \E b \in Bindings : Dispatch(b)

Work(c) == Execute(c) \/ Release(c) \/ Answer(c)

Next ==
  \/ \E c \in Callers :
       \/ \E kind \in {"score", "generation"} : Submit(c, kind)
       \/ TimeOut(c) \/ Work(c)
  \/ Dispatcher
  \/ Close \/ JoinDispatcher \/ ShutdownPool

Spec == Init /\ [][Next]_vars

\* Threads get the lock sooner or later and every execution returns (its HTTP calls
\* have timeouts); callers and the operator may do as they like.
Fairness ==
  /\ WF_vars(Dispatcher)
  /\ \A c \in Callers : WF_vars(Work(c))
  /\ WF_vars(JoinDispatcher) /\ WF_vars(ShutdownPool)

FairSpec == Spec /\ Fairness

-----------------------------------------------------------------------------
(* Correctness *)

Places == {"none", "queued", "in hand", "pooled", "executing", "answer"}

\* Types; and the counts are those of the requests: the queue of a binding holds its
\* waiting requests, once each, and active its dispatched ones.
TypeOK ==
  /\ request \in [Callers ->
       [at : Places, kind : {"score", "generation"}, heard : BOOLEAN]]
  /\ dispatcher \in {"look", "wait", "hand over", "exited"}
  /\ closed \in BOOLEAN
  /\ closer \in {"open", "join", "shutdown", "closed"}
  /\ cursor \in Bindings
  /\ \A b \in Bindings :
       /\ ToSet(queues[b]) = {c \in At("queued") : c[1] = b}
       /\ IsInjective(queues[b])
       /\ active[b] = Cardinality({c \in At("in hand") \cup At("pooled") \cup At("executing") :
                                     c[1] = b})
       /\ streak[b] \in 0..MaxStreak

\* "At most two queued short scores before a waiting generation"
\* (teacher_schedule.py:60), however the two kinds were mixed before.
GenerationPassedTwice == \A b \in Bindings : passed[b] <= 2

\* No wake-up is lost: the dispatcher sleeps only while nothing can be dispatched and
\* there is no reason to exit (teacher_schedule.py:30, 50-62, 78, 84).
SleepsWithReason ==
  dispatcher = "wait" =>
    /\ ~(HasCapacity /\ \E b \in Bindings : Ready(b))
    /\ ~Drained

\* close returns only when every request that was accepted has its answer
\* (teacher_schedule.py:83-85).
ClosedIsDrained == closer = "closed" => At("none") = Callers

\* What a caller can see of the requests: a request begins when its place is taken
\* under the lock, and ends when the place is given back.
Waits == [k \in {"score", "generation"} |-> {c \in At("queued") : request[c].kind = k}]
Begun == At("in hand") \cup At("pooled") \cup At("executing")

Gate ==
  CASE closer = "open" -> "open"
    [] closer = "closed" -> "closed"
    [] OTHER -> "closing"

Pool == INSTANCE RequestPool WITH
  waiting <- Waits, begun <- Begun, ended <- At("answer"), gate <- Gate,
  MaxPassed <- MaxStreak

\* The scheduler is a pool of requests: each is let in, dispatched and answered once,
\* within every limit, and close returns when all that were let in are answered,
\* although the queues, the counts and the futures are changed by three kinds of threads
\* in sections of their own (teacher_schedule.py:22-33, 50-85).
Promise == Pool!Spec

\* Every accepted request is dispatched, whatever other runs and the other kind of
\* request do.
Served == \A c \in Callers : request[c].at = "queued" ~> request[c].at # "queued"

\* close comes to an end.
CloseEnds == closer = "join" ~> closer = "closed"
=============================================================================
