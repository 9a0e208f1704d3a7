------------------------ MODULE FairSchedulerProofs -------------------------
(***************************************************************************)
(* Proofs about FairScheduler, for every number of bindings, every set of  *)
(* callers and all limits: order, wake-ups, limits, closing, and the       *)
(* refinement of RequestPool.                                              *)
(***************************************************************************)
EXTENDS MCFairScheduler, SequenceTheorems, FiniteSetTheorems, WellFoundedInduction, TLAPS

Requests == [at : Places, kind : {"score", "generation"}, heard : BOOLEAN]

\* The requests of a binding that active counts.
Dispatched(b) ==
  {c \in At("in hand") \cup At("pooled") \cup At("executing") : c[1] = b}

Waiting(b) == {c \in At("queued") : c[1] = b}

Types ==
  /\ request \in [Callers -> Requests]
  /\ queues \in [Bindings -> Seq(Callers)]
  /\ active \in [Bindings -> Int]
  /\ streak \in [Bindings -> 0..MaxStreak]
  /\ passed \in [Bindings -> Nat]
  /\ cursor \in Bindings
  /\ closed \in BOOLEAN
  /\ dispatcher \in {"look", "wait", "hand over", "exited"}
  /\ closer \in {"open", "join", "shutdown", "closed"}

\* A queue holds the waiting requests of its binding, once each.
QueuesHold ==
  \A b \in Bindings : ToSet(queues[b]) = Waiting(b) /\ IsInjective(queues[b])

ActiveCounts ==
  \A b \in Bindings :
    IsFiniteSet(Dispatched(b)) /\ active[b] = Cardinality(Dispatched(b))

\* A generation has been passed at most as often as a score was taken in a row.
PassedInStreak == \A b \in Bindings : passed[b] <= streak[b]

\* How far the dispatcher and close have come.
Ending ==
  /\ At("in hand") # {} => dispatcher = "hand over"
  /\ dispatcher = "exited" => Drained
  /\ closer # "open" => closed
  /\ closer \in {"shutdown", "closed"} => dispatcher = "exited"
  /\ closer = "closed" => At("pooled") \cup At("executing") \cup At("answer") = {}

IInv == Types /\ QueuesHold /\ ActiveCounts /\ PassedInStreak /\ Ending

-----------------------------------------------------------------------------
(* Data *)

LEMMA MinOfNaturals ==
  ASSUME NEW S \in SUBSET Nat, S # {}
  PROVE  Min(S) \in S /\ \A y \in S : Min(S) <= y
<1>1. PICK m \in S : \A y \in S : m <= y
  <2>1. PICK x \in S : \A y \in S : ~(<<y, x>> \in OpToRel(<, Nat))
    BY NatLessThanWellFounded, WFMin
  <2>2. \A y \in S : ~(y < x)
    BY <2>1 DEF OpToRel
  <2>3. QED
    BY <2>2
<1>2. QED
  BY <1>1 DEF Min

LEMMA MinOfTwo ==
  ASSUME NEW m \in Nat, NEW n \in Nat
  PROVE  Min({m, n}) = IF m <= n THEN m ELSE n
<1>1. Min({m, n}) \in {m, n} /\ \A y \in {m, n} : Min({m, n}) <= y
  BY MinOfNaturals
<1>2. QED
  BY <1>1

\* What is left of a sequence without repetitions when one element is taken out.
LEMMA TakenOut ==
  ASSUME NEW S, NEW s \in Seq(S), NEW i \in DOMAIN s, IsInjective(s)
  PROVE  /\ RemoveAt(s, i) \in Seq(S)
         /\ ToSet(RemoveAt(s, i)) = ToSet(s) \ {s[i]}
         /\ IsInjective(RemoveAt(s, i))
         /\ Len(RemoveAt(s, i)) = Len(s) - 1
<1> DEFINE a == SubSeq(s, 1, i - 1)
           z == SubSeq(s, i + 1, Len(s))
           t == RemoveAt(s, i)
           n == Len(s) - 1
<1>1. i \in 1..Len(s) /\ Len(s) \in Nat /\ DOMAIN s = 1..Len(s)
  BY LenProperties
<1>2. \A k \in 1..Len(s) : s[k] \in S
  BY ElementOfSeq
<1>3. /\ a \in Seq(S) /\ Len(a) = i - 1
      /\ \A k \in 1..i - 1 : a[k] = s[k]
  BY <1>1, <1>2, SubSeqProperties
<1>4. /\ z \in Seq(S) /\ Len(z) = Len(s) - i
      /\ \A k \in 1..Len(s) - i : z[k] = s[i + k]
  <2>1. /\ z \in Seq(S)
        /\ Len(z) = IF i + 1 <= Len(s) THEN Len(s) - (i + 1) + 1 ELSE 0
        /\ \A k \in 1..(Len(s) - (i + 1) + 1) : z[k] = s[i + 1 + k - 1]
    BY <1>1, <1>2, SubSeqProperties
  <2>2. Len(z) = Len(s) - i
    <3> HIDE DEF z
    <3> QED
      BY <2>1, <1>1
  <2>3. ASSUME NEW k \in 1..Len(s) - i PROVE z[k] = s[i + k]
    <3> HIDE DEF z
    <3>1. k \in 1..(Len(s) - (i + 1) + 1) /\ i + 1 + k - 1 = i + k
      BY <1>1
    <3>2. QED
      BY <2>1, <3>1
  <2>4. QED
    BY <2>1, <2>2, <2>3
<1>5. t = a \o z
  BY DEF RemoveAt
<1> HIDE DEF a, z, t
<1>6. /\ t \in Seq(S) /\ Len(t) = n
      /\ \A k \in 1..n : t[k] = IF k <= i - 1 THEN a[k] ELSE z[k - (i - 1)]
  <2>1. /\ a \o z \in Seq(S) /\ Len(a \o z) = Len(a) + Len(z)
        /\ \A k \in 1..Len(a) + Len(z) :
             (a \o z)[k] = IF k <= Len(a) THEN a[k] ELSE z[k - Len(a)]
    BY <1>3, <1>4, ConcatProperties
  <2>2. Len(a) + Len(z) = n
    BY <1>1, <1>3, <1>4
  <2>3. QED
    BY <2>1, <2>2, <1>3, <1>5
<1>7. \A k \in 1..n : t[k] = s[IF k < i THEN k ELSE k + 1]
  <2>1. ASSUME NEW k \in 1..n, k < i PROVE t[k] = s[k]
    BY <2>1, <1>1, <1>3, <1>6
  <2>2. ASSUME NEW k \in 1..n, ~(k < i) PROVE t[k] = s[k + 1]
    <3>1. /\ k - (i - 1) \in 1..Len(s) - i /\ i + (k - (i - 1)) = k + 1
          /\ ~(k <= i - 1)
      BY <2>2, <1>1
    <3>2. QED
      BY <3>1, <1>4, <1>6
  <2>3. QED
    BY <2>1, <2>2
<1>8. DOMAIN t = 1..n
  BY <1>6, LenProperties
<1>9. ToSet(t) = ToSet(s) \ {s[i]}
  <2>1. \A x \in ToSet(t) : x \in ToSet(s) \ {s[i]}
    BY <1>1, <1>7, <1>8 DEF ToSet, IsInjective
  <2>2. ASSUME NEW x \in ToSet(s) \ {s[i]} PROVE x \in ToSet(t)
    <3>1. PICK k \in 1..Len(s) : x = s[k] /\ k # i
      BY <1>1 DEF ToSet
    <3>2. x = t[IF k < i THEN k ELSE k - 1] /\ (IF k < i THEN k ELSE k - 1) \in 1..n
      BY <3>1, <1>1, <1>7
    <3>3. QED
      BY <3>2, <1>8 DEF ToSet
  <2>3. QED
    BY <2>1, <2>2
<1>10. IsInjective(t)
  BY <1>1, <1>7, <1>8 DEF IsInjective
<1>11. QED
  BY <1>6, <1>9, <1>10 DEF t

LEMMA PutLast ==
  ASSUME NEW S, NEW s \in Seq(S), NEW x \in S, x \notin ToSet(s), IsInjective(s)
  PROVE  /\ Append(s, x) \in Seq(S)
         /\ ToSet(Append(s, x)) = ToSet(s) \cup {x}
         /\ IsInjective(Append(s, x))
<1> DEFINE t == Append(s, x)
<1>1. Len(s) \in Nat /\ DOMAIN s = 1..Len(s)
  BY LenProperties
<1>2. /\ t \in Seq(S) /\ Len(t) = Len(s) + 1
      /\ \A i \in 1..Len(s) : t[i] = s[i]
      /\ t[Len(s) + 1] = x
  BY AppendProperties
<1>3. DOMAIN t = 1..Len(s) + 1
  BY <1>2, LenProperties
<1> HIDE DEF t
<1>4. ToSet(t) = ToSet(s) \cup {x}
  BY <1>1, <1>2, <1>3 DEF ToSet
<1>5. IsInjective(t)
  BY <1>1, <1>2, <1>3 DEF ToSet, IsInjective
<1>6. QED
  BY <1>2, <1>4, <1>5 DEF t

-----------------------------------------------------------------------------
(* The invariant *)

LEMMA InitIInv == Init => IInv
<1> SUFFICES ASSUME Init PROVE IInv
  OBVIOUS
<1>1. Types
  <2>1. NoRequest \in Requests
    BY DEF NoRequest, Requests, Places
  <2>2. cursor \in Bindings
    BY SchedulerAssumption DEF Init, Bindings
  <2>3. 0 \in 0..MaxStreak /\ 0 \in Nat /\ 0 \in Int
    BY DEF MaxStreak
  <2>4. <<>> \in Seq(Callers)
    BY EmptySeq
  <2>5. QED
    BY <2>1, <2>2, <2>3, <2>4 DEF Init, Types
<1>2. At("none") = Callers /\ \A place \in Places : place # "none" => At(place) = {}
  BY DEF Init, At, NoRequest
<1>3. QueuesHold
  <2>1. \A b \in Bindings : Waiting(b) = {} /\ queues[b] = <<>>
    BY <1>2 DEF Init, Waiting, Places
  <2>2. ToSet(<<>>) = {} /\ IsInjective(<<>>)
    BY DEF ToSet, IsInjective
  <2>3. QED
    BY <2>1, <2>2 DEF QueuesHold
<1>4. ActiveCounts
  <2>1. \A b \in Bindings : Dispatched(b) = {}
    BY <1>2 DEF Dispatched, Places
  <2>2. QED
    BY <2>1, FS_EmptySet DEF ActiveCounts, Init
<1>5. PassedInStreak /\ Ending
  <2>1. At("in hand") = {}
    BY <1>2 DEF Places
  <2>2. Ending
    BY <2>1 DEF Init, Ending
  <2>3. \A b \in Bindings : passed[b] = 0 /\ streak[b] = 0
    BY DEF Init
  <2>4. QED
    BY <2>2, <2>3 DEF PassedInStreak
<1>6. QED
  BY <1>1, <1>3, <1>4, <1>5 DEF IInv

\* Where the requests are after that of one caller has changed.
LEMMA PlacesAfter ==
  ASSUME Types, NEW c \in Callers, NEW r \in Requests,
         request' = [request EXCEPT ![c] = r]
  PROVE  /\ request' \in [Callers -> Requests]
         /\ \A place : At(place)' = IF place = r.at THEN At(place) \cup {c} ELSE At(place) \ {c}
<1>1. request \in [Callers -> Requests]
  BY DEF Types
<1>2. \A d \in Callers : request'[d] = IF d = c THEN r ELSE request[d]
  BY <1>1
<1>3. QED
  BY <1>1, <1>2 DEF At

\* The counts hold as long as no request enters or leaves the queues or the workers.
LEMMA CountsKept ==
  ASSUME IInv, UNCHANGED <<queues, active>>,
         At("queued")' = At("queued"),
         (At("in hand") \cup At("pooled") \cup At("executing"))'
           = At("in hand") \cup At("pooled") \cup At("executing")
  PROVE  QueuesHold' /\ ActiveCounts'
<1>1. \A b \in Bindings : Waiting(b)' = Waiting(b) /\ Dispatched(b)' = Dispatched(b)
  BY DEF Waiting, Dispatched
<1>2. QED
  BY <1>1 DEF IInv, QueuesHold, ActiveCounts

LEMMA SubmitIInv ==
  ASSUME IInv, NEW c \in Callers, NEW kind \in {"score", "generation"}, Submit(c, kind)
  PROVE  IInv'
<1> DEFINE r == [at |-> "queued", kind |-> kind, heard |-> TRUE]
<1>1. Types /\ QueuesHold /\ ActiveCounts /\ PassedInStreak /\ Ending
  BY DEF IInv
<1>2. /\ request' = [request EXCEPT ![c] = r] /\ r \in Requests /\ r.at = "queued"
      /\ request[c].at = "none"
      /\ UNCHANGED <<active, streak, cursor, closed, closer, passed>>
  BY DEF Submit, Requests, Places, NoRequest
<1> HIDE DEF r
<1>3. /\ request' \in [Callers -> Requests]
      /\ \A place : At(place)' = IF place = "queued" THEN At(place) \cup {c} ELSE At(place) \ {c}
  BY <1>1, <1>2, PlacesAfter
<1>4. \A place : place # "none" => c \notin At(place)
  BY <1>2 DEF At
<1>5. \A place : place \notin {"none", "queued"} => At(place)' = At(place)
  BY <1>3, <1>4
<1>6. c[1] \in Bindings
  BY SchedulerAssumption DEF Bindings
<1>7. \A b \in Bindings :
        queues'[b] = IF b = c[1] THEN Append(queues[b], c) ELSE queues[b]
  BY <1>1, <1>6 DEF Submit, Types
<1>8. ASSUME NEW b \in Bindings
      PROVE  /\ queues'[b] \in Seq(Callers)
             /\ ToSet(queues'[b]) = Waiting(b)' /\ IsInjective(queues'[b])
  <2>1. /\ queues[b] \in Seq(Callers)
        /\ ToSet(queues[b]) = Waiting(b) /\ IsInjective(queues[b])
    BY <1>1 DEF Types, QueuesHold
  <2>2. c \notin ToSet(queues[b])
    BY <2>1, <1>4 DEF Waiting
  <2>3. Waiting(b)' = IF b = c[1] THEN Waiting(b) \cup {c} ELSE Waiting(b)
    BY <1>3 DEF Waiting
  <2>4. CASE b = c[1]
    <3>1. /\ Append(queues[b], c) \in Seq(Callers)
          /\ ToSet(Append(queues[b], c)) = ToSet(queues[b]) \cup {c}
          /\ IsInjective(Append(queues[b], c))
      BY <2>1, <2>2, PutLast
    <3>2. QED
      BY <2>1, <2>3, <2>4, <3>1, <1>7
  <2>5. CASE b # c[1]
    BY <2>1, <2>3, <2>5, <1>7
  <2>6. QED
    BY <2>4, <2>5
<1>9. Types'
  <2>1. dispatcher' \in {"look", "wait", "hand over", "exited"}
    BY <1>1 DEF Submit, Notify, Types
  <2>2. queues' \in [Bindings -> Seq(Callers)]
    <3>1. queues' = [b \in Bindings |-> queues'[b]]
      BY <1>1 DEF Submit, Types
    <3>2. QED
      BY <3>1, <1>8
  <2>3. QED
    BY <1>1, <1>2, <1>3, <2>1, <2>2 DEF Types
<1>10. QueuesHold'
  BY <1>8 DEF QueuesHold
<1>11. ActiveCounts'
  <2>1. \A b \in Bindings : Dispatched(b)' = Dispatched(b)
    <3>1. /\ At("in hand")' = At("in hand") /\ At("pooled")' = At("pooled")
          /\ At("executing")' = At("executing")
      BY <1>5
    <3>2. QED
      BY <3>1 DEF Dispatched
  <2>2. QED
    BY <1>1, <1>2, <2>1 DEF ActiveCounts
<1>12. PassedInStreak'
  BY <1>1, <1>2 DEF PassedInStreak
<1>13. Ending'
  <2>1. dispatcher' = dispatcher \/ dispatcher = "wait"
    BY DEF Submit, Notify
  <2>2. ~closed /\ closer = "open" /\ dispatcher # "exited" /\ dispatcher' # "exited"
    BY <1>1, <2>1 DEF Submit, Ending, Drained, Types, Notify
  <2>3. At("in hand") # {} => dispatcher' = "hand over"
    BY <1>1, <2>1 DEF Ending
  <2>4. QED
    BY <1>2, <1>5, <2>2, <2>3 DEF Ending
<1>14. QED
  BY <1>9, <1>10, <1>11, <1>12, <1>13 DEF IInv

LEMMA TimeOutIInv ==
  ASSUME IInv, NEW c \in Callers, TimeOut(c)
  PROVE  IInv'
<1> DEFINE r == [request[c] EXCEPT !.heard = FALSE]
<1>1. Types /\ QueuesHold /\ ActiveCounts /\ PassedInStreak /\ Ending
  BY DEF IInv
<1>2. /\ request' = [request EXCEPT ![c] = r] /\ r \in Requests /\ r.at = request[c].at
      /\ UNCHANGED <<queues, active, streak, cursor, closed, dispatcher, closer, passed>>
  BY <1>1 DEF TimeOut, Requests, Types, admission
<1> HIDE DEF r
<1>3. \A place : At(place)' = At(place)
  <2>1. \A place : At(place)' = IF place = r.at THEN At(place) \cup {c} ELSE At(place) \ {c}
    BY <1>1, <1>2, PlacesAfter
  <2>2. \A place : c \in At(place) <=> place = r.at
    BY <1>2 DEF At
  <2>3. QED
    BY <2>1, <2>2
<1>4. Types'
  BY <1>1, <1>2, PlacesAfter DEF Types
<1>5. QueuesHold' /\ ActiveCounts'
  BY <1>2, <1>3, CountsKept
<1>6. PassedInStreak' /\ Ending'
  BY <1>1, <1>2, <1>3 DEF PassedInStreak, Ending, Drained
<1>7. QED
  BY <1>4, <1>5, <1>6 DEF IInv

-----------------------------------------------------------------------------
(* The dispatcher *)

\* There is a request of the kind whose turn it is.
LEMMA PopIsTheirs ==
  ASSUME Types, NEW b \in Bindings, Ready(b)
  PROVE  PopIndex(b) \in Queued(b, IF ScoreFirst(b) THEN "score" ELSE "generation")
<1>1. /\ queues[b] \in Seq(Callers) /\ DOMAIN queues[b] = 1..Len(queues[b])
      /\ Len(queues[b]) \in Nat /\ Len(queues[b]) # 0
  BY LenProperties, EmptySeq DEF Types, Ready
<1>2. \A i \in DOMAIN queues[b] : request[queues[b][i]].kind \in {"score", "generation"}
  BY <1>1, ElementOfSeq DEF Types, Requests
<1>3. 1 \in Queued(b, "score") \cup Queued(b, "generation")
  BY <1>1, <1>2 DEF Queued
<1> DEFINE Q == Queued(b, IF ScoreFirst(b) THEN "score" ELSE "generation")
<1>4. Q # {}
  BY <1>3 DEF ScoreFirst
<1>5. Q \subseteq DOMAIN queues[b] /\ Q \in SUBSET Nat
  BY <1>1 DEF Queued
<1>6. QED
  BY <1>4, <1>5, MinOfNaturals DEF PopIndex

LEMMA PopIsThere ==
  ASSUME Types, NEW b \in Bindings, Ready(b)
  PROVE  PopIndex(b) \in DOMAIN queues[b]
<1>1. QED
  BY PopIsTheirs DEF Queued

\* A score that passes a generation is counted in the streak.
LEMMA DispatchStreak ==
  ASSUME Types, PassedInStreak, NEW b \in Bindings, Dispatch(b)
  PROVE  /\ streak' \in [Bindings -> 0..MaxStreak] /\ passed' \in [Bindings -> Nat]
         /\ PassedInStreak'
<1> DEFINE passes == ScoreFirst(b) /\ Queued(b, "generation") # {}
<1>1. /\ streak[b] \in Nat /\ streak[b] <= 2 /\ passed[b] \in Nat /\ passed[b] <= streak[b]
  <2>1. streak[b] \in 0..MaxStreak /\ passed[b] \in Nat
    BY DEF Types
  <2>2. passed[b] <= streak[b]
    BY DEF PassedInStreak
  <2>3. QED
    BY <2>1, <2>2 DEF MaxStreak
<1>2. Min({streak[b] + 1, 2}) = IF streak[b] + 1 <= 2 THEN streak[b] + 1 ELSE 2
  BY <1>1, MinOfTwo
<1>3. /\ StreakAfter(b) \in 0..2
      /\ passes => StreakAfter(b) = streak[b] + 1
  BY <1>1, <1>2 DEF StreakAfter, ScoreFirst, MaxStreak
<1>4. /\ streak' = [streak EXCEPT ![b] = StreakAfter(b)]
      /\ passed' = [passed EXCEPT ![b] = IF passes THEN @ + 1 ELSE 0]
  BY DEF Dispatch
<1>5. /\ \A d \in Bindings : streak'[d] = IF d = b THEN StreakAfter(b) ELSE streak[d]
      /\ \A d \in Bindings : passed'[d] = IF d = b THEN (IF passes THEN passed[b] + 1 ELSE 0)
                                                   ELSE passed[d]
  BY <1>4 DEF Types
<1>6. streak' \in [Bindings -> 0..MaxStreak] /\ passed' \in [Bindings -> Nat]
  <2>1. (IF passes THEN passed[b] + 1 ELSE 0) \in Nat
    BY <1>1
  <2> HIDE DEF passes
  <2>2. streak \in [Bindings -> 0..MaxStreak] /\ passed \in [Bindings -> Nat]
    BY DEF Types
  <2>3. StreakAfter(b) \in 0..MaxStreak
    BY <1>3 DEF MaxStreak
  <2>4. QED
    BY <2>1, <2>2, <2>3, <1>4
<1> HIDE DEF passes
<1>7. PassedInStreak'
  BY <1>1, <1>3, <1>5 DEF PassedInStreak
<1>8. QED
  BY <1>6, <1>7

LEMMA DispatchIInv ==
  ASSUME IInv, NEW b \in Bindings, Dispatch(b)
  PROVE  IInv'
<1> DEFINE i == PopIndex(b)
           c == queues[b][i]
           r == [request[c] EXCEPT !.at = "in hand"]
<1>1. Types /\ QueuesHold /\ ActiveCounts /\ PassedInStreak /\ Ending
  BY DEF IInv
<1>2. /\ dispatcher = "look" /\ dispatcher' = "hand over"
      /\ request' = [request EXCEPT ![c] = r]
      /\ queues' = [queues EXCEPT ![b] = RemoveAt(queues[b], i)]
      /\ active' = [active EXCEPT ![b] = active[b] + 1]
      /\ cursor' = (b % Experiments) + 1
      /\ UNCHANGED <<closed, closer>>
  BY DEF Dispatch
<1>3. i \in DOMAIN queues[b]
  BY <1>1, PopIsThere DEF Dispatch, Turn
<1> HIDE DEF i
<1>4. /\ queues[b] \in Seq(Callers)
      /\ ToSet(queues[b]) = Waiting(b) /\ IsInjective(queues[b])
  BY <1>1 DEF Types, QueuesHold
<1>5. c \in Waiting(b)
  BY <1>3, <1>4 DEF ToSet
<1>6. c \in Callers /\ c[1] = b /\ request[c].at = "queued"
  BY <1>5 DEF Waiting, At
<1> HIDE DEF c
<1>7. r \in Requests /\ r.at = "in hand"
  BY <1>1, <1>6 DEF Types, Requests, Places
<1> HIDE DEF r
<1>8. /\ request' \in [Callers -> Requests]
      /\ \A place : At(place)' = IF place = "in hand" THEN At(place) \cup {c} ELSE At(place) \ {c}
  BY <1>1, <1>2, <1>6, <1>7, PlacesAfter
<1>9. \A place : c \in At(place) <=> place = "queued"
  BY <1>6 DEF At
<1>10. /\ At("queued")' = At("queued") \ {c}
       /\ At("in hand")' = At("in hand") \cup {c}
       /\ At("pooled")' = At("pooled") /\ At("executing")' = At("executing")
       /\ At("answer")' = At("answer")
  <2>1. \A place : place \notin {"in hand", "queued"} => At(place)' = At(place)
    BY <1>8, <1>9
  <2>2. At("queued")' = At("queued") \ {c} /\ At("in hand")' = At("in hand") \cup {c}
    BY <1>8
  <2>3. QED
    BY <2>1, <2>2
<1>11. /\ RemoveAt(queues[b], i) \in Seq(Callers)
       /\ ToSet(RemoveAt(queues[b], i)) = Waiting(b) \ {c}
       /\ IsInjective(RemoveAt(queues[b], i))
  BY <1>3, <1>4, TakenOut DEF c
<1>12. QueuesHold'
  <2>1. \A d \in Bindings : queues'[d] = IF d = b THEN RemoveAt(queues[b], i) ELSE queues[d]
    BY <1>1, <1>2 DEF Types
  <2>2. \A d \in Bindings : Waiting(d)' = IF d = b THEN Waiting(b) \ {c} ELSE Waiting(d)
    BY <1>6, <1>10 DEF Waiting
  <2>3. ASSUME NEW d \in Bindings PROVE ToSet(queues'[d]) = Waiting(d)' /\ IsInjective(queues'[d])
    <3>1. CASE d = b
      BY <3>1, <2>1, <2>2, <1>11
    <3>2. CASE d # b
      BY <3>2, <2>1, <2>2, <1>1 DEF QueuesHold
    <3>3. QED
      BY <3>1, <3>2
  <2>4. QED
    BY <2>3 DEF QueuesHold
<1>13. ActiveCounts'
  <2>1. \A d \in Bindings : active'[d] = IF d = b THEN active[b] + 1 ELSE active[d]
    BY <1>1, <1>2 DEF Types
  <2>2. \A d \in Bindings :
          Dispatched(d)' = IF d = b THEN Dispatched(b) \cup {c} ELSE Dispatched(d)
    BY <1>6, <1>10 DEF Dispatched
  <2>3. c \notin Dispatched(b)
    <3>1. c \notin At("in hand") /\ c \notin At("pooled") /\ c \notin At("executing")
      BY <1>6 DEF At
    <3>2. QED
      BY <3>1 DEF Dispatched
  <2>4. /\ IsFiniteSet(Dispatched(b) \cup {c})
        /\ Cardinality(Dispatched(b) \cup {c}) = Cardinality(Dispatched(b)) + 1
    BY <1>1, <2>3, FS_AddElement DEF ActiveCounts
  <2>5. ASSUME NEW d \in Bindings
        PROVE  IsFiniteSet(Dispatched(d)') /\ active'[d] = Cardinality(Dispatched(d)')
    <3>1. CASE d = b
      BY <3>1, <2>1, <2>2, <2>4, <1>1 DEF ActiveCounts
    <3>2. CASE d # b
      BY <3>2, <2>1, <2>2, <1>1 DEF ActiveCounts
    <3>3. QED
      BY <3>1, <3>2
  <2>6. QED
    BY <2>5 DEF ActiveCounts
<1>14. /\ streak' \in [Bindings -> 0..MaxStreak] /\ passed' \in [Bindings -> Nat]
       /\ PassedInStreak'
  BY <1>1, DispatchStreak
<1>15. Types'
  <2>1. cursor' \in Bindings
    <3>1. Experiments \in Nat \ {0} /\ b \in Nat
      BY SchedulerAssumption DEF Bindings
    <3>2. (b % Experiments) + 1 \in 1..Experiments
      BY <3>1
    <3>3. QED
      BY <3>2, <1>2 DEF Bindings
  <2>2. queues' \in [Bindings -> Seq(Callers)] /\ active' \in [Bindings -> Int]
    <3>1. queues \in [Bindings -> Seq(Callers)] /\ active \in [Bindings -> Int]
      BY <1>1 DEF Types
    <3>2. active[b] + 1 \in Int
      BY <3>1
    <3>3. QED
      BY <3>1, <3>2, <1>2, <1>11
  <2>3. QED
    BY <1>1, <1>2, <1>8, <1>14, <2>1, <2>2 DEF Types
<1>16. Ending'
  <2>1. closer \notin {"shutdown", "closed"}
    BY <1>1, <1>2 DEF Ending
  <2>2. QED
    BY <1>1, <1>2, <2>1 DEF Ending
<1>17. QED
  BY <1>12, <1>13, <1>14, <1>15, <1>16 DEF IInv

LEMMA HandOverIInv == IInv /\ HandOver => IInv'
<1> SUFFICES ASSUME IInv, HandOver PROVE IInv'
  OBVIOUS
<1>1. Types /\ QueuesHold /\ ActiveCounts /\ PassedInStreak /\ Ending
  BY DEF IInv
<1>2. /\ dispatcher = "hand over" /\ dispatcher' = "look"
      /\ UNCHANGED <<queues, active, streak, cursor, closed, closer, passed>>
  BY DEF HandOver, admission
<1>3. \A c \in Callers :
        /\ request'[c] \in Requests
        /\ request'[c].at = IF request[c].at = "in hand" THEN "pooled" ELSE request[c].at
  BY <1>1 DEF HandOver, Types, Requests, Places
<1>4. Types'
  <2>1. request' = [c \in Callers |-> request'[c]]
    BY DEF HandOver
  <2>2. request' \in [Callers -> Requests]
    BY <2>1, <1>3
  <2>3. QED
    BY <1>1, <1>2, <2>2 DEF Types
<1>5. /\ At("in hand")' = {} /\ At("pooled")' = At("pooled") \cup At("in hand")
      /\ At("queued")' = At("queued") /\ At("executing")' = At("executing")
  BY <1>3 DEF At
<1>6. QueuesHold' /\ ActiveCounts'
  BY <1>2, <1>5, CountsKept
<1>7. PassedInStreak' /\ Ending'
  <2>1. closer \notin {"shutdown", "closed"}
    BY <1>1, <1>2 DEF Ending
  <2>2. QED
    BY <1>1, <1>2, <1>5, <2>1 DEF PassedInStreak, Ending
<1>8. QED
  BY <1>4, <1>6, <1>7 DEF IInv

\* The steps that change neither the requests nor the counts.
LEMMA ControlIInv ==
  ASSUME IInv, Exit \/ Sleep \/ Close \/ JoinDispatcher \/ ShutdownPool \/ UNCHANGED vars
  PROVE  IInv'
<1>1. Types /\ QueuesHold /\ ActiveCounts /\ PassedInStreak /\ Ending
  BY DEF IInv
<1>2. UNCHANGED <<queues, active, streak, cursor, request, passed>>
  BY DEF Exit, Sleep, Close, JoinDispatcher, ShutdownPool, vars, admission
<1>3. \A place : At(place)' = At(place)
  BY <1>2 DEF At
<1>4. QueuesHold' /\ ActiveCounts' /\ PassedInStreak'
  BY <1>1, <1>2, <1>3, CountsKept DEF PassedInStreak
<1>5. Types'
  BY <1>1, <1>2 DEF Types, Exit, Sleep, Close, JoinDispatcher, ShutdownPool, Notify, vars,
     admission
<1>6. Ending'
  <2>1. CASE Exit
    BY <2>1, <1>1, <1>2, <1>3 DEF Ending, Exit, Drained
  <2>2. CASE Sleep
    BY <2>2, <1>1, <1>2, <1>3 DEF Ending, Sleep, Drained
  <2>3. CASE Close
    BY <2>3, <1>1, <1>2, <1>3 DEF Ending, Close, Notify, Drained
  <2>4. CASE JoinDispatcher
    BY <2>4, <1>1, <1>2, <1>3 DEF Ending, JoinDispatcher, Drained
  <2>5. CASE ShutdownPool
    BY <2>5, <1>1, <1>2, <1>3 DEF Ending, ShutdownPool, Drained
  <2>6. CASE UNCHANGED vars
    BY <2>6, <1>1, <1>3 DEF Ending, vars, admission, Drained
  <2>7. QED
    BY <2>1, <2>2, <2>3, <2>4, <2>5, <2>6
<1>7. QED
  BY <1>4, <1>5, <1>6 DEF IInv

-----------------------------------------------------------------------------
(* The workers *)

LEMMA ExecuteIInv ==
  ASSUME IInv, NEW c \in Callers, Execute(c)
  PROVE  IInv'
<1> DEFINE r == [request[c] EXCEPT !.at = "executing"]
<1>1. Types /\ QueuesHold /\ ActiveCounts /\ PassedInStreak /\ Ending
  BY DEF IInv
<1>2. /\ request' = [request EXCEPT ![c] = r] /\ r \in Requests /\ r.at = "executing"
      /\ request[c].at = "pooled"
      /\ UNCHANGED <<queues, active, streak, cursor, closed, dispatcher, closer, passed>>
  BY <1>1 DEF Execute, Requests, Places, Types, admission
<1> HIDE DEF r
<1>3. /\ request' \in [Callers -> Requests]
      /\ \A place : At(place)' = IF place = "executing" THEN At(place) \cup {c} ELSE At(place) \ {c}
  BY <1>1, <1>2, PlacesAfter
<1>4. /\ c \in At("pooled") /\ c \notin At("queued") /\ c \notin At("in hand")
  BY <1>2 DEF At
<1>5. /\ At("queued")' = At("queued") /\ At("in hand")' = At("in hand")
      /\ At("pooled")' = At("pooled") \ {c} /\ At("executing")' = At("executing") \cup {c}
  BY <1>3, <1>4
<1>6. QueuesHold' /\ ActiveCounts'
  BY <1>2, <1>4, <1>5, CountsKept
<1>7. Types' /\ PassedInStreak'
  BY <1>1, <1>2, <1>3 DEF Types, PassedInStreak
<1>8. Ending'
  BY <1>1, <1>2, <1>4, <1>5 DEF Ending, Drained
<1>9. QED
  BY <1>6, <1>7, <1>8 DEF IInv

LEMMA ReleaseIInv ==
  ASSUME IInv, NEW c \in Callers, Release(c)
  PROVE  IInv'
<1> DEFINE r == [request[c] EXCEPT !.at = "answer"]
<1>1. Types /\ QueuesHold /\ ActiveCounts /\ PassedInStreak /\ Ending
  BY DEF IInv
<1>2. /\ request' = [request EXCEPT ![c] = r] /\ r \in Requests /\ r.at = "answer"
      /\ request[c].at = "executing"
      /\ active' = [active EXCEPT ![c[1]] = active[c[1]] - 1]
      /\ UNCHANGED <<queues, streak, cursor, closed, closer, passed>>
      /\ dispatcher' = IF dispatcher = "wait" THEN "look" ELSE dispatcher
  BY <1>1 DEF Release, PlaceBack, Wake, Notify, Requests, Places, Types
<1> HIDE DEF r
<1>3. /\ request' \in [Callers -> Requests]
      /\ \A place : At(place)' = IF place = "answer" THEN At(place) \cup {c} ELSE At(place) \ {c}
  BY <1>1, <1>2, PlacesAfter
<1>4. /\ c \in At("executing") /\ c \notin At("queued") /\ c \notin At("in hand")
      /\ c \notin At("pooled")
  BY <1>2 DEF At
<1>5. /\ At("queued")' = At("queued") /\ At("in hand")' = At("in hand")
      /\ At("pooled")' = At("pooled") /\ At("executing")' = At("executing") \ {c}
  BY <1>3, <1>4
<1>6. c[1] \in Bindings
  BY SchedulerAssumption DEF Bindings
<1>7. active \in [Bindings -> Int] /\ active[c[1]] - 1 \in Int
  <2>1. active \in [Bindings -> Int]
    BY <1>1 DEF Types
  <2>2. QED
    BY <2>1, <1>6
<1>8. QueuesHold'
  <2>1. \A b \in Bindings : Waiting(b)' = Waiting(b)
    BY <1>5 DEF Waiting
  <2>2. QED
    BY <2>1, <1>1, <1>2 DEF QueuesHold
<1>9. ASSUME NEW b \in Bindings
      PROVE  IsFiniteSet(Dispatched(b)') /\ active'[b] = Cardinality(Dispatched(b)')
  <2>1. active'[b] = IF b = c[1] THEN active[b] - 1 ELSE active[b]
    BY <1>2, <1>6, <1>7
  <2>2. Dispatched(b)' = IF b = c[1] THEN Dispatched(b) \ {c} ELSE Dispatched(b)
    BY <1>4, <1>5 DEF Dispatched
  <2>3. IsFiniteSet(Dispatched(b)) /\ active[b] = Cardinality(Dispatched(b))
    BY <1>1 DEF ActiveCounts
  <2>4. CASE b = c[1]
    <3>1. c \in Dispatched(b)
      BY <1>4, <2>4 DEF Dispatched
    <3>2. /\ IsFiniteSet(Dispatched(b) \ {c})
          /\ Cardinality(Dispatched(b) \ {c}) = Cardinality(Dispatched(b)) - 1
      BY <2>3, <3>1, FS_RemoveElement
    <3>3. QED
      BY <2>1, <2>2, <2>3, <2>4, <3>2
  <2>5. CASE b # c[1]
    BY <2>1, <2>2, <2>3, <2>5
  <2>6. QED
    BY <2>4, <2>5
<1>10. ActiveCounts'
  BY <1>9 DEF ActiveCounts
<1>11. Types' /\ PassedInStreak'
  BY <1>1, <1>2, <1>3, <1>7 DEF Types, PassedInStreak
<1>12. Ending'
  BY <1>1, <1>2, <1>4, <1>5 DEF Ending, Drained
<1>13. QED
  BY <1>8, <1>10, <1>11, <1>12 DEF IInv

LEMMA AnswerIInv ==
  ASSUME IInv, NEW c \in Callers, Answer(c)
  PROVE  IInv'
<1>1. Types /\ QueuesHold /\ ActiveCounts /\ PassedInStreak /\ Ending
  BY DEF IInv
<1>2. /\ request' = [request EXCEPT ![c] = NoRequest]
      /\ NoRequest \in Requests /\ NoRequest.at = "none"
      /\ request[c].at = "answer"
      /\ UNCHANGED <<queues, active, streak, cursor, closed, dispatcher, closer, passed>>
  BY DEF Answer, NoRequest, Requests, Places, admission
<1>3. /\ request' \in [Callers -> Requests]
      /\ \A place : At(place)' = IF place = "none" THEN At(place) \cup {c} ELSE At(place) \ {c}
  BY <1>1, <1>2, PlacesAfter
<1>4. /\ c \in At("answer") /\ c \notin At("queued") /\ c \notin At("in hand")
      /\ c \notin At("pooled") /\ c \notin At("executing")
  BY <1>2 DEF At
<1>5. /\ At("queued")' = At("queued") /\ At("in hand")' = At("in hand")
      /\ At("pooled")' = At("pooled") /\ At("executing")' = At("executing")
  BY <1>3, <1>4
<1>6. QueuesHold' /\ ActiveCounts'
  BY <1>2, <1>5, CountsKept
<1>7. Types' /\ PassedInStreak'
  BY <1>1, <1>2, <1>3 DEF Types, PassedInStreak
<1>8. Ending'
  BY <1>1, <1>2, <1>4, <1>5 DEF Ending, Drained
<1>9. QED
  BY <1>6, <1>7, <1>8 DEF IInv

-----------------------------------------------------------------------------
(* Results *)

LEMMA StepIInv == IInv /\ [Next]_vars => IInv'
<1> SUFFICES ASSUME IInv, [Next]_vars PROVE IInv'
  OBVIOUS
<1>1. ASSUME NEW c \in Callers, NEW kind \in {"score", "generation"}, Submit(c, kind)
      PROVE  IInv'
  BY <1>1, SubmitIInv
<1>2. ASSUME NEW c \in Callers, TimeOut(c) PROVE IInv'
  BY <1>2, TimeOutIInv
<1>3. ASSUME NEW c \in Callers, Work(c) PROVE IInv'
  BY <1>3, ExecuteIInv, ReleaseIInv, AnswerIInv DEF Work
<1>4. CASE Dispatcher
  BY <1>4, HandOverIInv, DispatchIInv, ControlIInv DEF Dispatcher
<1>5. CASE Close \/ JoinDispatcher \/ ShutdownPool \/ UNCHANGED vars
  BY <1>5, ControlIInv
<1>6. QED
  BY <1>1, <1>2, <1>3, <1>4, <1>5 DEF Next

LEMMA Invariance == Spec => []IInv
<1>1. QED
  BY InitIInv, StepIInv, PTL DEF Spec

\* The queue of a binding always holds exactly its waiting requests, once each, and
\* active exactly counts its dispatched ones: the places that are taken under the lock
\* and given back by the workers never drift.
THEOREM TypeCorrect == Spec => []TypeOK
<1>1. IInv => TypeOK
  BY DEF IInv, Types, QueuesHold, Waiting, ActiveCounts, Dispatched, TypeOK, Requests
<1>2. QED
  BY <1>1, Invariance, PTL

\* No more than two scores in a row pass a waiting generation of their run, in whatever
\* order the callers submit, time out and submit again.
THEOREM PassedTwiceAtMost == Spec => []GenerationPassedTwice
<1>1. IInv => GenerationPassedTwice
  <2> SUFFICES ASSUME IInv, NEW b \in Bindings PROVE passed[b] <= 2
    BY DEF GenerationPassedTwice
  <2>1. streak[b] \in 0..MaxStreak /\ passed[b] \in Nat
    BY DEF IInv, Types
  <2>2. passed[b] <= streak[b]
    BY DEF IInv, PassedInStreak
  <2>3. QED
    BY <2>1, <2>2 DEF MaxStreak
<1>2. QED
  BY <1>1, Invariance, PTL

\* When close has returned no request that was accepted is without its answer.
THEOREM CloseDrains == Spec => []ClosedIsDrained
<1>1. IInv => ClosedIsDrained
  <2> SUFFICES ASSUME IInv, closer = "closed" PROVE At("none") = Callers
    BY DEF ClosedIsDrained
  <2>1. dispatcher = "exited" /\ Drained /\ At("in hand") = {}
    BY DEF IInv, Ending
  <2>2. At("pooled") = {} /\ At("executing") = {} /\ At("answer") = {}
    BY DEF IInv, Ending
  <2>3. At("queued") = {}
    <3>1. ASSUME NEW c \in At("queued") PROVE FALSE
      <4>1. c \in Callers /\ c[1] \in Bindings
        BY SchedulerAssumption DEF At, Bindings
      <4>2. c \in ToSet(queues[c[1]]) /\ queues[c[1]] = <<>>
        BY <2>1, <4>1 DEF IInv, QueuesHold, Waiting, Drained
      <4>3. QED
        BY <4>2 DEF ToSet
    <3>2. QED
      BY <3>1
  <2>4. \A c \in Callers : request[c].at \in Places
    BY DEF IInv, Types, Requests
  <2>5. QED
    BY <2>1, <2>2, <2>3, <2>4 DEF At, Places
<1>2. QED
  BY <1>1, Invariance, PTL

-----------------------------------------------------------------------------
(* Wake-ups *)

\* The dispatcher is found asleep only if nothing has changed since, or if it has just
\* seen a reason.
LEMMA StillAsleep ==
  ASSUME [Next]_vars, dispatcher' = "wait"
  PROVE  Sleep \/ (dispatcher = "wait" /\ UNCHANGED <<queues, active, closed>>)
<1> USE DEF admission
<1>1. ASSUME NEW c \in Callers, NEW kind \in {"score", "generation"}, Submit(c, kind)
      PROVE  FALSE
  BY <1>1 DEF Submit, Notify
<1>2. ASSUME NEW c \in Callers, TimeOut(c) \/ Execute(c) \/ Answer(c)
      PROVE  dispatcher = "wait" /\ UNCHANGED <<queues, active, closed>>
  BY <1>2 DEF TimeOut, Execute, Answer
<1>3. ASSUME NEW c \in Callers, Release(c) PROVE FALSE
  BY <1>3 DEF Release, Wake, Notify
<1>4. ASSUME Dispatcher PROVE Sleep
  BY <1>4 DEF Dispatcher, HandOver, Exit, Dispatch
<1>5. ASSUME Close PROVE FALSE
  BY <1>5 DEF Close, Notify
<1>6. ASSUME JoinDispatcher \/ ShutdownPool \/ UNCHANGED vars
      PROVE  dispatcher = "wait" /\ UNCHANGED <<queues, active, closed>>
  BY <1>6 DEF JoinDispatcher, ShutdownPool, vars
<1>7. QED
  BY <1>1, <1>2, <1>3, <1>4, <1>5, <1>6 DEF Next, Work

LEMMA StepSleepsWithReason == SleepsWithReason /\ [Next]_vars => SleepsWithReason'
<1> SUFFICES ASSUME SleepsWithReason, [Next]_vars, dispatcher' = "wait"
             PROVE  /\ ~(HasCapacity /\ \E b \in Bindings : Ready(b))'
                    /\ ~Drained'
  BY DEF SleepsWithReason
<1>1. /\ ~(HasCapacity /\ \E b \in Bindings : Ready(b)) /\ ~Drained
      /\ UNCHANGED <<queues, active, closed>>
  BY StillAsleep DEF Sleep, SleepsWithReason, admission
<1>2. /\ HasCapacity' = HasCapacity /\ Drained' = Drained
      /\ \A b \in Bindings : Ready(b)' = Ready(b)
  BY <1>1 DEF HasCapacity, Total, Drained, Ready
<1>3. QED
  BY <1>1, <1>2

\* No wake-up is lost, with any number of callers, bindings and places: whatever makes
\* a request dispatchable, or the dispatcher's exit possible, notifies it
\* (teacher_schedule.py:30, 50-62, 78, 84).
THEOREM NoWakeUpIsLost == Spec => []SleepsWithReason
<1>1. Init => SleepsWithReason
  BY DEF Init, SleepsWithReason
<1>2. QED
  BY <1>1, StepSleepsWithReason, PTL DEF Spec

LEMMA StillAsleepOnePlace ==
  ASSUME [OnePlace!Next]_vars, dispatcher' = "wait"
  PROVE  OnePlace!Sleep \/ (dispatcher = "wait" /\ UNCHANGED <<queues, active, closed>>)
<1> USE DEF OnePlace!admission, admission, OnePlace!Notify
<1>1. ASSUME NEW c \in Callers, NEW kind \in {"score", "generation"}, OnePlace!Submit(c, kind)
      PROVE  FALSE
  BY <1>1 DEF OnePlace!Submit
<1>2. ASSUME NEW c \in Callers, OnePlace!TimeOut(c) \/ OnePlace!Execute(c) \/ OnePlace!Answer(c)
      PROVE  dispatcher = "wait" /\ UNCHANGED <<queues, active, closed>>
  BY <1>2 DEF OnePlace!TimeOut, OnePlace!Execute, OnePlace!Answer
<1>3. ASSUME NEW c \in Callers, OnePlace!Release(c) PROVE FALSE
  BY <1>3 DEF OnePlace!Release, OnePlace!Wake
<1>4. ASSUME OnePlace!Dispatcher PROVE OnePlace!Sleep
  BY <1>4 DEF OnePlace!Dispatcher, OnePlace!HandOver, OnePlace!Exit, OnePlace!Dispatch
<1>5. ASSUME OnePlace!Close PROVE FALSE
  BY <1>5 DEF OnePlace!Close
<1>6. ASSUME OnePlace!JoinDispatcher \/ OnePlace!ShutdownPool \/ UNCHANGED vars
      PROVE  dispatcher = "wait" /\ UNCHANGED <<queues, active, closed>>
  BY <1>6 DEF OnePlace!JoinDispatcher, OnePlace!ShutdownPool, vars
<1>7. QED
  BY <1>1, <1>2, <1>3, <1>4, <1>5, <1>6 DEF OnePlace!Next, OnePlace!Work

LEMMA StepOnePlace ==
  OnePlace!SleepsWithReason /\ [OnePlace!Next]_vars => OnePlace!SleepsWithReason'
<1> SUFFICES ASSUME OnePlace!SleepsWithReason, [OnePlace!Next]_vars, dispatcher' = "wait"
             PROVE  /\ ~(OnePlace!HasCapacity /\ \E b \in OnePlace!Bindings : OnePlace!Ready(b))'
                    /\ ~OnePlace!Drained'
  BY DEF OnePlace!SleepsWithReason
<1>1. /\ ~(OnePlace!HasCapacity /\ \E b \in OnePlace!Bindings : OnePlace!Ready(b))
      /\ ~OnePlace!Drained
      /\ UNCHANGED <<queues, active, closed>>
  BY StillAsleepOnePlace DEF OnePlace!Sleep, OnePlace!SleepsWithReason, OnePlace!admission
<1>2. /\ OnePlace!HasCapacity' = OnePlace!HasCapacity /\ OnePlace!Drained' = OnePlace!Drained
      /\ \A b \in OnePlace!Bindings : OnePlace!Ready(b)' = OnePlace!Ready(b)
  BY <1>1 DEF OnePlace!HasCapacity, OnePlace!Total, OnePlace!Drained, OnePlace!Ready
<1>3. QED
  BY <1>1, <1>2

\* Nor is one lost in either of the two instances that are model-checked.
THEOREM NoWakeUpIsLostMC == MCSpec => []NoLostWakeUp
<1>1. MCInit => NoLostWakeUp
  BY DEF MCInit, Init, NoLostWakeUp, SleepsWithReason, OnePlace!SleepsWithReason
<1>2. NoLostWakeUp /\ [MCNext]_<<vars, narrow>> => NoLostWakeUp'
  <2> SUFFICES ASSUME NoLostWakeUp, [MCNext]_<<vars, narrow>> PROVE NoLostWakeUp'
    OBVIOUS
  <2>1. narrow' = narrow
    BY DEF MCNext
  <2>2. CASE narrow
    BY <2>1, <2>2, StepOnePlace DEF MCNext, NoLostWakeUp
  <2>3. CASE ~narrow
    BY <2>1, <2>3, StepSleepsWithReason DEF MCNext, NoLostWakeUp
  <2>4. QED
    BY <2>2, <2>3
<1>3. QED
  BY <1>1, <1>2, PTL DEF MCSpec
-----------------------------------------------------------------------------
(* The limits *)

\* The sum that SumFunction computes over a set of indices.
Sums(f, g, S) ==
  g = [s \in SUBSET S |->
         IF s = {} THEN 0
         ELSE LET x == CHOOSE y \in s : TRUE IN f[x] + g[s \ {x}]]

LEMMA SumIs ==
  ASSUME NEW f
  PROVE  SumFunction(f) = (CHOOSE g : Sums(f, g, DOMAIN f))[DOMAIN f]
BY DEF SumFunction, SumFunctionOnSet, FoldFunctionOnSet, MapThenFoldSet, Sums

\* Two sums over the same finite set are equal: a smallest subset on which they differ
\* would lose an element without becoming one.
LEMMA SumsAgree ==
  ASSUME NEW f, NEW S, IsFiniteSet(S), NEW g, NEW h, Sums(f, g, S), Sums(f, h, S)
  PROVE  g[S] = h[S]
<1> DEFINE Bad == {s \in SUBSET S : g[s] # h[s]}
           Sizes == {Cardinality(s) : s \in Bad}
<1>1. SUFFICES ASSUME Bad # {} PROVE FALSE
  OBVIOUS
<1>2. \A s \in SUBSET S : IsFiniteSet(s) /\ Cardinality(s) \in Nat
  BY FS_Subset, FS_CardinalityType
<1>3. Sizes \in SUBSET Nat /\ Sizes # {}
  BY <1>1, <1>2
<1>4. PICK s \in Bad : \A t \in Bad : Cardinality(s) <= Cardinality(t)
  <2>1. Min(Sizes) \in Sizes /\ \A y \in Sizes : Min(Sizes) <= y
    BY <1>3, MinOfNaturals
  <2>2. PICK s \in Bad : Min(Sizes) = Cardinality(s)
    BY <2>1
  <2>3. \A t \in Bad : Cardinality(s) <= Cardinality(t)
    BY <2>1, <2>2
  <2>4. QED
    BY <2>3
<1>5. /\ g[s] = IF s = {} THEN 0 ELSE LET x == CHOOSE y \in s : TRUE IN f[x] + g[s \ {x}]
      /\ h[s] = IF s = {} THEN 0 ELSE LET x == CHOOSE y \in s : TRUE IN f[x] + h[s \ {x}]
  BY <1>4 DEF Sums
<1>6. s # {}
  BY <1>4, <1>5
<1>7. PICK x \in s : x = CHOOSE y \in s : TRUE
  BY <1>6
<1>8. g[s] = f[x] + g[s \ {x}] /\ h[s] = f[x] + h[s \ {x}]
  BY <1>5, <1>6, <1>7
<1>9. Cardinality(s \ {x}) = Cardinality(s) - 1
  BY <1>2, <1>4, <1>7, FS_RemoveElement
<1>10. s \ {x} \notin Bad
  BY <1>2, <1>4, <1>9
<1>11. QED
  BY <1>4, <1>8, <1>10

\* Those of some bindings that have begun.
BegunOf(s) == {c \in Begun : c[1] \in s}

LEMMA BegunIs ==
  ASSUME IInv
  PROVE  /\ IsFiniteSet(Begun) /\ BegunOf(Bindings) = Begun
         /\ \A s \in SUBSET Bindings :
              IsFiniteSet(BegunOf(s)) /\ Cardinality(BegunOf(s)) \in Nat
<1>1. IsFiniteSet(Bindings)
  BY SchedulerAssumption, FS_Interval DEF Bindings
<1>2. IsFiniteSet({Dispatched(b) : b \in Bindings})
  <2> DEFINE T == {Dispatched(b) : b \in Bindings}
             d == [b \in Bindings |-> Dispatched(b)]
  <2>1. d \in [Bindings -> T] /\ \A t \in T : \E b \in Bindings : d[b] = t
    OBVIOUS
  <2> HIDE DEF d, T
  <2>2. d \in Surjection(Bindings, T)
    BY <2>1 DEF Surjection
  <2>3. IsFiniteSet(T)
    BY <1>1, <2>2, FS_Surjection
  <2>4. QED
    BY <2>3 DEF T
<1>3. \A T \in {Dispatched(b) : b \in Bindings} : IsFiniteSet(T)
  BY DEF IInv, ActiveCounts
<1>4. IsFiniteSet(UNION {Dispatched(b) : b \in Bindings})
  BY <1>2, <1>3, FS_UNION
<1>5. \A c \in Begun : c \in Callers /\ c[1] \in Bindings
  BY SchedulerAssumption DEF Begun, At, Bindings
<1>6. Begun = UNION {Dispatched(b) : b \in Bindings}
  <2>1. \A b \in Bindings : \A c \in Dispatched(b) : c \in Begun
    BY DEF Begun, Dispatched
  <2>2. \A c \in Begun : c[1] \in Bindings /\ c \in Dispatched(c[1])
    BY <1>5 DEF Begun, Dispatched
  <2>3. QED
    BY <2>1, <2>2
<1>7. BegunOf(Bindings) = Begun
  BY <1>5 DEF BegunOf
<1>8. \A s \in SUBSET Bindings :
        IsFiniteSet(BegunOf(s)) /\ Cardinality(BegunOf(s)) \in Nat
  <2> SUFFICES ASSUME NEW s \in SUBSET Bindings
               PROVE  IsFiniteSet(BegunOf(s)) /\ Cardinality(BegunOf(s)) \in Nat
    OBVIOUS
  <2>1. BegunOf(s) \in SUBSET Begun /\ IsFiniteSet(Begun)
    BY <1>4, <1>6 DEF BegunOf
  <2>2. QED
    BY <2>1, FS_Subset, FS_CardinalityType
<1>9. QED
  BY <1>4, <1>6, <1>7, <1>8

\* The total of active is the number of requests that were dispatched and not released.
LEMMA TotalCounts ==
  ASSUME IInv
  PROVE  Total = Cardinality(Begun)
<1> DEFINE g == [s \in SUBSET Bindings |-> Cardinality(BegunOf(s))]
<1>1. IsFiniteSet(Bindings)
  BY SchedulerAssumption, FS_Interval DEF Bindings
<1>2. DOMAIN active = Bindings
  BY DEF IInv, Types
<1>3. ASSUME NEW s \in SUBSET Bindings, NEW x \in s
      PROVE  Cardinality(BegunOf(s)) = active[x] + Cardinality(BegunOf(s \ {x}))
  <2>1. /\ IsFiniteSet(Dispatched(x)) /\ active[x] = Cardinality(Dispatched(x))
        /\ IsFiniteSet(BegunOf(s \ {x}))
    BY BegunIs DEF IInv, ActiveCounts
  <2>2. BegunOf(s) = Dispatched(x) \cup BegunOf(s \ {x})
    BY DEF BegunOf, Begun, Dispatched
  <2>3. Dispatched(x) \cap BegunOf(s \ {x}) = {}
    BY DEF BegunOf, Dispatched
  <2>4. Cardinality(BegunOf(s))
          = Cardinality(Dispatched(x)) + Cardinality(BegunOf(s \ {x})) - Cardinality({})
    <3>1. Cardinality(Dispatched(x) \cup BegunOf(s \ {x}))
            = Cardinality(Dispatched(x)) + Cardinality(BegunOf(s \ {x}))
                - Cardinality(Dispatched(x) \cap BegunOf(s \ {x}))
      BY <2>1, FS_Union
    <3>2. QED
      BY <2>2, <2>3, <3>1
  <2>5. Cardinality(Dispatched(x)) \in Nat /\ Cardinality(BegunOf(s \ {x})) \in Nat
    BY <2>1, FS_CardinalityType
  <2>6. QED
    BY <2>1, <2>4, <2>5, FS_EmptySet
<1>4. Sums(active, g, Bindings)
  <2> SUFFICES ASSUME NEW s \in SUBSET Bindings
               PROVE  g[s] = IF s = {} THEN 0
                             ELSE LET x == CHOOSE y \in s : TRUE IN active[x] + g[s \ {x}]
    BY DEF Sums
  <2>1. CASE s = {}
    <3>1. BegunOf({}) = {}
      BY DEF BegunOf
    <3>2. QED
      BY <2>1, <3>1, FS_EmptySet
  <2>2. CASE s # {}
    <3>1. PICK x \in s : x = CHOOSE y \in s : TRUE
      BY <2>2
    <3>2. s \ {x} \in SUBSET Bindings
      OBVIOUS
    <3>3. g[s] = active[x] + g[s \ {x}]
      BY <1>3, <3>2
    <3>4. QED
      BY <2>2, <3>1, <3>3
  <2>3. QED
    BY <2>1, <2>2
<1>5. g[Bindings] = Cardinality(Begun)
  <2>1. BegunOf(Bindings) = Begun
    BY BegunIs
  <2>2. QED
    BY <2>1
<1> HIDE DEF g
<1>6. Sums(active, CHOOSE h : Sums(active, h, Bindings), Bindings)
  BY <1>4
<1>7. (CHOOSE h : Sums(active, h, Bindings))[Bindings] = g[Bindings]
  BY <1>1, <1>4, <1>6, SumsAgree
<1>8. QED
  BY <1>2, <1>5, <1>7, SumIs DEF Total

\* What the workers of the pool are busy with: requests, and answers to hand over.
AtWork == At("executing") \cup At("answer")

\* The limits of the constructor (teacher_schedule.py:17-28): requests waiting per run,
\* dispatched per run and in total, and workers of the pool.
WithinLimits ==
  /\ \A b \in Bindings : Len(queues[b]) <= MaxQueued
  /\ \A b \in Bindings : Cardinality(Dispatched(b)) <= PerRun
  /\ Cardinality(Begun) <= MaxActive
  /\ IsFiniteSet(AtWork) /\ Cardinality(AtWork) <= MaxActive

LEMMA InitWithinLimits == Init => WithinLimits
<1> SUFFICES ASSUME Init PROVE WithinLimits
  OBVIOUS
<1>1. IInv
  BY InitIInv
<1>2. At("in hand") = {} /\ At("pooled") = {} /\ At("executing") = {} /\ At("answer") = {}
  BY DEF Init, At, NoRequest
<1>3. Begun = {} /\ AtWork = {} /\ \A b \in Bindings : Dispatched(b) = {}
  BY <1>2 DEF Begun, AtWork, Dispatched
<1>4. \A b \in Bindings : Len(queues[b]) = 0
  BY DEF Init
<1>5. IsFiniteSet({}) /\ Cardinality({}) = 0
  BY FS_EmptySet
<1>6. MaxQueued \in Nat /\ PerRun \in Nat /\ MaxActive \in Nat
  BY SchedulerAssumption
<1>7. /\ \A b \in Bindings : Len(queues[b]) <= MaxQueued
      /\ \A b \in Bindings : Cardinality(Dispatched(b)) <= PerRun
  <2>1. 0 <= MaxQueued /\ 0 <= PerRun
    BY <1>6
  <2>2. ASSUME NEW b \in Bindings PROVE Len(queues[b]) <= MaxQueued
    BY <1>4, <2>1
  <2>3. ASSUME NEW b \in Bindings PROVE Cardinality(Dispatched(b)) <= PerRun
    BY <1>3, <1>5, <2>1
  <2>4. QED
    BY <2>2, <2>3
<1>8. /\ Cardinality(Begun) <= MaxActive
      /\ IsFiniteSet(AtWork) /\ Cardinality(AtWork) <= MaxActive
  BY <1>3, <1>5, <1>6
<1>9. QED
  BY <1>7, <1>8 DEF WithinLimits

\* The limits hold as long as nothing joins a queue, active or the workers.
LEMMA FewerAreWithin ==
  ASSUME IInv, WithinLimits,
         \A b \in Bindings : queues'[b] = queues[b],
         \A b \in Bindings : Dispatched(b)' \subseteq Dispatched(b),
         Begun' \subseteq Begun, AtWork' \subseteq AtWork
  PROVE  WithinLimits'
<1>1. ASSUME NEW S, NEW T, IsFiniteSet(S), T \subseteq S, NEW n \in Nat, Cardinality(S) <= n
      PROVE  IsFiniteSet(T) /\ Cardinality(T) <= n
  <2>1. IsFiniteSet(T) /\ Cardinality(T) <= Cardinality(S)
    BY <1>1, FS_Subset
  <2>2. Cardinality(S) \in Nat /\ Cardinality(T) \in Nat
    BY <1>1, <2>1, FS_CardinalityType
  <2>3. QED
    BY <1>1, <2>1, <2>2
<1>2. \A b \in Bindings : Len(queues'[b]) <= MaxQueued
  BY DEF WithinLimits
<1>3. \A b \in Bindings : Cardinality(Dispatched(b)') <= PerRun
  <2> SUFFICES ASSUME NEW b \in Bindings PROVE Cardinality(Dispatched(b)') <= PerRun
    OBVIOUS
  <2>1. IsFiniteSet(Dispatched(b)) /\ Cardinality(Dispatched(b)) <= PerRun
    BY DEF IInv, ActiveCounts, WithinLimits
  <2>2. QED
    BY <2>1, <1>1, SchedulerAssumption
<1>4. Cardinality(Begun') <= MaxActive
  BY <1>1, BegunIs, SchedulerAssumption DEF WithinLimits
<1>5. IsFiniteSet(AtWork') /\ Cardinality(AtWork') <= MaxActive
  BY <1>1, SchedulerAssumption DEF WithinLimits
<1>6. QED
  BY <1>2, <1>3, <1>4, <1>5 DEF WithinLimits

\* A set that is below its limit may gain one element.
LEMMA OneMore ==
  ASSUME NEW S, IsFiniteSet(S), NEW x, NEW n \in Nat, Cardinality(S) < n
  PROVE  IsFiniteSet(S \cup {x}) /\ Cardinality(S \cup {x}) <= n
<1>1. /\ IsFiniteSet(S \cup {x})
      /\ \/ Cardinality(S \cup {x}) = Cardinality(S)
         \/ Cardinality(S \cup {x}) = Cardinality(S) + 1
  BY FS_AddElement
<1>2. Cardinality(S) \in Nat /\ Cardinality(S \cup {x}) \in Nat
  BY <1>1, FS_CardinalityType
<1>3. QED
  BY <1>1, <1>2

LEMMA SubmitWithin ==
  ASSUME IInv, WithinLimits, NEW c \in Callers, NEW kind \in {"score", "generation"},
         Submit(c, kind)
  PROVE  WithinLimits'
<1>1. Types
  BY DEF IInv
<1>2. /\ Len(queues[c[1]]) < MaxQueued
      /\ queues' = [queues EXCEPT ![c[1]] = Append(queues[c[1]], c)]
      /\ request[c].at = "none"
      /\ \A d \in Callers : d # c => request'[d] = request[d]
      /\ request'[c].at = "queued"
  <2>1. /\ request \in [Callers -> Requests] /\ request[c] = NoRequest
        /\ request' = [request EXCEPT ![c] = [at |-> "queued", kind |-> kind, heard |-> TRUE]]
    BY <1>1 DEF Submit, Types
  <2>2. /\ request[c].at = "none" /\ request'[c].at = "queued"
        /\ \A d \in Callers : d # c => request'[d] = request[d]
    BY <2>1 DEF NoRequest
  <2>3. QED
    BY <2>2 DEF Submit
<1>3. ASSUME NEW b \in Bindings PROVE Len(queues'[b]) <= MaxQueued
  <2>1. queues[b] \in Seq(Callers) /\ queues \in [Bindings -> Seq(Callers)]
    BY <1>1 DEF Types
  <2>2. CASE b = c[1]
    <3>1. queues'[b] = Append(queues[b], c)
      BY <1>2, <2>1, <2>2
    <3>2. Len(queues'[b]) = Len(queues[b]) + 1 /\ Len(queues[b]) \in Nat
      BY <2>1, <3>1, AppendProperties, LenProperties
    <3>3. QED
      BY <1>2, <2>2, <3>2, SchedulerAssumption
  <2>3. CASE b # c[1]
    BY <1>2, <2>1, <2>3 DEF WithinLimits
  <2>4. QED
    BY <2>2, <2>3
<1>4. \A place \in {"in hand", "pooled", "executing", "answer"} : At(place)' = At(place)
  BY <1>2 DEF At
<1>5. /\ At("in hand")' = At("in hand") /\ At("pooled")' = At("pooled")
      /\ At("executing")' = At("executing") /\ At("answer")' = At("answer")
  BY <1>4
<1>6. Begun' = Begun /\ AtWork' = AtWork /\ \A b \in Bindings : Dispatched(b)' = Dispatched(b)
  BY <1>5 DEF Begun, AtWork, Dispatched
<1>7. QED
  BY <1>3, <1>6 DEF WithinLimits

LEMMA DispatchWithin ==
  ASSUME IInv, WithinLimits, NEW b \in Bindings, Dispatch(b)
  PROVE  WithinLimits'
<1> DEFINE i == PopIndex(b)
           c == queues[b][i]
<1>1. /\ Types /\ QueuesHold /\ Total < MaxActive /\ active[b] < PerRun
      /\ active[b] = Cardinality(Dispatched(b)) /\ IsFiniteSet(Dispatched(b))
      /\ queues' = [queues EXCEPT ![b] = RemoveAt(queues[b], i)]
      /\ request' = [request EXCEPT ![c] = [request[c] EXCEPT !.at = "in hand"]]
  BY DEF IInv, Dispatch, HasCapacity, Turn, Ready, ActiveCounts
<1>2. i \in DOMAIN queues[b]
  BY <1>1, PopIsThere DEF Dispatch, Turn
<1> HIDE DEF i
<1>3. /\ queues[b] \in Seq(Callers) /\ queues \in [Bindings -> Seq(Callers)]
      /\ ToSet(queues[b]) = Waiting(b)
  BY <1>1 DEF Types, QueuesHold
<1>4. c \in Waiting(b)
  BY <1>2, <1>3 DEF ToSet
<1>5. c \in Callers /\ c[1] = b /\ request[c].at = "queued"
  BY <1>4 DEF Waiting, At
<1> HIDE DEF c
<1>6. \A d \in Callers : request'[d].at = IF d = c THEN "in hand" ELSE request[d].at
  BY <1>1, <1>5 DEF Types, Requests
<1>7. /\ At("in hand")' = At("in hand") \cup {c} /\ At("pooled")' = At("pooled")
      /\ At("executing")' = At("executing") /\ At("answer")' = At("answer")
  BY <1>5, <1>6 DEF At
<1>8. /\ Begun' = Begun \cup {c} /\ AtWork' = AtWork
      /\ Dispatched(b)' = Dispatched(b) \cup {c}
      /\ \A d \in Bindings : d # b => Dispatched(d)' = Dispatched(d)
  BY <1>5, <1>7 DEF Begun, AtWork, Dispatched
<1>9. Cardinality(Begun') <= MaxActive
  <2>1. IsFiniteSet(Begun) /\ Cardinality(Begun) < MaxActive
    BY <1>1, BegunIs, TotalCounts
  <2>2. Cardinality(Begun \cup {c}) <= MaxActive
    BY <2>1, OneMore, SchedulerAssumption
  <2>3. QED
    BY <1>8, <2>2
<1>10. Cardinality(Dispatched(b)') <= PerRun
  <2>1. Cardinality(Dispatched(b) \cup {c}) <= PerRun
    BY <1>1, OneMore, SchedulerAssumption
  <2>2. QED
    BY <1>8, <2>1
<1>11. ASSUME NEW d \in Bindings PROVE Len(queues'[d]) <= MaxQueued
  <2>1. CASE d = b
    <3>1. queues'[b] = RemoveAt(queues[b], i)
      BY <1>1, <1>3
    <3>2. Len(queues'[b]) = Len(queues[b]) - 1 /\ Len(queues[b]) \in Nat
      BY <1>1, <1>2, <1>3, <3>1, TakenOut, LenProperties DEF QueuesHold
    <3>3. Len(queues[b]) <= MaxQueued
      BY DEF WithinLimits
    <3>4. QED
      BY <2>1, <3>2, <3>3, SchedulerAssumption
  <2>2. CASE d # b
    BY <1>1, <1>3, <2>2 DEF WithinLimits
  <2>3. QED
    BY <2>1, <2>2
<1>12. \A d \in Bindings : Cardinality(Dispatched(d)') <= PerRun
  BY <1>8, <1>10 DEF WithinLimits
<1>13. QED
  BY <1>8, <1>9, <1>11, <1>12 DEF WithinLimits

LEMMA ExecuteWithin ==
  ASSUME IInv, WithinLimits, NEW c \in Callers, Execute(c)
  PROVE  WithinLimits'
<1>1. /\ \A d \in Callers : request'[d].at = IF d = c THEN "executing" ELSE request[d].at
      /\ request[c].at = "pooled" /\ UNCHANGED queues
      /\ Cardinality(AtWork) < MaxActive
  BY DEF Execute, IInv, Types, Requests, admission, AtWork
<1>2. /\ At("in hand")' = At("in hand") /\ At("pooled")' = At("pooled") \ {c}
      /\ At("executing")' = At("executing") \cup {c} /\ At("answer")' = At("answer")
      /\ c \in At("pooled")
  BY <1>1 DEF At
<1>3. /\ Begun' = Begun /\ AtWork' = AtWork \cup {c}
      /\ \A b \in Bindings : Dispatched(b)' = Dispatched(b)
  BY <1>2 DEF Begun, AtWork, Dispatched
<1>4. IsFiniteSet(AtWork') /\ Cardinality(AtWork') <= MaxActive
  <2>1. IsFiniteSet(AtWork \cup {c}) /\ Cardinality(AtWork \cup {c}) <= MaxActive
    BY <1>1, OneMore, SchedulerAssumption DEF WithinLimits
  <2>2. QED
    BY <1>3, <2>1
<1>5. QED
  BY <1>1, <1>3, <1>4 DEF WithinLimits

LEMMA StepWithinLimits == IInv /\ WithinLimits /\ [Next]_vars => WithinLimits'
<1> SUFFICES ASSUME IInv, WithinLimits, [Next]_vars PROVE WithinLimits'
  OBVIOUS
<1>1. request \in [Callers -> Requests]
  BY DEF IInv, Types
<1>2. ASSUME UNCHANGED queues, At("in hand")' \cup At("pooled")' \subseteq At("in hand") \cup At("pooled"),
             At("executing")' \subseteq At("executing"),
             At("answer")' \subseteq At("executing") \cup At("answer")
      PROVE  WithinLimits'
  <2>1. Begun' \subseteq Begun /\ AtWork' \subseteq AtWork
    BY <1>2 DEF Begun, AtWork
  <2>2. \A b \in Bindings : Dispatched(b)' \subseteq Dispatched(b)
    BY <1>2 DEF Dispatched
  <2>3. QED
    BY <1>2, <2>1, <2>2, FewerAreWithin
<1>3. ASSUME NEW c \in Callers, TimeOut(c) \/ Release(c) \/ Answer(c) PROVE WithinLimits'
  <2>1. /\ UNCHANGED queues
        /\ \A d \in Callers : d # c => request'[d].at = request[d].at
        /\ \/ request'[c].at = request[c].at
           \/ request[c].at = "executing" /\ request'[c].at = "answer"
           \/ request'[c].at = "none"
    BY <1>1, <1>3 DEF TimeOut, Release, Answer, NoRequest, Requests, admission
  <2>2. QED
    BY <1>2, <2>1 DEF At
<1>4. CASE HandOver
  <2>1. /\ UNCHANGED queues
        /\ \A c \in Callers :
             request'[c].at = IF request[c].at = "in hand" THEN "pooled" ELSE request[c].at
    BY <1>1, <1>4 DEF HandOver, Requests, admission
  <2>2. QED
    BY <1>2, <2>1 DEF At
<1>5. CASE Exit \/ Sleep \/ Close \/ JoinDispatcher \/ ShutdownPool \/ UNCHANGED vars
  <2>1. UNCHANGED <<queues, request>>
    BY <1>5 DEF Exit, Sleep, Close, JoinDispatcher, ShutdownPool, vars, admission
  <2>2. QED
    BY <1>2, <2>1 DEF At
<1>6. QED
  BY <1>3, <1>4, <1>5, SubmitWithin, DispatchWithin, ExecuteWithin DEF Next, Work, Dispatcher

\* No limit is ever exceeded, for any number of runs and callers: neither the requests
\* that wait or are dispatched for one run, nor the dispatched ones of all runs, which
\* the dispatcher adds up under the lock while workers give places back, nor the workers
\* (teacher_schedule.py:19, 27-28, 53-62, 75-79).
THEOREM LimitsHold == Spec => []WithinLimits
BY InitWithinLimits, StepWithinLimits, Invariance, PTL DEF Spec
-----------------------------------------------------------------------------
(* The promise *)

LEMMA WaitsIs ==
  ASSUME Types
  PROVE  /\ Waits["score"] = {c \in At("queued") : request[c].kind = "score"}
         /\ Waits["generation"] = {c \in At("queued") : request[c].kind = "generation"}
         /\ Pool!Waiting = At("queued")
<1>1. /\ Waits["score"] = {c \in At("queued") : request[c].kind = "score"}
      /\ Waits["generation"] = {c \in At("queued") : request[c].kind = "generation"}
  BY DEF Waits
<1>2. \A c \in At("queued") : request[c].kind \in {"score", "generation"}
  BY DEF At, Types, Requests
<1>3. QED
  BY <1>1, <1>2 DEF Pool!Waiting

\* A queue is as long as the set of its callers is large.
LEMMA QueueLength ==
  ASSUME IInv, NEW b \in Bindings
  PROVE  Cardinality(Waiting(b)) = Len(queues[b])
<1>1. /\ queues[b] \in Seq(Callers) /\ ToSet(queues[b]) = Waiting(b)
      /\ IsInjective(queues[b])
  BY DEF IInv, Types, QueuesHold
<1> DEFINE q == queues[b]
           n == Len(q)
<1> HIDE DEF q
<1>2. q \in Seq(Callers) /\ ToSet(q) = Waiting(b) /\ IsInjective(q)
  BY <1>1 DEF q
<1>3. n \in Nat /\ DOMAIN q = 1..n /\ q = [i \in 1..n |-> q[i]]
  BY <1>2, LenProperties
<1>4. /\ \A i \in 1..n : q[i] \in Waiting(b)
      /\ \A x \in Waiting(b) : \E i \in 1..n : q[i] = x
      /\ \A i, j \in 1..n : q[i] = q[j] => i = j
  BY <1>2, <1>3 DEF ToSet, IsInjective
<1> HIDE DEF n
<1>5. q \in [1..n -> Waiting(b)]
  BY <1>3, <1>4
<1>6. q \in Injection(1..n, Waiting(b)) /\ q \in Surjection(1..n, Waiting(b))
  <2>1. q \in Injection(1..n, Waiting(b))
    BY <1>2, <1>5 DEF Injection
  <2>2. q \in Surjection(1..n, Waiting(b))
    BY <1>4, <1>5 DEF Surjection
  <2>3. QED
    BY <2>1, <2>2
<1>7. IsFiniteSet(1..n) /\ Cardinality(1..n) = n
  <2>1. IsFiniteSet(1..n) /\ Cardinality(1..n) = IF 1 > n THEN 0 ELSE n - 1 + 1
    BY <1>3, FS_Interval
  <2>2. QED
    BY <1>3, <2>1
<1>8. Cardinality(Waiting(b)) = n
  BY <1>6, <1>7, FS_Surjection
<1>9. QED
  BY <1>8 DEF n, q

LEMMA NothingQueued ==
  ASSUME IInv, Drained
  PROVE  At("queued") = {}
<1>1. SUFFICES ASSUME NEW c \in At("queued") PROVE FALSE
  OBVIOUS
<1>2. c \in Callers /\ c[1] \in Bindings
  BY SchedulerAssumption DEF At, Bindings
<1>3. c \in ToSet(queues[c[1]]) /\ queues[c[1]] = <<>>
  BY <1>2 DEF IInv, QueuesHold, Waiting, Drained
<1>4. QED
  BY <1>3 DEF ToSet

LEMMA InitPool == Init => Pool!Init
<1> SUFFICES ASSUME Init PROVE Pool!Init
  OBVIOUS
<1>1. At("queued") = {} /\ At("in hand") = {} /\ At("pooled") = {}
      /\ At("executing") = {} /\ At("answer") = {}
  BY DEF Init, At, NoRequest
<1>2. Waits = [k \in Pool!Kinds |-> {}]
  BY <1>1 DEF Waits, Pool!Kinds
<1>3. \A b \in Pool!Runs : passed[b] = 0
  BY SchedulerAssumption DEF Init, Bindings, Pool!Runs
<1>4. Gate = "open"
  BY DEF Init, Gate
<1>5. QED
  BY <1>1, <1>2, <1>3, <1>4 DEF Pool!Init, Begun

LEMMA SubmitAccepts ==
  ASSUME IInv, NEW c \in Callers, NEW kind \in {"score", "generation"}, Submit(c, kind)
  PROVE  Pool!Accept(c, kind)
<1>1. Types /\ Ending /\ c[1] \in Bindings
  BY SchedulerAssumption DEF IInv, Bindings
<1>2. /\ request[c].at = "none" /\ request'[c].at = "queued" /\ request'[c].kind = kind
      /\ \A d \in Callers : d # c => request'[d] = request[d]
  <2>1. /\ request \in [Callers -> Requests] /\ request[c] = NoRequest
        /\ request' = [request EXCEPT ![c] = [at |-> "queued", kind |-> kind, heard |-> TRUE]]
    BY <1>1 DEF Submit, Types
  <2>2. QED
    BY <2>1 DEF NoRequest
<1>3. /\ At("queued")' = At("queued") \cup {c}
      /\ At("in hand")' = At("in hand") /\ At("pooled")' = At("pooled")
      /\ At("executing")' = At("executing") /\ At("answer")' = At("answer")
  BY <1>2 DEF At
<1>4. Gate = "open" /\ UNCHANGED <<Gate, passed, Begun, At("answer")>>
  BY <1>1, <1>3 DEF Submit, Ending, Gate, Begun
<1>5. c \notin Pool!Waiting \cup Begun \cup At("answer")
  BY <1>1, <1>2, WaitsIs DEF At, Begun
<1>6. Pool!Cardinality(Pool!OfRun(Pool!Waiting, c[1])) < MaxQueued
  <2>1. Pool!OfRun(Pool!Waiting, c[1]) = Waiting(c[1])
    BY <1>1, WaitsIs DEF Pool!OfRun, Waiting
  <2>2. QED
    <3>1. Cardinality(Waiting(c[1])) < MaxQueued
      BY <1>1, QueueLength DEF Submit
    <3>2. QED
      BY <2>1, <3>1 DEF Pool!Cardinality, Cardinality
<1>7. Waits' = [Waits EXCEPT ![kind] = Waits[kind] \cup {c}]
  <2>1. \A k \in {"score", "generation"} :
          {d \in At("queued")' : request'[d].kind = k}
            = IF k = kind THEN {d \in At("queued") : request[d].kind = k} \cup {c}
              ELSE {d \in At("queued") : request[d].kind = k}
    <3>1. c \notin At("queued") /\ \A d \in At("queued") : request'[d] = request[d]
      BY <1>2 DEF At
    <3>2. QED
      BY <1>2, <1>3, <3>1
  <2>2. QED
    BY <2>1 DEF Waits
<1>8. QED
  BY <1>4, <1>5, <1>6, <1>7 DEF Pool!Accept

LEMMA DispatchBegins ==
  ASSUME IInv, NEW b \in Bindings, Dispatch(b)
  PROVE  \E c \in Callers : \E k \in {"score", "generation"} : Pool!Begin(c, k)
<1> DEFINE k == IF ScoreFirst(b) THEN "score" ELSE "generation"
           i == PopIndex(b)
           c == queues[b][i]
<1>1. /\ Types /\ QueuesHold /\ Total < MaxActive /\ Ready(b)
      /\ active[b] = Cardinality(Dispatched(b))
      /\ request' = [request EXCEPT ![c] = [request[c] EXCEPT !.at = "in hand"]]
      /\ UNCHANGED closer
  BY DEF IInv, Dispatch, HasCapacity, Turn, ActiveCounts
<1>2. i \in Queued(b, k)
  BY <1>1, PopIsTheirs
<1>3. /\ queues[b] \in Seq(Callers) /\ ToSet(queues[b]) = Waiting(b)
      /\ \A j \in DOMAIN queues[b] : queues[b][j] \in Waiting(b)
  BY <1>1 DEF Types, QueuesHold, ToSet
<1>4. c \in Waiting(b) /\ request[c].kind = k
  BY <1>2, <1>3 DEF Queued
<1>5. c \in Callers /\ c[1] = b /\ request[c].at = "queued" /\ k \in {"score", "generation"}
  BY <1>4 DEF Waiting, At
<1> HIDE DEF i, c
<1>6. /\ \A d \in Callers : request'[d].at = IF d = c THEN "in hand" ELSE request[d].at
      /\ \A d \in Callers : request'[d].kind = request[d].kind
  BY <1>1, <1>5 DEF Types, Requests
<1>7. /\ At("queued")' = At("queued") \ {c}
      /\ At("in hand")' = At("in hand") \cup {c} /\ At("pooled")' = At("pooled")
      /\ At("executing")' = At("executing") /\ At("answer")' = At("answer")
  BY <1>5, <1>6 DEF At
<1>8. Begun' = Begun \cup {c} /\ UNCHANGED <<At("answer"), Gate>>
  BY <1>1, <1>7 DEF Begun, Gate
<1>9. Pool!Cardinality(Begun) < MaxActive
  <2>1. Cardinality(Begun) < MaxActive
    BY <1>1, TotalCounts
  <2>2. QED
    BY <2>1 DEF Pool!Cardinality, Cardinality
<1>10. Pool!Cardinality(Pool!OfRun(Begun, c[1])) < PerRun
  <2>1. Pool!OfRun(Begun, b) = Dispatched(b)
    BY DEF Pool!OfRun, Begun, Dispatched
  <2>2. Cardinality(Dispatched(b)) < PerRun
    BY <1>1 DEF Ready
  <2>3. QED
    BY <1>5, <2>1, <2>2 DEF Pool!Cardinality, Cardinality
<1>11. c \in Waits[k]
  BY <1>1, <1>4, <1>5, WaitsIs DEF At
<1>12. Pool!OfRun(Waits["generation"], b) # {} <=> Queued(b, "generation") # {}
  <2>1. Pool!OfRun(Waits["generation"], b) = {d \in Waiting(b) : request[d].kind = "generation"}
    BY <1>1, WaitsIs DEF Pool!OfRun, Waiting
  <2>2. \A d \in Waiting(b) : \E j \in DOMAIN queues[b] : d = queues[b][j]
    BY <1>3 DEF ToSet
  <2>3. QED
    BY <1>3, <2>1, <2>2 DEF Queued
<1>13. Pool!Passes(c, k) <=> ScoreFirst(b) /\ Queued(b, "generation") # {}
  BY <1>5, <1>12 DEF Pool!Passes
<1>14. Pool!Passes(c, k) => passed[c[1]] < MaxStreak
  <2>1. passed[b] <= streak[b] /\ passed[b] \in Nat /\ streak[b] \in 0..MaxStreak
    BY DEF IInv, Types, PassedInStreak
  <2>2. ScoreFirst(b) /\ Queued(b, "generation") # {} => streak[b] < MaxStreak
    BY DEF ScoreFirst
  <2>3. MaxStreak \in Nat
    BY DEF MaxStreak
  <2>4. passed[b] \in Int /\ streak[b] \in Int /\ MaxStreak \in Int
    BY <2>1, <2>3
  <2>5. streak[b] < MaxStreak => passed[b] < MaxStreak
    BY <2>1, <2>4
  <2>6. QED
    BY <1>5, <1>13, <2>2, <2>5
<1>15. passed' = [passed EXCEPT ![c[1]] = IF Pool!Passes(c, k) THEN passed[c[1]] + 1 ELSE 0]
  <2>1. passed' = [passed EXCEPT ![b] =
          IF ScoreFirst(b) /\ Queued(b, "generation") # {} THEN passed[b] + 1 ELSE 0]
    BY DEF Dispatch
  <2>2. CASE ScoreFirst(b) /\ Queued(b, "generation") # {}
    BY <1>5, <1>13, <2>1, <2>2
  <2>3. CASE ~(ScoreFirst(b) /\ Queued(b, "generation") # {})
    BY <1>5, <1>13, <2>1, <2>3
  <2>4. QED
    BY <2>2, <2>3
<1>16. Waits' = [Waits EXCEPT ![k] = Waits[k] \ {c}]
  <2>1. \A l \in {"score", "generation"} :
          {d \in At("queued")' : request'[d].kind = l}
            = IF l = k THEN {d \in At("queued") : request[d].kind = l} \ {c}
              ELSE {d \in At("queued") : request[d].kind = l}
    <3> HIDE DEF k
    <3>1. \A d \in At("queued") : request'[d].kind = request[d].kind
      BY <1>6 DEF At
    <3>2. QED
      BY <1>4, <1>7, <3>1
  <2> HIDE DEF k
  <2>2. QED
    BY <1>5, <2>1 DEF Waits
<1> HIDE DEF k
<1>17. Pool!Begin(c, k)
  BY <1>8, <1>9, <1>10, <1>11, <1>14, <1>15, <1>16 DEF Pool!Begin
<1>18. QED
  BY <1>5, <1>17

\* Nothing of what a caller can see of the pool changes.
LEMMA PoolStutters ==
  ASSUME At("queued")' = At("queued"), Begun' = Begun, At("answer")' = At("answer"),
         \A c \in At("queued") : request'[c].kind = request[c].kind,
         Gate' = Gate, UNCHANGED passed
  PROVE  UNCHANGED Pool!vars
<1>1. Waits' = Waits
  BY DEF Waits
<1>2. QED
  BY <1>1 DEF Pool!vars

LEMMA OutsideStutters ==
  ASSUME IInv, \/ HandOver \/ Exit \/ Sleep \/ JoinDispatcher \/ UNCHANGED vars
               \/ \E c \in Callers : TimeOut(c) \/ Execute(c)
  PROVE  UNCHANGED Pool!vars
<1>1. request \in [Callers -> Requests]
  BY DEF IInv, Types
<1>2. UNCHANGED passed /\ Gate' = Gate
  BY DEF HandOver, Exit, Sleep, JoinDispatcher, TimeOut, Execute, vars, Gate
<1>3. \A d \in Callers :
        /\ request'[d].kind = request[d].kind
        /\ \/ request'[d].at = request[d].at
           \/ request[d].at = "in hand" /\ request'[d].at = "pooled"
           \/ request[d].at = "pooled" /\ request'[d].at = "executing"
  <2>1. CASE HandOver
    BY <1>1, <2>1 DEF HandOver, Requests
  <2>2. CASE Exit \/ Sleep \/ JoinDispatcher \/ UNCHANGED vars
    BY <2>2 DEF Exit, Sleep, JoinDispatcher, vars
  <2>3. ASSUME NEW c \in Callers, TimeOut(c) \/ Execute(c)
        PROVE  \A d \in Callers :
                 /\ request'[d].kind = request[d].kind
                 /\ \/ request'[d].at = request[d].at
                    \/ request[d].at = "pooled" /\ request'[d].at = "executing"
    BY <1>1, <2>3 DEF TimeOut, Execute, Requests
  <2>4. QED
    BY <2>1, <2>2, <2>3
<1>4. At("queued")' = At("queued") /\ At("answer")' = At("answer")
  BY <1>3 DEF At
<1>5. Begun' = Begun
  BY <1>3 DEF Begun, At
<1>6. \A c \in At("queued") : request'[c].kind = request[c].kind
  BY <1>3 DEF At
<1>7. QED
  BY <1>2, <1>4, <1>5, <1>6, PoolStutters

LEMMA ReleaseEnds ==
  ASSUME IInv, NEW c \in Callers
  PROVE  /\ Release(c) => Pool!End(c)
         /\ Answer(c) => Pool!Answer(c)
<1>1. request \in [Callers -> Requests]
  BY DEF IInv, Types
<1>2. ASSUME Release(c) PROVE Pool!End(c)
  <2>1. /\ request[c].at = "executing" /\ request'[c].at = "answer"
        /\ \A d \in Callers : d # c => request'[d] = request[d]
    BY <1>1, <1>2 DEF Release, Requests
  <2>2. At("queued")' = At("queued") /\ At("answer")' = At("answer") \cup {c}
    BY <2>1 DEF At
  <2>3. c \in Begun /\ Begun' = Begun \ {c}
    BY <2>1 DEF Begun, At
  <2>4. \A d \in At("queued") : request'[d].kind = request[d].kind
    BY <2>1 DEF At
  <2>5. Waits' = Waits
    BY <2>2, <2>4 DEF Waits
  <2>6. UNCHANGED passed /\ Gate' = Gate
    BY <1>2 DEF Release, Gate
  <2>7. QED
    BY <2>2, <2>3, <2>5, <2>6 DEF Pool!End
<1>3. ASSUME Answer(c) PROVE Pool!Answer(c)
  <2>1. /\ request[c].at = "answer" /\ request'[c].at = "none"
        /\ \A d \in Callers : d # c => request'[d] = request[d]
    BY <1>1, <1>3 DEF Answer, NoRequest
  <2>2. At("queued")' = At("queued") /\ At("answer")' = At("answer") \ {c} /\ c \in At("answer")
    BY <2>1 DEF At
  <2>3. Begun' = Begun
    BY <2>1 DEF Begun, At
  <2>4. \A d \in At("queued") : request'[d].kind = request[d].kind
    BY <2>1 DEF At
  <2>5. Waits' = Waits
    BY <2>2, <2>4 DEF Waits
  <2>6. UNCHANGED passed /\ Gate' = Gate
    BY <1>3 DEF Answer, Gate
  <2>7. QED
    BY <2>2, <2>3, <2>5, <2>6 DEF Pool!Answer
<1>4. QED
  BY <1>2, <1>3

LEMMA ClosingCloses ==
  ASSUME IInv
  PROVE  /\ Close => Pool!Close
         /\ ShutdownPool => Pool!Closed
<1>1. ASSUME UNCHANGED <<request, passed>>
      PROVE  UNCHANGED <<Waits, Begun, At("answer"), passed>>
  <2>1. \A place : At(place)' = At(place)
    BY <1>1 DEF At
  <2>2. Begun' = Begun
    BY <1>1 DEF Begun, At
  <2>3. QED
    BY <1>1, <2>1, <2>2 DEF Waits
<1>2. ASSUME Close PROVE Pool!Close
  <2>1. Gate = "open" /\ Gate' = "closing" /\ UNCHANGED <<request, passed>>
    BY <1>2 DEF Close, Gate
  <2>2. QED
    BY <1>1, <2>1 DEF Pool!Close
<1>3. ASSUME ShutdownPool PROVE Pool!Closed
  <2>1. Gate = "closing" /\ Gate' = "closed" /\ UNCHANGED <<request, passed>>
    BY <1>3 DEF ShutdownPool, Gate
  <2>2. dispatcher = "exited" /\ Drained /\ At("in hand") = {}
    BY <1>3 DEF ShutdownPool, IInv, Ending
  <2>3. At("pooled") = {} /\ At("executing") = {} /\ At("answer") = {}
    BY <1>3 DEF ShutdownPool
  <2>4. Pool!Waiting \cup Begun \cup At("answer") = {}
    BY <2>2, <2>3, NothingQueued, WaitsIs DEF Begun, IInv
  <2>5. QED
    BY <1>1, <2>1, <2>4 DEF Pool!Closed
<1>4. QED
  BY <1>2, <1>3

LEMMA StepOfPool == IInv /\ [Next]_vars => [Pool!Next]_Pool!vars
<1> SUFFICES ASSUME IInv, [Next]_vars PROVE Pool!Next \/ UNCHANGED Pool!vars
  OBVIOUS
<1>1. ASSUME NEW c \in Callers, NEW kind \in {"score", "generation"}, Submit(c, kind)
      PROVE  Pool!Next
  BY <1>1, SubmitAccepts DEF Pool!Next, Pool!Kinds
<1>2. ASSUME NEW c \in Callers, Release(c) \/ Answer(c) PROVE Pool!Next
  BY <1>2, ReleaseEnds DEF Pool!Next
<1>3. ASSUME NEW b \in Bindings, Dispatch(b) PROVE Pool!Next
  BY <1>3, DispatchBegins DEF Pool!Next, Pool!Kinds
<1>4. CASE Close \/ ShutdownPool
  BY <1>4, ClosingCloses DEF Pool!Next
<1>5. CASE \/ HandOver \/ Exit \/ Sleep \/ JoinDispatcher \/ UNCHANGED vars
           \/ \E c \in Callers : TimeOut(c) \/ Execute(c)
  BY <1>5, OutsideStutters
<1>6. QED
  BY <1>1, <1>2, <1>3, <1>4, <1>5 DEF Next, Work, Dispatcher

\* The queues, counts and threads of the scheduler implement the pool of requests, for
\* any number of runs and callers and all limits: what is let in is dispatched once,
\* within the limits, and answered once; two scores at most pass a waiting generation;
\* and close lets nothing in and returns when everything is answered, whatever a caller
\* that has given up leaves behind (teacher_schedule.py:22-33, 38-85).
THEOREM ImplementsPool == Spec => Promise
BY InitPool, StepOfPool, Invariance, PTL DEF Spec, Promise, Pool!Spec
=============================================================================
