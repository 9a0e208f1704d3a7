------------------------ MODULE StudentReplicaProofs ------------------------
(***************************************************************************)
(* Proofs about StudentReplica, for every set of workers, of adapters and  *)
(* of faults, and any number of calls.                                     *)
(***************************************************************************)
EXTENDS StudentReplica, SequenceTheorems, TLAPS

Adapters == Versions \cup {None}

\* Who waits holds the lock, and nothing has been sent since its request.
LockHeld ==
  /\ \A t \in Threads : call[t].at = "wait" => lock = t /\ call[t].request.id = serial
  /\ closer # "open" => call[Main].at = "idle"

\* The messages are taken and answered in the order of their numbers; what the child
\* has taken is older than what is on its way to it and younger than what it has
\* answered.
InOrder ==
  /\ child.request.id <= serial
  /\ \A i \in DOMAIN toParent :
       /\ toParent[i].id <= child.request.id
       /\ child.at = "busy" => toParent[i].id < child.request.id
  /\ \A i \in DOMAIN toChild : child.request.id < toChild[i].id /\ toChild[i].id <= serial
  /\ \A i, j \in DOMAIN toChild : i < j => toChild[i].id < toChild[j].id

\* The child's snapshot is what it has loaded, and its results say so: the last one
\* names the snapshot that the child still has.
TrueResults ==
  /\ child.snapshot # None => child.loaded = child.snapshot
  /\ child.at = "busy" /\ child.request.kind = "sync" => child.snapshot = None
  /\ \A i \in DOMAIN toParent : toParent[i].kind = "result" =>
       /\ toParent[i].by = toParent[i].snapshot
       /\ toParent[i].id = child.request.id => child.snapshot = toParent[i].snapshot

\* No sync is on its way to a child whose snapshot the run relies on.
Relied ==
  snapshot # None /\ Alive =>
    /\ child.snapshot = snapshot
    /\ \A i \in DOMAIN toChild : toChild[i].kind # "sync"

IInv == TypeOK /\ LockHeld /\ InOrder /\ TrueResults /\ Relied /\ AnswersBelong

-----------------------------------------------------------------------------
(* Pipes *)

LEMMA Appended ==
  ASSUME NEW S, NEW s \in Seq(S), NEW x \in S
  PROVE  /\ Append(s, x) \in Seq(S)
         /\ DOMAIN s = 1..Len(s) /\ DOMAIN Append(s, x) = 1..(Len(s) + 1) /\ Len(s) \in Nat
         /\ \A i \in DOMAIN s : s[i] \in S /\ Append(s, x)[i] = s[i]
         /\ Append(s, x)[Len(s) + 1] = x
<1>1. QED
  BY AppendProperties, LenProperties, ElementOfSeq

LEMMA Taken ==
  ASSUME NEW S, NEW s \in Seq(S), s # <<>>
  PROVE  /\ Tail(s) \in Seq(S) /\ Head(s) \in S
         /\ 1 \in DOMAIN s /\ Head(s) = s[1]
         /\ DOMAIN s = 1..Len(s) /\ Len(s) \in Nat
         /\ \A i \in DOMAIN Tail(s) :
              i \in Nat /\ i >= 1 /\ i + 1 \in DOMAIN s /\ Tail(s)[i] = s[i + 1]
<1>1. /\ Head(s) \in S /\ Tail(s) \in Seq(S) /\ Len(Tail(s)) = Len(s) - 1
      /\ \A i \in 1..Len(Tail(s)) : Tail(s)[i] = s[i + 1]
  BY HeadTailProperties
<1>2. /\ DOMAIN s = 1..Len(s) /\ Len(s) \in Nat
      /\ DOMAIN Tail(s) = 1..Len(Tail(s))
  BY <1>1, LenProperties
<1>3. Len(s) # 0
  BY EmptySeq
<1>4. Head(s) = s[1]
  OBVIOUS
<1>5. QED
  BY <1>1, <1>2, <1>3, <1>4

-----------------------------------------------------------------------------
(* Types *)

LEMMA NoRequestIsTyped == NoRequest \in Requests /\ NoRequest.id = 0
<1>1. QED
  BY DEF NoRequest, Requests

LEMMA InitTypeOK == Init => TypeOK
<1> SUFFICES ASSUME Init PROVE TypeOK
  OBVIOUS
<1>1. <<>> \in Seq(Requests) /\ <<>> \in Seq(Responses)
  BY EmptySeq
<1>2. Idle \in [at : {"idle", "wait"}, request : Requests]
  BY NoRequestIsTyped DEF Idle
<1>3. NoAnswer \in [asked : Nat, version : Versions \cup {None}, of : Nat,
                    by : Versions \cup {None}]
  BY DEF NoAnswer
<1>4. child \in [at : {"idle", "busy", "gone"}, request : Requests,
                 snapshot : Versions \cup {None}, loaded : Versions \cup {None}]
  BY NoRequestIsTyped DEF Init
<1>5. QED
  BY <1>1, <1>2, <1>3, <1>4 DEF Init, TypeOK

LEMMA InitIInv == Init => IInv
<1> SUFFICES ASSUME Init PROVE IInv
  OBVIOUS
<1>1. TypeOK
  BY InitTypeOK
<1>2. DOMAIN toChild = {} /\ DOMAIN toParent = {}
  BY DEF Init
<1>3. /\ \A t \in Threads : call[t].at = "idle" /\ answer[t] = NoAnswer
      /\ child.request.id = 0 /\ serial = 0 /\ child.at = "idle"
      /\ child.snapshot = None /\ snapshot = None /\ closer = "open"
  BY NoRequestIsTyped DEF Init, Idle
<1>4. LockHeld
  BY <1>3 DEF LockHeld
<1>5. InOrder
  BY <1>2, <1>3 DEF InOrder
<1>6. TrueResults /\ Relied
  BY <1>2, <1>3 DEF TrueResults, Relied
<1>7. AnswersBelong
  BY <1>3 DEF AnswersBelong, NoAnswer
<1>8. QED
  BY <1>1, <1>4, <1>5, <1>6, <1>7 DEF IInv

-----------------------------------------------------------------------------
(* Sending *)

\* A message that is sent is the youngest.
LEMMA SendInOrder ==
  ASSUME TypeOK, InOrder, NEW r \in Requests, r.id = serial + 1,
         serial' = serial + 1, toChild' = Append(toChild, r), UNCHANGED <<toParent, child>>
  PROVE  InOrder' /\ toChild' \in Seq(Requests)
<1>1. serial \in Nat /\ toChild \in Seq(Requests) /\ child.request.id \in Nat
  BY DEF TypeOK, Requests
<1>2. /\ toChild' \in Seq(Requests) /\ Len(toChild) \in Nat
      /\ DOMAIN toChild = 1..Len(toChild) /\ DOMAIN toChild' = 1..(Len(toChild) + 1)
      /\ \A i \in DOMAIN toChild : toChild[i] \in Requests /\ toChild'[i] = toChild[i]
      /\ toChild'[Len(toChild) + 1] = r
  BY <1>1, Appended
<1>3. \A i \in DOMAIN toChild :
        toChild[i].id \in Nat /\ toChild[i].id <= serial /\ child.request.id < toChild[i].id
  BY <1>2 DEF InOrder, Requests
<1>4. \A i \in DOMAIN toChild' : child'.request.id < toChild'[i].id /\ toChild'[i].id <= serial'
  <2>1. ASSUME NEW i \in DOMAIN toChild'
        PROVE  child'.request.id < toChild'[i].id /\ toChild'[i].id <= serial'
    <3>1. CASE i \in DOMAIN toChild
      BY <3>1, <1>1, <1>2, <1>3
    <3>2. CASE i = Len(toChild) + 1
      BY <3>2, <1>1, <1>2 DEF InOrder
    <3>3. QED
      BY <3>1, <3>2, <1>2
  <2>2. QED
    BY <2>1
<1>5. ASSUME NEW i \in DOMAIN toChild', NEW j \in DOMAIN toChild', i < j
      PROVE  toChild'[i].id < toChild'[j].id
  <2>1. i \in DOMAIN toChild
    BY <1>2, <1>5
  <2>2. CASE j \in DOMAIN toChild
    BY <2>1, <2>2, <1>2, <1>5 DEF InOrder
  <2>3. CASE j = Len(toChild) + 1
    BY <2>1, <2>3, <1>1, <1>2, <1>3
  <2>4. QED
    BY <2>2, <2>3, <1>2
<1>6. QED
  BY <1>1, <1>2, <1>4, <1>5 DEF InOrder

\* A call: the thread holds the lock and waits for the message just sent.
LEMMA RpcKeeps ==
  ASSUME IInv, NEW t \in Threads, MayCall(t), closer = "open" \/ t # Main,
         NEW kind \in {"sync", "generate"}, NEW version \in Versions, Rpc(t, kind, version),
         UNCHANGED <<closer, open, closed, toParent, child>>
  PROVE  /\ lock' \in Threads /\ serial' \in Nat
         /\ call' \in [Threads -> [at : {"idle", "wait"}, request : Requests]]
         /\ toChild' \in Seq(Requests)
         /\ LockHeld' /\ InOrder' /\ TrueResults'
         /\ \A i \in DOMAIN toChild' : toChild'[i].kind = kind \/ \E j \in DOMAIN toChild :
                                         toChild'[i].kind = toChild[j].kind
<1> DEFINE r == [id |-> serial + 1, kind |-> kind, version |-> version]
<1>1. TypeOK /\ LockHeld /\ InOrder /\ TrueResults
  BY DEF IInv
<1>2. r \in Requests /\ r.id = serial + 1 /\ r.kind = kind /\ serial \in Nat
  <2>1. serial \in Nat
    BY <1>1 DEF TypeOK
  <2>2. QED
    BY <2>1 DEF Requests
<1>3. /\ lock' = t /\ lock = None /\ serial' = serial + 1
      /\ call' = [call EXCEPT ![t] = [at |-> "wait", request |-> r]]
      /\ toChild' = Append(toChild, r)
  BY DEF Rpc, MayCall
<1> HIDE DEF r
<1>4. InOrder' /\ toChild' \in Seq(Requests)
  BY <1>1, <1>2, <1>3, SendInOrder
<1>5. call' \in [Threads -> [at : {"idle", "wait"}, request : Requests]]
  BY <1>1, <1>2, <1>3 DEF TypeOK
<1>6. \A u \in Threads : call[u].at # "wait"
  BY <1>1, <1>3, ReplicaAssumption DEF LockHeld, Threads
<1>7. \A u \in Threads : call'[u] = IF u = t THEN [at |-> "wait", request |-> r] ELSE call[u]
  BY <1>1, <1>3 DEF TypeOK
<1>8. LockHeld'
  BY <1>1, <1>2, <1>3, <1>6, <1>7 DEF LockHeld
<1>9. TrueResults'
  BY <1>1 DEF TrueResults
<1>10. ASSUME NEW i \in DOMAIN toChild'
       PROVE  toChild'[i].kind = kind \/ \E j \in DOMAIN toChild : toChild'[i].kind = toChild[j].kind
  <2>1. toChild \in Seq(Requests)
    BY <1>1 DEF TypeOK
  <2>2. /\ DOMAIN toChild = 1..Len(toChild) /\ DOMAIN toChild' = 1..(Len(toChild) + 1)
        /\ Len(toChild) \in Nat
        /\ \A k \in DOMAIN toChild : toChild'[k] = toChild[k]
        /\ toChild'[Len(toChild) + 1] = r
    BY <2>1, <1>2, <1>3, Appended
  <2>3. CASE i \in DOMAIN toChild
    BY <2>2, <2>3
  <2>4. CASE i = Len(toChild) + 1
    BY <2>2, <2>4, <1>2
  <2>5. QED
    BY <2>2, <2>3, <2>4
<1>11. QED
  BY <1>2, <1>3, <1>4, <1>5, <1>8, <1>9, <1>10

LEMMA GenerateIInv ==
  ASSUME IInv, NEW t \in Workers, Generate(t)
  PROVE  IInv'
<1>1. TypeOK /\ LockHeld /\ InOrder /\ TrueResults /\ Relied /\ AnswersBelong
  BY DEF IInv
<1>2. /\ t \in Threads /\ t # Main /\ snapshot \in Versions /\ MayCall(t)
      /\ Rpc(t, "generate", snapshot)
      /\ answer' = [answer EXCEPT ![t] = NoAnswer]
      /\ UNCHANGED <<snapshot, closed, closer, open, toParent, child>>
  BY <1>1, ReplicaAssumption DEF Generate, Threads, TypeOK
<1>3. /\ lock' \in Threads /\ serial' \in Nat
      /\ call' \in [Threads -> [at : {"idle", "wait"}, request : Requests]]
      /\ toChild' \in Seq(Requests)
      /\ LockHeld' /\ InOrder' /\ TrueResults'
      /\ \A i \in DOMAIN toChild' : \/ toChild'[i].kind = "generate"
                                   \/ \E j \in DOMAIN toChild : toChild'[i].kind = toChild[j].kind
  BY <1>2, RpcKeeps
<1>4. /\ \A u \in Threads : answer'[u] = IF u = t THEN NoAnswer ELSE answer[u]
      /\ answer' \in [Threads -> [asked : Nat, version : Versions \cup {None}, of : Nat,
                                  by : Versions \cup {None}]]
  BY <1>1, <1>2 DEF TypeOK, NoAnswer
<1>5. TypeOK'
  BY <1>1, <1>2, <1>3, <1>4 DEF TypeOK
<1>6. AnswersBelong'
  BY <1>1, <1>4 DEF AnswersBelong, NoAnswer
<1>7. Relied'
  BY <1>1, <1>2, <1>3 DEF Relied, Alive
<1>8. QED
  BY <1>3, <1>5, <1>6, <1>7 DEF IInv

LEMMA SyncIInv ==
  ASSUME IInv, NEW v \in Versions, Sync(v)
  PROVE  IInv'
<1>1. TypeOK /\ LockHeld /\ InOrder /\ TrueResults /\ Relied /\ AnswersBelong
  BY DEF IInv
<1>2. /\ Main \in Threads /\ closer = "open" /\ MayCall(Main)
      /\ snapshot' = None /\ answer' = [answer EXCEPT ![Main] = NoAnswer]
      /\ UNCHANGED <<closed, closer, open, toParent, child>>
  BY DEF Sync, Threads, Forgotten
<1>3. /\ lock' \in Threads \cup {None} /\ serial' \in Nat
      /\ call' \in [Threads -> [at : {"idle", "wait"}, request : Requests]]
      /\ toChild' \in Seq(Requests)
      /\ LockHeld' /\ InOrder' /\ TrueResults'
  <2>1. CASE ~closed /\ Alive
    BY <2>1, <1>2, RpcKeeps DEF Sync
  <2>2. CASE ~(~closed /\ Alive)
    <3>1. UNCHANGED <<lock, serial, call, toChild>>
      BY <2>2 DEF Sync
    <3>2. QED
      BY <3>1, <1>1, <1>2 DEF TypeOK, LockHeld, InOrder, TrueResults
  <2>3. QED
    BY <2>1, <2>2
<1>4. /\ \A u \in Threads : answer'[u] = IF u = Main THEN NoAnswer ELSE answer[u]
      /\ answer' \in [Threads -> [asked : Nat, version : Versions \cup {None}, of : Nat,
                                  by : Versions \cup {None}]]
  BY <1>1, <1>2 DEF TypeOK, NoAnswer
<1>5. TypeOK'
  BY <1>1, <1>2, <1>3, <1>4 DEF TypeOK
<1>6. AnswersBelong' /\ Relied'
  BY <1>1, <1>2, <1>4 DEF AnswersBelong, NoAnswer, Relied
<1>7. QED
  BY <1>3, <1>5, <1>6 DEF IInv

-----------------------------------------------------------------------------
(* Returning *)

LEMMA ReturnKeeps ==
  ASSUME TypeOK, LockHeld, NEW t \in Threads, call[t].at = "wait", Return(t),
         UNCHANGED <<closer, serial>>
  PROVE  /\ lock' = None
         /\ call' \in [Threads -> [at : {"idle", "wait"}, request : Requests]]
         /\ LockHeld'
<1>1. Idle \in [at : {"idle", "wait"}, request : Requests] /\ Idle.at = "idle"
  BY NoRequestIsTyped DEF Idle
<1>2. lock' = None /\ call' = [call EXCEPT ![t] = Idle]
  BY DEF Return
<1>3. call' \in [Threads -> [at : {"idle", "wait"}, request : Requests]]
  BY <1>1, <1>2 DEF TypeOK
<1>4. \A u \in Threads : call'[u] = IF u = t THEN Idle ELSE call[u]
  BY <1>2 DEF TypeOK
<1>5. \A u \in Threads : u # t => call[u].at # "wait"
  BY DEF LockHeld
<1>6. Main \in Threads
  BY DEF Threads
<1>7. LockHeld'
  BY <1>1, <1>4, <1>5, <1>6 DEF LockHeld
<1>8. QED
  BY <1>2, <1>3, <1>7

\* The steps that end a call without its answer, or end the child.
LEMMA GiveUpIInv ==
  ASSUME IInv, NEW t \in Threads, call[t].at = "wait", Return(t),
         child' = child \/ child' = Gone,
         closed' \in BOOLEAN, open' \in BOOLEAN,
         UNCHANGED <<snapshot, serial, answer, closer, toChild, toParent>>
  PROVE  IInv'
<1>1. TypeOK /\ LockHeld /\ InOrder /\ TrueResults /\ Relied /\ AnswersBelong
  BY DEF IInv
<1>2. /\ lock' = None
      /\ call' \in [Threads -> [at : {"idle", "wait"}, request : Requests]]
      /\ LockHeld'
  BY <1>1, ReturnKeeps
<1>3. /\ child' \in [at : {"idle", "busy", "gone"}, request : Requests,
                     snapshot : Versions \cup {None}, loaded : Versions \cup {None}]
      /\ child'.request = child.request /\ child'.snapshot = child.snapshot
      /\ child'.loaded = child.loaded /\ child'.at \in {child.at, "gone"}
  BY <1>1 DEF TypeOK, Gone
<1>4. TypeOK'
  BY <1>1, <1>2, <1>3 DEF TypeOK
<1>5. InOrder'
  BY <1>1, <1>3 DEF InOrder
<1>6. TrueResults'
  BY <1>1, <1>3 DEF TrueResults
<1>7. Relied' /\ AnswersBelong'
  BY <1>1, <1>3 DEF Relied, Alive, AnswersBelong
<1>8. QED
  BY <1>2, <1>4, <1>5, <1>6, <1>7 DEF IInv

LEMMA BrokenIInv ==
  ASSUME IInv, NEW t \in Threads, Broken(t) \/ TimeOut(t)
  PROVE  IInv'
<1>1. closed \in BOOLEAN /\ open \in BOOLEAN
  BY DEF IInv, TypeOK
<1>2. QED
  BY <1>1, GiveUpIInv DEF Broken, TimeOut, pipe

LEMMA InterruptIInv == IInv /\ Interrupt => IInv'
<1> SUFFICES ASSUME IInv, Interrupt PROVE IInv'
  OBVIOUS
<1>1. Main \in Threads /\ closed \in BOOLEAN /\ open \in BOOLEAN
  BY DEF IInv, TypeOK, Threads
<1>2. QED
  BY <1>1, GiveUpIInv DEF Interrupt, pipe

\* An answer to the request that a thread waits for is the child's last one: nothing is
\* left on its way to the child, and the child has the snapshot that the answer names.
LEMMA LastAnswer ==
  ASSUME IInv, NEW t \in Threads, call[t].at = "wait", toParent # <<>>,
         Answers(Head(toParent), call[t].request)
  PROVE  /\ Head(toParent).by = call[t].request.version
         /\ Head(toParent).id = call[t].request.id
         /\ child.snapshot = call[t].request.version
         /\ toChild = <<>>
<1>1. TypeOK /\ LockHeld /\ InOrder /\ TrueResults
  BY DEF IInv
<1> DEFINE response == Head(toParent)  request == call[t].request
<1>2. /\ 1 \in DOMAIN toParent /\ response = toParent[1] /\ response \in Responses
  <2>1. toParent \in Seq(Responses)
    BY <1>1 DEF TypeOK
  <2>2. QED
    BY <2>1, Taken
<1>3. response.id = request.id /\ response.kind = "result" /\ response.snapshot = request.version
  BY DEF Answers
<1>4. request.id = serial
  BY <1>1 DEF LockHeld
<1>5. /\ serial \in Nat /\ child.request.id \in Nat
      /\ toChild \in Seq(Requests)
  BY <1>1 DEF TypeOK, Requests
<1> HIDE DEF response, request
<1>6. child.request.id = serial
  BY <1>1, <1>2, <1>3, <1>4, <1>5 DEF InOrder
<1>7. response.by = response.snapshot /\ child.snapshot = response.snapshot
  BY <1>1, <1>2, <1>3, <1>4, <1>6 DEF TrueResults
<1>8. toChild = <<>>
  <2>1. ASSUME toChild # <<>> PROVE FALSE
    <3>1. 1 \in DOMAIN toChild /\ toChild[1] \in Requests
      BY <2>1, <1>5, Taken
    <3>2. toChild[1].id \in Nat /\ child.request.id < toChild[1].id /\ toChild[1].id <= serial
      BY <3>1, <1>1 DEF InOrder, Requests
    <3>3. QED
      BY <3>2, <1>5, <1>6
  <2>2. QED
    BY <2>1
<1>9. QED
  BY <1>3, <1>7, <1>8 DEF response, request

LEMMA ReceiveIInv ==
  ASSUME IInv, NEW t \in Threads, Receive(t)
  PROVE  IInv'
<1> DEFINE response == Head(toParent)  request == call[t].request
           given == [asked |-> request.id, version |-> request.version,
                     of |-> response.id, by |-> response.by]
<1>1. TypeOK /\ LockHeld /\ InOrder /\ TrueResults /\ Relied /\ AnswersBelong
  BY DEF IInv
<1>2. /\ call[t].at = "wait" /\ toParent # <<>> /\ toParent' = Tail(toParent)
      /\ Return(t)
      /\ UNCHANGED <<closed, serial, closer, open, toChild, child>>
  BY DEF Receive
<1>3. /\ lock' = None
      /\ call' \in [Threads -> [at : {"idle", "wait"}, request : Requests]]
      /\ LockHeld'
  BY <1>1, <1>2, ReturnKeeps
<1>4. /\ toParent' \in Seq(Responses) /\ response \in Responses
      /\ \A i \in DOMAIN toParent' : i + 1 \in DOMAIN toParent /\ toParent'[i] = toParent[i + 1]
  <2>1. toParent \in Seq(Responses)
    BY <1>1 DEF TypeOK
  <2>2. QED
    BY <2>1, <1>2, Taken
<1>5. InOrder'
  BY <1>1, <1>2, <1>4 DEF InOrder
<1>6. TrueResults'
  BY <1>1, <1>2, <1>4 DEF TrueResults
<1>7. /\ request \in Requests
      /\ given \in [asked : Nat, version : Versions \cup {None}, of : Nat,
                    by : Versions \cup {None}]
  <2>1. request \in Requests
    BY <1>1 DEF TypeOK
  <2>2. QED
    BY <2>1, <1>4 DEF Requests, Responses
<1>8. CASE Answers(response, request)
  <2>1. /\ response.by = request.version /\ response.id = request.id
        /\ child.snapshot = request.version /\ toChild = <<>>
    BY <1>2, <1>8, LastAnswer
  <2>2. /\ answer' = [answer EXCEPT ![t] = given]
        /\ snapshot' = IF t = Main THEN request.version ELSE snapshot
    BY <1>8 DEF Receive
  <2>3. /\ given.of = given.asked /\ given.by = given.version
    BY <2>1
  <2>4. request.version \in Versions \cup {None}
    BY <1>7 DEF Requests
  <2> HIDE DEF given, request, response
  <2>5. \A u \in Threads : answer'[u] = IF u = t THEN given ELSE answer[u]
    BY <1>1, <2>2 DEF TypeOK
  <2>6. AnswersBelong'
    BY <1>1, <2>3, <2>5 DEF AnswersBelong
  <2>7. TypeOK'
    BY <1>1, <1>2, <1>3, <1>4, <1>7, <2>2, <2>4 DEF TypeOK
  <2>8. Relied'
    <3>1. DOMAIN toChild' = {}
      BY <2>1, <1>2
    <3>2. snapshot' # None /\ Alive' => child'.snapshot = snapshot'
      BY <1>1, <1>2, <2>1, <2>2 DEF Relied, Alive
    <3>3. QED
      BY <3>1, <3>2 DEF Relied
  <2>9. QED
    BY <1>3, <1>5, <1>6, <2>6, <2>7, <2>8 DEF IInv
<1>9. CASE ~Answers(response, request)
  <2>1. UNCHANGED <<answer, snapshot>>
    BY <1>9 DEF Receive
  <2>2. TypeOK'
    BY <1>1, <1>2, <1>3, <1>4, <2>1 DEF TypeOK
  <2>3. AnswersBelong' /\ Relied'
    BY <1>1, <1>2, <2>1 DEF AnswersBelong, Relied, Alive
  <2>4. QED
    BY <1>3, <1>5, <1>6, <2>2, <2>3 DEF IInv
<1>10. QED
  BY <1>8, <1>9

-----------------------------------------------------------------------------
(* Closing *)

LEMMA BeginCloseIInv == IInv /\ BeginClose => IInv'
<1> SUFFICES ASSUME IInv, BeginClose PROVE IInv'
  OBVIOUS
<1>1. TypeOK /\ LockHeld /\ InOrder /\ TrueResults /\ Relied /\ AnswersBelong
  BY DEF IInv
<1>2. /\ closer = "open" /\ call[Main].at = "idle" /\ closed' = TRUE
      /\ closer' \in {"forcing", "done", "closing"}
      /\ UNCHANGED <<snapshot, call, answer, open, toParent, child>>
      /\ Main \in Threads
  BY DEF BeginClose, Threads
<1>3. CASE UNCHANGED <<lock, serial, toChild>>
  <2>1. TypeOK'
    BY <1>1, <1>2, <1>3 DEF TypeOK
  <2>2. LockHeld' /\ InOrder' /\ TrueResults' /\ Relied' /\ AnswersBelong'
    BY <1>1, <1>2, <1>3 DEF LockHeld, InOrder, TrueResults, Relied, Alive, AnswersBelong
  <2>3. QED
    BY <2>1, <2>2 DEF IInv
<1>4. CASE lock = None /\ lock' = Main /\ (UNCHANGED <<serial, toChild>>)
  <2>1. TypeOK'
    BY <1>1, <1>2, <1>4 DEF TypeOK
  <2>2. \A t \in Threads : call[t].at # "wait"
    BY <1>1, <1>4, ReplicaAssumption DEF LockHeld, Threads
  <2>3. LockHeld' /\ InOrder' /\ TrueResults' /\ Relied' /\ AnswersBelong'
    BY <1>1, <1>2, <1>4, <2>2 DEF LockHeld, InOrder, TrueResults, Relied, Alive, AnswersBelong
  <2>4. QED
    BY <2>1, <2>3 DEF IInv
<1>5. CASE /\ lock = None /\ lock' = Main /\ serial' = serial + 1
           /\ toChild' = Append(toChild, [id |-> serial', kind |-> "close", version |-> None])
  <2> DEFINE r == [id |-> serial + 1, kind |-> "close", version |-> None]
  <2>1. serial \in Nat /\ toChild \in Seq(Requests)
    BY <1>1 DEF TypeOK
  <2>2. r \in Requests /\ r.id = serial + 1 /\ r.kind = "close" /\ toChild' = Append(toChild, r)
    BY <2>1, <1>5 DEF Requests
  <2> HIDE DEF r
  <2>3. InOrder' /\ toChild' \in Seq(Requests)
    BY <1>1, <1>2, <1>5, <2>2, SendInOrder
  <2>4. TypeOK'
    BY <1>1, <1>2, <1>5, <2>1, <2>3 DEF TypeOK
  <2>5. \A t \in Threads : call[t].at # "wait"
    BY <1>1, <1>5, ReplicaAssumption DEF LockHeld, Threads
  <2>6. LockHeld' /\ TrueResults' /\ AnswersBelong'
    BY <1>1, <1>2, <1>5, <2>5 DEF LockHeld, TrueResults, AnswersBelong
  <2>7. \A i \in DOMAIN toChild' :
          toChild'[i].kind = "close" \/ (i \in DOMAIN toChild /\ toChild'[i] = toChild[i])
    BY <2>1, <2>2, Appended
  <2>8. Relied'
    BY <1>1, <1>2, <2>7 DEF Relied, Alive
  <2>9. QED
    BY <2>3, <2>4, <2>6, <2>8 DEF IInv
<1>6. QED
  BY <1>3, <1>4, <1>5 DEF BeginClose

LEMMA TerminateIInv == IInv /\ (Terminate \/ EndClose \/ Exit \/ UNCHANGED vars) => IInv'
<1> SUFFICES ASSUME IInv, Terminate \/ EndClose \/ Exit \/ UNCHANGED vars PROVE IInv'
  OBVIOUS
<1>1. TypeOK /\ LockHeld /\ InOrder /\ TrueResults /\ Relied /\ AnswersBelong
  BY DEF IInv
<1>2. /\ UNCHANGED <<serial, call, answer, toChild, toParent>>
      /\ closer' = "open" => closer = "open"
      /\ closer' # "open" => closer # "open" \/ closer' = closer
      /\ snapshot' \in {snapshot, None}
      /\ lock' = lock \/ (EndClose /\ lock = Main /\ lock' = None)
      /\ child' = child \/ child' = Gone
  BY DEF Terminate, EndClose, Exit, vars, pipe
<1>3. /\ child' \in [at : {"idle", "busy", "gone"}, request : Requests,
                     snapshot : Versions \cup {None}, loaded : Versions \cup {None}]
      /\ child'.request = child.request /\ child'.snapshot = child.snapshot
      /\ child'.loaded = child.loaded /\ child'.at \in {child.at, "gone"}
  BY <1>1, <1>2 DEF TypeOK, Gone
<1>4. TypeOK'
  <2>1. lock' \in Threads \cup {None} /\ snapshot' \in Versions \cup {None}
    BY <1>1, <1>2 DEF TypeOK
  <2>2. closed' \in BOOLEAN /\ open' \in BOOLEAN
    BY <1>1 DEF Terminate, EndClose, Exit, vars, pipe, TypeOK
  <2>3. closer' \in {"open", "closing", "forcing", "terminated", "done"}
    BY <1>1 DEF Terminate, EndClose, Exit, vars, pipe, TypeOK
  <2>4. QED
    BY <1>1, <1>2, <1>3, <2>1, <2>2, <2>3 DEF TypeOK
<1>5. LockHeld'
  <2>1. EndClose => call[Main].at # "wait"
    BY <1>1 DEF EndClose, LockHeld
  <2>2. \A t \in Threads : call[t].at = "wait" => lock' = t /\ call[t].request.id = serial
    BY <1>1, <1>2, <2>1 DEF LockHeld
  <2>3. QED
    BY <1>1, <1>2, <2>2 DEF LockHeld
<1>6. InOrder' /\ TrueResults'
  BY <1>1, <1>2, <1>3 DEF InOrder, TrueResults
<1>7. Relied' /\ AnswersBelong'
  BY <1>1, <1>2, <1>3 DEF Relied, Alive, AnswersBelong
<1>8. QED
  BY <1>4, <1>5, <1>6, <1>7 DEF IInv

-----------------------------------------------------------------------------
(* The child *)

LEMMA TakeIInv == IInv /\ Take => IInv'
<1> SUFFICES ASSUME IInv, Take PROVE IInv'
  OBVIOUS
<1> DEFINE r == Head(toChild)
<1>1. TypeOK /\ LockHeld /\ InOrder /\ TrueResults /\ Relied /\ AnswersBelong
  BY DEF IInv
<1>2. /\ child.at = "idle" /\ toChild # <<>> /\ toChild' = Tail(toChild)
      /\ child' = [at |-> "busy", request |-> r,
                   snapshot |-> IF r.kind = "sync" THEN None ELSE child.snapshot,
                   loaded |-> IF r.kind = "sync" THEN None ELSE child.loaded]
      /\ UNCHANGED <<lock, snapshot, closed, serial, call, answer, closer, open, toParent>>
  BY DEF Take
<1>3. /\ toChild' \in Seq(Requests) /\ r \in Requests
      /\ 1 \in DOMAIN toChild /\ r = toChild[1]
      /\ \A i \in DOMAIN toChild' :
           i \in Nat /\ i >= 1 /\ i + 1 \in DOMAIN toChild /\ toChild'[i] = toChild[i + 1]
  <2>1. toChild \in Seq(Requests)
    BY <1>1 DEF TypeOK
  <2>2. QED
    BY <2>1, <1>2, Taken
<1> HIDE DEF r
<1>4. /\ child'.request = r /\ child'.at = "busy"
      /\ child'.snapshot = IF r.kind = "sync" THEN None ELSE child.snapshot
      /\ child'.loaded = IF r.kind = "sync" THEN None ELSE child.loaded
  BY <1>2
<1>5. TypeOK'
  BY <1>1, <1>2, <1>3 DEF TypeOK
<1>6. child.request.id < r.id /\ r.id <= serial
  BY <1>1, <1>3 DEF InOrder
<1>7. r.id \in Nat /\ child.request.id \in Nat
  BY <1>1, <1>3 DEF TypeOK, Requests
<1>8. \A i \in DOMAIN toParent : toParent[i].id \in Nat /\ toParent[i].id < r.id
  <2>1. toParent \in Seq(Responses)
    BY <1>1 DEF TypeOK
  <2>2. \A i \in DOMAIN toParent : toParent[i] \in Responses
    BY <2>1, ElementOfSeq, LenProperties
  <2>3. \A i \in DOMAIN toParent : toParent[i].id \in Nat
    BY <2>2 DEF Responses
  <2>4. \A i \in DOMAIN toParent : toParent[i].id <= child.request.id
    BY <1>1 DEF InOrder
  <2>5. QED
    BY <2>3, <2>4, <1>6, <1>7
<1>9. InOrder'
  <2>1. \A i \in DOMAIN toChild' : r.id < toChild'[i].id /\ toChild'[i].id <= serial
    <3>1. ASSUME NEW i \in DOMAIN toChild'
          PROVE  r.id < toChild'[i].id /\ toChild'[i].id <= serial
      <4>1. i + 1 \in DOMAIN toChild /\ toChild'[i] = toChild[i + 1] /\ 1 < i + 1
        BY <1>3
      <4>2. QED
        BY <4>1, <1>1, <1>3 DEF InOrder
    <3>2. QED
      BY <3>1
  <2>2. ASSUME NEW i \in DOMAIN toChild', NEW j \in DOMAIN toChild', i < j
        PROVE  toChild'[i].id < toChild'[j].id
    <3>1. i + 1 \in DOMAIN toChild /\ j + 1 \in DOMAIN toChild /\ i + 1 < j + 1
      BY <1>3, <2>2
    <3>2. QED
      BY <3>1, <1>1, <1>3 DEF InOrder
  <2>3. \A i \in DOMAIN toParent : toParent[i].id <= r.id /\ toParent[i].id < r.id
    BY <1>7, <1>8
  <2>4. QED
    BY <1>2, <1>4, <1>6, <2>1, <2>2, <2>3 DEF InOrder
<1>10. TrueResults'
  <2>1. \A i \in DOMAIN toParent : toParent[i].id # r.id
    BY <1>7, <1>8
  <2>2. QED
    BY <1>1, <1>2, <1>4, <2>1 DEF TrueResults
<1>11. Relied'
  <2>1. ASSUME snapshot # None
        PROVE  /\ child.snapshot = snapshot /\ r.kind # "sync"
               /\ \A i \in DOMAIN toChild' : toChild'[i].kind # "sync"
    BY <2>1, <1>1, <1>2, <1>3 DEF Relied, Alive
  <2>2. QED
    BY <1>2, <1>4, <2>1 DEF Relied
<1>12. LockHeld' /\ AnswersBelong'
  BY <1>1, <1>2 DEF LockHeld, AnswersBelong
<1>13. QED
  BY <1>5, <1>9, <1>10, <1>11, <1>12 DEF IInv

\* What a reply does to the child and to the pipe.
LEMMA ReplyIs ==
  ASSUME IInv, Reply
  PROVE  \E response \in Responses :
           /\ toParent' = Append(toParent, response)
           /\ response.id = child.request.id
           /\ response.kind = "result" =>
                response.by = response.snapshot /\ child'.snapshot = response.snapshot
           /\ child'.at \in {"idle", "gone"} /\ child'.request = child.request
           /\ child'.snapshot # None => child'.loaded = child'.snapshot
           /\ child'.snapshot = child.snapshot \/ child.request.kind = "sync"
           /\ child' \in [at : {"idle", "busy", "gone"}, request : Requests,
                          snapshot : Adapters, loaded : Adapters]
<1>1. /\ child \in [at : {"idle", "busy", "gone"}, request : Requests,
                    snapshot : Adapters, loaded : Adapters]
      /\ child.request \in Requests
      /\ child.request.id \in Nat /\ child.request.version \in Adapters
      /\ child.snapshot \in Adapters /\ child.loaded \in Adapters
      /\ child.snapshot # None => child.loaded = child.snapshot
      /\ None \in Adapters
  BY DEF IInv, TypeOK, Adapters, Requests, TrueResults
<1>2. CASE Loaded
  <2> DEFINE a == [id |-> child.request.id, kind |-> "result",
                   snapshot |-> child.request.version, by |-> child.request.version]
  <2>1. a \in Responses /\ toParent' = Append(toParent, a)
    BY <1>1, <1>2 DEF Loaded, Send, Responses, Adapters
  <2>2. child' = [child EXCEPT !.at = "idle", !.snapshot = child.request.version,
                               !.loaded = child.request.version]
    BY <1>2 DEF Loaded
  <2>3. QED
    BY <1>1, <1>2, <2>1, <2>2 DEF Loaded
<1>3. CASE Generated
  <2> DEFINE a == [id |-> child.request.id, kind |-> "result",
                   snapshot |-> child.snapshot, by |-> child.loaded]
  <2>1. a \in Responses /\ toParent' = Append(toParent, a)
    BY <1>1, <1>3 DEF Generated, Responses, Adapters
  <2>2. child' = [child EXCEPT !.at = "idle"] /\ child.snapshot # None
    BY <1>3 DEF Generated, Current
  <2>3. QED
    BY <1>1, <2>1, <2>2
<1>4. CASE Raised
  <2> DEFINE a == [id |-> child.request.id, kind |-> "error", snapshot |-> None, by |-> None]
  <2>1. a \in Responses /\ toParent' = Append(toParent, a)
    BY <1>1, <1>4 DEF Raised, Send, Responses, Adapters
  <2>2. child' = [child EXCEPT !.at = "idle"]
    BY <1>4 DEF Raised
  <2>3. QED
    BY <1>1, <2>1, <2>2
<1>5. CASE Left
  <2> DEFINE a == [id |-> child.request.id, kind |-> "closed", snapshot |-> None, by |-> None]
  <2>1. a \in Responses /\ toParent' = Append(toParent, a)
    BY <1>1, <1>5 DEF Left, Send, Responses, Adapters
  <2>2. child' = [child EXCEPT !.at = "gone"]
    BY <1>5 DEF Left, Gone
  <2>3. QED
    BY <1>1, <2>1, <2>2
<1>6. QED
  BY <1>2, <1>3, <1>4, <1>5 DEF Reply

LEMMA ReplyIInv == IInv /\ Reply => IInv'
<1> SUFFICES ASSUME IInv, Reply PROVE IInv'
  OBVIOUS
<1>1. TypeOK /\ LockHeld /\ InOrder /\ TrueResults /\ Relied /\ AnswersBelong
  BY DEF IInv
<1>2. /\ child.at = "busy"
      /\ UNCHANGED <<lock, snapshot, closed, serial, call, answer, closer, open, toChild>>
  BY DEF Reply
<1>3. PICK response \in Responses :
        /\ toParent' = Append(toParent, response)
        /\ response.id = child.request.id
        /\ response.kind = "result" =>
             response.by = response.snapshot /\ child'.snapshot = response.snapshot
        /\ child'.at \in {"idle", "gone"} /\ child'.request = child.request
        /\ child'.snapshot # None => child'.loaded = child'.snapshot
        /\ child'.snapshot = child.snapshot \/ child.request.kind = "sync"
        /\ child' \in [at : {"idle", "busy", "gone"}, request : Requests,
                       snapshot : Adapters, loaded : Adapters]
  BY ReplyIs
<1>4. /\ toParent' \in Seq(Responses)
      /\ \A i \in DOMAIN toParent' : \/ i \in DOMAIN toParent /\ toParent'[i] = toParent[i]
                                    \/ toParent'[i] = response
      /\ \A i \in DOMAIN toParent : toParent[i].id \in Nat
  <2>1. toParent \in Seq(Responses)
    BY <1>1 DEF TypeOK
  <2>2. /\ toParent' \in Seq(Responses) /\ Len(toParent) \in Nat
        /\ DOMAIN toParent = 1..Len(toParent) /\ DOMAIN toParent' = 1..(Len(toParent) + 1)
        /\ \A i \in DOMAIN toParent : toParent[i] \in Responses /\ toParent'[i] = toParent[i]
        /\ toParent'[Len(toParent) + 1] = response
    BY <2>1, <1>3, Appended
  <2>3. QED
    BY <2>2 DEF Responses
<1>5. child.request.id \in Nat
  BY <1>1 DEF TypeOK, Requests
<1>6. TypeOK'
  BY <1>1, <1>2, <1>3, <1>4 DEF TypeOK, Adapters
<1>7. InOrder'
  <2>1. \A i \in DOMAIN toParent' : toParent'[i].id <= child.request.id
    BY <1>1, <1>3, <1>4, <1>5 DEF InOrder
  <2>2. QED
    BY <1>1, <1>2, <1>3, <2>1 DEF InOrder
<1>8. TrueResults'
  <2>1. ASSUME NEW i \in DOMAIN toParent', toParent'[i].kind = "result"
        PROVE  /\ toParent'[i].by = toParent'[i].snapshot
               /\ toParent'[i].id = child'.request.id => child'.snapshot = toParent'[i].snapshot
    <3>1. CASE toParent'[i] = response
      BY <3>1, <2>1, <1>3
    <3>2. CASE i \in DOMAIN toParent /\ toParent'[i] = toParent[i]
      <4>1. toParent[i].id < child.request.id
        BY <3>2, <1>1, <1>2 DEF InOrder
      <4>2. QED
        BY <3>2, <4>1, <2>1, <1>1, <1>3, <1>4, <1>5 DEF TrueResults
    <3>3. QED
      BY <3>1, <3>2, <1>4
  <2>2. child'.at # "busy"
    BY <1>3
  <2>3. QED
    BY <1>3, <2>1, <2>2 DEF TrueResults
<1>9. Relied'
  <2>1. ASSUME snapshot # None
        PROVE  child'.snapshot = snapshot /\ \A i \in DOMAIN toChild : toChild[i].kind # "sync"
    <3>1. child.snapshot = snapshot /\ \A i \in DOMAIN toChild : toChild[i].kind # "sync"
      BY <2>1, <1>1, <1>2 DEF Relied, Alive
    <3>2. child.request.kind # "sync"
      BY <3>1, <2>1, <1>1, <1>2 DEF TrueResults
    <3>3. QED
      BY <3>1, <3>2, <1>3
  <2>2. QED
    BY <1>2, <2>1 DEF Relied
<1>10. LockHeld' /\ AnswersBelong'
  BY <1>1, <1>2 DEF LockHeld, AnswersBelong
<1>11. QED
  BY <1>6, <1>7, <1>8, <1>9, <1>10 DEF IInv

-----------------------------------------------------------------------------
(* Results *)

LEMMA StepIInv == IInv /\ [Next]_vars => IInv'
<1> SUFFICES ASSUME IInv, [Next]_vars PROVE IInv'
  OBVIOUS
<1>1. ASSUME NEW t \in Threads, Receive(t) \/ Broken(t) \/ TimeOut(t) PROVE IInv'
  BY <1>1, ReceiveIInv, BrokenIInv
<1>2. ASSUME NEW t \in Workers, Generate(t) PROVE IInv'
  BY <1>2, GenerateIInv
<1>3. ASSUME NEW v \in Versions, Sync(v) PROVE IInv'
  BY <1>3, SyncIInv
<1>4. CASE Interrupt \/ BeginClose \/ Take \/ Reply
  BY <1>4, InterruptIInv, BeginCloseIInv, TakeIInv, ReplyIInv
<1>5. CASE Terminate \/ EndClose \/ Exit \/ UNCHANGED vars
  BY <1>5, TerminateIInv
<1>6. QED
  BY <1>1, <1>2, <1>3, <1>4, <1>5 DEF Next

LEMMA Invariance == Spec => []IInv
<1>1. QED
  BY InitIInv, StepIInv, PTL DEF Spec

\* The variables keep their types.
THEOREM TypeCorrect == Spec => []TypeOK
<1>1. IInv => TypeOK
  BY DEF IInv
<1>2. QED
  BY <1>1, Invariance, PTL

\* No call ever returns another call's result, nor one that was computed with another
\* adapter than the acknowledged one, whatever interrupted calls have left in the pipe.
THEOREM OwnAnswers == Spec => []AnswersBelong
<1>1. IInv => AnswersBelong
  BY DEF IInv
<1>2. QED
  BY <1>1, Invariance, PTL

\* An acknowledged snapshot is what the living child has loaded, with any number of
\* threads and any order of their calls.
THEOREM AcknowledgedIsLoaded == Spec => []Acknowledged
<1>1. IInv => Acknowledged
  BY DEF IInv, Relied, TrueResults, Acknowledged
<1>2. QED
  BY <1>1, Invariance, PTL
=============================================================================
