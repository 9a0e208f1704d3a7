------------------------ MODULE ParallelEngineProofs ------------------------
(***************************************************************************)
(* What is proved of ParallelEngine for any number of requests, any batch  *)
(* sizes and every combination of faults: nothing is inside the engine     *)
(* while the adapter changes, and every receipt and every answer belongs   *)
(* to the snapshot of its batch.                                           *)
(***************************************************************************)
EXTENDS ParallelEngine, FiniteSetTheorems, TLAPS

\* The requests between the admission of call and its finally clause.
In == {s \in Slots : handler[s].at \in Inside}

\* active counts them, and every one of them is admitted.
Counts == active = Cardinality(In) /\ (In # {} => accepting)

\* The engine is open only on the weights of its snapshot, and not while they change.
Gate ==
  /\ accepting => snapshot = weights /\ main \in {"collecting", "closing", "leave", "draining"}
  /\ main \in {"closing", "draining"} => closing

\* A worker that is busy has a request, which is inside.
Busy == \A w \in Workers : worker[w] \notin {"idle", "gone"} => At(w) # {}

\* What has a result has it from the weights of the snapshot.
Computed(s) ==
  /\ handler[s].at = "sent" => handler[s].used = 0
  /\ handler[s].at \in Inside /\ handler[s].used # 0 => handler[s].used = snapshot
  /\ handler[s].at = "rpc" => handler[s].used = snapshot
  /\ \A w \in Workers :
       handler[s].at = w /\ worker[w] = "running" => handler[s].used = snapshot

\* A client waits only while the collector runs, and names the weights of this batch.
Waits(s) ==
  handler[s].live =>
    /\ collector = "running" /\ handler[s].snap = weights
    /\ handler[s].at = "ok" => handler[s].used = handler[s].snap

Collects == collector = "running" => main = "collecting"

IInv ==
  /\ TypeOK
  /\ Counts /\ Gate /\ Busy /\ Collects
  /\ \A s \in Slots : Computed(s) /\ Waits(s)
  /\ ReceiptsTrue

-----------------------------------------------------------------------------
(* The initial state, and what holds while the engine is closed *)

Handlers == [at : Places, kind : Kinds, live : BOOLEAN, snap : Nat, used : Nat]
Phases == {"idle", "gathering", "admitted", "running", "gone"}

LEMMA NobodyIsInside == NoHandler \in Handlers /\ NoHandler.at \notin Inside
BY DEF NoHandler, Handlers, Places, Kinds, Inside, Workers

\* Nothing is inside at first.
LEMMA InitEstablishes == Init => IInv
<1> SUFFICES ASSUME Init PROVE IInv OBVIOUS
<1> USE DEF Init
<1>1. \A s \in Slots : handler[s] = NoHandler OBVIOUS
<1>2. In = {} BY <1>1, NobodyIsInside DEF In
<1>3. TypeOK
  <2>1. handler \in [Slots -> Handlers] BY NobodyIsInside
  <2>2. worker \in [Workers -> Phases] BY DEF Phases
  <2>3. synced \in [Workers -> Nat] OBVIOUS
  <2>4. receipts \subseteq Nat \X Nat OBVIOUS
  <2>5. replicas \in SUBSET {"replica", "scorer"} /\ main = "prepare" /\ collector = "off"
    OBVIOUS
  <2>6. batch \in Nat /\ weights \in Nat \ {0} /\ snapshot \in Nat
    OBVIOUS
  <2>7. active \in Nat /\ pending \in Nat /\ sends \in Nat
    OBVIOUS
  <2>8. accepting \in BOOLEAN /\ closing \in BOOLEAN
    OBVIOUS
  <2> HIDE DEF Init
  <2> QED BY <2>1, <2>2, <2>3, <2>4, <2>5, <2>6, <2>7, <2>8 DEF TypeOK, Handlers, Phases
<1>4. Counts BY <1>2, FS_EmptySet DEF Counts
<1>5. Gate /\ Collects BY DEF Gate, Collects
<1>6. Busy BY DEF Busy
<1>7. \A s \in Slots : Computed(s) /\ Waits(s)
  BY <1>1 DEF Computed, Waits, NoHandler, Inside, Workers
<1>8. ReceiptsTrue BY DEF ReceiptsTrue
<1> QED BY <1>3, <1>4, <1>5, <1>6, <1>7, <1>8 DEF IInv

\* A closed engine has no request inside, and so no busy worker.
LEMMA ClosedIsEmpty ==
  ASSUME IInv, ~accepting
  PROVE  /\ In = {} /\ \A s \in Slots : handler[s].at \notin Inside
         /\ \A w \in Workers : worker[w] \in {"idle", "gone"}
<1>1. In = {} BY DEF IInv, Counts
<1>2. \A s \in Slots : handler[s].at \notin Inside BY <1>1 DEF In
<1>3. ASSUME NEW w \in Workers PROVE worker[w] \in {"idle", "gone"}
  <2>1. At(w) = {} BY <1>2 DEF At, Inside
  <2> QED BY <2>1 DEF IInv, Busy
<1> QED BY <1>1, <1>2, <1>3

\* When the count is zero, the engine is empty too.
LEMMA DrainedIsEmpty ==
  ASSUME IInv, active = 0
  PROVE  In = {} /\ \A s \in Slots : handler[s].at \notin Inside
<1>1. IsFiniteSet(In) BY EngineAssumption, FS_Subset DEF In
<1>2. In = {} BY <1>1, FS_EmptySet DEF IInv, Counts
<1> QED BY <1>2 DEF In

-----------------------------------------------------------------------------
(* Steps of the run *)

\* A step that moves neither handlers nor workers keeps what holds of each request, as
\* long as the snapshot is kept or nothing is inside, and the waiting clients keep theirs.
LEMMA Aside ==
  ASSUME IInv, TypeOK', Gate', Collects',
         UNCHANGED <<active, worker, handler, receipts>>,
         In = {} \/ accepting',
         In = {} \/ snapshot' = snapshot,
         (\E s \in Slots : handler[s].live) => UNCHANGED <<weights, collector>>
  PROVE  IInv'
<1> USE DEF IInv
<1>1. In' = In BY DEF In
<1>2. Counts' BY <1>1 DEF Counts
<1>3. Busy' BY DEF Busy, At
<1>4. ASSUME NEW s \in Slots PROVE Computed(s)'
  <2>1. handler[s].at \in Inside => snapshot' = snapshot BY DEF In
  <2>2. "rpc" \in Inside /\ \A w \in Workers : w \in Inside BY DEF Inside
  <2> QED BY <2>1, <2>2 DEF Computed
<1>5. ASSUME NEW s \in Slots PROVE Waits(s)'
  BY DEF Waits
<1>6. ReceiptsTrue' BY DEF ReceiptsTrue
<1> QED BY <1>2, <1>3, <1>4, <1>5, <1>6

\* Before the engine opens, and after it has closed, nobody waits and nothing is inside.
LEMMA Quiet ==
  ASSUME IInv, main \in {"prepare", "syncing", "open", "updating", "joining", "ended"}
  PROVE  ~accepting /\ In = {} /\ \A s \in Slots : ~handler[s].live
<1>1. ~accepting BY DEF IInv, Gate
<1>2. In = {} BY <1>1, ClosedIsEmpty
<1>3. \A s \in Slots : ~handler[s].live BY DEF IInv, Waits, Collects
<1> QED BY <1>1, <1>2, <1>3

\* Synchronisation of the replicas.
LEMMA SyncKeeps == ASSUME IInv, BeginSync \/ EndSync PROVE IInv'
<1>1. ~accepting /\ In = {} /\ \A s \in Slots : ~handler[s].live
  BY Quiet DEF BeginSync, EndSync
<1>2. synced' \in [Workers -> Nat] BY DEF IInv, TypeOK, BeginSync, EndSync
<1>3. TypeOK' BY <1>2 DEF IInv, TypeOK, BeginSync, EndSync, gate, child
<1>4. Gate' BY <1>1 DEF IInv, Gate, BeginSync, EndSync, gate
<1>5. Collects' BY DEF IInv, Collects, BeginSync, EndSync, child
<1> QED BY <1>1, <1>3, <1>4, <1>5, Aside DEF BeginSync, EndSync, gate, child

\* The engine opens.
LEMMA OpenKeeps == ASSUME IInv, Open PROVE IInv'
<1> USE DEF Open, OpenSnapshot
<1>1. ~accepting /\ In = {} /\ \A s \in Slots : ~handler[s].live BY Quiet
<1>2. TypeOK' BY DEF IInv, TypeOK
<1>3. Gate' /\ Collects' BY DEF Gate, Collects
<1> QED BY <1>1, <1>2, <1>3, Aside

\* It closes, after a batch or at the end.
LEMMA BeginCloseKeeps == ASSUME IInv, BeginClose \/ BeginLeave PROVE IInv'
<1> USE DEF BeginClose, BeginLeave, child
<1>1. TypeOK' BY DEF IInv, TypeOK
<1>2. Gate' BY DEF IInv, Gate
<1>3. Collects' BY DEF IInv, Collects
<1>4. In = {} \/ accepting' BY DEF IInv, Counts
<1> QED BY <1>1, <1>2, <1>3, <1>4, Aside

LEMMA EndCloseKeeps == ASSUME IInv, EndClose \/ EndLeave PROVE IInv'
<1> USE DEF EndClose, EndLeave, Closed, Drained, child
<1>1. In = {} BY DrainedIsEmpty
<1>2. TypeOK' BY DEF IInv, TypeOK
<1>3. Gate' BY DEF Gate
<1>4. Collects' BY DEF IInv, Collects
<1> QED BY <1>1, <1>2, <1>3, <1>4, Aside

\* The adapter changes.
LEMMA UpdateKeeps == ASSUME IInv, Update PROVE IInv'
<1> USE DEF Update, gate, child
<1>1. ~accepting /\ In = {} /\ \A s \in Slots : ~handler[s].live BY Quiet
<1>2. TypeOK' BY DEF IInv, TypeOK
<1>3. Gate' BY <1>1, ClosedIsEmpty DEF IInv, Gate
<1>4. Collects' BY DEF IInv, Collects
<1> QED BY <1>1, <1>2, <1>3, <1>4, Aside

LEMMA EndKeeps == ASSUME IInv, End PROVE IInv'
<1> USE DEF End, gate, child
<1>1. ~accepting /\ In = {} BY Quiet
<1>2. TypeOK' BY DEF IInv, TypeOK
<1>3. Gate' BY <1>1 DEF Gate
<1>4. Collects' BY DEF IInv, Collects
<1> QED BY <1>1, <1>2, <1>3, <1>4, Aside

\* The collector ends when none of its requests is open.
LEMMA CollectorEndsKeeps == ASSUME IInv, CollectorEnds PROVE IInv'
<1> USE DEF CollectorEnds, run, gate
<1>1. TypeOK' BY DEF IInv, TypeOK
<1>2. Gate' BY DEF IInv, Gate
<1>3. Collects' BY DEF Collects
<1>4. In = {} \/ accepting' BY DEF IInv, Counts
<1> QED BY <1>1, <1>2, <1>3, <1>4, Aside

-----------------------------------------------------------------------------
(* Steps of one request *)

\* The count follows a request that enters, and one that leaves.
LEMMA Entering ==
  ASSUME Counts, NEW s \in Slots, s \notin In, In' = In \cup {s},
         active' = active + 1, accepting'
  PROVE  Counts'
<1>1. IsFiniteSet(In) BY EngineAssumption, FS_Subset DEF In
<1>2. Cardinality(In \cup {s}) = Cardinality(In) + 1 BY <1>1, FS_AddElement
<1> QED BY <1>2 DEF Counts

LEMMA Leaving ==
  ASSUME Counts, NEW s \in In, In' = In \ {s}, active' = active - 1, UNCHANGED accepting
  PROVE  Counts' /\ active' \in Nat
<1>1. IsFiniteSet(In) BY EngineAssumption, FS_Subset DEF In
<1>2. Cardinality(In \ {s}) = Cardinality(In) - 1 BY <1>1, FS_RemoveElement
<1>3. Cardinality(In \ {s}) \in Nat BY <1>1, FS_RemoveElement, FS_CardinalityType
<1>4. Cardinality(In) \in Nat BY <1>1, FS_CardinalityType
<1>5. active' = Cardinality(In') BY <1>2, <1>4 DEF Counts
<1> QED BY <1>3, <1>5 DEF Counts

\* The handler of one request becomes h, and the others stay what they are.
Becomes(s, h) == handler' = [handler EXCEPT ![s] = h]

LEMMA Others ==
  ASSUME TypeOK, NEW s \in Slots, NEW h \in Handlers, Becomes(s, h)
  PROVE  /\ handler' \in [Slots -> Handlers]
         /\ handler'[s] = h
         /\ \A q \in Slots \ {s} : handler'[q] = handler[q]
<1>1. handler \in [Slots -> Handlers] BY DEF TypeOK, Handlers
<1> QED BY <1>1 DEF Becomes

\* The invariant is kept when the new handler has what the invariant says of one and its
\* worker, if it had one, still has it.
LEMMA OneRequest ==
  ASSUME IInv, NEW s \in Slots, NEW h \in Handlers, Becomes(s, h),
         UNCHANGED <<replicas, run, gate, worker, collector>>,
         active' \in Nat, pending' \in Nat, sends' \in Nat,
         receipts' \subseteq Nat \X Nat, ReceiptsTrue',
         Counts',
         handler[s].at \notin Workers \/ h.at = handler[s].at,
         Computed(s)', Waits(s)'
  PROVE  IInv'
<1> USE DEF IInv, run, gate
<1>1. /\ handler' \in [Slots -> Handlers] /\ handler'[s] = h
      /\ \A q \in Slots \ {s} : handler'[q] = handler[q]
  BY Others
<1>2. TypeOK' BY <1>1 DEF TypeOK, Handlers
<1>3. Gate' /\ Collects' BY DEF Gate, Collects
<1>4. Busy'
  <2>1. ASSUME NEW w \in Workers, worker[w] \notin {"idle", "gone"} PROVE At(w)' # {}
    <3>1. PICK q \in Slots : handler[q].at = w BY <2>1 DEF Busy, At
    <3>2. handler'[q].at = w BY <1>1, <3>1
    <3> QED BY <3>2 DEF At
  <2> QED BY <2>1 DEF Busy
<1>5. ASSUME NEW q \in Slots PROVE Computed(q)' /\ Waits(q)'
  <2>1. CASE q = s BY <2>1
  <2>2. CASE q # s
    <3>1. handler'[q] = handler[q] BY <1>1, <2>2
    <3>2. Computed(q) /\ Waits(q) OBVIOUS
    <3>3. Computed(q)' BY <3>1, <3>2 DEF Computed
    <3>4. Waits(q)' BY <3>1, <3>2 DEF Waits
    <3> QED BY <3>3, <3>4
  <2> QED BY <2>1, <2>2
<1> QED BY <1>2, <1>3, <1>4, <1>5

\* The same when the request neither enters nor leaves.
LEMMA SamePlace ==
  ASSUME IInv, NEW s \in Slots, NEW h \in Handlers, Becomes(s, h),
         h.at \in Inside <=> handler[s].at \in Inside, UNCHANGED <<active, gate>>
  PROVE  Counts'
<1>1. /\ handler'[s] = h /\ \A q \in Slots \ {s} : handler'[q] = handler[q]
  BY Others DEF IInv
<1>2. In' = In BY <1>1 DEF In
<1> QED BY <1>2 DEF IInv, Counts, gate

\* The places, and who is inside.
LEMMA PlacesOf ==
  /\ Workers = {"primary", "replica", "scorer"}
  /\ Inside = {"count", "queued", "answered", "rpc wait", "rpc", "leave",
               "primary", "replica", "scorer"}
  /\ Places = {"none", "sent", "ok", "error"} \cup Inside
BY DEF Workers, Inside, Places

\* A request of which only the place changes.
LEMMA HandlerAt ==
  ASSUME TypeOK, NEW s \in Slots, NEW at \in Places
  PROVE  /\ handler[s] \in Handlers
         /\ [handler[s] EXCEPT !.at = at] \in Handlers
         /\ [handler[s] EXCEPT !.at = at].at = at
         /\ [handler[s] EXCEPT !.at = at].kind = handler[s].kind
         /\ [handler[s] EXCEPT !.at = at].live = handler[s].live
         /\ [handler[s] EXCEPT !.at = at].snap = handler[s].snap
         /\ [handler[s] EXCEPT !.at = at].used = handler[s].used
<1>1. handler[s] \in Handlers BY DEF TypeOK, Handlers
<1> QED BY <1>1 DEF Handlers

LEMMA PutBecomes ==
  ASSUME NEW s, NEW at, Put(s, at)
  PROVE  Becomes(s, [handler[s] EXCEPT !.at = at])
BY DEF Put, Becomes

\* A request that moves on inside the engine, or outside of it without an answer.
LEMMA MovesOn ==
  ASSUME IInv, NEW s \in Slots, NEW at \in Places, Put(s, at),
         UNCHANGED <<replicas, run, gate, active, worker, collector, receipts>>,
         pending' \in Nat, sends' \in Nat,
         at \in Inside <=> handler[s].at \in Inside,
         handler[s].at \notin Workers, at \notin Workers \cup {"rpc", "sent", "ok"}
  PROVE  IInv'
<1> DEFINE h == [handler[s] EXCEPT !.at = at]
<1>0. TypeOK BY DEF IInv
<1>1. h \in Handlers /\ h.at = at /\ h.live = handler[s].live /\ h.snap = handler[s].snap
      /\ h.used = handler[s].used
  BY <1>0, HandlerAt
<1>2. Becomes(s, h) BY PutBecomes
<1> HIDE DEF h
<1>3. handler'[s] = h BY <1>0, <1>1, <1>2, Others
<1>4. Counts' BY <1>1, <1>2, SamePlace
<1>5. Computed(s) /\ Waits(s) BY DEF IInv
<1>6. Computed(s)' BY <1>1, <1>3, <1>5, PlacesOf DEF Computed, run
<1>7. Waits(s)' BY <1>1, <1>3, <1>5 DEF Waits, run
<1>8. ReceiptsTrue' /\ receipts' \subseteq Nat \X Nat /\ active' \in Nat
  BY DEF IInv, TypeOK, ReceiptsTrue
<1> QED BY <1>1, <1>2, <1>4, <1>6, <1>7, <1>8, OneRequest

\* The handler of a request, up to where it waits for a worker or for the teacher.
LEMMA EnterKeeps == ASSUME IInv, NEW s \in Slots, Enter(s) PROVE IInv'
<1> USE DEF run, gate, child
<1>0. TypeOK BY DEF IInv
<1>1. handler[s].at = "sent" BY DEF Enter
<1>2. active + 1 \in Nat BY <1>0 DEF TypeOK
<1>3. CASE ~MayEnter
  <2>1. Put(s, "error") BY <1>3 DEF Enter
  <2>2. UNCHANGED <<replicas, run, gate, active, pending, worker, child, receipts>>
    BY <1>3 DEF Enter
  <2> QED BY <1>0, <1>1, <2>1, <2>2, MovesOn, PlacesOf DEF TypeOK
<1>4. CASE MayEnter
  <2>1. PICK at \in {"rpc wait", "count", "queued"} : Put(s, at) BY <1>4 DEF Enter
  <2>2. /\ active' = active + 1
        /\ UNCHANGED <<replicas, run, gate, pending, worker, child, receipts>>
    BY <1>4 DEF Enter
  <2> DEFINE h == [handler[s] EXCEPT !.at = at]
  <2>3. h \in Handlers /\ h.at = at /\ h.live = handler[s].live /\ h.snap = handler[s].snap
        /\ h.used = handler[s].used
    BY <1>0, PlacesOf, HandlerAt
  <2>4. Becomes(s, h) BY <2>1, PutBecomes
  <2> HIDE DEF h
  <2>5. handler'[s] = h /\ \A q \in Slots \ {s} : handler'[q] = handler[q]
    BY <1>0, <2>3, <2>4, Others
  <2>6. s \notin In /\ In' = In \cup {s} BY <1>1, <2>3, <2>5, PlacesOf DEF In
  <2>7. Counts' BY <1>4, <2>2, <2>6, Entering DEF IInv, MayEnter
  <2>8. Computed(s) /\ Waits(s) BY DEF IInv
  <2>9. Computed(s)' BY <1>1, <2>3, <2>5, <2>8, PlacesOf DEF Computed
  <2>10. Waits(s)' BY <2>2, <2>3, <2>5, <2>8 DEF Waits
  <2>11. ReceiptsTrue' /\ receipts' \subseteq Nat \X Nat /\ active' \in Nat
         /\ pending' \in Nat /\ sends' \in Nat
    <3>1. active' \in Nat BY <1>2, <2>2
    <3>2. ReceiptsTrue' BY <2>2 DEF IInv, ReceiptsTrue
    <3> QED BY <1>0, <2>2, <3>1, <3>2 DEF TypeOK
  <2>12. handler[s].at \notin Workers BY <1>1, PlacesOf
  <2>13. UNCHANGED <<replicas, run, gate, worker, collector>> BY <2>2
  <2> QED BY <2>3, <2>4, <2>7, <2>9, <2>10, <2>11, <2>12, <2>13, OneRequest
<1> QED BY <1>3, <1>4

LEMMA CountKeeps == ASSUME IInv, NEW s \in Slots, Count(s) PROVE IInv'
<1>1. TypeOK BY DEF IInv
<1>2. pending' \in Nat /\ sends' \in Nat BY <1>1 DEF TypeOK, Count, Counted, child
<1>3. Put(s, "queued") /\ handler[s].at = "count" BY DEF Count
<1> QED BY <1>2, <1>3, MovesOn, PlacesOf DEF Count, child

LEMMA AnsweredKeeps == ASSUME IInv, NEW s \in Slots, Answered(s) PROVE IInv'
<1>1. TypeOK BY DEF IInv
<1>2. pending' \in Nat /\ sends' \in Nat BY <1>1 DEF TypeOK, Answered, Uncounted, child
<1>3. Put(s, "leave") /\ handler[s].at = "answered" BY DEF Answered
<1> QED BY <1>2, <1>3, MovesOn, PlacesOf DEF Answered, child

\* The call of the teacher: its result belongs to the snapshot at its begin, which is
\* still the snapshot when the answer is there.
LEMMA BeginRpcKeeps == ASSUME IInv, NEW s \in Slots, BeginRpc(s) PROVE IInv'
<1> DEFINE h == [handler[s] EXCEPT !.at = "rpc", !.used = snapshot]
<1> USE DEF run, gate, child
<1>0. TypeOK BY DEF IInv
<1>1. handler[s].at = "rpc wait" /\ handler[s] \in Handlers
  BY <1>0 DEF BeginRpc, TypeOK, Handlers
<1>2. h \in Handlers /\ h.at = "rpc" /\ h.live = handler[s].live /\ h.snap = handler[s].snap
      /\ h.used = snapshot
  BY <1>0, <1>1, PlacesOf DEF Handlers, TypeOK
<1>3. Becomes(s, h) BY DEF BeginRpc, Becomes
<1>4. UNCHANGED <<replicas, run, gate, active, pending, worker, child, receipts>>
  BY DEF BeginRpc
<1> HIDE DEF h
<1>5. handler'[s] = h BY <1>0, <1>2, <1>3, Others
<1>6. Counts' BY <1>1, <1>2, <1>3, <1>4, SamePlace, PlacesOf
<1>7. Waits(s) BY DEF IInv
<1>8. Computed(s)' BY <1>2, <1>4, <1>5, PlacesOf DEF Computed
<1>9. Waits(s)' BY <1>2, <1>4, <1>5, <1>7 DEF Waits
<1>10. ReceiptsTrue' /\ receipts' \subseteq Nat \X Nat /\ active' \in Nat
       /\ pending' \in Nat /\ sends' \in Nat
  BY <1>0, <1>4 DEF IInv, TypeOK, ReceiptsTrue
<1> QED BY <1>1, <1>2, <1>3, <1>4, <1>6, <1>8, <1>9, <1>10, OneRequest, PlacesOf

LEMMA EndRpcKeeps == ASSUME IInv, NEW s \in Slots, EndRpc(s) PROVE IInv'
<1> USE DEF run, gate, child
<1>0. TypeOK BY DEF IInv
<1>1. handler[s].at = "rpc" /\ handler[s] \in Handlers
  BY <1>0 DEF EndRpc, TypeOK, Handlers
<1>2. Computed(s) /\ Waits(s) BY DEF IInv
<1>3. handler[s].used = snapshot BY <1>1, <1>2 DEF Computed
<1>4. PICK used \in {0, snapshot} :
        handler' = [handler EXCEPT ![s] = [handler[s] EXCEPT !.at = "leave", !.used = used]]
  <2>1. CASE Put(s, "leave")
    <3>1. [handler[s] EXCEPT !.at = "leave", !.used = snapshot] = [handler[s] EXCEPT !.at = "leave"]
      BY <1>1, <1>3 DEF Handlers
    <3> QED BY <2>1, <3>1 DEF Put
  <2>2. CASE handler' = [handler EXCEPT ![s].at = "leave", ![s].used = 0]
    BY <2>2
  <2> QED BY <2>1, <2>2 DEF EndRpc
<1> DEFINE h == [handler[s] EXCEPT !.at = "leave", !.used = used]
<1>5. h \in Handlers /\ h.at = "leave" /\ h.live = handler[s].live /\ h.snap = handler[s].snap
      /\ h.used = used
  <2>1. snapshot \in Nat BY <1>0 DEF TypeOK
  <2>2. used \in Nat BY <2>1
  <2>3. "leave" \in Places BY PlacesOf
  <2> QED BY <1>1, <2>2, <2>3 DEF Handlers
<1>6. Becomes(s, h) BY <1>4 DEF Becomes
<1>7. UNCHANGED <<replicas, run, gate, active, pending, worker, child>>
  BY DEF EndRpc
<1> HIDE DEF h
<1>8. handler'[s] = h BY <1>0, <1>5, <1>6, Others
<1>9. Counts' BY <1>1, <1>5, <1>6, <1>7, SamePlace, PlacesOf
<1>10. Computed(s)' BY <1>5, <1>7, <1>8, PlacesOf DEF Computed
<1>11. Waits(s)' BY <1>2, <1>5, <1>7, <1>8 DEF Waits
<1>12. ReceiptsTrue' /\ receipts' \subseteq Nat \X Nat
  <2>1. receipts' = receipts \/ receipts' = receipts \cup {<<snapshot, snapshot>>}
    BY <1>3 DEF EndRpc
  <2> QED BY <1>0, <2>1 DEF IInv, TypeOK, ReceiptsTrue
<1>13. active' \in Nat /\ pending' \in Nat /\ sends' \in Nat
  BY <1>0, <1>7 DEF TypeOK
<1> QED BY <1>1, <1>5, <1>6, <1>7, <1>9, <1>10, <1>11, <1>12, <1>13, OneRequest, PlacesOf

\* What a client gets that still waits was computed with the weights of its batch: its
\* request was inside until now, so the engine is open on them.
LEMMA LeaveKeeps == ASSUME IInv, NEW s \in Slots, Leave(s) PROVE IInv'
<1> USE DEF run, gate, child
<1>0. TypeOK BY DEF IInv
<1>1. handler[s].at = "leave" /\ handler[s] \in Handlers
  BY <1>0 DEF Leave, TypeOK, Handlers
<1>2. Computed(s) /\ Waits(s) BY DEF IInv
<1>3. PICK at \in {"error", "ok"} : Put(s, at) /\ (at = "ok" => handler[s].used # 0)
  BY DEF Leave
<1> DEFINE h == [handler[s] EXCEPT !.at = at]
<1>4. h \in Handlers /\ h.at = at /\ h.live = handler[s].live /\ h.snap = handler[s].snap
      /\ h.used = handler[s].used
  BY <1>0, PlacesOf, HandlerAt
<1>5. Becomes(s, h) BY <1>3, PutBecomes
<1>6. /\ active' = active - 1
      /\ UNCHANGED <<replicas, run, gate, pending, worker, child, receipts>>
  BY DEF Leave
<1> HIDE DEF h
<1>7. handler'[s] = h /\ \A q \in Slots \ {s} : handler'[q] = handler[q]
  BY <1>0, <1>4, <1>5, Others
<1>8. s \in In /\ In' = In \ {s} BY <1>1, <1>4, <1>7, PlacesOf DEF In
<1>9. Counts' /\ active' \in Nat BY <1>6, <1>8, Leaving DEF IInv
<1>10. Computed(s)' BY <1>4, <1>7, PlacesOf DEF Computed
<1>11. snapshot = weights BY <1>8 DEF IInv, Counts, Gate
<1>12. handler[s].used # 0 => handler[s].used = weights
  BY <1>1, <1>2, <1>11, PlacesOf DEF Computed
<1>13. Waits(s)' BY <1>2, <1>3, <1>4, <1>6, <1>7, <1>12 DEF Waits
<1>14. ReceiptsTrue' /\ receipts' \subseteq Nat \X Nat /\ pending' \in Nat /\ sends' \in Nat
  BY <1>0, <1>6 DEF IInv, TypeOK, ReceiptsTrue
<1> QED BY <1>1, <1>4, <1>5, <1>6, <1>9, <1>10, <1>13, <1>14, OneRequest, PlacesOf

\* What happens to a request outside of the engine.
LEMMA OutsideMoves ==
  ASSUME IInv, NEW s \in Slots, NEW h \in Handlers, Becomes(s, h),
         UNCHANGED <<replicas, run, gate, active, pending, worker, collector, receipts>>,
         sends' \in Nat, handler[s].at \notin Inside, h.at \notin Inside,
         h.at = "sent" => h.used = 0,
         h.live => h.at = "sent" /\ collector = "running" /\ h.snap = weights
  PROVE  IInv'
<1> USE DEF run
<1>0. TypeOK BY DEF IInv
<1>1. handler'[s] = h BY <1>0, Others
<1>2. Counts' BY SamePlace
<1>3. Computed(s)' BY <1>1, PlacesOf DEF Computed
<1>4. Waits(s)' BY <1>1 DEF Waits
<1>5. ReceiptsTrue' /\ receipts' \subseteq Nat \X Nat /\ active' \in Nat /\ pending' \in Nat
  BY <1>0 DEF IInv, TypeOK, ReceiptsTrue
<1>6. handler[s].at \notin Workers BY PlacesOf
<1> QED BY <1>2, <1>3, <1>4, <1>5, <1>6, OneRequest

LEMMA SendKeeps == ASSUME IInv, NEW s \in Slots, Send(s) PROVE IInv'
<1>0. TypeOK BY DEF IInv
<1>1. PICK k \in Kinds :
        Becomes(s, [at |-> "sent", kind |-> k, live |-> TRUE, snap |-> weights, used |-> 0])
  BY DEF Send, Becomes
<1> DEFINE h == [at |-> "sent", kind |-> k, live |-> TRUE, snap |-> weights, used |-> 0]
<1>2. weights \in Nat /\ sends' \in Nat BY <1>0 DEF TypeOK, Send
<1>3. h \in Handlers /\ h.at = "sent" /\ h.used = 0 /\ h.snap = weights
  BY <1>2, PlacesOf DEF Handlers
<1>4. Becomes(s, h) BY <1>1
<1> HIDE DEF h
<1>5. handler[s].at \notin Inside BY NobodyIsInside DEF Send
<1>6. h.at \notin Inside BY <1>3, PlacesOf
<1> QED BY <1>2, <1>3, <1>4, <1>5, <1>6, OutsideMoves DEF Send

LEMMA NoHandlerKeeps ==
  ASSUME IInv, NEW s \in Slots, handler[s].at \notin Inside, Becomes(s, NoHandler),
         UNCHANGED <<replicas, run, gate, active, pending, worker, child, receipts>>
  PROVE  IInv'
<1>1. sends' \in Nat BY DEF IInv, TypeOK, child
<1>2. NoHandler.at = "none" /\ NoHandler.live = FALSE BY DEF NoHandler
<1> QED BY <1>1, <1>2, NobodyIsInside, OutsideMoves DEF child

LEMMA DropKeeps == ASSUME IInv, NEW s \in Slots, Drop(s) PROVE IInv'
<1>1. handler[s].at \notin Inside BY PlacesOf DEF Drop
<1> QED BY <1>1, NoHandlerKeeps DEF Drop, Becomes

\* A client that stops waiting changes nothing for its handler.
LEMMA GiveUpKeeps == ASSUME IInv, NEW s \in Slots, GiveUp(s) PROVE IInv'
<1> DEFINE h == [handler[s] EXCEPT !.live = FALSE]
<1> USE DEF run, child
<1>0. TypeOK BY DEF IInv
<1>1. handler[s] \in Handlers BY <1>0 DEF TypeOK, Handlers
<1>2. h \in Handlers /\ h.at = handler[s].at /\ h.live = FALSE /\ h.used = handler[s].used
  BY <1>1 DEF Handlers
<1>3. Becomes(s, h) BY DEF GiveUp, Becomes
<1>4. UNCHANGED <<replicas, run, gate, active, pending, worker, child, receipts>>
  BY DEF GiveUp
<1> HIDE DEF h
<1>5. handler'[s] = h BY <1>0, <1>2, <1>3, Others
<1>6. Counts' BY <1>2, <1>3, <1>4, SamePlace
<1>7. Computed(s) BY DEF IInv
<1>8. Computed(s)' BY <1>2, <1>4, <1>5, <1>7 DEF Computed
<1>9. Waits(s)' BY <1>2, <1>5 DEF Waits
<1>10. ReceiptsTrue' /\ receipts' \subseteq Nat \X Nat /\ active' \in Nat
       /\ pending' \in Nat /\ sends' \in Nat
  BY <1>0, <1>4 DEF IInv, TypeOK, ReceiptsTrue
<1> QED BY <1>2, <1>3, <1>4, <1>6, <1>8, <1>9, <1>10, OneRequest

-----------------------------------------------------------------------------
(* The end of the collector *)

\* What abandoned clients leave behind.
LEMMA AbandonedHas ==
  ASSUME TypeOK
  PROVE  /\ Abandoned \in [Slots -> Handlers]
         /\ \A s \in Slots : /\ Abandoned[s].at = handler[s].at
                             /\ Abandoned[s].used = handler[s].used
                             /\ ~Abandoned[s].live
<1>1. handler \in [Slots -> Handlers] BY DEF TypeOK, Handlers
<1>2. ASSUME NEW s \in Slots
      PROVE  LET h == [handler[s] EXCEPT !.live = FALSE] IN
             h \in Handlers /\ h.at = handler[s].at /\ h.used = handler[s].used /\ ~h.live
  BY <1>1 DEF Handlers
<1> QED BY <1>2 DEF Abandoned

\* No request waits any more; only handlers outside of the engine may have gone.
LEMMA NobodyWaits ==
  ASSUME IInv, handler' \in [Slots -> Handlers],
         \A s \in Slots :
           /\ ~handler'[s].live
           /\ \/ handler'[s].at = handler[s].at /\ handler'[s].used = handler[s].used
              \/ handler'[s] = NoHandler /\ handler[s].at \notin Inside,
         UNCHANGED <<replicas, batch, weights, synced, snapshot, gate, active, pending, worker,
                     receipts>>,
         sends' \in Nat,
         collector' \in {"off", "failed"},
         main' \in {main, "leave"}
  PROVE  IInv'
<1> USE DEF gate
<1>0. TypeOK BY DEF IInv
<1>1. TypeOK' BY <1>0 DEF TypeOK, Handlers
<1>2. In' = In BY NobodyIsInside DEF In
<1>3. Counts' BY <1>2 DEF IInv, Counts
<1>4. Gate' BY DEF IInv, Gate
<1>5. Collects' BY DEF Collects
<1>6. Busy'
  <2>1. ASSUME NEW w \in Workers, worker[w] \notin {"idle", "gone"} PROVE At(w)' # {}
    <3>1. PICK q \in Slots : handler[q].at = w BY <2>1 DEF IInv, Busy, At
    <3>2. handler'[q].at = w BY <3>1 DEF Inside
    <3> QED BY <3>2 DEF At
  <2> QED BY <2>1 DEF Busy
<1>7. ASSUME NEW s \in Slots PROVE Computed(s)' /\ Waits(s)'
  <2>1. Computed(s) BY DEF IInv
  <2>2. Computed(s)'
    <3>1. CASE handler'[s].at = handler[s].at /\ handler'[s].used = handler[s].used
      BY <2>1, <3>1 DEF Computed
    <3>2. CASE handler'[s] = NoHandler
      <4>1. handler'[s].at = "none" /\ handler'[s].used = 0 BY <3>2 DEF NoHandler
      <4> QED BY <4>1, PlacesOf DEF Computed
    <3> QED BY <3>1, <3>2
  <2> QED BY <2>2 DEF Waits
<1>8. ReceiptsTrue' BY DEF IInv, ReceiptsTrue
<1> QED BY <1>1, <1>3, <1>4, <1>5, <1>6, <1>7, <1>8 DEF IInv

LEMMA FailKeeps == ASSUME IInv, Fail PROVE IInv'
<1>0. TypeOK BY DEF IInv
<1>1. handler' = Abandoned BY DEF Fail
<1>2. sends' \in Nat BY <1>0 DEF TypeOK, Fail
<1> QED BY <1>0, <1>1, <1>2, AbandonedHas, NobodyWaits DEF Fail

LEMMA CollectorFailsKeeps == ASSUME IInv, CollectorFails PROVE IInv'
<1>0. TypeOK BY DEF IInv
<1>1. handler' = Abandoned BY DEF CollectorFails
<1>2. sends' \in Nat BY <1>0 DEF TypeOK, CollectorFails
<1> QED BY <1>0, <1>1, <1>2, AbandonedHas, NobodyWaits DEF CollectorFails, run

LEMMA ReceiveKeeps == ASSUME IInv, NEW s \in Slots, Receive(s) PROVE IInv'
<1>0. TypeOK BY DEF IInv
<1>1. handler[s].at \notin Inside BY PlacesOf DEF Receive
<1>2. CASE handler[s].at = "error" /\ handler[s].live
  <2>1. handler' = [Abandoned EXCEPT ![s] = NoHandler] /\ collector' = "failed"
    BY <1>2 DEF Receive
  <2>2. handler' \in [Slots -> Handlers] BY <1>0, <2>1, AbandonedHas, NobodyIsInside
  <2>3. ASSUME NEW q \in Slots
        PROVE  /\ ~handler'[q].live
               /\ \/ handler'[q].at = handler[q].at /\ handler'[q].used = handler[q].used
                  \/ handler'[q] = NoHandler /\ handler[q].at \notin Inside
    <3>1. CASE q = s
      BY <1>0, <1>1, <2>1, <3>1, AbandonedHas DEF NoHandler
    <3>2. CASE q # s BY <1>0, <2>1, <3>2, AbandonedHas
    <3> QED BY <3>1, <3>2
  <2>4. sends' \in Nat BY <1>0 DEF TypeOK, Receive
  <2> QED BY <2>1, <2>2, <2>3, <2>4, NobodyWaits DEF Receive, run
<1>3. CASE ~(handler[s].at = "error" /\ handler[s].live)
  <2>1. Becomes(s, NoHandler) /\ UNCHANGED child BY <1>3 DEF Receive, Becomes, child
  <2> QED BY <1>1, <2>1, NoHandlerKeeps DEF Receive
<1> QED BY <1>2, <1>3

-----------------------------------------------------------------------------
(* Steps of the workers *)

\* What a worker turns into, and that the others stay what they are.
LEMMA GoesTo ==
  ASSUME TypeOK, NEW w \in Workers, NEW at \in Phases, Goto(w, at)
  PROVE  /\ worker' \in [Workers -> Phases]
         /\ worker'[w] = at
         /\ \A v \in Workers \ {w} : worker'[v] = worker[v]
<1>1. worker \in [Workers -> Phases] BY DEF TypeOK, Phases
<1> QED BY <1>1 DEF Goto

\* A step of a worker keeps the invariant when no request enters or leaves and the
\* requests and the worker are what the invariant says.
LEMMA WorkerStep ==
  ASSUME IInv, NEW w \in Workers, NEW at \in Phases, Goto(w, at),
         handler' \in [Slots -> Handlers],
         UNCHANGED <<replicas, run, gate, active, pending, child>>,
         receipts' \subseteq Nat \X Nat, ReceiptsTrue',
         at \notin {"idle", "gone"} => At(w)' # {},
         \A s \in Slots :
           /\ handler'[s].at \in Inside <=> handler[s].at \in Inside
           /\ \A v \in Workers \ {w} : handler[s].at = v => handler'[s].at = v
           /\ handler'[s].live = handler[s].live /\ handler'[s].snap = handler[s].snap
           /\ handler'[s].at = "ok" => handler[s].at = "ok"
           /\ handler[s].at = "ok" => handler'[s].used = handler[s].used
           /\ Computed(s)'
  PROVE  IInv'
<1> USE DEF gate, run, child
<1>0. TypeOK BY DEF IInv
<1>1. /\ worker' \in [Workers -> Phases] /\ worker'[w] = at
      /\ \A v \in Workers \ {w} : worker'[v] = worker[v]
  BY <1>0, GoesTo
<1>2. TypeOK' BY <1>0, <1>1 DEF TypeOK, Handlers, Phases
<1>3. In' = In BY DEF In
<1>4. Counts' BY <1>3 DEF IInv, Counts
<1>5. Gate' /\ Collects' BY DEF IInv, Gate, Collects
<1>6. Busy'
  <2>1. ASSUME NEW v \in Workers, worker'[v] \notin {"idle", "gone"} PROVE At(v)' # {}
    <3>1. CASE v = w BY <1>1, <2>1, <3>1
    <3>2. CASE v # w
      <4>1. PICK q \in Slots : handler[q].at = v BY <1>1, <2>1, <3>2 DEF IInv, Busy, At
      <4>2. handler'[q].at = v BY <3>2, <4>1
      <4> QED BY <4>2 DEF At
    <3> QED BY <3>1, <3>2
  <2> QED BY <2>1 DEF Busy
<1>7. ASSUME NEW s \in Slots PROVE Waits(s)' BY DEF IInv, Waits
<1> QED BY <1>2, <1>4, <1>5, <1>6, <1>7 DEF IInv

\* The worker takes a request from its queue.
LEMMA TakeKeeps == ASSUME IInv, NEW w \in Workers, NEW s \in Slots, Take(w, s) PROVE IInv'
<1> DEFINE h == [handler[s] EXCEPT !.at = w]
<1>0. TypeOK BY DEF IInv
<1>1. Goto(w, "gathering") /\ Put(s, w) /\ handler[s].at = "queued" BY DEF Take
<1>2. "gathering" \in Phases /\ w \in Places BY PlacesOf DEF Phases
<1>3. h \in Handlers /\ h.at = w /\ h.live = handler[s].live /\ h.snap = handler[s].snap
      /\ h.used = handler[s].used
  BY <1>0, <1>2, HandlerAt
<1>4. Becomes(s, h) BY <1>1, PutBecomes
<1> HIDE DEF h
<1>5. /\ handler' \in [Slots -> Handlers] /\ handler'[s] = h
      /\ \A q \in Slots \ {s} : handler'[q] = handler[q]
  BY <1>0, <1>3, <1>4, Others
<1>6. /\ worker'[w] = "gathering" /\ \A v \in Workers \ {w} : worker'[v] = worker[v]
  BY <1>0, <1>1, <1>2, GoesTo
<1>7. UNCHANGED <<replicas, run, gate, active, pending, child, receipts>> BY DEF Take
<1>8. At(w)' # {} BY <1>3, <1>5 DEF At
<1>9. receipts' \subseteq Nat \X Nat /\ ReceiptsTrue'
  BY <1>0, <1>7 DEF IInv, TypeOK, ReceiptsTrue
<1>10. ASSUME NEW q \in Slots
       PROVE  /\ handler'[q].at \in Inside <=> handler[q].at \in Inside
              /\ \A v \in Workers \ {w} : handler[q].at = v => handler'[q].at = v
              /\ handler'[q].live = handler[q].live /\ handler'[q].snap = handler[q].snap
              /\ handler'[q].at = "ok" => handler[q].at = "ok"
              /\ handler[q].at = "ok" => handler'[q].used = handler[q].used
              /\ Computed(q)'
  <2>1. Computed(q) BY DEF IInv
  <2>2. CASE q = s
    <3>1. handler'[q] = h BY <1>5, <2>2
    <3>2. Computed(q)' BY <1>1, <1>3, <1>6, <1>7, <2>1, <2>2, <3>1, PlacesOf DEF Computed, run
    <3> QED BY <1>1, <1>3, <2>2, <3>1, <3>2, PlacesOf
  <2>3. CASE q # s
    <3>1. handler'[q] = handler[q] BY <1>5, <2>3
    <3>2. Computed(q)' BY <1>6, <1>7, <2>1, <3>1 DEF Computed, run
    <3> QED BY <3>1, <3>2
  <2> QED BY <2>2, <2>3
<1> QED BY <1>1, <1>2, <1>5, <1>7, <1>8, <1>9, <1>10, WorkerStep

\* The primary worker is admitted, or a worker with nothing to do ends.
LEMMA OnlyWorker ==
  ASSUME IInv, NEW w \in Workers, NEW at \in Phases \ {"running"}, Goto(w, at),
         UNCHANGED <<replicas, run, gate, active, pending, handler, child, receipts>>,
         at = "gone" \/ worker[w] \notin {"idle", "gone"}
  PROVE  IInv'
<1>0. TypeOK BY DEF IInv
<1>1. /\ worker'[w] = at /\ \A v \in Workers \ {w} : worker'[v] = worker[v]
  BY <1>0, GoesTo
<1>2. handler' \in [Slots -> Handlers] BY <1>0 DEF TypeOK, Handlers
<1>3. receipts' \subseteq Nat \X Nat /\ ReceiptsTrue'
  BY <1>0 DEF IInv, TypeOK, ReceiptsTrue
<1>4. at \notin {"idle", "gone"} => At(w)' # {} BY DEF IInv, Busy, At
<1>5. ASSUME NEW s \in Slots PROVE Computed(s)' BY <1>1 DEF IInv, Computed, run
<1> QED BY <1>2, <1>3, <1>4, <1>5, WorkerStep

LEMMA AdmitKeeps == ASSUME IInv, Admit PROVE IInv'
<1>1. "primary" \in Workers /\ "admitted" \in Phases \ {"running"} BY DEF Workers, Phases
<1> QED BY <1>1, OnlyWorker DEF Admit

LEMMA EndWorkerKeeps == ASSUME IInv, NEW w \in Workers, EndWorker(w) PROVE IInv'
<1>1. "gone" \in Phases \ {"running"} BY DEF Phases
<1>2. Goto(w, "gone") BY DEF EndWorker, Goto
<1> QED BY <1>1, <1>2, OnlyWorker DEF EndWorker

\* A worker begins: what its requests get is what the snapshot stands for.
LEMMA BeginKeeps ==
  ASSUME IInv, NEW w \in Workers, NEW version \in Nat, Begin(w, version),
         worker[w] \notin {"idle", "gone"}, version = snapshot
  PROVE  IInv'
<1>0. TypeOK BY DEF IInv
<1>1. "running" \in Phases /\ Goto(w, "running") BY DEF Phases, Begin
<1>2. UNCHANGED <<replicas, run, gate, active, pending, child, receipts>> BY DEF Begin
<1>3. /\ worker'[w] = "running" /\ \A v \in Workers \ {w} : worker'[v] = worker[v]
  BY <1>0, <1>1, GoesTo
<1>4. receipts' \subseteq Nat \X Nat /\ ReceiptsTrue'
  BY <1>0, <1>2 DEF IInv, TypeOK, ReceiptsTrue
<1>5. ASSUME NEW s \in Slots
      PROVE  /\ handler'[s] \in Handlers /\ handler'[s].at = handler[s].at
             /\ handler'[s].live = handler[s].live /\ handler'[s].snap = handler[s].snap
             /\ handler'[s].used = IF handler[s].at = w THEN version ELSE handler[s].used
  <2>1. handler[s] \in Handlers BY <1>0 DEF TypeOK, Handlers
  <2>2. handler'[s] = IF handler[s].at = w THEN [handler[s] EXCEPT !.used = version]
                      ELSE handler[s]
    BY DEF Begin, Use
  <2> QED BY <2>1, <2>2 DEF Handlers
<1>6. handler' \in [Slots -> Handlers]
  <2>1. handler' = [s \in Slots |-> handler'[s]] BY DEF Begin, Use
  <2> QED BY <1>5, <2>1
<1>7. At(w)' # {} BY <1>5 DEF IInv, Busy, At
<1>8. ASSUME NEW s \in Slots PROVE Computed(s)'
  <2>1. Computed(s) BY DEF IInv
  <2> QED BY <1>2, <1>3, <1>5, <2>1, PlacesOf DEF Computed, run
<1> QED BY <1>1, <1>2, <1>4, <1>5, <1>6, <1>7, <1>8, PlacesOf, WorkerStep

\* Every result of the batch is an exception.
LEMMA RefuseKeeps == ASSUME IInv, NEW w \in Workers, Refuse(w) PROVE IInv'
<1>0. TypeOK BY DEF IInv
<1>1. "idle" \in Phases /\ Goto(w, "idle") BY DEF Phases, Refuse
<1>2. UNCHANGED <<replicas, run, gate, active, pending, child, receipts>> BY DEF Refuse
<1>3. /\ worker'[w] = "idle" /\ \A v \in Workers \ {w} : worker'[v] = worker[v]
  BY <1>0, <1>1, GoesTo
<1>4. receipts' \subseteq Nat \X Nat /\ ReceiptsTrue'
  BY <1>0, <1>2 DEF IInv, TypeOK, ReceiptsTrue
<1>5. ASSUME NEW s \in Slots
      PROVE  /\ handler'[s] \in Handlers
             /\ handler'[s].live = handler[s].live /\ handler'[s].snap = handler[s].snap
             /\ handler'[s].at = IF handler[s].at = w THEN "answered" ELSE handler[s].at
             /\ handler'[s].used = IF handler[s].at = w THEN 0 ELSE handler[s].used
  <2>1. handler[s] \in Handlers BY <1>0 DEF TypeOK, Handlers
  <2> DEFINE h == [handler[s] EXCEPT !.at = "answered", !.used = 0]
  <2>2. handler'[s] = IF handler[s].at = w THEN h ELSE handler[s]
    BY DEF Refuse
  <2>3. "answered" \in Places BY PlacesOf
  <2>4. h \in Handlers /\ h.at = "answered" /\ h.used = 0 /\ h.live = handler[s].live
        /\ h.snap = handler[s].snap
    BY <2>1, <2>3 DEF Handlers
  <2> HIDE DEF h
  <2>5. CASE handler[s].at = w BY <2>2, <2>4, <2>5
  <2>6. CASE handler[s].at # w BY <2>1, <2>2, <2>6
  <2> QED BY <2>5, <2>6
<1>6. handler' \in [Slots -> Handlers]
  <2>1. handler' = [s \in Slots |-> handler'[s]] BY DEF Refuse
  <2> QED BY <1>5, <2>1
<1>7. ASSUME NEW s \in Slots PROVE Computed(s)'
  <2>1. Computed(s) BY DEF IInv
  <2> QED BY <1>2, <1>3, <1>5, <2>1, PlacesOf DEF Computed, run
<1>8. ASSUME NEW s \in Slots
      PROVE  /\ handler'[s].at \in Inside <=> handler[s].at \in Inside
             /\ \A v \in Workers \ {w} : handler[s].at = v => handler'[s].at = v
             /\ handler'[s].at = "ok" => handler[s].at = "ok"
             /\ handler[s].at = "ok" => handler'[s].used = handler[s].used
  <2>1. CASE handler[s].at = w BY <1>5, <2>1, PlacesOf
  <2>2. CASE handler[s].at # w BY <1>5, <2>2
  <2> QED BY <2>1, <2>2
<1> QED BY <1>1, <1>2, <1>4, <1>5, <1>6, <1>7, <1>8, WorkerStep

\* On the primary model the weights are used, which are those of the snapshot as long as
\* a request is inside; a replica compares its own with the snapshot.
LEMMA OpenWhileBusy ==
  ASSUME IInv, NEW w \in Workers, worker[w] \notin {"idle", "gone"}
  PROVE  snapshot = weights /\ weights \in Nat
<1>1. PICK s \in Slots : handler[s].at = w BY DEF IInv, Busy, At
<1>2. s \in In BY <1>1, PlacesOf DEF In
<1> QED BY <1>2 DEF IInv, Counts, Gate, TypeOK

LEMMA BeginPrimaryKeeps == ASSUME IInv, BeginPrimary PROVE IInv'
<1>1. "primary" \in Workers BY DEF Workers
<1> QED BY <1>1, OpenWhileBusy, BeginKeeps DEF BeginPrimary

LEMMA BeginOnReplicaKeeps == ASSUME IInv, NEW w \in Workers, BeginOnReplica(w) PROVE IInv'
<1>1. synced[w] \in Nat BY DEF IInv, TypeOK
<1> QED BY <1>1, BeginKeeps, RefuseKeeps DEF BeginOnReplica

LEMMA BeginScoreKeeps == ASSUME IInv, BeginScore PROVE IInv'
<1>1. "scorer" \in Workers BY DEF Workers
<1> QED BY <1>1, OpenWhileBusy, BeginKeeps, RefuseKeeps DEF BeginScore

\* The receipts of a batch name the snapshot whose weights computed it.
LEMMA FinishKeeps == ASSUME IInv, NEW w \in Workers, Finish(w) PROVE IInv'
<1>0. TypeOK BY DEF IInv
<1>1. CASE Refuse(w) BY <1>1, RefuseKeeps
<1>2. CASE ~Refuse(w)
  <2>1. /\ Goto(w, "idle") /\ worker[w] = "running"
        /\ handler' = [s \in Slots |->
             IF handler[s].at = w THEN [handler[s] EXCEPT !.at = "answered"] ELSE handler[s]]
        /\ receipts' = receipts \cup {<<snapshot, handler[s].used>> : s \in At(w)}
        /\ UNCHANGED <<replicas, run, gate, active, pending, child>>
    BY <1>2 DEF Finish
  <2>2. "idle" \in Phases BY DEF Phases
  <2>3. /\ worker'[w] = "idle" /\ \A v \in Workers \ {w} : worker'[v] = worker[v]
    BY <1>0, <2>1, <2>2, GoesTo
  <2>4. \A s \in At(w) : handler[s].used = snapshot BY <2>1 DEF IInv, Computed, At
  <2>5. receipts' \subseteq receipts \cup {<<snapshot, snapshot>>} BY <2>1, <2>4
  <2>6. receipts' \subseteq Nat \X Nat /\ ReceiptsTrue'
    BY <1>0, <2>5 DEF IInv, TypeOK, ReceiptsTrue
  <2>7. ASSUME NEW s \in Slots
        PROVE  /\ handler'[s] \in Handlers
               /\ handler'[s].live = handler[s].live /\ handler'[s].snap = handler[s].snap
               /\ handler'[s].at = IF handler[s].at = w THEN "answered" ELSE handler[s].at
               /\ handler'[s].used = handler[s].used
    <3>1. handler[s] \in Handlers BY <1>0 DEF TypeOK, Handlers
    <3>2. handler'[s] = IF handler[s].at = w THEN [handler[s] EXCEPT !.at = "answered"]
                        ELSE handler[s]
      BY <2>1
    <3>3. "answered" \in Places BY PlacesOf
    <3>4. CASE handler[s].at = w BY <3>1, <3>2, <3>3, <3>4 DEF Handlers
    <3>5. CASE handler[s].at # w BY <3>1, <3>2, <3>5
    <3> QED BY <3>4, <3>5
  <2>8. handler' \in [Slots -> Handlers]
    <3>1. handler' = [s \in Slots |-> handler'[s]] BY <2>1
    <3> QED BY <2>7, <3>1
  <2>9. ASSUME NEW s \in Slots PROVE Computed(s)'
    <3>1. Computed(s) BY DEF IInv
    <3>2. snapshot' = snapshot BY <2>1 DEF run
    <3>3. CASE handler[s].at = w BY <2>3, <2>7, <3>1, <3>2, <3>3, PlacesOf DEF Computed
    <3>4. CASE handler[s].at # w BY <2>3, <2>7, <3>1, <3>2, <3>4, PlacesOf DEF Computed
    <3> QED BY <3>3, <3>4
  <2>10. ASSUME NEW s \in Slots
         PROVE  /\ handler'[s].at \in Inside <=> handler[s].at \in Inside
                /\ \A v \in Workers \ {w} : handler[s].at = v => handler'[s].at = v
                /\ handler'[s].at = "ok" => handler[s].at = "ok"
    <3>1. CASE handler[s].at = w BY <2>7, <3>1, PlacesOf
    <3>2. CASE handler[s].at # w BY <2>7, <3>2
    <3> QED BY <3>1, <3>2
  <2> QED BY <2>1, <2>2, <2>6, <2>7, <2>8, <2>9, <2>10, WorkerStep
<1> QED BY <1>1, <1>2

-----------------------------------------------------------------------------
(* The theorems *)

LEMMA StutterKeeps == ASSUME IInv, UNCHANGED vars PROVE IInv'
<1> USE DEF vars, run, gate, child
<1>1. TypeOK' BY DEF IInv, TypeOK
<1>2. Gate' /\ Collects' BY DEF IInv, Gate, Collects
<1> QED BY <1>1, <1>2, Aside DEF IInv, Counts

LEMMA WorkKeeps == ASSUME IInv, NEW w \in Workers, Work(w) PROVE IInv'
BY TakeKeeps, AdmitKeeps, BeginPrimaryKeeps, BeginScoreKeeps, BeginOnReplicaKeeps, FinishKeeps,
   EndWorkerKeeps DEF Work

LEMMA HandleKeeps == ASSUME IInv, NEW s \in Slots, Handle(s) PROVE IInv'
BY EnterKeeps, DropKeeps, CountKeeps, AnsweredKeeps, BeginRpcKeeps, EndRpcKeeps, LeaveKeeps,
   ReceiveKeeps DEF Handle

LEMMA MainKeeps == ASSUME IInv, Main PROVE IInv'
BY SyncKeeps, OpenKeeps, BeginCloseKeeps, EndCloseKeeps, UpdateKeeps, EndKeeps, FailKeeps DEF Main

LEMMA StepInvariant == ASSUME IInv, [Next]_vars PROVE IInv'
BY MainKeeps, FailKeeps, WorkKeeps, HandleKeeps, SendKeeps, GiveUpKeeps, CollectorEndsKeeps,
   CollectorFailsKeeps, StutterKeeps DEF Next

LEMMA Inductive == Spec => []IInv
<1>1. IInv /\ [Next]_vars => IInv' BY StepInvariant
<1> QED BY InitEstablishes, <1>1, PTL DEF Spec

\* While the adapter is updated, hashed and sent to the replicas no request is inside the
\* engine, whatever clients have given up (parallel_collect.py:307-312): ModelUndisturbed.
THEOREM NeverDisturbed == Spec => []ModelUndisturbed
<1>1. ASSUME IInv, main \in {"prepare", "syncing", "open", "updating", "joining", "ended"}
      PROVE  /\ \A s \in Slots : handler[s].at \notin Inside
             /\ \A w \in Workers : worker[w] \in {"idle", "gone"}
  BY <1>1, Quiet, ClosedIsEmpty
<1>2. IInv => ModelUndisturbed BY <1>1 DEF ModelUndisturbed
<1> QED BY <1>2, Inductive, PTL

\* The snapshot a receipt names, read when the answer is there, is that of the weights
\* which computed it (parallel_collect.py:215, 233-262, 294-298): ReceiptsTrue.
THEOREM ReceiptsAreTrue == Spec => []ReceiptsTrue
<1>1. IInv => ReceiptsTrue BY DEF IInv
<1> QED BY <1>1, Inductive, PTL

\* An answer that is waited for was computed with the snapshot of its own batch
\* (formal_run.py:247-250, 282-283): OnPolicy.
THEOREM CollectsOnPolicy == Spec => []OnPolicy
<1>1. IInv => OnPolicy BY DEF IInv, Waits, OnPolicy
<1> QED BY <1>1, Inductive, PTL

-----------------------------------------------------------------------------
(* Scores go before generation *)

\* The scores on the primary model that pending_scores counts.
Counting == {"queued", "scorer", "answered"}
Pend == {s \in Slots : NeedsPrimary(s) /\ handler[s].at \in Counting}

\* A generation worker has no score, and only such scores are counted.
Sorted(s) ==
  /\ handler[s].at \in {"primary", "replica"} => handler[s].kind # "score"
  /\ handler[s].at = "count" => NeedsPrimary(s)

\* Once the primary worker is admitted no score is waiting, and none is counted until it
\* has the model.
JInv ==
  /\ pending = Cardinality(Pend)
  /\ worker["primary"] = "admitted" => pending = 0
  /\ \A s \in Slots : Sorted(s)

LEMMA InitScores == Init => JInv
<1> SUFFICES ASSUME Init PROVE JInv OBVIOUS
<1>1. \A s \in Slots : handler[s].at = "none" BY DEF Init, NoHandler
<1>2. Pend = {} BY <1>1 DEF Pend, Counting
<1>3. worker["primary"] = "idle" /\ pending = 0 BY DEF Init, Workers
<1>4. \A s \in Slots : Sorted(s) BY <1>1 DEF Sorted
<1> QED BY <1>2, <1>3, <1>4, FS_EmptySet DEF JInv

\* The request is counted if and only if it was.
SameCount(s) == (s \in Pend' <=> s \in Pend) /\ Sorted(s)'

LEMMA ScoresAside ==
  ASSUME JInv, UNCHANGED pending, \A s \in Slots : SameCount(s),
         worker'["primary"] = "admitted" => worker["primary"] = "admitted" \/ pending = 0
  PROVE  JInv'
<1>1. Pend' = Pend BY DEF SameCount, Pend
<1> QED BY <1>1 DEF JInv, SameCount

\* One handler changes, and nothing else that matters here.
LEMMA OneScore ==
  ASSUME TypeOK, JInv, NEW s \in Slots, NEW h \in Handlers, Becomes(s, h),
         UNCHANGED <<replicas, pending>>,
         worker'["primary"] = "admitted" => worker["primary"] = "admitted" \/ pending = 0,
         h.kind = "score" /\ h.at \in Counting /\ "scorer" \notin replicas <=> s \in Pend,
         h.at \in {"primary", "replica"} => h.kind # "score",
         h.at = "count" => h.kind = "score" /\ "scorer" \notin replicas
  PROVE  JInv'
<1>1. handler'[s] = h /\ \A q \in Slots \ {s} : handler'[q] = handler[q] BY Others
<1>2. SameCount(s) BY <1>1 DEF SameCount, Sorted, Pend, NeedsPrimary
<1>3. ASSUME NEW q \in Slots \ {s} PROVE SameCount(q)
  <2>1. handler'[q] = handler[q] /\ Sorted(q) BY <1>1 DEF JInv
  <2> QED BY <2>1 DEF SameCount, Sorted, Pend, NeedsPrimary
<1> QED BY <1>2, <1>3, ScoresAside

\* A handler that moves to a place where nothing is counted, from such a place.
LEMMA UncountedMoves ==
  ASSUME TypeOK, JInv, NEW s \in Slots, NEW h \in Handlers, Becomes(s, h),
         UNCHANGED <<replicas, pending, worker>>,
         handler[s].at \notin Counting, h.at \notin Counting \cup {"primary", "replica"},
         h.at = "count" => h.kind = "score" /\ "scorer" \notin replicas
  PROVE  JInv'
<1>1. s \notin Pend BY DEF Pend
<1> QED BY <1>1, OneScore

LEMMA PutUncounted ==
  ASSUME TypeOK, JInv, NEW s \in Slots, NEW at \in Places, Put(s, at),
         UNCHANGED <<replicas, pending, worker>>,
         handler[s].at \notin Counting, at \notin Counting \cup {"primary", "replica"},
         at = "count" => NeedsPrimary(s)
  PROVE  JInv'
<1> DEFINE h == [handler[s] EXCEPT !.at = at]
<1>1. h \in Handlers /\ h.at = at /\ h.kind = handler[s].kind BY HandlerAt
<1>2. Becomes(s, h) BY PutBecomes
<1>3. at = "count" => handler[s].kind = "score" /\ "scorer" \notin replicas
  BY DEF NeedsPrimary
<1> HIDE DEF h
<1> QED BY <1>1, <1>2, <1>3, UncountedMoves

\* The handler enters: what it does not count itself is not counted.
LEMMA EnterScores == ASSUME TypeOK, JInv, NEW s \in Slots, Enter(s) PROVE JInv'
<1>1. handler[s].at = "sent" /\ UNCHANGED <<replicas, pending, worker>> BY DEF Enter
<1>2. handler[s].at \notin Counting BY <1>1 DEF Counting
<1>3. CASE \E at \in {"error", "rpc wait", "count"} :
             Put(s, at) /\ (at = "count" => NeedsPrimary(s))
  <2>1. PICK at \in {"error", "rpc wait", "count"} :
          Put(s, at) /\ (at = "count" => NeedsPrimary(s))
    BY <1>3
  <2>2. at \in Places /\ at \notin Counting \cup {"primary", "replica"}
    BY PlacesOf DEF Counting
  <2> QED BY <1>1, <1>2, <2>1, <2>2, PutUncounted
<1>4. CASE Put(s, "queued") /\ ~NeedsPrimary(s)
  <2> DEFINE h == [handler[s] EXCEPT !.at = "queued"]
  <2>1. h \in Handlers /\ h.at = "queued" /\ h.kind = handler[s].kind BY HandlerAt, PlacesOf
  <2>2. Becomes(s, h) BY <1>4, PutBecomes
  <2> HIDE DEF h
  <2>3. s \notin Pend BY <1>4 DEF Pend
  <2>4. h.at \notin {"primary", "replica"} BY <2>1
  <2>5. ~(h.kind = "score" /\ "scorer" \notin replicas) BY <1>4, <2>1 DEF NeedsPrimary
  <2> QED BY <1>1, <2>1, <2>2, <2>3, <2>4, <2>5, OneScore
<1> QED BY <1>3, <1>4 DEF Enter

\* The count goes up and down with the set, and not while generation is admitted.
LEMMA CountScores == ASSUME TypeOK, JInv, NEW s \in Slots, Count(s) PROVE JInv'
<1> DEFINE h == [handler[s] EXCEPT !.at = "queued"]
<1>1. h \in Handlers /\ h.at = "queued" /\ h.kind = handler[s].kind BY HandlerAt, PlacesOf
<1>2. Becomes(s, h) BY PutBecomes DEF Count
<1> HIDE DEF h
<1>3. handler'[s] = h /\ \A q \in Slots \ {s} : handler'[q] = handler[q]
  BY <1>1, <1>2, Others
<1>4. UNCHANGED <<replicas, worker>> /\ pending' = pending + 1 /\ handler[s].at = "count"
      /\ worker["primary"] # "admitted" /\ NeedsPrimary(s)
  BY DEF Count, Counted, AdmissionFree, JInv, Sorted
<1>5. s \notin Pend BY <1>4 DEF Pend, Counting
<1>6. Pend' = Pend \cup {s}
  BY <1>1, <1>3, <1>4 DEF Pend, Counting, NeedsPrimary
<1>7. IsFiniteSet(Pend) BY EngineAssumption, FS_Subset DEF Pend
<1>8. Cardinality(Pend') = Cardinality(Pend) + 1 BY <1>5, <1>6, <1>7, FS_AddElement
<1>9. ASSUME NEW q \in Slots PROVE Sorted(q)'
  <2>1. Sorted(q) BY DEF JInv
  <2> QED BY <1>1, <1>3, <1>4, <2>1 DEF Sorted, NeedsPrimary
<1> QED BY <1>4, <1>8, <1>9 DEF JInv

LEMMA AnsweredScores == ASSUME TypeOK, JInv, NEW s \in Slots, Answered(s) PROVE JInv'
<1> DEFINE h == [handler[s] EXCEPT !.at = "leave"]
<1>1. h \in Handlers /\ h.at = "leave" /\ h.kind = handler[s].kind BY HandlerAt, PlacesOf
<1>2. Becomes(s, h) BY PutBecomes DEF Answered
<1> HIDE DEF h
<1>3. UNCHANGED <<replicas, worker>> /\ handler[s].at = "answered" BY DEF Answered
<1>4. CASE ~NeedsPrimary(s)
  <2>1. s \notin Pend BY <1>4 DEF Pend
  <2>2. UNCHANGED pending BY <1>4 DEF Answered
  <2>3. h.at \notin Counting \cup {"primary", "replica"} BY <1>1 DEF Counting
  <2> QED BY <1>1, <1>2, <1>3, <2>1, <2>2, <2>3, OneScore
<1>5. CASE NeedsPrimary(s)
  <2>1. handler'[s] = h /\ \A q \in Slots \ {s} : handler'[q] = handler[q]
    BY <1>1, <1>2, Others
  <2>2. s \in Pend BY <1>3, <1>5 DEF Pend, Counting
  <2>3. Pend' = Pend \ {s}
    BY <1>1, <1>3, <2>1 DEF Pend, Counting, NeedsPrimary
  <2>4. IsFiniteSet(Pend) BY EngineAssumption, FS_Subset DEF Pend
  <2>5. Cardinality(Pend') = Cardinality(Pend) - 1 BY <2>2, <2>3, <2>4, FS_RemoveElement
  <2>6. Cardinality(Pend) # 0 /\ Cardinality(Pend) \in Nat
    BY <2>2, <2>4, FS_EmptySet, FS_CardinalityType
  <2>7. pending' = pending - 1 /\ worker["primary"] # "admitted"
    BY <1>5, <2>6 DEF Answered, Uncounted, JInv, AdmissionFree
  <2>8. ASSUME NEW q \in Slots PROVE Sorted(q)'
    <3>1. Sorted(q) BY DEF JInv
    <3> QED BY <1>1, <1>3, <2>1, <3>1 DEF Sorted, NeedsPrimary
  <2> QED BY <1>3, <2>5, <2>7, <2>8 DEF JInv
<1> QED BY <1>4, <1>5

\* A request that moves on from a place where it is not counted.
LEMMA OtherHandlers ==
  ASSUME TypeOK, JInv, NEW s \in Slots, BeginRpc(s) \/ EndRpc(s) \/ Leave(s)
  PROVE  JInv'
<1>1. UNCHANGED <<replicas, pending, worker>> /\ handler[s].at \in {"rpc wait", "rpc", "leave"}
  BY DEF BeginRpc, EndRpc, Leave
<1>2. handler[s].at \notin Counting BY <1>1 DEF Counting
<1>3. CASE \E at \in {"leave", "error", "ok"} : Put(s, at)
  <2>1. PICK at \in {"leave", "error", "ok"} : Put(s, at) BY <1>3
  <2>2. at \in Places /\ at \notin Counting \cup {"primary", "replica", "count"}
    BY PlacesOf DEF Counting
  <2> QED BY <1>1, <1>2, <2>1, <2>2, PutUncounted
<1>4. CASE \E at \in {"rpc", "leave"}, used \in Nat :
             handler' = [handler EXCEPT ![s].at = at, ![s].used = used]
  <2>1. PICK at \in {"rpc", "leave"}, used \in Nat :
          handler' = [handler EXCEPT ![s].at = at, ![s].used = used]
    BY <1>4
  <2> DEFINE h == [handler[s] EXCEPT !.at = at, !.used = used]
  <2>2. h \in Handlers /\ h.at = at
    <3>1. handler[s] \in Handlers BY DEF TypeOK, Handlers
    <3>2. at \in Places BY PlacesOf
    <3> QED BY <3>1, <3>2 DEF Handlers
  <2>3. Becomes(s, h) BY <2>1 DEF Becomes
  <2> HIDE DEF h
  <2>4. h.at \notin Counting \cup {"primary", "replica", "count"} BY <2>2 DEF Counting
  <2> QED BY <1>1, <1>2, <2>2, <2>3, <2>4, UncountedMoves
<1>5. snapshot \in Nat /\ 0 \in Nat BY DEF TypeOK
<1>6. CASE BeginRpc(s) BY <1>4, <1>5, <1>6 DEF BeginRpc
<1>7. CASE EndRpc(s) BY <1>3, <1>4, <1>5, <1>7 DEF EndRpc
<1>8. CASE Leave(s) BY <1>3, <1>8 DEF Leave
<1> QED BY <1>6, <1>7, <1>8

LEMMA SendScores == ASSUME TypeOK, JInv, NEW s \in Slots, Send(s) PROVE JInv'
<1>1. PICK k \in Kinds :
        Becomes(s, [at |-> "sent", kind |-> k, live |-> TRUE, snap |-> weights, used |-> 0])
  BY DEF Send, Becomes
<1> DEFINE h == [at |-> "sent", kind |-> k, live |-> TRUE, snap |-> weights, used |-> 0]
<1>2. h \in Handlers /\ h.at = "sent" BY PlacesOf DEF Handlers, TypeOK
<1>3. Becomes(s, h) BY <1>1
<1> HIDE DEF h
<1>4. handler[s].at = "none" BY DEF Send, NoHandler
<1>5. handler[s].at \notin Counting /\ h.at \notin Counting \cup {"primary", "replica", "count"}
  BY <1>2, <1>4 DEF Counting
<1>6. UNCHANGED <<replicas, pending, worker>> BY DEF Send
<1> QED BY <1>2, <1>3, <1>5, <1>6, UncountedMoves

\* Steps of the collector and of the run: requests keep their place and kind, or are gone
\* from a place where they are not counted.
KeepsPlace(s) == handler'[s].at = handler[s].at /\ handler'[s].kind = handler[s].kind

LEMMA KeepsPlaces ==
  ASSUME JInv, UNCHANGED <<replicas, pending>>,
         \A s \in Slots : \/ KeepsPlace(s)
                          \/ handler[s].at \notin Counting /\ handler'[s] = NoHandler,
         worker'["primary"] = "admitted" => worker["primary"] = "admitted" \/ pending = 0
  PROVE  JInv'
<1>1. ASSUME NEW s \in Slots PROVE SameCount(s)
  <2>1. CASE KeepsPlace(s)
    <3>1. Sorted(s) BY DEF JInv
    <3> QED BY <2>1, <3>1 DEF KeepsPlace, SameCount, Sorted, Pend, NeedsPrimary
  <2>2. CASE handler[s].at \notin Counting /\ handler'[s] = NoHandler
    <3>1. handler'[s].at = "none" BY <2>2 DEF NoHandler
    <3> QED BY <2>2, <3>1 DEF SameCount, Sorted, Pend, Counting
  <2> QED BY <2>1, <2>2
<1> QED BY <1>1, ScoresAside

LEMMA AbandonedKeeps ==
  ASSUME TypeOK, NEW s \in Slots
  PROVE  Abandoned[s].at = handler[s].at /\ Abandoned[s].kind = handler[s].kind
<1>1. handler[s] \in Handlers BY DEF TypeOK, Handlers
<1> QED BY <1>1 DEF Abandoned, Handlers

LEMMA ClientScores ==
  ASSUME TypeOK, JInv, NEW s \in Slots, GiveUp(s) \/ Drop(s) \/ Receive(s)
  PROVE  JInv'
<1>0. handler \in [Slots -> Handlers] BY DEF TypeOK, Handlers
<1>1. UNCHANGED <<replicas, pending, worker>> BY DEF GiveUp, Drop, Receive
<1>2. CASE GiveUp(s)
  <2>1. ASSUME NEW q \in Slots PROVE KeepsPlace(q)
    BY <1>0, <1>2 DEF GiveUp, KeepsPlace, Handlers
  <2> QED BY <1>1, <2>1, KeepsPlaces
<1>3. CASE handler[s].at \notin Counting /\ Becomes(s, NoHandler)
  <2>1. ASSUME NEW q \in Slots PROVE KeepsPlace(q) \/ (q = s /\ handler'[q] = NoHandler)
    BY <1>0, <1>3 DEF Becomes, KeepsPlace
  <2> QED BY <1>1, <1>3, <2>1, KeepsPlaces
<1>4. CASE handler[s].at \notin Counting /\ handler' = [Abandoned EXCEPT ![s] = NoHandler]
  <2>1. Abandoned \in [Slots -> Handlers] BY AbandonedHas
  <2>2. ASSUME NEW q \in Slots PROVE KeepsPlace(q) \/ (q = s /\ handler'[q] = NoHandler)
    BY <1>4, <2>1, AbandonedKeeps DEF KeepsPlace
  <2> QED BY <1>1, <1>4, <2>2, KeepsPlaces
<1> QED BY <1>2, <1>3, <1>4 DEF Drop, Receive, Becomes, Counting

LEMMA RunScores ==
  ASSUME TypeOK, JInv, Main \/ Fail \/ CollectorEnds \/ CollectorFails \/ UNCHANGED vars
  PROVE  JInv'
<1>1. UNCHANGED <<replicas, pending, worker>>
  BY DEF Main, BeginSync, EndSync, Open, BeginClose, EndClose, Update, BeginLeave, EndLeave, End,
         Fail, CollectorEnds, CollectorFails, vars, gate, run, child
<1>2. handler' = handler \/ handler' = Abandoned
  BY DEF Main, BeginSync, EndSync, Open, BeginClose, EndClose, Update, BeginLeave, EndLeave, End,
         Fail, CollectorEnds, CollectorFails, vars, gate, run, child
<1>3. ASSUME NEW s \in Slots PROVE KeepsPlace(s) BY <1>2, AbandonedKeeps DEF KeepsPlace
<1> QED BY <1>1, <1>3, KeepsPlaces

\* Steps of the workers.  A worker of generation takes no score; whatever the scorer has or
\* has answered stays counted; and the primary worker is admitted only at a count of 0.
LEMMA TakeScores ==
  ASSUME TypeOK, JInv, NEW w \in Workers, NEW s \in Slots, Take(w, s)
  PROVE  JInv'
<1> DEFINE h == [handler[s] EXCEPT !.at = w]
<1>1. w \in Places /\ "gathering" \in Phases BY PlacesOf DEF Phases
<1>2. h \in Handlers /\ h.at = w /\ h.kind = handler[s].kind BY <1>1, HandlerAt
<1>3. Becomes(s, h) BY PutBecomes DEF Take
<1> HIDE DEF h
<1>4. UNCHANGED <<replicas, pending>> /\ handler[s].at = "queued" /\ Goto(w, "gathering")
      /\ ((w = "scorer") = (handler[s].kind = "score"))
  BY DEF Take
<1>5. worker'["primary"] = "admitted" => worker["primary"] = "admitted"
  BY <1>1, <1>4, GoesTo DEF Workers
<1>6. h.at \in Counting <=> w = "scorer" BY <1>2, PlacesOf DEF Counting
<1>7. h.kind = "score" /\ h.at \in Counting /\ "scorer" \notin replicas <=> s \in Pend
  BY <1>2, <1>4, <1>6 DEF Pend, NeedsPrimary, Counting
<1>8. (h.at \in {"primary", "replica"} => h.kind # "score") /\ h.at # "count"
  BY <1>2, <1>4, PlacesOf
<1> QED BY <1>2, <1>3, <1>4, <1>5, <1>7, <1>8, OneScore

LEMMA BeginScores ==
  ASSUME TypeOK, JInv, NEW w \in Workers, NEW version \in Nat, Begin(w, version)
  PROVE  JInv'
<1>1. "running" \in Phases /\ Goto(w, "running") /\ UNCHANGED <<replicas, pending>>
  BY DEF Phases, Begin
<1>2. worker'["primary"] = "admitted" => worker["primary"] = "admitted"
  BY <1>1, GoesTo DEF Workers
<1>3. ASSUME NEW s \in Slots PROVE KeepsPlace(s)
  <2>1. handler[s] \in Handlers BY DEF TypeOK, Handlers
  <2>2. handler'[s] = IF handler[s].at = w THEN [handler[s] EXCEPT !.used = version]
                      ELSE handler[s]
    BY DEF Begin, Use
  <2> QED BY <2>1, <2>2 DEF Handlers, KeepsPlace
<1> QED BY <1>1, <1>2, <1>3, KeepsPlaces

\* The requests of a worker are answered.
LEMMA AnswersScores ==
  ASSUME TypeOK, JInv, NEW w \in Workers, Goto(w, "idle"), UNCHANGED <<replicas, pending>>,
         \A s \in Slots : /\ handler'[s].kind = handler[s].kind
                          /\ handler'[s].at = IF handler[s].at = w THEN "answered"
                                              ELSE handler[s].at
  PROVE  JInv'
<1>1. worker'["primary"] = "admitted" => worker["primary"] = "admitted"
  BY GoesTo DEF Workers, Phases
<1>2. ASSUME NEW s \in Slots PROVE SameCount(s)
  <2>0. Sorted(s) BY DEF JInv
  <2>1. CASE handler[s].at # w
    BY <2>0, <2>1 DEF SameCount, Sorted, Pend, NeedsPrimary
  <2>2. CASE handler[s].at = w
    <3>1. handler'[s].at = "answered" BY <2>2
    <3>2. s \in Pend' <=> NeedsPrimary(s) BY <3>1 DEF Pend, Counting, NeedsPrimary
    <3>3. s \in Pend <=> NeedsPrimary(s)
      BY <2>0, <2>2, PlacesOf DEF Pend, Counting, NeedsPrimary, Sorted
    <3> QED BY <3>1, <3>2, <3>3 DEF SameCount, Sorted
  <2> QED BY <2>1, <2>2
<1> QED BY <1>1, <1>2, ScoresAside

LEMMA RefuseScores ==
  ASSUME TypeOK, JInv, NEW w \in Workers, Refuse(w) \/ Finish(w)
  PROVE  JInv'
<1>1. Goto(w, "idle") /\ UNCHANGED <<replicas, pending>> BY DEF Refuse, Finish
<1>2. ASSUME NEW s \in Slots
      PROVE  /\ handler'[s].kind = handler[s].kind
             /\ handler'[s].at = IF handler[s].at = w THEN "answered" ELSE handler[s].at
  <2>1. handler[s] \in Handlers BY DEF TypeOK, Handlers
  <2>2. \E used \in {0, handler[s].used} :
          handler'[s] = IF handler[s].at = w
                        THEN [handler[s] EXCEPT !.at = "answered", !.used = used]
                        ELSE handler[s]
    <3>1. [handler[s] EXCEPT !.at = "answered", !.used = handler[s].used]
            = [handler[s] EXCEPT !.at = "answered"]
      BY <2>1 DEF Handlers
    <3> QED BY <3>1 DEF Refuse, Finish
  <2> QED BY <2>1, <2>2 DEF Handlers
<1> QED BY <1>1, <1>2, AnswersScores

LEMMA WorkScores == ASSUME TypeOK, JInv, NEW w \in Workers, Work(w) PROVE JInv'
<1>1. CASE \E s \in Slots : Take(w, s) BY <1>1, TakeScores
<1>2. CASE Admit \/ EndWorker(w)
  <2>1. UNCHANGED <<replicas, pending, handler>> BY <1>2 DEF Admit, EndWorker
  <2>2. worker'["primary"] = "admitted" => worker["primary"] = "admitted" \/ pending = 0
    <3>1. CASE Admit BY <3>1 DEF Admit, NoScores
    <3>2. CASE EndWorker(w)
      <4>1. Goto(w, "gone") /\ "gone" \in Phases BY <3>2 DEF EndWorker, Goto, Phases
      <4> QED BY <4>1, GoesTo DEF Workers
    <3> QED BY <1>2, <3>1, <3>2
  <2>3. \A s \in Slots : KeepsPlace(s) BY <2>1 DEF KeepsPlace
  <2> QED BY <2>1, <2>2, <2>3, KeepsPlaces
<1>3. weights \in Nat /\ \A v \in Workers : synced[v] \in Nat BY DEF TypeOK
<1>4. CASE BeginPrimary
  <2>1. "primary" \in Workers BY DEF Workers
  <2> QED BY <1>3, <1>4, <2>1, BeginScores DEF BeginPrimary
<1>5. CASE BeginScore
  <2>1. "scorer" \in Workers BY DEF Workers
  <2> QED BY <1>3, <1>5, <2>1, BeginScores, RefuseScores DEF BeginScore
<1>6. CASE BeginOnReplica(w) BY <1>3, <1>6, BeginScores, RefuseScores DEF BeginOnReplica
<1>7. CASE Finish(w) BY <1>7, RefuseScores
<1> QED BY <1>1, <1>2, <1>4, <1>5, <1>6, <1>7 DEF Work

LEMMA HandleScores == ASSUME TypeOK, JInv, NEW s \in Slots, Handle(s) PROVE JInv'
BY EnterScores, CountScores, AnsweredScores, OtherHandlers, ClientScores DEF Handle

LEMMA StepScores == ASSUME TypeOK, JInv, [Next]_vars PROVE JInv'
BY RunScores, WorkScores, HandleScores, SendScores, ClientScores DEF Next

\* Only one step puts the primary worker to work, and then it was admitted.
LEMMA PrimaryBegins ==
  ASSUME TypeOK, Next, worker["primary"] # "running", worker'["primary"] = "running"
  PROVE  worker["primary"] = "admitted"
<1>1. "primary" \in Workers /\ "primary" \notin replicas BY DEF TypeOK, Workers
<1>2. ASSUME NEW w \in Workers, NEW at \in Phases, Goto(w, at)
      PROVE  w = "primary" /\ at = "running"
  BY <1>1, <1>2, GoesTo
<1>3. \A at \in {"idle", "gathering", "admitted", "gone"} : at \in Phases /\ at # "running"
  BY DEF Phases
<1>4. worker' # worker OBVIOUS
<1>5. ~Main /\ ~Fail /\ ~CollectorEnds /\ ~CollectorFails
  BY <1>4 DEF Main, BeginSync, EndSync, Open, BeginClose, EndClose, Update, BeginLeave, EndLeave,
              End, Fail, CollectorEnds, CollectorFails
<1>6. ASSUME NEW s \in Slots PROVE ~Handle(s) /\ ~Send(s) /\ ~GiveUp(s)
  BY <1>4 DEF Handle, Enter, Drop, Count, Answered, BeginRpc, EndRpc, Leave, Receive, Send, GiveUp
<1>7. PICK w \in Workers : Work(w) BY <1>5, <1>6 DEF Next
<1>8. ~Refuse(w) /\ ~Finish(w) BY <1>2, <1>3 DEF Refuse, Finish
<1>9. ~EndWorker(w) /\ \A s \in Slots : ~Take(w, s)
  BY <1>2, <1>3 DEF EndWorker, Take, Goto
<1>10. ~Admit BY <1>1, <1>2, <1>3 DEF Admit
<1>11. ~BeginScore
  <2>1. "scorer" \in Workers /\ "scorer" # "primary" BY DEF Workers
  <2>2. "running" \in Phases BY DEF Phases
  <2> QED BY <1>2, <1>3, <2>1, <2>2 DEF BeginScore, Begin, Refuse
<1>12. ~BeginOnReplica(w)
  <2>1. "running" \in Phases BY DEF Phases
  <2> QED BY <1>1, <1>2, <1>3, <1>8, <2>1 DEF BeginOnReplica, OnReplica, Begin
<1> QED BY <1>7, <1>8, <1>9, <1>10, <1>11, <1>12 DEF Work, BeginPrimary

\* No generation begins on the primary model while a score that was admitted before it
\* waits for that model (parallel_collect.py:221-222): ScoresFirst.
THEOREM ScoresGoFirst == Spec => ScoresFirst
<1>1. TypeOK /\ JInv /\ [Next]_vars => [ScoresDrained]_vars
  <2> SUFFICES ASSUME TypeOK, JInv, Next, worker["primary"] # "running",
                      worker'["primary"] = "running"
               PROVE  \A s \in At("queued") \cup At("scorer") : ~NeedsPrimary(s)
    BY DEF ScoresDrained
  <2>1. pending = 0 BY PrimaryBegins DEF JInv
  <2>2. IsFiniteSet(Pend) BY EngineAssumption, FS_Subset DEF Pend
  <2>3. Pend = {} BY <2>1, <2>2, FS_EmptySet DEF JInv
  <2> QED BY <2>3 DEF Pend, Counting, At
<1>2. TypeOK /\ JInv /\ [Next]_vars => JInv' BY StepScores
<1>3. IInv => TypeOK BY DEF IInv
<1> QED BY <1>1, <1>2, <1>3, InitScores, Inductive, PTL DEF Spec, ScoresFirst
=============================================================================
