------------------------- MODULE OfflineQueue_proofs -------------------------
(***************************************************************************)
(* Nothing typed on the phone is lost: an add leaves the queue only after  *)
(* the server recorded it or answered with an error of its own.            *)
(*                                                                         *)
(* The store takes the front of the queue off when an answer arrives, so   *)
(* the claim is about what an answer means: the answer in hand is for the  *)
(* operation in front, and "ok" for an add means its client key is in the  *)
(* record or has just been put there.                                      *)
(*                                                                         *)
(* Retries count once: a client key is on a list once, because an add looks *)
(* for its key on that list before it writes.                              *)
(*                                                                         *)
(* Follow-ups find their line: an identifier the phone knows is a line's   *)
(* own, or the add it came from is ahead of it in the queue, or that add was *)
(* answered and the running sync's map leads to its line.                  *)
(***************************************************************************)
EXTENDS OfflineQueue, FiniteSetTheorems, TLAPS

(* a queue is a sequence, of whatever *)
IsQueue == \E S : pending \in Seq(S)

AddsHaveKeys ==
    \A j \in 1..Len(pending) : pending[j].kind = "add" => pending[j].id \in Keys

TakenCounts == taken \in [Keys -> Nat]

(* a row with a client key belongs to an add that took effect *)
RowsWereTaken == \A s \in sources : s.key \in Keys => taken[s.key] > 0

(* an answer in hand is for the operation in front *)
AnswersTheFront ==
    sync.phase = "answered" =>
        /\ pending # <<>>
        /\ Head(pending).kind = "add" =>
             taken[Head(pending).id] > 0 \/ sync.answer.result = "error"

AsksTheFront == sync.phase = "asking" => pending # <<>>

MadeCounted == made \in 0..MaxOps

IInv ==
    /\ MadeCounted
    /\ IsQueue
    /\ AddsHaveKeys
    /\ TakenCounts
    /\ RowsWereTaken
    /\ AsksTheFront
    /\ AnswersTheFront

-----------------------------------------------------------------------------
(* What appending and taking off the front do to a queue. *)
LEMMA Appending ==
    ASSUME NEW S, NEW q \in Seq(S), NEW e
    PROVE  /\ Append(q, e) \in Seq(S \cup {e})
           /\ Append(q, e) # <<>>
           /\ Len(Append(q, e)) = Len(q) + 1
           /\ \A j \in 1..Len(q) : Append(q, e)[j] = q[j]
           /\ Append(q, e)[Len(q) + 1] = e
           /\ q # <<>> => Head(Append(q, e)) = Head(q)
<1>1. q \in Seq(S \cup {e})
  OBVIOUS
<1> QED
  BY <1>1

LEMMA TakingOff ==
    ASSUME NEW S, NEW q \in Seq(S), q # <<>>
    PROVE  /\ Tail(q) \in Seq(S)
           /\ Len(Tail(q)) = Len(q) - 1
           /\ \A j \in 1..Len(Tail(q)) : Tail(q)[j] = q[j + 1]
           /\ Head(q) = q[1]
           /\ Len(q) \in Nat \ {0}
  OBVIOUS

(* Whatever is in a queue and not in its tail is its front. *)
LEMMA OnlyTheFrontLeaves ==
    ASSUME NEW S, NEW q \in Seq(S), q # <<>>,
           NEW op \in ToSet(q), op \notin ToSet(Tail(q))
    PROVE  op = Head(q)
<1>1. PICK j \in 1..Len(q) : q[j] = op
  BY DEF ToSet
<1>2. CASE j = 1
  BY <1>1, <1>2, TakingOff
<1>3. CASE j # 1
  <2>1. j - 1 \in 1..Len(Tail(q)) /\ Tail(q)[j - 1] = q[j]
    BY <1>3, TakingOff
  <2>2. DOMAIN Tail(q) = 1..Len(Tail(q))
    BY TakingOff
  <2>3. Tail(q)[j - 1] \in ToSet(Tail(q))
    BY <2>1, <2>2 DEF ToSet
  <2> QED
    BY <1>1, <2>1, <2>3
<1> QED
  BY <1>2, <1>3

LEMMA Initially == Init => IInv
<1> SUFFICES ASSUME Init PROVE IInv
  OBVIOUS
<1>1. pending \in Seq({}) /\ Len(pending) = 0
  BY DEF Init
<1>2. sync.phase = "idle"
  BY DEF Init, Idle
<1> QED
  BY <1>1, <1>2, BoundsAssumption DEF Init, MadeCounted, IInv, IsQueue, AddsHaveKeys, TakenCounts, RowsWereTaken,
                    AsksTheFront, AnswersTheFront

(* An add handled by the server leaves the record right, never counts back,  *)
(* and has its key in it.                                                    *)
LEMMA AddRecords ==
    ASSUME IInv, NEW n, NEW k \in Keys \cup {NoKey}, NEW i, add_adhoc_item(n, k, i)
    PROVE  /\ TakenCounts' /\ RowsWereTaken'
           /\ \A x \in Keys : taken'[x] >= taken[x]
           /\ k \in Keys => taken'[k] > 0
           /\ k = NoKey => taken' = taken
<1> USE DEF TakenCounts, RowsWereTaken
<1>0. NoKey \notin Keys
  BY BoundsAssumption DEF NoKey, Keys
<1>1. CASE i \in Replayed(k) /\ UNCHANGED <<lines, sources, minted, taken>>
  <2>1. k \in Keys /\ \E s \in sources : s.key = k
    BY <1>1, <1>0 DEF Replayed
  <2> QED
    BY <1>1, <1>0, <2>1 DEF IInv
<1>2. CASE /\ taken' = Count(k)
           /\ sources' = sources \cup
                {[line |-> i, key |-> k, row |-> IF k = NoKey THEN 0 ELSE taken'[k]]}
  <2>1. CASE k = NoKey
    BY <1>2, <1>0, <2>1 DEF Count, IInv
  <2>2. CASE k \in Keys
    <3>1. taken' = [taken EXCEPT ![k] = @ + 1]
      BY <1>2, <1>0, <2>2 DEF Count
    <3>2. TakenCounts' /\ taken'[k] = taken[k] + 1 /\ taken[k] \in Nat
      BY <2>2, <3>1 DEF IInv
    <3>3. \A x \in Keys : taken[x] \in Nat /\ taken'[x] >= taken[x]
      BY <2>2, <3>1, <3>2 DEF IInv
    <3>4. ASSUME NEW s \in sources', s.key \in Keys PROVE taken'[s.key] > 0
      <4>1. CASE s \in sources
        BY <4>1, <3>3, <3>2, <3>4 DEF IInv
      <4>2. CASE s \notin sources
        BY <4>2, <3>2, <1>2
      <4> QED
        BY <4>1, <4>2
    <3> QED
      BY <3>2, <3>3, <3>4, <2>2, <1>0
  <2> QED
    BY <2>1, <2>2
<1> QED
  BY <1>1, <1>2 DEF add_adhoc_item

(* Steps that leave the queue, the sync and the record of adds alone, and    *)
(* add no row, keep the invariant.                                           *)
LEMMA QuietStep ==
    ASSUME IInv, UNCHANGED <<pending, sync, taken, made>>, sources' \subseteq sources
    PROVE  IInv'
BY DEF IInv, MadeCounted, IsQueue, AddsHaveKeys, TakenCounts, RowsWereTaken,
       AsksTheFront, AnswersTheFront

(* Steps that leave the server alone and start or stop a sync of a queue.    *)
LEMMA SyncStep ==
    ASSUME IInv, UNCHANGED <<sources, taken, made>>,
           \/ pending' = pending
           \/ pending # <<>> /\ pending' = Tail(pending),
           sync'.phase # "answered",
           sync'.phase = "asking" => pending' # <<>>
    PROVE  IInv'
<1>1. PICK S : pending \in Seq(S)
  BY DEF IInv, IsQueue
<1>2. IsQueue' /\ AddsHaveKeys'
  <2>1. CASE pending' = pending
    BY <2>1 DEF IInv, IsQueue, AddsHaveKeys
  <2>2. CASE pending # <<>> /\ pending' = Tail(pending)
    <3>1. /\ pending' \in Seq(S)
          /\ Len(pending') = Len(pending) - 1
          /\ \A j \in 1..Len(pending') : pending'[j] = pending[j + 1]
          /\ Len(pending) \in Nat
      BY <1>1, <2>2, TakingOff
    <3>2. \A j \in 1..Len(pending') : j + 1 \in 1..Len(pending)
      BY <3>1
    <3> QED
      BY <3>1, <3>2 DEF IInv, IsQueue, AddsHaveKeys
  <2> QED
    BY <2>1, <2>2
<1> QED
  BY <1>2 DEF IInv, MadeCounted, TakenCounts, RowsWereTaken, AsksTheFront, AnswersTheFront

LEMMA EnqueueStep ==
    ASSUME IInv, NEW op, enqueue(op), op.kind = "add" => op.id = made + 1
    PROVE  IInv'
<1>1. PICK S : pending \in Seq(S)
  BY DEF IInv, IsQueue
<1>2. /\ pending' = Append(pending, op) /\ made' = made + 1 /\ made < MaxOps
      /\ UNCHANGED <<sources, taken, sync>>
  BY DEF enqueue, server
<1>3. made' \in 0..MaxOps /\ made' \in Keys
  BY <1>2, BoundsAssumption DEF IInv, MadeCounted, Keys
<1>4. /\ pending' \in Seq(S \cup {op})
      /\ Len(pending') = Len(pending) + 1 /\ Len(pending) \in Nat
      /\ pending' # <<>>
      /\ \A j \in 1..Len(pending) : pending'[j] = pending[j]
      /\ pending'[Len(pending) + 1] = op
      /\ pending # <<>> => Head(pending') = Head(pending)
  BY <1>1, <1>2, Appending
<1>5. AddsHaveKeys'
  <2> SUFFICES ASSUME NEW j \in 1..Len(pending'), pending'[j].kind = "add"
               PROVE  pending'[j].id \in Keys
    BY DEF AddsHaveKeys
  <2>1. CASE j \in 1..Len(pending)
    BY <2>1, <1>4 DEF IInv, AddsHaveKeys
  <2>2. CASE j = Len(pending) + 1
    BY <2>2, <1>2, <1>3, <1>4
  <2> QED
    BY <2>1, <2>2, <1>4
<1>6. IsQueue' /\ MadeCounted'
  BY <1>3, <1>4 DEF IsQueue, MadeCounted
<1> QED
  BY <1>2, <1>4, <1>5, <1>6
     DEF IInv, TakenCounts, RowsWereTaken, AsksTheFront, AnswersTheFront

(* An answer from the server: for the operation in front. *)
LEMMA AnswerStep ==
    ASSUME IInv, UNCHANGED <<pending, made>>,
           sync.phase = "asking",
           TakenCounts', RowsWereTaken',
           Head(pending).kind = "add" =>
             taken'[Head(pending).id] > 0 \/ sync'.answer.result = "error",
           sync'.phase = "answered"
    PROVE  IInv'
BY DEF IInv, MadeCounted, IsQueue, AddsHaveKeys, AsksTheFront, AnswersTheFront

LEMMA Stepwise == IInv /\ [Next]_vars => IInv'
<1> SUFFICES ASSUME IInv, [Next]_vars PROVE IInv'
  OBVIOUS
<1> USE DEF Idle
<1>1. CASE User
  <2>1. ASSUME NEW n \in Names, addAdhoc(n) PROVE IInv'
    BY <2>1, EnqueueStep DEF addAdhoc
  <2>2. ASSUME NEW item \in projectedItems, deleteAdhoc(item) PROVE IInv'
    BY <2>2, EnqueueStep DEF deleteAdhoc
  <2>3. ASSUME NEW item \in projectedItems, NEW f \in Flags, toggle(item, f) PROVE IInv'
    BY <2>3, EnqueueStep DEF toggle
  <2> QED
    BY <1>1, <2>1, <2>2, <2>3 DEF User
<1>2. CASE DeliverAdd
  <2>1. PICK i \in LineIds : /\ add_adhoc_item(Head(pending).name, Head(pending).id, i)
                             /\ Answer("ok", i)
    BY <1>2 DEF DeliverAdd
  <2>2. /\ sync.phase = "asking" /\ Head(pending).kind = "add"
        /\ UNCHANGED <<pending, made>>
    BY <1>2 DEF DeliverAdd, Asked, HandlerFrame
  <2>3. Head(pending).id \in Keys
    <3>1. PICK S : pending \in Seq(S)
      BY DEF IInv, IsQueue
    <3>2. pending # <<>>
      BY <2>2 DEF IInv, AsksTheFront
    <3>3. Head(pending) = pending[1] /\ 1 \in 1..Len(pending)
      BY <3>1, <3>2, TakingOff
    <3> QED
      BY <2>2, <3>3 DEF IInv, AddsHaveKeys
  <2>4. TakenCounts' /\ RowsWereTaken' /\ taken'[Head(pending).id] > 0
    BY <2>1, <2>3, AddRecords
  <2>5. sync'.phase = "answered"
    BY <2>1 DEF Answer
  <2> QED
    BY <2>2, <2>4, <2>5, AnswerStep
<1>3. CASE DeliverSet \/ DeliverDelete
  <2>1. /\ sync.phase = "asking" /\ Head(pending).kind # "add"
        /\ UNCHANGED <<pending, made, taken>>
        /\ sources' \subseteq sources
    BY <1>3 DEF DeliverSet, DeliverDelete, Asked, HandlerFrame, Without
  <2>2. sync'.phase = "answered"
    BY <1>3 DEF DeliverSet, DeliverDelete, Answer
  <2>3. TakenCounts' /\ RowsWereTaken'
    BY <2>1 DEF IInv, TakenCounts, RowsWereTaken
  <2> QED
    BY <2>1, <2>2, <2>3, AnswerStep
<1>4. CASE DeliverError
  <2>1. /\ sync.phase = "asking" /\ sync'.phase = "answered"
        /\ sync'.answer.result = "error"
        /\ UNCHANGED <<pending, made, taken, sources>>
    BY <1>4 DEF DeliverError, Answer, server
  <2>2. TakenCounts' /\ RowsWereTaken'
    BY <2>1 DEF IInv, TakenCounts, RowsWereTaken
  <2> QED
    BY <2>1, <2>2, AnswerStep
<1>5. CASE DeliverFetch
  BY <1>5, SyncStep DEF DeliverFetch, HandlerFrame, server
<1>6. CASE RunTask
  <2>1. CASE sync = Idle
    BY <1>6, <2>1, SyncStep DEF RunTask, Continue, server
  <2>2. CASE sync # Idle
    BY <1>6, <2>2, QuietStep DEF RunTask, server
  <2> QED
    BY <2>1, <2>2
<1>7. CASE Refresh
  BY <1>7, SyncStep DEF Refresh, Continue, server
<1>8. CASE Receive
  BY <1>8, SyncStep DEF Receive, Continue, server, IInv, AnswersTheFront
<1>9. CASE ReceiveList \/ Lose \/ Restart
  BY <1>9, SyncStep DEF ReceiveList, Lose, Restart, server
<1>10. CASE Others
  <2>1. ASSUME NEW n \in Names, OthersAdd(n) PROVE IInv'
    <3>1. UNCHANGED <<pending, sync, made>>
      BY <2>1 DEF OthersAdd, OthersFrame, phone
    <3>2. TakenCounts' /\ RowsWereTaken' /\ taken' = taken
      BY <2>1, AddRecords DEF OthersAdd
    <3> QED
      BY <3>1, <3>2 DEF IInv, MadeCounted, IsQueue, AddsHaveKeys, AsksTheFront, AnswersTheFront
  <2>2. ASSUME NEW n \in Names, AddMeal(n) PROVE IInv'
    BY <2>2, QuietStep DEF AddMeal, OthersFrame, phone
  <2>3. ASSUME NEW i \in LineIds, OthersDelete(i) \/ RemoveMeal(i) PROVE IInv'
    BY <2>3, QuietStep DEF OthersDelete, RemoveMeal, Without, OthersFrame, phone
  <2>4. ASSUME NEW i \in LineIds, NEW f \in Flags, OthersSet(i, f) PROVE IInv'
    BY <2>4, QuietStep DEF OthersSet, OthersFrame, phone
  <2>5. CASE Archive
    BY <2>5, QuietStep DEF Archive, OthersFrame, phone
  <2> QED
    BY <1>10, <2>1, <2>2, <2>3, <2>4, <2>5 DEF Others
<1>11. CASE UNCHANGED vars
  BY <1>11, QuietStep DEF vars, phone, server
<1> QED
  BY <1>1, <1>2, <1>3, <1>4, <1>5, <1>6, <1>7, <1>8, <1>9, <1>10, <1>11
     DEF Next, Deliver, Sync

(* Only an answer takes something off the queue. *)
LEMMA OnlyReceiveTakes ==
    ASSUME IInv, [Next]_vars,
           NEW op \in ToSet(pending), op \notin ToSet(pending')
    PROVE  Receive
<1>1. PICK S : pending \in Seq(S)
  BY DEF IInv, IsQueue
<1>2. pending' # pending
  OBVIOUS
<1>3. ASSUME NEW e, enqueue(e) PROVE FALSE
  <2>1. /\ pending' = Append(pending, e)
        /\ Len(pending') = Len(pending) + 1
        /\ \A j \in 1..Len(pending) : pending'[j] = pending[j]
        /\ pending' \in Seq(S \cup {e})
        /\ Len(pending) \in Nat
    BY <1>1, <1>3, Appending DEF enqueue
  <2>2. PICK j \in 1..Len(pending) : pending[j] = op
    BY <1>1 DEF ToSet
  <2>3. j \in DOMAIN pending' /\ pending'[j] = op
    BY <2>1, <2>2
  <2> QED
    BY <2>3 DEF ToSet
<1>4. ~User
  BY <1>3 DEF User, addAdhoc, toggle, deleteAdhoc
<1>5. ~Others
  BY <1>2 DEF Others, OthersAdd, OthersSet, OthersDelete, AddMeal, RemoveMeal, Archive,
              OthersFrame, phone
<1> QED
  BY <1>2, <1>4, <1>5 DEF Next, Deliver, Sync, DeliverAdd, DeliverSet, DeliverDelete,
       DeliverError, DeliverFetch, HandlerFrame, RunTask, Refresh, ReceiveList, Lose,
       Restart, vars, phone

-----------------------------------------------------------------------------
(* Every reachable state satisfies the invariant. *)
LEMMA Invariance == Spec => []IInv
BY Initially, Stepwise, PTL DEF Spec

(* The theorem: an add leaves the queue of ShoppingListStore only once the   *)
(* server has recorded it, or refused it with an error, whatever requests    *)
(* and answers are lost, whenever the app is restarted, and whatever others  *)
(* do to the list meanwhile.                                                 *)
THEOREM NothingTypedIsLost == Spec => AddsReachTheServer
<1> DEFINE Leaves(op) ==
      op.kind = "add" /\ op \notin ToSet(pending') =>
        \/ taken[op.id] > 0
        \/ sync.phase = "answered" /\ sync.answer.result = "error"
<1>1. IInv /\ [Next]_vars => [\A op \in ToSet(pending) : Leaves(op)]_vars
  <2> SUFFICES ASSUME IInv, [Next]_vars,
                      NEW op \in ToSet(pending), op.kind = "add", op \notin ToSet(pending')
               PROVE  \/ taken[op.id] > 0
                      \/ sync.phase = "answered" /\ sync.answer.result = "error"
    OBVIOUS
  <2>1. Receive
    BY OnlyReceiveTakes
  <2>2. PICK S : pending \in Seq(S)
    BY DEF IInv, IsQueue
  <2>3. sync.phase = "answered" /\ pending # <<>> /\ pending' = Tail(pending)
    BY <2>1 DEF Receive, IInv, AnswersTheFront
  <2>4. op = Head(pending)
    BY <2>2, <2>3, OnlyTheFrontLeaves
  <2> QED
    BY <2>3, <2>4 DEF IInv, AnswersTheFront
<1> QED
  BY <1>1, Invariance, PTL DEF Spec, AddsReachTheServer

-----------------------------------------------------------------------------
(* A retried add counts once on a list: the key is looked up among the live  *)
(* list's rows before one is added, and lines neither change lists nor share *)
(* ids: an id the server makes is above all there are.                       *)
LineOf(x) == [list |-> x.list, name |-> x.name, on |-> x.on]

LinesInv ==
    /\ minted \in Nat
    /\ lines = [j \in DOMAIN lines |-> lines[j]]
    /\ DOMAIN lines \subseteq 1..(MaxOps + minted)
    /\ \A j \in DOMAIN lines : lines[j] = LineOf(lines[j])
    /\ \A s \in sources : s.line \in DOMAIN lines
    /\ CountedOnce

(* Lines stay on their lists: no add can be counted twice by other means. *)
LEMMA LinesStay ==
    ASSUME LinesInv, minted' = minted,
           lines' = [j \in DOMAIN lines' |-> lines'[j]], DOMAIN lines' \subseteq DOMAIN lines,
           \A j \in DOMAIN lines' : lines'[j] = LineOf(lines'[j]) /\ lines'[j].list = lines[j].list,
           sources' \subseteq sources, \A s \in sources' : s.line \in DOMAIN lines'
    PROVE  LinesInv'
  BY DEF LinesInv, CountedOnce, LineOf

LEMMA LinesUnchanged ==
    ASSUME LinesInv, UNCHANGED <<lines, sources, minted>>
    PROVE  LinesInv'
  BY DEF LinesInv, CountedOnce, LineOf

(* Flags of a line change. *)
LEMMA FlagsChange ==
    ASSUME LinesInv, NEW i \in DOMAIN lines, NEW on, lines' = [lines EXCEPT ![i].on = on]
    PROVE  /\ lines' = [j \in DOMAIN lines |-> lines'[j]] /\ DOMAIN lines' = DOMAIN lines
           /\ \A j \in DOMAIN lines : lines'[j] = LineOf(lines'[j]) /\ lines'[j].list = lines[j].list
<1>1. lines' = [j \in DOMAIN lines |-> IF j = i THEN [lines[i] EXCEPT !.on = on] ELSE lines[j]]
  BY DEF LinesInv
<1>2. PICK x : x = lines[i]
  OBVIOUS
<1>3. x = [list |-> x.list, name |-> x.name, on |-> x.on]
  BY <1>2 DEF LinesInv, LineOf
<1>4. PICK y : y = [x EXCEPT !.on = on]
  OBVIOUS
<1>5. y = [list |-> x.list, name |-> x.name, on |-> on]
  BY <1>3, <1>4
<1>6. y = LineOf(y) /\ y.list = x.list
  BY <1>5 DEF LineOf
<1>7. lines'[i] = y /\ \A j \in DOMAIN lines \ {i} : lines'[j] = lines[j]
  BY <1>1, <1>2, <1>4
<1> QED
  BY <1>1, <1>2, <1>6, <1>7 DEF LinesInv

LEMMA SetFlagKeeps ==
    ASSUME LinesInv, NEW i \in DOMAIN lines, NEW f, NEW value, SetFlag(i, f, value),
           UNCHANGED <<sources, minted>>
    PROVE  LinesInv'
<1>1. PICK on : lines' = [lines EXCEPT ![i].on = on]
  BY DEF SetFlag
<1> QED
  BY <1>1, FlagsChange, LinesStay DEF LinesInv

LEMMA WithoutKeeps ==
    ASSUME LinesInv, NEW i, Without(i), minted' = minted
    PROVE  LinesInv'
  BY LinesStay DEF Without, LinesInv

(* The line an add or a meal goes to is there, on the live list. *)
LEMMA EnsureLineShape ==
    ASSUME LinesInv, NEW n, NEW k \in Keys \cup {NoKey}, NEW i, EnsureLine(n, k, i)
    PROVE  /\ minted' \in Nat
           /\ lines' = [j \in DOMAIN lines' |-> lines'[j]]
           /\ DOMAIN lines' \subseteq 1..(MaxOps + minted')
           /\ \A j \in DOMAIN lines' : lines'[j] = LineOf(lines'[j])
           /\ \A j \in DOMAIN lines : j \in DOMAIN lines' /\ lines'[j].list = lines[j].list
           /\ i \in DOMAIN lines' /\ lines'[i].list = live
<1>1. CASE i \in At(n) /\ lines' = Surface(i) /\ minted' = minted
  <2>1. i \in DOMAIN lines /\ lines[i].list = live
    BY <1>1 DEF At, OnLive
  <2>2. PICK on : lines' = [lines EXCEPT ![i].on = on]
    BY <1>1 DEF Surface
  <2> QED
    BY ZenonT(30), <1>1, <2>1, <2>2, FlagsChange DEF LinesInv
<1>2. ASSUME i \notin DOMAIN lines, i \in 1..(MaxOps + minted'), minted' \in Nat, minted' >= minted,
             lines' = Insert(i, n)
      PROVE  /\ lines' = [j \in DOMAIN lines' |-> lines'[j]]
             /\ DOMAIN lines' \subseteq 1..(MaxOps + minted')
             /\ \A j \in DOMAIN lines' : lines'[j] = LineOf(lines'[j])
             /\ \A j \in DOMAIN lines : j \in DOMAIN lines' /\ lines'[j].list = lines[j].list
             /\ i \in DOMAIN lines' /\ lines'[i].list = live
  <2>1. DOMAIN lines' = DOMAIN lines \cup {i} /\ lines' = [j \in DOMAIN lines' |-> lines'[j]]
    BY <1>2 DEF Insert
  <2>2. lines'[i] = [list |-> live, name |-> n, on |-> {}] /\ \A j \in DOMAIN lines : lines'[j] = lines[j]
    BY <1>2 DEF Insert
  <2>3. 1..(MaxOps + minted) \subseteq 1..(MaxOps + minted')
    BY <1>2, BoundsAssumption DEF LinesInv
  <2> QED
    BY <1>2, <2>1, <2>2, <2>3 DEF LinesInv, LineOf
<1>3. CASE k # NoKey /\ k \notin DOMAIN lines /\ i = k /\ lines' = Insert(i, n) /\ minted' = minted
  <2>1. i \in 1..(MaxOps + minted')
    BY <1>3, BoundsAssumption DEF Keys, LinesInv
  <2> QED
    BY <1>2, <1>3, <2>1 DEF LinesInv
<1>4. CASE i = MaxOps + minted + 1 /\ lines' = Insert(i, n) /\ minted' = minted + 1
  <2>1. i \in 1..(MaxOps + minted') /\ i \notin 1..(MaxOps + minted) /\ minted' \in Nat /\ minted' >= minted
    BY <1>4, BoundsAssumption DEF LinesInv
  <2>2. i \notin DOMAIN lines
    BY <2>1 DEF LinesInv
  <2> QED
    BY <1>2, <1>4, <2>1, <2>2
<1> QED
  BY <1>1, <1>3, <1>4 DEF EnsureLine

LEMMA AddItemKeeps ==
    ASSUME LinesInv, NEW n, NEW k \in Keys \cup {NoKey}, NEW i, add_adhoc_item(n, k, i)
    PROVE  LinesInv'
<1>1. CASE UNCHANGED <<lines, sources, minted, taken>>
  BY <1>1, LinesUnchanged
<1>2. CASE Replayed(k) = {} /\ EnsureLine(n, k, i)
           /\ \E row : sources' = sources \cup {[line |-> i, key |-> k, row |-> row]}
  <2>1. PICK row : sources' = sources \cup {[line |-> i, key |-> k, row |-> row]}
    BY <1>2
  <2>2. PICK new : new = [line |-> i, key |-> k, row |-> row]
    OBVIOUS
  <2>3. /\ minted' \in Nat
        /\ lines' = [j \in DOMAIN lines' |-> lines'[j]]
        /\ DOMAIN lines' \subseteq 1..(MaxOps + minted')
        /\ \A j \in DOMAIN lines' : lines'[j] = LineOf(lines'[j])
        /\ \A j \in DOMAIN lines : j \in DOMAIN lines' /\ lines'[j].list = lines[j].list
        /\ i \in DOMAIN lines' /\ lines'[i].list = live
    BY <1>2, EnsureLineShape
  <2>4. \A s \in sources' : s.line \in DOMAIN lines'
    BY <2>1, <2>3 DEF LinesInv
  <2>5. \A s \in sources : s.key = k /\ k # NoKey => lines'[s.line].list # live
    BY <1>2, <2>3 DEF Replayed, OnLive, LinesInv
  <2>6. CountedOnce'
    <3> SUFFICES ASSUME NEW s \in sources', NEW t \in sources', s.key = t.key, s.key # NoKey,
                        lines'[s.line].list = lines'[t.line].list
                 PROVE  s = t
      BY DEF CountedOnce
    <3>1. CASE s \in sources /\ t \in sources
      BY <2>3, <3>1 DEF LinesInv, CountedOnce
    <3>2. new.key = k /\ new.line = i /\ \A x \in sources' : x \in sources \/ x = new
      BY <2>1, <2>2
    <3> QED
      BY <2>3, <2>5, <3>1, <3>2
  <2> QED
    BY <2>3, <2>4, <2>6 DEF LinesInv, LineOf
<1> QED
  BY <1>1, <1>2 DEF add_adhoc_item

LEMMA LinesStep == IInv /\ LinesInv /\ [Next]_vars => LinesInv'
<1> SUFFICES ASSUME IInv, LinesInv, [Next]_vars PROVE LinesInv'
  OBVIOUS
<1>1. CASE UNCHANGED <<lines, sources, minted>>
  BY <1>1, LinesUnchanged
<1>2. CASE DeliverAdd
  <2>1. PICK i \in LineIds : add_adhoc_item(Head(pending).name, Head(pending).id, i)
    BY <1>2 DEF DeliverAdd
  <2>2. Head(pending).id \in Keys
    <3>1. PICK S : pending \in Seq(S)
      BY DEF IInv, IsQueue
    <3>2. pending # <<>> /\ Head(pending).kind = "add"
      BY <1>2 DEF DeliverAdd, Asked, IInv, AsksTheFront
    <3>3. Head(pending) = pending[1] /\ 1 \in 1..Len(pending)
      BY <3>1, <3>2, TakingOff
    <3> QED
      BY <3>2, <3>3 DEF IInv, AddsHaveKeys
  <2> QED
    BY <2>1, <2>2, AddItemKeeps
<1>3. CASE DeliverSet
  <2>1. UNCHANGED <<sources, minted>>
    BY <1>3 DEF DeliverSet
  <2>2. lines' = lines \/ \E i \in DOMAIN lines : \E f, value : SetFlag(i, f, value)
    BY <1>3 DEF DeliverSet
  <2> QED
    BY <1>1, <2>1, <2>2, SetFlagKeeps
<1>4. CASE DeliverDelete
  <2>1. minted' = minted
    BY <1>4 DEF DeliverDelete
  <2>2. UNCHANGED <<lines, sources>> \/ \E i : Without(i)
    BY <1>4 DEF DeliverDelete
  <2> QED
    BY <1>1, <2>1, <2>2, WithoutKeeps
<1>5. CASE Others
  <2>1. ASSUME NEW n \in Names, OthersAdd(n) PROVE LinesInv'
    BY <2>1, AddItemKeeps DEF OthersAdd
  <2>2. ASSUME NEW n \in Names, AddMeal(n) PROVE LinesInv'
    <3>1. PICK i \in LineIds : EnsureLine(n, NoKey, i) /\ sources' = sources
      BY <2>2 DEF AddMeal
    <3>2. /\ minted' \in Nat
          /\ lines' = [j \in DOMAIN lines' |-> lines'[j]]
          /\ DOMAIN lines' \subseteq 1..(MaxOps + minted')
          /\ \A j \in DOMAIN lines' : lines'[j] = LineOf(lines'[j])
          /\ \A j \in DOMAIN lines : j \in DOMAIN lines' /\ lines'[j].list = lines[j].list
      BY <3>1, EnsureLineShape
    <3>3. CountedOnce'
      BY <3>1, <3>2 DEF LinesInv, CountedOnce
    <3> QED
      BY <3>1, <3>2, <3>3 DEF LinesInv, LineOf
  <2>3. ASSUME NEW i \in LineIds, OthersDelete(i) PROVE LinesInv'
    BY <2>3, WithoutKeeps DEF OthersDelete
  <2>4. ASSUME NEW i \in LineIds, RemoveMeal(i) PROVE LinesInv'
    BY <1>1, <2>4, WithoutKeeps DEF RemoveMeal
  <2>5. ASSUME NEW i \in LineIds, NEW f \in Flags, OthersSet(i, f) PROVE LinesInv'
    BY <2>5, SetFlagKeeps DEF OthersSet
  <2>6. CASE Archive
    BY <1>1, <2>6 DEF Archive
  <2> QED
    BY <1>5, <2>1, <2>2, <2>3, <2>4, <2>5, <2>6 DEF Others
<1>6. CASE User
  BY <1>1, <1>6 DEF User, addAdhoc, deleteAdhoc, toggle, enqueue, server
<1>7. CASE Sync \/ DeliverError \/ DeliverFetch \/ Refresh \/ Lose \/ Restart
  BY <1>1, <1>7 DEF Sync, RunTask, Receive, ReceiveList, DeliverError, DeliverFetch, Refresh, Lose,
                    Restart, server
<1>8. CASE UNCHANGED vars
  BY <1>1, <1>8 DEF vars, server
<1> QED
  BY <1>2, <1>3, <1>4, <1>5, <1>6, <1>7, <1>8 DEF Next, Deliver

(* add_adhoc_item: however often the phone repeats an add, because an answer *)
(* was lost or the app killed, a list holds one row for it.                  *)
THEOREM RetriesCountOnce == Spec => []CountedOnce
<1>1. Init => LinesInv
  BY BoundsAssumption DEF Init, LinesInv, CountedOnce, LineOf
<1>2. LinesInv => CountedOnce
  BY DEF LinesInv
<1> QED
  BY <1>1, <1>2, Invariance, LinesStep, PTL DEF Spec

-----------------------------------------------------------------------------
(* Follow-ups.  As long as no sync has been interrupted, an id the phone     *)
(* knows either is a line's own, on which everything added under it is, or   *)
(* its add is still ahead in the queue, or the running sync has it on its    *)
(* map.  An add no answer was made to yet is unknown to everybody.           *)
Mapping == sync.phase \in {"asking", "answered"}

Renamed == IF Mapping THEN DOMAIN sync.remap ELSE {}

LandsOn(x) == IF x \in Renamed THEN sync.remap[x] ELSE x

Fetched == IF sync.phase = "fetched" THEN sync.payload ELSE {}

Cached == {it.id : it \in cache \cup Fetched}

Known == DOMAIN lines \cup Cached

(* the adds of the queue, but for the one that has been answered *)
Waiting(x) ==
    \E j \in 1..Len(pending) :
        /\ pending[j].kind = "add" /\ pending[j].id = x
        /\ j = 1 => sync.phase # "answered"

Fresh(x) == x \notin Known /\ x \notin Renamed /\ \A s \in sources : s.key # x

AtHome(x) == x # NoKey /\ x \notin Renamed /\ \A s \in sources : s.key = x => s.line = x

Settled(x) == \A s \in sources : s.key = x => s.line = LandsOn(x)

AddAhead(x, j) == \E k \in 1..j : pending[k].kind = "add" /\ pending[k].id = x

IsItem(it) == it = [id |-> it.id, name |-> it.name, on |-> it.on, adhoc |-> it.adhoc]

ItemsAreItems == \A it \in cache \cup Fetched : IsItem(it)

QueueIsOfOps == \A j \in 1..Len(pending) : pending[j].kind \in {"add", "set", "delete"}

KeysAreOfAdds ==
    /\ \A s \in sources : s.key \in Keys \cup {NoKey}
    /\ Renamed \subseteq Keys

AddsDiffer ==
    \A j, k \in 1..Len(pending) :
        pending[j].kind = "add" =>
            /\ pending[j].id <= made
            /\ pending[k].kind = "add" /\ pending[k].id = pending[j].id => j = k

UnknownIsFresh == \A x \in Keys : x > made \/ Waiting(x) => Fresh(x)

KnownIsAtHome == \A x \in Known : AtHome(x)

AnswerPlacesTheAdd ==
    sync.phase = "answered" /\ pending[1].kind = "add" =>
        LET x == pending[1].id IN
        /\ sync.answer.result = "ok"
        /\ x \notin Renamed /\ x \notin Cached
        /\ x \in DOMAIN lines => sync.answer.line = x
        /\ \A s \in sources : s.key = x => s.line = sync.answer.line

FollowUpsAreSettled ==
    \A j \in 1..Len(pending) :
        pending[j].kind # "add" =>
            /\ pending[j].line # NoKey
            /\ AddAhead(pending[j].line, j) \/ Settled(pending[j].line)

MissingIsGone ==
    sync.phase = "answered" /\ sync.answer.result = "missing" =>
        \A s \in sources : s.key # pending[1].line

Uninterrupted ==
    /\ KeysAreOfAdds
    /\ AddsDiffer
    /\ UnknownIsFresh
    /\ KnownIsAtHome
    /\ AnswerPlacesTheAdd
    /\ FollowUpsAreSettled
    /\ MissingIsGone

FollowInv ==
    /\ ItemsAreItems
    /\ QueueIsOfOps
    /\ faults \in Nat
    /\ faults = 0 => Uninterrupted

(* A nonempty set of natural numbers has a least element. *)
LEMMA LeastOf ==
    ASSUME NEW S \in SUBSET Nat, S # {}
    PROVE  \E m \in S : \A y \in S : m <= y
<1> DEFINE R == StrictSubsetOrdering(Nat)
           F == FiniteSubsetsOf(Nat)
           T == {1..n : n \in S}
<1>1. IsWellFoundedOn(R, F)
  BY FS_StrictSubsetOrderingWellFounded
<1>2. T \subseteq F /\ T # {}
  <2>1. \A n \in S : 1..n \in SUBSET Nat /\ IsFiniteSet(1..n)
    BY FS_Interval
  <2> QED
    BY <2>1 DEF FiniteSubsetsOf
<1>3. PICK X \in T : \A Y \in T : <<Y, X>> \notin R
  <2> HIDE DEF R, F, T
  <2> QED
    BY <1>1, <1>2, WFMin
<1>4. PICK x \in S : X = 1..x
  OBVIOUS
<1>5. ASSUME NEW y \in S, y < x PROVE FALSE
  <2>1. 1..y \subseteq 1..x /\ x \in 1..x /\ x \notin 1..y
    BY <1>5
  <2>2. 1..y \in T
    BY <1>5
  <2>3. <<1..y, X>> \in R
    BY <1>4, <2>1 DEF StrictSubsetOrdering
  <2> QED
    BY <1>3, <2>2, <2>3
<1> QED
  BY <1>5

(* What the phone shows is defined, operation by operation. *)
LEMMA ShownIs ==
    ASSUME Len(pending) \in Nat
    PROVE  shown = [n \in 0..Len(pending) |->
                      IF n = 0 THEN cache ELSE Apply(shown[n - 1], pending[n])]
<1> DEFINE From(f, m) == f = [n \in 0..m |-> IF n = 0 THEN cache ELSE Apply(f[n - 1], pending[n])]
           T == {m \in 0..Len(pending) : ~\E f : From(f, m)}
<1>1. ASSUME T # {} PROVE FALSE
  <2>1. PICK m \in T : \A n \in T : m <= n
    <3>1. T \in SUBSET Nat
      OBVIOUS
    <3> HIDE DEF T
    <3> QED
      BY <1>1, <3>1, LeastOf
  <2>2. m # 0
    <3>1. From([n \in 0..0 |-> cache], 0)
      OBVIOUS
    <3> QED
      BY <2>1, <3>1
  <2>3. m - 1 \in 0..Len(pending) /\ m - 1 \notin T
    <3>1. m \in 0..Len(pending)
      OBVIOUS
    <3>2. m - 1 \in 0..Len(pending) /\ ~(m <= m - 1)
      BY <2>2, <3>1
    <3> HIDE DEF T
    <3> QED
      BY <2>1, <3>2
  <2>4. PICK f : From(f, m - 1)
    BY <2>3
  <2> DEFINE g == [n \in 0..m |-> IF n = m THEN Apply(f[n - 1], pending[n]) ELSE f[n]]
  <2>5. \A n \in 0..(m - 1) : g[n] = f[n]
    BY <2>3
  <2>6. \A n \in 0..m : n # 0 => n - 1 \in 0..(m - 1)
    BY <2>3
  <2>7. From(g, m)
    <3> SUFFICES ASSUME NEW n \in 0..m
                 PROVE  g[n] = IF n = 0 THEN cache ELSE Apply(g[n - 1], pending[n])
      OBVIOUS
    <3>1. CASE n = m
      BY <3>1, <2>2, <2>5, <2>6
    <3>2. CASE n # m
      <4>1. n \in 0..(m - 1)
        BY <3>2, <2>3
      <4>2. f[n] = IF n = 0 THEN cache ELSE Apply(f[n - 1], pending[n])
        BY <4>1, <2>4
      <4> QED
        BY <4>1, <4>2, <2>5, <2>6
    <3> QED
      BY <3>1, <3>2
  <2> QED
    BY <2>1, <2>7
<1>2. \E f : From(f, Len(pending))
  BY <1>1
<1> QED
  BY <1>2 DEF shown

LEMMA ApplyIds ==
    ASSUME NEW items, \A it \in items : IsItem(it),
           NEW op, op.kind \in {"add", "set", "delete"},
           NEW it \in Apply(items, op)
    PROVE  /\ IsItem(it)
           /\ (\E old \in items : old.id = it.id) \/ (op.kind = "add" /\ it.id = op.id)
<1>1. ASSUME NEW old \in items, NEW on, it = [old EXCEPT !.on = on] PROVE IsItem(it) /\ it.id = old.id
  <2>1. PICK x : x = old
    OBVIOUS
  <2>2. x = [id |-> x.id, name |-> x.name, on |-> x.on, adhoc |-> x.adhoc]
    BY <2>1 DEF IsItem
  <2>3. it = [x EXCEPT !.on = on]
    BY <1>1, <2>1
  <2>4. it = [id |-> x.id, name |-> x.name, on |-> on, adhoc |-> x.adhoc]
    BY <2>2, <2>3
  <2> QED
    BY <2>1, <2>4 DEF IsItem
<1>2. CASE op.kind = "set"
  <2>1. \E old \in items : it = old \/ \E on : it = [old EXCEPT !.on = on]
    BY <1>2 DEF Apply
  <2> QED
    BY <1>1, <2>1
<1>3. CASE op.kind = "delete"
  <2>1. it \in items
    BY <1>3 DEF Apply
  <2> QED
    BY <2>1
<1>4. CASE op.kind = "add"
  <2>1. CASE \E other \in items : other.name = op.name
    <3>1. \E old \in items : it = old \/ \E on : it = [old EXCEPT !.on = on]
      BY <1>4, <2>1 DEF Apply
    <3> QED
      BY <1>1, <3>1
  <2>2. CASE ~\E other \in items : other.name = op.name
    <3>1. it \in items \/ it = [id |-> op.id, name |-> op.name, on |-> {}, adhoc |-> TRUE]
      BY <1>4, <2>2 DEF Apply
    <3> QED
      BY <1>4, <3>1 DEF IsItem
  <2> QED
    BY <2>1, <2>2
<1> QED
  BY <1>2, <1>3, <1>4

(* Every item on the screen was fetched or is an add of the queue. *)
LEMMA ProjectedIds ==
    ASSUME IInv, ItemsAreItems, QueueIsOfOps, NEW item \in projectedItems
    PROVE  \/ item.id \in Cached
           \/ \E k \in 1..Len(pending) : pending[k].kind = "add" /\ pending[k].id = item.id
<1>0. Len(pending) \in Nat
  BY DEF IInv, IsQueue
<1>1. shown = [n \in 0..Len(pending) |-> IF n = 0 THEN cache ELSE Apply(shown[n - 1], pending[n])]
  BY <1>0, ShownIs
<1> DEFINE Good(it) ==
      /\ IsItem(it)
      /\ \/ it.id \in Cached
         \/ \E k \in 1..Len(pending) : pending[k].kind = "add" /\ pending[k].id = it.id
    T == {n \in 0..Len(pending) : \E it \in shown[n] : ~Good(it)}
<1>2. ASSUME T # {} PROVE FALSE
  <2>1. T \in SUBSET Nat
    OBVIOUS
  <2>2. PICK n \in T : \A m \in T : n <= m
    <3> HIDE DEF T
    <3> QED
      BY <1>2, <2>1, LeastOf
  <2>3. n \in 0..Len(pending) /\ \E it \in shown[n] : ~Good(it)
    BY DEF T
  <2>4. PICK it \in shown[n] : ~Good(it)
    BY <2>3
  <2>5. CASE n = 0
    <3>1. it \in cache
      BY <1>1, <2>3, <2>4, <2>5
    <3> QED
      BY <2>4, <3>1 DEF Cached, ItemsAreItems
  <2>6. CASE n # 0
    <3>1. n - 1 \in 0..Len(pending) /\ n \in 1..Len(pending) /\ ~(n <= n - 1)
      BY <1>0, <2>3, <2>6
    <3>2. n - 1 \notin T
      <4> HIDE DEF T
      <4> QED
        BY <2>2, <3>1
    <3>3. \A old \in shown[n - 1] : Good(old)
      BY <3>1, <3>2 DEF T
    <3>4. it \in Apply(shown[n - 1], pending[n])
      BY <1>1, <2>3, <2>4, <2>6
    <3>5. \A old \in shown[n - 1] : IsItem(old)
      BY <3>3
    <3>6. pending[n].kind \in {"add", "set", "delete"}
      BY <3>1 DEF QueueIsOfOps
    <3> HIDE DEF Good
    <3>7. /\ IsItem(it)
          /\ \/ \E old \in shown[n - 1] : old.id = it.id
             \/ pending[n].kind = "add" /\ it.id = pending[n].id
      BY <3>4, <3>5, <3>6, ApplyIds
    <3> QED
      BY <2>4, <3>1, <3>3, <3>7 DEF Good
  <2> QED
    BY <2>5, <2>6
<1> QED
  BY <1>0, <1>2 DEF projectedItems

LEMMA QueueFront ==
    ASSUME IInv, pending # <<>>
    PROVE  /\ Len(pending) \in Nat \ {0} /\ 1 \in 1..Len(pending)
           /\ Head(pending) = pending[1]
           /\ Len(Tail(pending)) = Len(pending) - 1
           /\ \A j \in 1..Len(Tail(pending)) :
                j + 1 \in 1..Len(pending) /\ j + 1 # 1 /\ Tail(pending)[j] = pending[j + 1]
<1>1. PICK S : pending \in Seq(S)
  BY DEF IInv, IsQueue
<1> QED
  BY <1>1, TakingOff

(* Others at the list: what they add is without a key and on lines of the    *)
(* server's own ids.                                                         *)
LEMMA ServerSteps ==
    ASSUME IInv, Uninterrupted, UNCHANGED <<pending, cache, sync, made>>,
           \A x \in DOMAIN lines' : x \in DOMAIN lines \/ x \notin Keys \cup {NoKey},
           \A s \in sources' : s \in sources \/ s.key = NoKey
    PROVE  Uninterrupted'
<1>0. NoKey \notin Keys
  BY BoundsAssumption DEF NoKey, Keys
<1>1. /\ Renamed' = Renamed /\ Cached' = Cached
      /\ \A x : LandsOn(x)' = LandsOn(x) /\ Waiting(x)' = Waiting(x)
  BY DEF Mapping, Renamed, LandsOn, Fetched, Cached, Waiting
<1>2. KeysAreOfAdds'
  BY <1>1 DEF Uninterrupted, KeysAreOfAdds
<1>3. AddsDiffer'
  BY DEF Uninterrupted, AddsDiffer
<1>4. \A x \in Keys : Fresh(x) => Fresh(x)'
  BY <1>0, <1>1 DEF Fresh, Known
<1>5. UnknownIsFresh'
  BY <1>1, <1>4 DEF Uninterrupted, UnknownIsFresh
<1>6. KnownIsAtHome'
  <2> SUFFICES ASSUME NEW x \in Known' PROVE AtHome(x)'
    BY DEF KnownIsAtHome
  <2>1. CASE x \in Known
    BY <1>1, <2>1 DEF AtHome, Uninterrupted, KnownIsAtHome
  <2>2. CASE x \notin Known
    <3>1. x \notin Keys \cup {NoKey}
      BY <1>1, <2>2 DEF Known
    <3> QED
      BY <1>1, <3>1 DEF AtHome, Uninterrupted, KeysAreOfAdds
  <2> QED
    BY <2>1, <2>2
<1>7. AnswerPlacesTheAdd'
  <2> SUFFICES ASSUME sync.phase = "answered", pending[1].kind = "add"
               PROVE  LET x == pending[1].id IN
                      /\ sync.answer.result = "ok"
                      /\ x \notin Renamed' /\ x \notin Cached'
                      /\ x \in DOMAIN lines' => sync.answer.line = x
                      /\ \A s \in sources' : s.key = x => s.line = sync.answer.line
    BY DEF AnswerPlacesTheAdd
  <2>1. pending[1].id \in Keys
    <3>1. pending # <<>>
      BY DEF IInv, AnswersTheFront
    <3> QED
      BY <3>1, QueueFront DEF IInv, AddsHaveKeys
  <2> QED
    BY <1>0, <1>1, <2>1 DEF Uninterrupted, AnswerPlacesTheAdd
<1>8. FollowUpsAreSettled'
  <2> SUFFICES ASSUME NEW j \in 1..Len(pending), pending[j].kind # "add"
               PROVE  /\ pending[j].line # NoKey
                      /\ AddAhead(pending[j].line, j)' \/ Settled(pending[j].line)'
    BY DEF FollowUpsAreSettled
  <2>1. /\ pending[j].line # NoKey
        /\ AddAhead(pending[j].line, j) \/ Settled(pending[j].line)
    BY DEF Uninterrupted, FollowUpsAreSettled
  <2> QED
    BY <1>1, <2>1 DEF AddAhead, Settled
<1>9. MissingIsGone'
  <2> SUFFICES ASSUME sync.phase = "answered", sync.answer.result = "missing"
               PROVE  \A s \in sources' : s.key # pending[1].line
    BY DEF MissingIsGone
  <2>1. pending # <<>>
    BY DEF IInv, AnswersTheFront
  <2>2. 1 \in 1..Len(pending)
    BY <2>1, QueueFront
  <2>3. pending[1].kind # "add"
    BY DEF Uninterrupted, AnswerPlacesTheAdd
  <2>4. pending[1].line # NoKey
    BY <2>2, <2>3 DEF Uninterrupted, FollowUpsAreSettled
  <2> QED
    BY <2>4 DEF Uninterrupted, MissingIsGone
<1> QED
  BY <1>2, <1>3, <1>5, <1>6, <1>7, <1>8, <1>9 DEF Uninterrupted

(* A change of the sync that leaves the queue and the map alone and learns   *)
(* no id it did not know.                                                    *)
LEMMA SyncSteps ==
    ASSUME IInv, Uninterrupted, UNCHANGED <<pending, made>>,
           sync'.phase # "answered", sync.phase # "answered",
           DOMAIN lines' \subseteq DOMAIN lines, sources' \subseteq sources,
           Renamed' = {}, Renamed = {}, Cached' \subseteq Known
    PROVE  Uninterrupted'
<1>1. \A x : LandsOn(x)' = x /\ LandsOn(x) = x
  BY DEF LandsOn
<1>2. Known' \subseteq Known /\ \A x : Waiting(x)' => Waiting(x)
  BY DEF Known, Waiting
<1>3. KeysAreOfAdds'
  BY DEF Uninterrupted, KeysAreOfAdds
<1>4. AddsDiffer'
  BY DEF Uninterrupted, AddsDiffer
<1>5. UnknownIsFresh'
  BY <1>2 DEF Uninterrupted, UnknownIsFresh, Fresh
<1>6. KnownIsAtHome'
  BY <1>2 DEF Uninterrupted, KnownIsAtHome, AtHome
<1>7. AnswerPlacesTheAdd' /\ MissingIsGone'
  BY DEF AnswerPlacesTheAdd, MissingIsGone
<1>8. FollowUpsAreSettled'
  <2> SUFFICES ASSUME NEW j \in 1..Len(pending), pending[j].kind # "add"
               PROVE  /\ pending[j].line # NoKey
                      /\ AddAhead(pending[j].line, j)' \/ Settled(pending[j].line)'
    BY DEF FollowUpsAreSettled
  <2>1. /\ pending[j].line # NoKey
        /\ AddAhead(pending[j].line, j) \/ Settled(pending[j].line)
    BY DEF Uninterrupted, FollowUpsAreSettled
  <2> QED
    BY <1>1, <2>1 DEF AddAhead, Settled
<1> QED
  BY <1>3, <1>4, <1>5, <1>6, <1>7, <1>8 DEF Uninterrupted

(* The user: an add under an id nobody has, or a follow-up on what is shown. *)
LEMMA EnqueueFollows ==
    ASSUME IInv, Uninterrupted, NEW op, enqueue(op),
           \/ op.kind = "add" /\ op.id = made + 1
           \/ /\ op.kind # "add"
              /\ \/ op.line \in Cached
                 \/ \E k \in 1..Len(pending) : pending[k].kind = "add" /\ pending[k].id = op.line
    PROVE  Uninterrupted'
<1>0. PICK S : pending \in Seq(S)
  BY DEF IInv, IsQueue
<1>1. /\ pending' = Append(pending, op) /\ made' = made + 1 /\ made \in 0..MaxOps /\ made < MaxOps
      /\ UNCHANGED <<lines, sources, sync, cache>>
  BY DEF enqueue, server, IInv, MadeCounted
<1>2. /\ Len(pending') = Len(pending) + 1 /\ Len(pending) \in Nat
      /\ \A j \in 1..Len(pending) : pending'[j] = pending[j]
      /\ pending'[Len(pending) + 1] = op
  BY <1>0, <1>1, Appending
<1> DEFINE last == Len(pending) + 1
<1>3. /\ \A j \in 1..Len(pending') : j \in 1..Len(pending) \/ j = last
      /\ 1..Len(pending) \subseteq 1..Len(pending') /\ last \notin 1..Len(pending)
  BY <1>2
<1>4. /\ Renamed' = Renamed /\ Cached' = Cached /\ Known' = Known
      /\ \A x : LandsOn(x)' = LandsOn(x) /\ Fresh(x)' = Fresh(x) /\ AtHome(x)' = AtHome(x)
      /\ \A x : Settled(x)' = Settled(x)
  BY <1>1 DEF Mapping, Renamed, LandsOn, Fetched, Cached, Known, Fresh, AtHome, Settled
<1>5. KeysAreOfAdds' /\ KnownIsAtHome'
  BY <1>1, <1>4 DEF Uninterrupted, KeysAreOfAdds, KnownIsAtHome
<1>6. \A j \in 1..Len(pending) : pending[j].kind = "add" =>
        pending[j].id \in Nat /\ pending[j].id <= made /\ pending[j].id \in Keys
  BY BoundsAssumption DEF IInv, AddsHaveKeys, Keys, Uninterrupted, AddsDiffer
<1> HIDE DEF last
<1>7. \A i \in Nat : i <= made => i <= made + 1 /\ i # made + 1
  BY <1>1
<1>8. AddsDiffer'
  <2> SUFFICES ASSUME NEW j \in 1..Len(pending'), NEW k \in 1..Len(pending'),
                      pending'[j].kind = "add"
               PROVE  /\ pending'[j].id <= made'
                      /\ pending'[k].kind = "add" /\ pending'[k].id = pending'[j].id => j = k
    BY DEF AddsDiffer
  <2>1. pending'[last] = op /\ (op.kind = "add" => op.id = made + 1)
    BY <1>2 DEF last
  <2>2. CASE j \in 1..Len(pending)
    <3>1. pending'[j].id <= made' /\ pending'[j].id # made + 1
      BY <1>1, <1>2, <1>6, <1>7, <2>2
    <3>2. CASE k \in 1..Len(pending)
      BY <1>2, <2>2, <3>1, <3>2 DEF Uninterrupted, AddsDiffer
    <3>3. CASE k = last
      BY <2>1, <3>1, <3>3
    <3> QED
      BY <1>3, <3>2, <3>3
  <2>3. CASE j = last
    <3>1. pending'[j].id = made + 1 /\ pending'[j].id <= made'
      BY <1>1, <2>1, <2>3
    <3>2. CASE k \in 1..Len(pending)
      BY <1>2, <1>6, <1>7, <3>1, <3>2
    <3> QED
      BY <1>3, <2>3, <3>1, <3>2
  <2> QED
    BY <1>3, <2>2, <2>3
<1>9. UnknownIsFresh'
  <2> SUFFICES ASSUME NEW x \in Keys, x > made' \/ Waiting(x)' PROVE Fresh(x)
    BY <1>4 DEF UnknownIsFresh
  <2>1. CASE x > made'
    <3>1. x > made
      BY <1>1, <2>1 DEF Keys
    <3> QED
      BY <3>1 DEF Uninterrupted, UnknownIsFresh
  <2>2. CASE Waiting(x)'
    <3>1. PICK j \in 1..Len(pending') :
            /\ pending'[j].kind = "add" /\ pending'[j].id = x
            /\ j = 1 => sync.phase # "answered"
      BY <1>1, <2>2 DEF Waiting
    <3>2. CASE j \in 1..Len(pending)
      BY <1>2, <3>1, <3>2 DEF Waiting, Uninterrupted, UnknownIsFresh
    <3>3. CASE j = last
      <4>1. x = made + 1
        BY <1>2, <3>1, <3>3 DEF last
      <4>2. x > made
        BY <1>1, <4>1
      <4> QED
        BY <4>2 DEF Uninterrupted, UnknownIsFresh
    <3> QED
      BY <1>3, <3>1, <3>2, <3>3
  <2> QED
    BY <2>1, <2>2
<1>10. AnswerPlacesTheAdd' /\ MissingIsGone'
  <2>1. sync.phase = "answered" => pending'[1] = pending[1]
    <3>1. sync.phase = "answered" => 1 \in 1..Len(pending)
      BY QueueFront DEF IInv, AnswersTheFront
    <3> QED
      BY <1>2, <3>1
  <2> QED
    BY <1>1, <1>4, <2>1 DEF Uninterrupted, AnswerPlacesTheAdd, MissingIsGone
<1>11. FollowUpsAreSettled'
  <2> SUFFICES ASSUME NEW j \in 1..Len(pending'), pending'[j].kind # "add"
               PROVE  /\ pending'[j].line # NoKey
                      /\ \/ \E k \in 1..j : /\ pending'[k].kind = "add"
                                             /\ pending'[k].id = pending'[j].line
                         \/ Settled(pending'[j].line)
    BY <1>4 DEF FollowUpsAreSettled, AddAhead
  <2>1. CASE j \in 1..Len(pending)
    <3>1. /\ pending[j].line # NoKey
          /\ AddAhead(pending[j].line, j) \/ Settled(pending[j].line)
      BY <1>2, <2>1 DEF Uninterrupted, FollowUpsAreSettled
    <3>2. 1..j \subseteq 1..Len(pending)
      BY <1>2, <2>1
    <3>3. \A k \in 1..j : pending'[k] = pending[k]
      BY <1>2, <3>2
    <3> QED
      BY <1>2, <2>1, <3>1, <3>3 DEF AddAhead
  <2>2. CASE j = last
    <3>1. pending'[j] = op /\ op.kind # "add" /\ 1..Len(pending) \subseteq 1..j
      BY <1>2, <2>2 DEF last
    <3>2. CASE op.line \in Cached
      <4>1. AtHome(op.line)
        BY <3>2 DEF Uninterrupted, KnownIsAtHome, Known
      <4> QED
        BY <3>1, <4>1 DEF AtHome, Settled, LandsOn
    <3>3. CASE \E k \in 1..Len(pending) : pending[k].kind = "add" /\ pending[k].id = op.line
      <4>1. PICK k \in 1..Len(pending) : pending[k].kind = "add" /\ pending[k].id = op.line
        BY <3>3
      <4>2. op.line # NoKey
        BY <1>6, <4>1, BoundsAssumption DEF Keys, NoKey
      <4>3. k \in 1..j /\ pending'[k].kind = "add" /\ pending'[k].id = op.line
        BY <1>2, <3>1, <4>1
      <4> QED
        BY <3>1, <4>2, <4>3
    <3> QED
      BY <3>1, <3>2, <3>3
  <2> QED
    BY <1>3, <2>1, <2>2
<1> QED
  BY <1>5, <1>8, <1>9, <1>10, <1>11 DEF Uninterrupted

(* The answer to the operation in front: an add that went to another line    *)
(* goes on the map, and the rest of the queue moves up.                      *)
LEMMA ReceiveFollows ==
    ASSUME IInv, Uninterrupted, QueueIsOfOps, Receive
    PROVE  Uninterrupted'
<1> DEFINE op == pending[1]
           answer == sync.answer
           remap == Remember(op, answer)
<1>1. /\ sync.phase = "answered" /\ pending # <<>> /\ pending' = Tail(pending)
      /\ UNCHANGED <<lines, sources, cache, made>>
  BY DEF Receive, server, IInv, AnswersTheFront
<1>2. /\ Len(pending) \in Nat \ {0} /\ 1 \in 1..Len(pending)
      /\ Head(pending) = op
      /\ Len(pending') = Len(pending) - 1
      /\ \A j \in 1..Len(pending') :
           j + 1 \in 1..Len(pending) /\ j + 1 # 1 /\ pending'[j] = pending[j + 1]
  BY <1>1, QueueFront
<1>3. sync' = [phase |-> IF pending' = <<>> THEN "fetching" ELSE "asking", remap |-> remap]
  BY <1>2 DEF Receive, Continue
<1>4. /\ sync'.phase = IF pending' = <<>> THEN "fetching" ELSE "asking"
      /\ sync'.remap = remap
  BY <1>3
<1>5. op.kind = "add" =>
        /\ answer.result = "ok" /\ op.id \notin Renamed /\ op.id \notin Cached
        /\ op.id \in DOMAIN lines => answer.line = op.id
        /\ \A s \in sources : s.key = op.id => s.line = answer.line
        /\ op.id \in Keys /\ op.id <= made
  BY <1>1, <1>2 DEF Uninterrupted, AnswerPlacesTheAdd, AddsDiffer, IInv, AddsHaveKeys
<1>6. Renamed = DOMAIN sync.remap
  BY <1>1 DEF Renamed, Mapping
<1>7. /\ \A x \in DOMAIN remap :
           x \in Renamed \/ (op.kind = "add" /\ x = op.id /\ answer.line # op.id)
      /\ op.kind = "add" => IF op.id \in DOMAIN remap THEN remap[op.id] = answer.line
                                                      ELSE answer.line = op.id
      /\ \A x : ~(op.kind = "add" /\ x = op.id) =>
           /\ x \in DOMAIN remap <=> x \in Renamed
           /\ x \in Renamed => remap[x] = sync.remap[x]
  <2>1. CASE op.kind = "add" /\ answer.line # op.id
    <3>1. remap = [i \in Renamed \cup {op.id} |-> IF i = op.id THEN answer.line ELSE sync.remap[i]]
      BY <1>5, <1>6, <2>1 DEF Remember
    <3> HIDE DEF remap, op, answer
    <3> QED
      BY <1>5, <2>1, <3>1
  <2>2. CASE ~(op.kind = "add" /\ answer.line # op.id)
    <3>1. remap = sync.remap
      BY <2>2 DEF Remember
    <3> HIDE DEF remap, op, answer
    <3> QED
      BY <1>5, <1>6, <2>2, <3>1
  <2> QED
    BY <2>1, <2>2
<1> HIDE DEF remap, answer
<1>8. /\ Renamed' \subseteq DOMAIN remap
      /\ pending' # <<>> => Renamed' = DOMAIN remap
      /\ Cached' \subseteq Cached /\ Known' \subseteq Known
  BY <1>1, <1>4 DEF Renamed, Mapping, Cached, Fetched, Known
<1>9. \A x : Waiting(x)' => Waiting(x) /\ (op.kind = "add" => x # op.id)
  <2> SUFFICES ASSUME NEW x, Waiting(x)'
               PROVE  Waiting(x) /\ (op.kind = "add" => x # op.id)
    OBVIOUS
  <2>1. PICK j \in 1..Len(pending') : pending'[j].kind = "add" /\ pending'[j].id = x
    BY DEF Waiting
  <2>2. /\ j + 1 \in 1..Len(pending) /\ j + 1 # 1
        /\ pending[j + 1].kind = "add" /\ pending[j + 1].id = x
    BY <1>2, <2>1
  <2> QED
    BY <1>2, <2>2 DEF Waiting, Uninterrupted, AddsDiffer
<1>10. KeysAreOfAdds'
  BY <1>1, <1>5, <1>7, <1>8 DEF Uninterrupted, KeysAreOfAdds
<1>11. AddsDiffer'
  <2> SUFFICES ASSUME NEW j \in 1..Len(pending'), NEW k \in 1..Len(pending'),
                      pending'[j].kind = "add"
               PROVE  /\ pending'[j].id <= made
                      /\ pending'[k].kind = "add" /\ pending'[k].id = pending'[j].id => j = k
    BY <1>1 DEF AddsDiffer
  <2>1. j + 1 = k + 1 => j = k
    OBVIOUS
  <2> QED
    BY <1>2, <2>1 DEF Uninterrupted, AddsDiffer
<1>12. UnknownIsFresh'
  <2> SUFFICES ASSUME NEW x \in Keys, x > made \/ Waiting(x)' PROVE Fresh(x)'
    BY <1>1 DEF UnknownIsFresh
  <2>1. x > made \/ Waiting(x)
    BY <1>9
  <2>2. Fresh(x)
    BY <2>1 DEF Uninterrupted, UnknownIsFresh
  <2>3. op.kind = "add" => x # op.id
    <3>1. op.kind = "add" /\ x = op.id => ~(x > made)
      BY <1>5 DEF Keys, IInv, MadeCounted
    <3> QED
      BY <1>9, <3>1
  <2> QED
    BY <1>1, <1>7, <1>8, <2>2, <2>3 DEF Fresh
<1>13. KnownIsAtHome'
  <2> SUFFICES ASSUME NEW x \in Known' PROVE AtHome(x)'
    BY DEF KnownIsAtHome
  <2>1. AtHome(x) /\ x \in Known
    BY <1>8 DEF Uninterrupted, KnownIsAtHome
  <2>2. x \notin DOMAIN remap
    BY <1>5, <1>7, <2>1 DEF AtHome, Known
  <2> QED
    BY <1>1, <1>8, <2>1, <2>2 DEF AtHome
<1>14. AnswerPlacesTheAdd' /\ MissingIsGone'
  BY <1>4 DEF AnswerPlacesTheAdd, MissingIsGone
<1>15. FollowUpsAreSettled'
  <2> DEFINE Lands(x) == IF x \in DOMAIN remap THEN remap[x] ELSE x
  <2>1. ASSUME NEW j \in 1..Len(pending'), NEW x, x = pending[j + 1].line,
               pending[j + 1].kind # "add"
        PROVE  /\ x # NoKey
               /\ \/ \E k \in 1..j : pending'[k].kind = "add" /\ pending'[k].id = x
                  \/ \A s \in sources : s.key = x => s.line = Lands(x)
    <3>1. x # NoKey /\ (AddAhead(x, j + 1) \/ Settled(x))
      BY <1>2, <2>1 DEF Uninterrupted, FollowUpsAreSettled
    <3>2. CASE op.kind = "add" /\ x = op.id
      BY <1>5, <1>7, <3>1, <3>2
    <3>3. CASE ~(op.kind = "add" /\ x = op.id)
      <4>1. Lands(x) = LandsOn(x)
        BY <1>7, <3>3 DEF LandsOn
      <4>2. CASE Settled(x)
        BY <3>1, <4>1, <4>2 DEF Settled
      <4>3. CASE AddAhead(x, j + 1)
        <5>1. PICK k \in 1..(j + 1) : pending[k].kind = "add" /\ pending[k].id = x
          BY <4>3 DEF AddAhead
        <5>2. k # 1
          BY <3>3, <5>1
        <5>3. k - 1 \in 1..j /\ k - 1 \in 1..Len(pending') /\ (k - 1) + 1 = k
          BY <1>2, <5>2
        <5>4. pending'[k - 1] = pending[k]
          BY <1>2, <5>3
        <5> QED
          BY <3>1, <5>1, <5>3, <5>4
      <4> QED
        BY <3>1, <4>2, <4>3
    <3> QED
      BY <3>2, <3>3
  <2>2. CASE pending' = <<>>
    <3>1. 1..Len(pending') = {}
      BY <2>2
    <3> QED
      BY <3>1 DEF FollowUpsAreSettled
  <2>3. CASE pending' # <<>>
    <3>1. \A x : LandsOn(x)' = Lands(x)
      BY <1>4, <1>8, <2>3 DEF LandsOn
    <3> HIDE DEF Lands
    <3> QED
      BY <1>1, <1>2, <2>1, <3>1 DEF FollowUpsAreSettled, AddAhead, Settled
  <2> QED
    BY <2>2, <2>3
<1> QED
  BY <1>10, <1>11, <1>12, <1>13, <1>14, <1>15 DEF Uninterrupted

(* A flag or a removal, answered: it is "missing" only if its line is gone,  *)
(* and then so is all that was added under its id.                           *)
LEMMA AnswerFollows ==
    ASSUME IInv, LinesInv, Uninterrupted, UNCHANGED <<pending, cache, made>>,
           sync.phase = "asking", pending[1].kind # "add",
           DOMAIN lines' \subseteq DOMAIN lines, sources' \subseteq sources,
           NEW result, NEW i, Answer(result, i),
           result = "missing" => Resolve(pending[1].line) \notin DOMAIN lines
    PROVE  Uninterrupted'
<1>1. sync' = [phase |-> "answered", remap |-> sync.remap,
               answer |-> [result |-> result, line |-> i]]
  BY DEF Answer
<1>2. sync'.phase = "answered" /\ sync'.remap = sync.remap /\ sync'.answer.result = result
  BY <1>1
<1>3. /\ Renamed' = Renamed /\ Cached' = Cached /\ Known' \subseteq Known
      /\ \A x : LandsOn(x)' = LandsOn(x)
      /\ \A x : Waiting(x)' => Waiting(x)
  BY <1>2 DEF Mapping, Renamed, LandsOn, Fetched, Cached, Known, Waiting
<1>4. KeysAreOfAdds' /\ AddsDiffer'
  BY <1>3 DEF Uninterrupted, KeysAreOfAdds, AddsDiffer
<1>5. UnknownIsFresh'
  BY <1>3 DEF Uninterrupted, UnknownIsFresh, Fresh
<1>6. KnownIsAtHome'
  BY <1>3 DEF Uninterrupted, KnownIsAtHome, AtHome
<1>7. AnswerPlacesTheAdd'
  BY DEF AnswerPlacesTheAdd
<1>8. FollowUpsAreSettled'
  <2> SUFFICES ASSUME NEW j \in 1..Len(pending), pending[j].kind # "add"
               PROVE  /\ pending[j].line # NoKey
                      /\ AddAhead(pending[j].line, j)' \/ Settled(pending[j].line)'
    BY DEF FollowUpsAreSettled
  <2>1. /\ pending[j].line # NoKey
        /\ AddAhead(pending[j].line, j) \/ Settled(pending[j].line)
    BY DEF Uninterrupted, FollowUpsAreSettled
  <2> QED
    BY <1>3, <2>1 DEF AddAhead, Settled
<1>9. MissingIsGone'
  <2> SUFFICES ASSUME result = "missing", NEW s \in sources, s.key = pending[1].line PROVE FALSE
    BY <1>2 DEF MissingIsGone
  <2>1. 1 \in 1..Len(pending)
    BY QueueFront DEF IInv, AsksTheFront
  <2>2. \A k \in 1..1 : k = 1
    OBVIOUS
  <2>3. Settled(pending[1].line)
    BY <2>1, <2>2 DEF Uninterrupted, FollowUpsAreSettled, AddAhead
  <2>4. s.line = Resolve(pending[1].line)
    BY <2>3 DEF Settled, LandsOn, Renamed, Mapping, Resolve
  <2> QED
    BY <2>4 DEF LinesInv
<1> QED
  BY <1>4, <1>5, <1>6, <1>7, <1>8, <1>9 DEF Uninterrupted

(* An add, handled by the server: as its id was unknown, what was added      *)
(* under it is on the line the answer names and nowhere else.                *)
LEMMA AddFollows ==
    ASSUME IInv, LinesInv, Uninterrupted, DeliverAdd
    PROVE  Uninterrupted'
<1>0. NoKey \notin Keys /\ \A m \in Nat : MaxOps + m + 1 \notin Keys \cup {NoKey}
  BY BoundsAssumption DEF NoKey, Keys
<1>1. /\ sync.phase = "asking" /\ pending # <<>> /\ Head(pending).kind = "add"
      /\ UNCHANGED <<pending, cache, made>>
  BY DEF DeliverAdd, Asked, HandlerFrame, IInv, AsksTheFront
<1>2. Head(pending) = pending[1] /\ 1 \in 1..Len(pending) /\ Len(pending) \in Nat \ {0}
  BY <1>1, QueueFront
<1> DEFINE x == pending[1].id
<1>3. PICK i : add_adhoc_item(pending[1].name, x, i) /\ Answer("ok", i)
  BY <1>2 DEF DeliverAdd
<1>4. x \in Keys /\ x <= made /\ pending[1].kind = "add"
  BY <1>1, <1>2 DEF IInv, AddsHaveKeys, Uninterrupted, AddsDiffer
<1>5. Fresh(x)
  <2>1. Waiting(x)
    BY <1>1, <1>2, <1>4 DEF Waiting
  <2> QED
    BY <1>4, <2>1 DEF Uninterrupted, UnknownIsFresh
<1> HIDE DEF x
<1>6. PICK row : /\ EnsureLine(pending[1].name, x, i)
                 /\ sources' = sources \cup {[line |-> i, key |-> x, row |-> row]}
  <2>1. Replayed(x) = {}
    BY <1>5 DEF Fresh, Replayed
  <2> QED
    BY <1>3, <2>1 DEF add_adhoc_item
<1>7. PICK new : new = [line |-> i, key |-> x, row |-> row]
  OBVIOUS
<1>8. /\ new.key = x /\ new.line = i /\ new \in sources'
      /\ \A s \in sources' : s \in sources \/ s = new
  BY <1>6, <1>7
<1>9. /\ DOMAIN lines' \subseteq DOMAIN lines \cup {i}
      /\ i \in DOMAIN lines \/ i = x \/ i \notin Keys \cup {NoKey}
  <2>1. DOMAIN Surface(i) = DOMAIN lines
    BY DEF Surface, LinesInv
  <2>2. \A n : DOMAIN Insert(i, n) = DOMAIN lines \cup {i}
    BY DEF Insert
  <2> QED
    BY <1>0, <1>6, <2>1, <2>2 DEF EnsureLine, At, LinesInv
<1>10. sync' = [phase |-> "answered", remap |-> sync.remap, answer |-> [result |-> "ok", line |-> i]]
  BY <1>3 DEF Answer
<1>11. /\ sync'.phase = "answered" /\ sync'.remap = sync.remap
       /\ sync'.answer.result = "ok" /\ sync'.answer.line = i
  BY <1>10
<1>12. /\ Renamed' = Renamed /\ Cached' = Cached
       /\ \A y : LandsOn(y)' = LandsOn(y)
  BY <1>1, <1>11 DEF Mapping, Renamed, LandsOn, Fetched, Cached
<1>13. \A y : Waiting(y)' => Waiting(y) /\ y # x
  <2> SUFFICES ASSUME NEW y, Waiting(y)' PROVE Waiting(y) /\ y # x
    OBVIOUS
  <2>1. PICK j \in 1..Len(pending) : pending[j].kind = "add" /\ pending[j].id = y /\ j # 1
    BY <1>1, <1>11 DEF Waiting
  <2> QED
    BY <1>2, <1>4, <2>1 DEF Waiting, Uninterrupted, AddsDiffer, x
<1>14. KeysAreOfAdds'
  BY <1>4, <1>8, <1>12 DEF Uninterrupted, KeysAreOfAdds
<1>15. AddsDiffer'
  BY <1>1 DEF Uninterrupted, AddsDiffer
<1>16. UnknownIsFresh'
  <2> SUFFICES ASSUME NEW y \in Keys, y > made \/ Waiting(y)' PROVE Fresh(y)'
    BY <1>1 DEF UnknownIsFresh
  <2>1. y # x
    <3>1. y = x => ~(y > made)
      BY <1>4 DEF Keys, IInv, MadeCounted
    <3> QED
      BY <1>13, <3>1
  <2>2. Fresh(y)
    BY <1>13 DEF Uninterrupted, UnknownIsFresh
  <2>3. y \notin Known'
    BY <1>9, <1>12, <2>1, <2>2 DEF Fresh, Known
  <2> QED
    BY <1>8, <1>12, <2>1, <2>2, <2>3 DEF Fresh
<1>17. KnownIsAtHome'
  <2> SUFFICES ASSUME NEW y \in Known' PROVE AtHome(y)'
    BY DEF KnownIsAtHome
  <2>1. CASE y \in Known
    <3>1. y # x
      BY <1>5, <2>1 DEF Fresh
    <3> QED
      BY <1>8, <1>12, <2>1, <3>1 DEF Uninterrupted, KnownIsAtHome, AtHome
  <2>2. CASE y = x
    <3>1. y = i
      <4>1. y \in DOMAIN lines' /\ y \notin DOMAIN lines
        BY <1>5, <1>12, <2>2 DEF Known, Fresh
      <4> QED
        BY <1>9, <4>1
    <3> QED
      BY <1>0, <1>4, <1>5, <1>8, <1>12, <2>2, <3>1 DEF Fresh, AtHome
  <2>3. CASE y \notin Known /\ y # x
    <3>1. y = i /\ y \notin DOMAIN lines
      BY <1>9, <1>12, <2>3 DEF Known
    <3>2. y \notin Keys \cup {NoKey}
      BY <1>9, <2>3, <3>1
    <3> QED
      BY <1>8, <1>12, <2>3, <3>2 DEF AtHome, Uninterrupted, KeysAreOfAdds
  <2> QED
    BY <2>1, <2>2, <2>3
<1>18. AnswerPlacesTheAdd'
  <2>1. x \notin DOMAIN lines
    BY <1>5 DEF Fresh, Known
  <2>2. x \in DOMAIN lines' => i = x
    BY <1>9, <2>1
  <2>3. \A s \in sources' : s.key = x => s.line = i
    BY <1>5, <1>8 DEF Fresh
  <2>4. x \notin Renamed' /\ x \notin Cached'
    BY <1>5, <1>12 DEF Fresh, Known
  <2> QED
    BY <1>1, <1>11, <2>2, <2>3, <2>4 DEF AnswerPlacesTheAdd, x
<1>19. FollowUpsAreSettled'
  <2> SUFFICES ASSUME NEW j \in 1..Len(pending), pending[j].kind # "add"
               PROVE  /\ pending[j].line # NoKey
                      /\ AddAhead(pending[j].line, j)' \/ Settled(pending[j].line)'
    BY <1>1 DEF FollowUpsAreSettled
  <2>1. /\ pending[j].line # NoKey
        /\ AddAhead(pending[j].line, j) \/ Settled(pending[j].line)
    BY DEF Uninterrupted, FollowUpsAreSettled
  <2>2. CASE pending[j].line = x
    <3>1. 1 \in 1..j
      BY <1>2
    <3> QED
      BY <1>1, <1>4, <2>1, <2>2, <3>1 DEF AddAhead, x
  <2>3. CASE pending[j].line # x
    BY <1>1, <1>8, <1>12, <2>1, <2>3 DEF AddAhead, Settled
  <2> QED
    BY <2>2, <2>3
<1>20. MissingIsGone'
  BY <1>11 DEF MissingIsGone
<1> QED
  BY <1>14, <1>15, <1>16, <1>17, <1>18, <1>19, <1>20 DEF Uninterrupted

(* What everybody else does to the server's list. *)
LEMMA OthersAreForeign ==
    ASSUME LinesInv, Others
    PROVE  /\ \A x \in DOMAIN lines' : x \in DOMAIN lines \/ x \notin Keys \cup {NoKey}
           /\ \A s \in sources' : s \in sources \/ s.key = NoKey
<1>0. \A m \in Nat : MaxOps + m + 1 \notin Keys \cup {NoKey}
  BY BoundsAssumption DEF NoKey, Keys
<1>1. ASSUME NEW n, NEW i, EnsureLine(n, NoKey, i)
      PROVE  \A x \in DOMAIN lines' : x \in DOMAIN lines \/ x \notin Keys \cup {NoKey}
  <2>1. DOMAIN Surface(i) = DOMAIN lines
    BY DEF Surface, LinesInv
  <2>2. DOMAIN Insert(i, n) = DOMAIN lines \cup {i}
    BY DEF Insert
  <2> QED
    BY <1>0, <1>1, <2>1, <2>2 DEF EnsureLine, LinesInv
<1>2. ASSUME NEW n \in Names, OthersAdd(n)
      PROVE  /\ \A x \in DOMAIN lines' : x \in DOMAIN lines \/ x \notin Keys \cup {NoKey}
             /\ \A s \in sources' : s \in sources \/ s.key = NoKey
  <2>1. PICK i : add_adhoc_item(n, NoKey, i)
    BY <1>2 DEF OthersAdd
  <2>2. CASE UNCHANGED <<lines, sources, minted, taken>>
    BY <2>2
  <2>3. CASE EnsureLine(n, NoKey, i) /\ sources' = sources \cup {[line |-> i, key |-> NoKey, row |-> 0]}
    BY <1>1, <2>3
  <2> QED
    BY <2>1, <2>2, <2>3 DEF add_adhoc_item
<1>3. ASSUME NEW n \in Names, AddMeal(n)
      PROVE  /\ \A x \in DOMAIN lines' : x \in DOMAIN lines \/ x \notin Keys \cup {NoKey}
             /\ sources' = sources
  BY <1>1, <1>3 DEF AddMeal
<1>4. ASSUME NEW i, OthersDelete(i) \/ RemoveMeal(i)
      PROVE  DOMAIN lines' \subseteq DOMAIN lines /\ sources' \subseteq sources
  BY <1>4 DEF OthersDelete, RemoveMeal, Without
<1>5. ASSUME NEW i, NEW f, OthersSet(i, f)
      PROVE  DOMAIN lines' = DOMAIN lines /\ sources' = sources
  BY <1>5 DEF OthersSet, SetFlag, LinesInv
<1>6. Archive => lines' = lines /\ sources' = sources
  BY DEF Archive
<1> QED
  BY <1>2, <1>3, <1>4, <1>5, <1>6 DEF Others

LEMMA FollowStep == IInv /\ LinesInv /\ FollowInv /\ [Next]_vars => FollowInv'
<1> SUFFICES ASSUME IInv, LinesInv, FollowInv, [Next]_vars PROVE FollowInv'
  OBVIOUS
<1>1. faults' \in Nat /\ (faults' = 0 => faults = 0)
  <2>1. faults' = faults \/ faults' = faults + 1
    BY DEF Next, User, Deliver, Sync, Others, addAdhoc, toggle, deleteAdhoc, enqueue, DeliverAdd,
           DeliverSet, DeliverDelete, DeliverFetch, DeliverError, HandlerFrame, RunTask, Receive,
           ReceiveList, Refresh, Lose, Restart, OthersAdd, OthersSet, OthersDelete, AddMeal,
           RemoveMeal, Archive, OthersFrame, vars
  <2> QED
    BY <2>1 DEF FollowInv
<1>2. ASSUME ItemsAreItems', QueueIsOfOps', faults' = 0 => Uninterrupted'
       PROVE  FollowInv'
  BY <1>1, <1>2 DEF FollowInv
<1>3. CASE User
  <2>1. PICK op : /\ enqueue(op) /\ op.kind \in {"add", "set", "delete"}
                  /\ \/ op.kind = "add" /\ op.id = made + 1
                     \/ op.kind # "add" /\ \E item \in projectedItems : op.line = item.id
    <3>1. CASE \E n \in Names : addAdhoc(n)
      BY <3>1 DEF addAdhoc
    <3>2. CASE \E item \in projectedItems : deleteAdhoc(item)
      BY <3>2 DEF deleteAdhoc
    <3>3. CASE \E item \in projectedItems : \E f \in Flags : toggle(item, f)
      BY <3>3 DEF toggle
    <3> QED
      BY <1>3, <3>1, <3>2, <3>3 DEF User
  <2>2. \/ op.kind = "add" /\ op.id = made + 1
        \/ /\ op.kind # "add"
           /\ \/ op.line \in Cached
              \/ \E k \in 1..Len(pending) : pending[k].kind = "add" /\ pending[k].id = op.line
    BY <2>1, ProjectedIds DEF FollowInv
  <2>3. UNCHANGED <<cache, sync>> /\ pending' = Append(pending, op)
    BY <2>1 DEF enqueue
  <2>4. QueueIsOfOps'
    <3>1. PICK S : pending \in Seq(S)
      BY DEF IInv, IsQueue
    <3>2. /\ Len(pending') = Len(pending) + 1 /\ Len(pending) \in Nat
          /\ \A j \in 1..Len(pending) : pending'[j] = pending[j]
          /\ pending'[Len(pending) + 1] = op
      BY <2>3, <3>1, Appending
    <3>3. \A j \in 1..Len(pending') : j \in 1..Len(pending) \/ j = Len(pending) + 1
      BY <3>2
    <3> QED
      BY <2>1, <3>2, <3>3 DEF FollowInv, QueueIsOfOps
  <2>5. ItemsAreItems'
    BY <2>3 DEF FollowInv, ItemsAreItems, Fetched
  <2>6. faults' = 0 => Uninterrupted'
    BY <1>1, <2>1, <2>2, EnqueueFollows DEF FollowInv
  <2> QED
    BY <1>2, <2>4, <2>5, <2>6
<1>4. ASSUME pending' = pending, cache' = cache,
             sync'.phase = "fetched" => sync' = sync
      PROVE  ItemsAreItems' /\ QueueIsOfOps'
  BY <1>4 DEF FollowInv, ItemsAreItems, QueueIsOfOps, Fetched
<1>5. CASE DeliverAdd
  <2>1. pending' = pending /\ cache' = cache /\ sync'.phase = "answered"
    BY <1>5 DEF DeliverAdd, HandlerFrame, Answer
  <2>2. faults' = 0 => Uninterrupted'
    BY <1>1, <1>5, AddFollows DEF FollowInv
  <2> QED
    BY <1>2, <1>4, <2>1, <2>2
<1>6. CASE DeliverSet \/ DeliverDelete
  <2>1. /\ UNCHANGED <<pending, cache, made>> /\ sync.phase = "asking" /\ pending # <<>>
        /\ Head(pending).kind # "add" /\ Head(pending) = pending[1]
    BY <1>6, QueueFront DEF DeliverSet, DeliverDelete, Asked, HandlerFrame, IInv, AsksTheFront
  <2>2. PICK result, i : /\ Answer(result, i)
                         /\ result = "missing" => Resolve(pending[1].line) \notin DOMAIN lines
                         /\ DOMAIN lines' \subseteq DOMAIN lines /\ sources' \subseteq sources
    <3>1. CASE DeliverSet
      BY <2>1, <3>1 DEF DeliverSet, SetFlag, LinesInv
    <3>2. CASE DeliverDelete
      BY <2>1, <3>2 DEF DeliverDelete, Without
    <3> QED
      BY <1>6, <3>1, <3>2
  <2>3. sync'.phase = "answered"
    BY <2>2 DEF Answer
  <2>4. faults' = 0 => Uninterrupted'
    BY <1>1, <2>1, <2>2, AnswerFollows DEF FollowInv
  <2> QED
    BY <1>2, <1>4, <2>1, <2>3, <2>4
<1>7. CASE DeliverFetch
  <2>1. /\ sync.phase = "fetching" /\ UNCHANGED <<lines, sources, pending, cache, made>>
        /\ sync' = [phase |-> "fetched", payload |-> Payload]
    BY <1>7 DEF DeliverFetch, HandlerFrame, server
  <2>2. sync'.phase = "fetched" /\ sync'.payload = Payload
    BY <2>1
  <2>3. \A it \in Payload : IsItem(it) /\ it.id \in DOMAIN lines
    BY DEF Payload, IsItem
  <2>4. Fetched' = Payload
    BY <2>2 DEF Fetched
  <2>5. ItemsAreItems' /\ QueueIsOfOps'
    BY <2>1, <2>3, <2>4 DEF FollowInv, ItemsAreItems, QueueIsOfOps
  <2>6. Renamed = {} /\ Renamed' = {} /\ Cached' \subseteq Known
    BY <2>1, <2>2, <2>3, <2>4 DEF Renamed, Mapping, Cached, Known
  <2>7. faults' = 0 => Uninterrupted'
    BY <1>1, <2>1, <2>2, <2>6, SyncSteps DEF FollowInv
  <2> QED
    BY <1>2, <2>5, <2>7
<1>8. CASE (RunTask /\ sync = Idle) \/ Refresh
  <2>1. /\ sync.phase = "idle" /\ UNCHANGED <<lines, sources, pending, cache, made>>
        /\ sync' = [phase |-> IF pending = <<>> THEN "fetching" ELSE "asking", remap |-> <<>>]
    BY <1>8 DEF RunTask, Refresh, Idle, Continue, server
  <2>2. sync'.phase \in {"fetching", "asking"} /\ sync'.remap = <<>>
    BY <2>1
  <2>3. DOMAIN sync'.remap = {}
    BY <2>2
  <2>4. Renamed = {} /\ Renamed' = {} /\ Cached' \subseteq Known
    BY <2>1, <2>2, <2>3 DEF Renamed, Mapping, Cached, Fetched, Known
  <2>5. faults' = 0 => Uninterrupted'
    BY <1>1, <2>1, <2>2, <2>4, SyncSteps DEF FollowInv
  <2> QED
    BY <1>2, <1>4, <2>1, <2>2, <2>5
<1>9. CASE Receive
  <2>1. /\ pending' = Tail(pending) /\ pending # <<>> /\ cache' = cache
        /\ sync'.phase # "fetched"
    BY <1>9 DEF Receive, Continue, IInv, AnswersTheFront
  <2>2. QueueIsOfOps'
    BY <2>1, QueueFront DEF FollowInv, QueueIsOfOps
  <2>3. ItemsAreItems'
    BY <2>1 DEF FollowInv, ItemsAreItems, Fetched
  <2>4. faults' = 0 => Uninterrupted'
    BY <1>1, <1>9, ReceiveFollows DEF FollowInv
  <2> QED
    BY <1>2, <2>2, <2>3, <2>4
<1>10. CASE ReceiveList
  <2>1. /\ sync.phase = "fetched" /\ sync'.phase = "idle" /\ cache' = sync.payload
        /\ UNCHANGED <<lines, sources, pending, made>>
    BY <1>10 DEF ReceiveList, Idle, server
  <2>2. Fetched = sync.payload /\ Fetched' = {}
    BY <2>1 DEF Fetched
  <2>3. ItemsAreItems' /\ QueueIsOfOps'
    BY <2>1, <2>2 DEF FollowInv, ItemsAreItems, QueueIsOfOps
  <2>4. Renamed = {} /\ Renamed' = {} /\ Cached' \subseteq Known
    BY <2>1, <2>2 DEF Renamed, Mapping, Cached, Known
  <2>5. faults' = 0 => Uninterrupted'
    BY <1>1, <2>1, <2>4, SyncSteps DEF FollowInv
  <2> QED
    BY <1>2, <2>3, <2>5
<1>11. CASE DeliverError \/ Lose \/ Restart
  <2>1. /\ faults' = faults + 1 /\ pending' = pending /\ cache' = cache
        /\ sync'.phase \in {"idle", "answered"}
    BY <1>11 DEF DeliverError, Lose, Restart, Idle, Answer
  <2>2. faults' # 0
    BY <2>1 DEF FollowInv
  <2> QED
    BY <1>2, <1>4, <2>1, <2>2
<1>12. CASE Others
  <2>1. UNCHANGED <<pending, cache, sync, made>>
    BY <1>12 DEF Others, OthersAdd, OthersSet, OthersDelete, AddMeal, RemoveMeal, Archive,
                 OthersFrame, phone
  <2>2. faults' = 0 => Uninterrupted'
    BY <1>1, <1>12, <2>1, OthersAreForeign, ServerSteps DEF FollowInv
  <2> QED
    BY <1>2, <1>4, <2>1, <2>2
<1>13. CASE UNCHANGED vars \/ (RunTask /\ sync # Idle)
  <2>1. UNCHANGED <<pending, cache, sync, made, lines, sources>>
    BY <1>13 DEF vars, phone, server, RunTask
  <2>2. faults' = 0 => Uninterrupted'
    BY <1>1, <2>1, ServerSteps DEF FollowInv
  <2> QED
    BY <1>2, <1>4, <2>1, <2>2
<1> QED
  BY <1>3, <1>5, <1>6, <1>7, <1>8, <1>9, <1>10, <1>11, <1>12, <1>13
     DEF Next, Deliver, Sync

(* sync's id map: an operation on an item added offline reaches the line its *)
(* add went to, for as long as that line is there, whoever else changes the  *)
(* list meanwhile, unless a sync has been interrupted.                       *)
THEOREM FollowUpsFindTheirLine == Spec => []FollowUpsLandUninterrupted
<1>1. Init => FollowInv
  <2> SUFFICES ASSUME Init PROVE FollowInv
    OBVIOUS
  <2>1. /\ DOMAIN lines = {} /\ sources = {} /\ cache = {} /\ made = 0 /\ faults = 0
        /\ Len(pending) = 0 /\ sync.phase = "idle"
    BY DEF Init, Idle
  <2>2. Fetched = {} /\ Cached = {} /\ Known = {} /\ Renamed = {} /\ \A x : ~Waiting(x)
    BY <2>1 DEF Fetched, Cached, Known, Renamed, Mapping, Waiting
  <2>3. 1..Len(pending) = {}
    BY <2>1
  <2> QED
    BY <2>1, <2>2, <2>3 DEF FollowInv, Uninterrupted, ItemsAreItems, QueueIsOfOps, KeysAreOfAdds,
       AddsDiffer, UnknownIsFresh, Fresh, KnownIsAtHome, AnswerPlacesTheAdd, FollowUpsAreSettled,
       MissingIsGone
<1>2. IInv /\ FollowInv => FollowUpsLandUninterrupted
  <2> SUFFICES ASSUME IInv, FollowInv, faults = 0, sync.phase = "answered",
                      sync.answer.result = "missing"
               PROVE  \A s \in sources : s.key # Head(pending).line
    BY DEF FollowUpsLandUninterrupted
  <2>1. Head(pending) = pending[1]
    BY QueueFront DEF IInv, AnswersTheFront
  <2> QED
    BY <2>1 DEF FollowInv, Uninterrupted, MissingIsGone
<1>3. Init => LinesInv
  BY BoundsAssumption DEF Init, LinesInv, CountedOnce, LineOf
<1> QED
  BY <1>1, <1>2, <1>3, Invariance, LinesStep, FollowStep, PTL DEF Spec
=============================================================================
