---------------------------- MODULE OfflineQueue ----------------------------
(***************************************************************************)
(* The shopping list on a phone without signal: operations queue on disk,  *)
(* show at once on top of the cached list, and are replayed in order when  *)
(* the server answers (ios ShoppingListStore.swift), against the list's    *)
(* endpoints and other people using the same list.                         *)
(*                                                                         *)
(* Everything the store does between two awaits is one step: it runs on    *)
(* the main actor.  A request may be lost before or after the server       *)
(* handled it, and the app may be killed at any time; the queue and the    *)
(* cached list survive, the id map of the running sync does not.  Ids are  *)
(* numbers: an add made on this phone has its operation's number, which it *)
(* offers the server as the line's id and as the client key; ids of the    *)
(* server's own are above MaxOps.  A name stands for ingredient and unit.  *)
(***************************************************************************)
EXTENDS Naturals, Sequences, SequencesExt

CONSTANTS
    Names,
    Flags,      \* checked, excluded, staple_needed
    Checked,    \* the flag an add takes away
    MaxOps,     \* bound on what the user does
    MaxOthers,  \* bound on what everybody else does
    MaxFaults   \* bound on lost requests and restarts

ASSUME FlagsAssumption == Checked \in Flags
ASSUME BoundsAssumption == MaxOps \in Nat /\ MaxOthers \in Nat /\ MaxFaults \in Nat

VARIABLES
    lines,    \* the server's lines: list, name, flags that are on
    sources,  \* their hand-added rows: line, client key, row number
    needed,   \* lines a planned meal needs
    live,     \* the number of the live list
    minted,   \* ids the server has made
    pending,  \* the queue on the phone
    cache,    \* the list as last fetched
    sync,     \* the running sync
    tasks,    \* syncs asked for and not yet started
    made, others, faults,
    taken     \* how often each add took effect (history)

server == <<lines, sources, needed, live, minted, taken>>
phone == <<pending, cache, sync, tasks>>
vars == <<server, phone, made, others, faults>>

NoKey == 0
Keys == 1..MaxOps
LineIds == 1..(2 * MaxOps + MaxOthers)
Line == [list : Nat, name : Names, on : SUBSET Flags]
Row == [line : LineIds, key : Keys \cup {NoKey}, row : Nat]
Item == [id : LineIds, name : Names, on : SUBSET Flags, adhoc : BOOLEAN]

Op == [kind : {"add"}, id : Keys, name : Names]
        \cup [kind : {"set"}, line : LineIds, flag : Flags, value : BOOLEAN]
        \cup [kind : {"delete"}, line : LineIds]

Phases == {"idle", "asking", "answered", "fetching", "fetched"}
Idle == [phase |-> "idle"]

TypeOK ==
    /\ DOMAIN lines \subseteq LineIds
    /\ lines \in [DOMAIN lines -> Line]
    /\ sources \subseteq Row
    /\ {s.line : s \in sources} \cup needed \subseteq DOMAIN lines
    /\ live \in Nat /\ minted \in Nat
    /\ pending \in Seq(Op)
    /\ cache \subseteq Item
    /\ sync.phase \in Phases
    /\ sync.phase \in {"asking", "answered"} => pending # <<>>
    /\ tasks \in 0..MaxOps
    /\ made \in 0..MaxOps /\ others \in 0..MaxOthers /\ faults \in 0..MaxFaults
    /\ taken \in [Keys -> Nat]

Init ==
    /\ lines = <<>>
    /\ sources = {} /\ needed = {}
    /\ live = 1 /\ minted = 0
    /\ pending = <<>> /\ cache = {}
    /\ sync = Idle /\ tasks = 0
    /\ made = 0 /\ others = 0 /\ faults = 0
    /\ taken = [k \in Keys |-> 0]

-----------------------------------------------------------------------------
(* What the phone shows: the cached list with the queue applied *)

Apply(items, op) ==
    CASE op.kind = "set" ->
           {IF it.id # op.line THEN it
            ELSE [it EXCEPT !.on = IF op.value THEN @ \cup {op.flag} ELSE @ \ {op.flag}] :
               it \in items}
      [] op.kind = "delete" -> {it \in items : it.id # op.line}
      [] op.kind = "add" /\ (\E it \in items : it.name = op.name) ->
           {IF it.name # op.name THEN it ELSE [it EXCEPT !.on = @ \ {Checked}] : it \in items}
      [] OTHER ->
           items \cup {[id |-> op.id, name |-> op.name, on |-> {}, adhoc |-> TRUE]}

(* the list after the first n operations of the queue *)
shown[n \in 0..Len(pending)] ==
    IF n = 0 THEN cache ELSE Apply(shown[n - 1], pending[n])

projectedItems == shown[Len(pending)]

-----------------------------------------------------------------------------
(* User actions: instant, whatever the connection *)

enqueue(op) ==
    /\ made < MaxOps
    /\ made' = made + 1
    /\ pending' = Append(pending, op)
    /\ tasks' = tasks + 1
    /\ UNCHANGED <<server, cache, sync, others, faults>>

addAdhoc(n) == enqueue([kind |-> "add", id |-> made + 1, name |-> n])

toggle(item, f) ==
    enqueue([kind |-> "set", line |-> item.id, flag |-> f, value |-> f \notin item.on])

deleteAdhoc(item) ==
    /\ item.adhoc
    /\ enqueue([kind |-> "delete", line |-> item.id])

-----------------------------------------------------------------------------
(* sync: up to its next request *)

Continue(queue, remap) ==
    sync' = [phase |-> IF queue = <<>> THEN "fetching" ELSE "asking", remap |-> remap]

(* a task that finds a sync running returns at once *)
RunTask ==
    /\ tasks > 0
    /\ tasks' = tasks - 1
    /\ IF sync = Idle THEN Continue(pending, <<>>) ELSE sync' = sync
    /\ UNCHANGED <<server, pending, cache, made, others, faults>>

(* the list is opened or pulled down *)
Refresh ==
    /\ sync = Idle
    /\ Continue(pending, <<>>)
    /\ UNCHANGED <<server, pending, cache, tasks, made, others, faults>>

Resolve_Forgets(i) == i  \* mutant: follow-ups are sent to the provisional id
Resolve(i) == IF i \in DOMAIN sync.remap THEN sync.remap[i] ELSE i

Remember(op, answer) ==
    IF op.kind = "add" /\ answer.result = "ok" /\ answer.line # op.id
    THEN [i \in DOMAIN sync.remap \cup {op.id} |->
            IF i = op.id THEN answer.line ELSE sync.remap[i]]
    ELSE sync.remap

(* an answer, error answers included, takes the operation off the queue *)
Receive_KeepsRefused ==  \* mutant: a refused operation stays in front
    /\ sync.phase = "answered"
    /\ pending' = IF sync.answer.result = "ok" THEN Tail(pending) ELSE pending
    /\ Continue(pending', Remember(Head(pending), sync.answer))
    /\ UNCHANGED <<server, cache, tasks, made, others, faults>>
Receive ==
    /\ sync.phase = "answered"
    /\ pending' = Tail(pending)
    /\ Continue(pending', Remember(Head(pending), sync.answer))
    /\ UNCHANGED <<server, cache, tasks, made, others, faults>>

ReceiveList ==
    /\ sync.phase = "fetched"
    /\ cache' = sync.payload
    /\ sync' = Idle
    /\ UNCHANGED <<server, pending, tasks, made, others, faults>>

(* no connection, or a credential refused: the sync stops, the queue stays *)
Lose_DropsTheOp ==  \* mutant: an unanswered operation is not tried again
    /\ sync # Idle
    /\ faults < MaxFaults
    /\ faults' = faults + 1
    /\ sync' = Idle
    /\ pending' = IF sync.phase \in {"asking", "answered"} THEN Tail(pending) ELSE pending
    /\ UNCHANGED <<server, cache, tasks, made, others>>
Lose ==
    /\ sync # Idle
    /\ faults < MaxFaults
    /\ faults' = faults + 1
    /\ sync' = Idle
    /\ UNCHANGED <<server, pending, cache, tasks, made, others>>

(* the app is killed and started again *)
Restart ==
    /\ faults < MaxFaults
    /\ faults' = faults + 1
    /\ sync' = Idle
    /\ tasks' = 0
    /\ UNCHANGED <<server, pending, cache, made, others>>

-----------------------------------------------------------------------------
(* The server's handlers (modelled in full in ShoppingList) *)

OnLive(i) == lines[i].list = live
At(n) == {i \in DOMAIN lines : OnLive(i) /\ lines[i].name = n}
Adhoc(i) == {s \in sources : s.line = i}

Without(i) ==
    /\ lines' = [j \in DOMAIN lines \ {i} |-> lines[j]]
    /\ sources' = {s \in sources : s.line # i}

Surface(i) == [lines EXCEPT ![i].on = @ \ {Checked}]
Insert(i, n) ==
    [j \in DOMAIN lines \cup {i} |->
       IF j = i THEN [list |-> live, name |-> n, on |-> {}] ELSE lines[j]]

Count(k) == IF k = NoKey THEN taken ELSE [taken EXCEPT ![k] = @ + 1]

Replayed_Never(k) == {}  \* mutant: the client key is not looked up
Replayed(k) == {s.line : s \in {x \in sources : x.key = k /\ k # NoKey /\ OnLive(x.line)}}

(* the name has its line, or gets one: with the id offered if that is free *)
EnsureLine(n, k, i) ==
    \/ /\ i \in At(n)
       /\ lines' = Surface(i)
       /\ UNCHANGED minted
    \/ /\ At(n) = {}
       /\ k # NoKey /\ k \notin DOMAIN lines
       /\ i = k
       /\ lines' = Insert(i, n)
       /\ UNCHANGED minted
    \/ /\ At(n) = {}
       /\ k = NoKey \/ k \in DOMAIN lines
       /\ i = MaxOps + minted + 1
       /\ lines' = Insert(i, n)
       /\ minted' = minted + 1

(* POST /shopping-list/items, answered with line i *)
add_adhoc_item(n, k, i) ==
    \/ i \in Replayed(k) /\ UNCHANGED <<lines, sources, minted, taken>>
    \/ /\ Replayed(k) = {}
       /\ EnsureLine(n, k, i)
       /\ taken' = Count(k)
       /\ sources' = sources \cup
            {[line |-> i, key |-> k, row |-> IF k = NoKey THEN 0 ELSE taken'[k]]}

SetFlag(i, f, value) ==
    lines' = [lines EXCEPT ![i].on = IF value THEN @ \cup {f} ELSE @ \ {f}]

Payload ==
    {[id |-> i, name |-> lines[i].name, on |-> lines[i].on, adhoc |-> i \notin needed] :
        i \in {j \in DOMAIN lines : OnLive(j)}}

Answer(result, i) == sync' = [phase |-> "answered", remap |-> sync.remap,
                              answer |-> [result |-> result, line |-> i]]
Asked(kind) == sync.phase = "asking" /\ Head(pending).kind = kind
HandlerFrame == UNCHANGED <<live, pending, cache, tasks, made, others, faults>>

DeliverAdd ==
    /\ Asked("add")
    /\ \E i \in LineIds :
         /\ add_adhoc_item(Head(pending).name, Head(pending).id, i)
         /\ Answer("ok", i)
    /\ UNCHANGED needed
    /\ HandlerFrame

(* lines of archived lists are found too *)
DeliverSet ==
    LET op == Head(pending)
        i == Resolve(op.line) IN
    /\ Asked("set")
    /\ IF i \in DOMAIN lines
       THEN SetFlag(i, op.flag, op.value) /\ Answer("ok", i)
       ELSE Answer("missing", i) /\ UNCHANGED lines
    /\ UNCHANGED <<sources, needed, minted, taken>>
    /\ HandlerFrame

DeliverDelete ==
    LET i == Resolve(Head(pending).line) IN
    /\ Asked("delete")
    /\ \/ i \notin DOMAIN lines /\ Answer("missing", i) /\ UNCHANGED <<lines, sources>>
       \/ i \in needed /\ Answer("needed", i) /\ UNCHANGED <<lines, sources>>
       \/ i \in DOMAIN lines \ needed /\ Answer("ok", i) /\ Without(i)
    /\ UNCHANGED <<needed, minted, taken>>
    /\ HandlerFrame

(* an error of the server's own: nothing was changed *)
DeliverError ==
    /\ sync.phase = "asking"
    /\ faults < MaxFaults
    /\ faults' = faults + 1
    /\ Answer("error", 0)
    /\ UNCHANGED <<server, pending, cache, tasks, made, others>>

DeliverFetch ==
    /\ sync.phase = "fetching"
    /\ sync' = [phase |-> "fetched", payload |-> Payload]
    /\ UNCHANGED server
    /\ HandlerFrame

-----------------------------------------------------------------------------
(* Everybody else on the same list *)

OthersFrame ==
    /\ others < MaxOthers
    /\ others' = others + 1
    /\ UNCHANGED <<phone, made, faults>>

OthersAdd(n) ==
    /\ \E i \in LineIds : add_adhoc_item(n, NoKey, i)
    /\ UNCHANGED <<needed, live>>
    /\ OthersFrame

OthersSet(i, f) ==
    /\ i \in DOMAIN lines /\ OnLive(i)
    /\ SetFlag(i, f, f \notin lines[i].on)
    /\ UNCHANGED <<sources, needed, live, minted, taken>>
    /\ OthersFrame

OthersDelete(i) ==
    /\ i \in DOMAIN lines \ needed /\ OnLive(i)
    /\ Without(i)
    /\ UNCHANGED <<needed, live, minted, taken>>
    /\ OthersFrame

AddMeal(n) ==
    /\ At(n) \cap needed = {}
    /\ \E i \in LineIds : EnsureLine(n, NoKey, i) /\ needed' = needed \cup {i}
    /\ UNCHANGED <<sources, live, taken>>
    /\ OthersFrame

RemoveMeal(i) ==
    /\ i \in needed /\ OnLive(i)
    /\ needed' = needed \ {i}
    /\ IF Adhoc(i) = {} THEN Without(i) ELSE UNCHANGED <<lines, sources>>
    /\ UNCHANGED <<live, minted, taken>>
    /\ OthersFrame

(* this phone's finishShop included, which archives before the queue drains *)
Archive ==
    /\ live' = live + 1
    /\ UNCHANGED <<lines, sources, needed, minted, taken>>
    /\ OthersFrame

-----------------------------------------------------------------------------
User ==
    \/ \E n \in Names : addAdhoc(n)
    \/ \E item \in projectedItems : deleteAdhoc(item) \/ \E f \in Flags : toggle(item, f)

Deliver == DeliverAdd \/ DeliverSet \/ DeliverDelete \/ DeliverFetch
Sync == RunTask \/ Receive \/ ReceiveList

Others ==
    \/ \E n \in Names : OthersAdd(n) \/ AddMeal(n)
    \/ \E i \in LineIds : OthersDelete(i) \/ RemoveMeal(i) \/ \E f \in Flags : OthersSet(i, f)
    \/ Archive

Next == User \/ Deliver \/ DeliverError \/ Sync \/ Refresh \/ Lose \/ Restart \/ Others

Spec == Init /\ [][Next]_vars

(* The app runs what it started and the server answers. *)
TaskSpec == Spec /\ WF_vars(Sync) /\ WF_vars(Deliver)

(* The user also comes back to the list. *)
FairSpec == TaskSpec /\ WF_vars(Refresh)

-----------------------------------------------------------------------------
(* Properties *)

(* What was typed is not lost: an add leaves the queue only once the server  *)
(* has recorded it, or refused it in so many words, through lost answers,    *)
(* restarts and syncs started over.                                          *)
AddsReachTheServer ==
    [][\A op \in ToSet(pending) :
         op.kind = "add" /\ op \notin ToSet(pending') =>
            \/ taken[op.id] > 0
            \/ sync.phase = "answered" /\ sync.answer.result = "error"]_vars

(* A retried add counts once on a list (the client key of add_adhoc_item).   *)
CountedOnce ==
    \A s, t \in sources :
        s.key = t.key /\ s.key # NoKey /\ lines[s.line].list = lines[t.line].list => s = t

(* An operation on an item added offline finds the line the add went to, for *)
(* as long as that line is there and no sync has been interrupted (the id    *)
(* map of sync).                                                             *)
FollowUpsLandUninterrupted ==
    faults = 0 /\ sync.phase = "answered" /\ sync.answer.result = "missing" =>
        \A s \in sources : s.key # Head(pending).line

(* The queue drains, whatever the server refuses.                            *)
QueueDrains == []<>(pending = <<>>)
=============================================================================
