---------------------------- MODULE CookedHistory ----------------------------
(***************************************************************************)
(* Marking a planned meal cooked and taking it back: the durable events    *)
(* and the counters on meals and recipes recomputed from them, with        *)
(* several requests in flight (services/cooking.py, routers/plans.py).     *)
(*                                                                         *)
(* A request is a transaction at READ COMMITTED: it reads the plan (and    *)
(* with it the meals and recipes in it), then writes the plan meal, where  *)
(* it waits for whoever wrote that row and has not committed, then counts  *)
(* the events it can see, subject by subject, then commits what it wrote.  *)
(* A request that finds nothing to do writes nothing and is left out.  An  *)
(* event keeps its subject's name (`what') when the reference (`of') is    *)
(* set null.                                                               *)
(***************************************************************************)
EXTENDS Naturals, FiniteSetsExt

CONSTANTS
    Meals, Recipes, Plans,
    Compositions,  \* the sets of recipes a meal may hold
    Requests,      \* requests that may be in flight together
    Gone,          \* a reference set null
    MaxMarks       \* bound on cookings ever started; also the clock

ASSUME SubjectsAssumption ==
    /\ Meals \cap Recipes = {}
    /\ Gone \notin Meals \cup Recipes
    /\ Compositions \subseteq SUBSET Recipes
ASSUME MaxMarksAssumption == MaxMarks \in Nat

Subject == Meals \cup Recipes
PlanMeal == Plans \X Meals
Time == 0..MaxMarks  \* 0 is never

VARIABLES
    meals, recipes,  \* what exists
    composition,     \* the recipes of each meal
    planned,         \* plan meals that exist
    ticked,          \* cooked_at of each plan meal, 0 for null
    events,          \* cooked_events
    times, last,     \* times_cooked, last_cooked_at of meals and recipes
    now,             \* the clock
    tx               \* the requests in flight

kitchen == <<meals, recipes, composition>>
history == <<ticked, events, times, last>>
vars == <<kitchen, planned, history, now, tx>>

Event == [what : Subject, of : Subject \cup {Gone},
          pm : PlanMeal \cup {<<Gone, Gone>>}, at : Time]
NoPlanMeal == <<Gone, Gone>>

-----------------------------------------------------------------------------
Idle == [phase |-> "idle"]

(* what get_plan leaves in the session: the plan's meals, and their recipes *)
Loaded(p) ==
    LET ms == {pm[2] : pm \in {x \in planned : x[1] = p}} IN
    ms \cup UNION {composition[m] : m \in ms}

InFlight == {c \in Requests : tx[c].phase # "idle"}
Writing == {c \in Requests : tx[c].phase = "counting"}
Locked(pm) == \E c \in Writing : tx[c].pm = pm

TypeOK ==
    /\ meals \subseteq Meals
    /\ recipes \subseteq Recipes
    /\ composition \in [Meals -> SUBSET Recipes]
    /\ planned \subseteq PlanMeal
    /\ ticked \in [PlanMeal -> Time]
    /\ events \subseteq Event
    /\ times \in [Subject -> Nat]
    /\ last \in [Subject -> Time]
    /\ now \in Time
    /\ DOMAIN tx = Requests
    /\ \A c \in Requests : tx[c].phase \in {"idle", "read", "counting"}
    /\ \A c \in InFlight : tx[c].pm \in planned
    /\ \A c \in Writing : tx[c].added \cup tx[c].dropped \subseteq Event

Init ==
    /\ meals = Meals
    /\ recipes = Recipes
    /\ composition \in [Meals -> Compositions]
    /\ planned = {}
    /\ ticked = [pm \in PlanMeal |-> 0]
    /\ events = {}
    /\ times = [x \in Subject |-> 0]
    /\ last = [x \in Subject |-> 0]
    /\ now = 0
    /\ tx = [c \in Requests |-> Idle]

-----------------------------------------------------------------------------
(* POST and DELETE /plans/{id}/meals/{plan_meal}/cooked *)

(* the handler up to its first write: what it read decides what it does, the *)
(* timestamp of a marking included                                           *)
Read(c, op, pm) ==
    /\ tx[c].phase = "idle"
    /\ pm \in planned
    /\ tx' = [tx EXCEPT ![c] =
                [phase |-> "read", op |-> op, pm |-> pm, at |-> now',
                 held |-> composition[pm[2]],
                 seen |-> [x \in Loaded(pm[1]) |-> [n |-> times[x], at |-> last[x]]]]]
    /\ UNCHANGED <<kitchen, planned, history>>

MarkCooked(c, pm) ==
    /\ ticked[pm] = 0
    /\ now < MaxMarks
    /\ now' = now + 1
    /\ Read(c, "mark", pm)

UndoMarkCooked(c, pm) ==
    /\ ticked[pm] # 0
    /\ now' = now
    /\ Read(c, "undo", pm)

Write(c, added, dropped, touched) ==
    /\ tx' = [tx EXCEPT ![c] =
                [phase |-> "counting", pm |-> @.pm, seen |-> @.seen,
                 tick |-> IF @.op = "mark" THEN @.at ELSE 0,
                 added |-> added, dropped |-> dropped,
                 todo |-> touched, staged |-> <<>>]]
    /\ UNCHANGED <<kitchen, planned, history, now>>

(* record_cooked: one event for the meal, one for each recipe it held; a     *)
(* recipe deleted since then fails the insert and with it the request        *)
RecordCooked(c) ==
    LET t == tx[c]
        cooked == {t.pm[2]} \cup t.held IN
    /\ t.phase = "read" /\ t.op = "mark"
    /\ ~Locked(t.pm)
    /\ t.held \subseteq recipes
    /\ Write(c, {[what |-> x, of |-> x, pm |-> t.pm, at |-> t.at] : x \in cooked},
             {}, cooked)

(* undo_cooked: the plan meal's events go, whatever the meal holds by now *)
UndoCooked_Held(c) ==  \* mutant: recounts what the meal holds now
    LET t == tx[c] IN
    /\ t.phase = "read" /\ t.op = "undo"
    /\ ~Locked(t.pm)
    /\ Write(c, {}, {e \in events : e.pm = t.pm}, {t.pm[2]} \cup composition[t.pm[2]])
UndoCooked_Everywhere(c) ==  \* mutant: the meal's events of every plan go
    LET t == tx[c]
        own == {e \in events : e.of \in {t.pm[2]} \cup t.held} IN
    /\ t.phase = "read" /\ t.op = "undo"
    /\ ~Locked(t.pm)
    /\ Write(c, {}, own, {e.of : e \in own} \ {Gone})
UndoCooked(c) ==
    LET t == tx[c]
        own == {e \in events : e.pm = t.pm} IN
    /\ t.phase = "read" /\ t.op = "undo"
    /\ ~Locked(t.pm)
    /\ Write(c, {}, own, {e.of : e \in own} \ {Gone})

Put(staged, x, row) ==
    [y \in DOMAIN staged \cup {x} |-> IF y = x THEN row ELSE staged[y]]

(* _refresh: count what the transaction sees of one subject, if it exists *)
Refresh(c, x) ==
    LET t == tx[c]
        own == {e \in (events \ t.dropped) \cup t.added : e.of = x}
        base == IF x \in DOMAIN t.seen THEN t.seen[x] ELSE [n |-> times[x], at |-> last[x]]
        row == [n |-> Cardinality(own), at |-> Max({0} \cup {e.at : e \in own}),
                base |-> base] IN
    /\ t.phase = "counting"
    /\ x \in t.todo
    /\ tx' = [tx EXCEPT ![c].todo = @ \ {x},
                        ![c].staged = IF x \in meals \cup recipes THEN Put(@, x, row) ELSE @]
    /\ UNCHANGED <<kitchen, planned, history, now>>

(* The UPDATEs carry only the columns that differ from what was loaded; one  *)
(* of a row that is gone by then fails the request.                          *)
Commit(c) ==
    LET t == tx[c]
        Set(x, col, old) ==
            IF x \in DOMAIN t.staged /\ t.staged[x][col] # t.staged[x].base[col]
            THEN t.staged[x][col] ELSE old IN
    /\ t.phase = "counting" /\ t.todo = {}
    /\ DOMAIN t.staged \subseteq meals \cup recipes
    /\ ticked' = [ticked EXCEPT ![t.pm] = t.tick]
    /\ events' = (events \ t.dropped) \cup t.added
    /\ times' = [x \in Subject |-> Set(x, "n", times[x])]
    /\ last' = [x \in Subject |-> Set(x, "at", last[x])]
    /\ tx' = [tx EXCEPT ![c] = Idle]
    /\ UNCHANGED <<kitchen, planned, now>>

(* a request that fails, as a deadlock's victim or with its connection, rolls *)
(* back                                                                       *)
Abort(c) ==
    /\ tx[c].phase # "idle"
    /\ tx' = [tx EXCEPT ![c] = Idle]
    /\ UNCHANGED <<kitchen, planned, history, now>>

-----------------------------------------------------------------------------
(* The rest of the kitchen, as far as the history sees it.  A request that   *)
(* read a plan meal which is gone when it writes fails.                      *)

FailReaders(pms) ==
    tx' = [c \in Requests |->
             IF tx[c].phase # "idle" /\ tx[c].pm \in pms THEN Idle ELSE tx[c]]

AddMeal(p, m) ==
    /\ m \in meals
    /\ <<p, m>> \notin planned
    /\ planned' = planned \cup {<<p, m>>}
    /\ UNCHANGED <<kitchen, history, now, tx>>

Unplan(e, pms) == IF e.pm \in pms THEN [e EXCEPT !.pm = NoPlanMeal] ELSE e
Forget(e, x) == IF e.of = x THEN [e EXCEPT !.of = Gone] ELSE e

RemoveMeal_Cascades(pm) ==  \* mutant: the events go with the plan meal
    /\ pm \in planned
    /\ ~Locked(pm)
    /\ planned' = planned \ {pm}
    /\ ticked' = [ticked EXCEPT ![pm] = 0]
    /\ events' = {e \in events : e.pm # pm}
    /\ FailReaders({pm})
    /\ UNCHANGED <<kitchen, times, last, now>>
RemoveMeal(pm) ==
    /\ pm \in planned
    /\ ~Locked(pm)
    /\ planned' = planned \ {pm}
    /\ ticked' = [ticked EXCEPT ![pm] = 0]
    /\ events' = {Unplan(e, {pm}) : e \in events}
    /\ FailReaders({pm})
    /\ UNCHANGED <<kitchen, times, last, now>>

UpdateMeal(m, rs) ==
    /\ m \in meals
    /\ rs \subseteq recipes
    /\ composition' = [composition EXCEPT ![m] = rs]
    /\ UNCHANGED <<meals, recipes, planned, history, now, tx>>

DeleteMeal(m) ==
    LET own == {pm \in planned : pm[2] = m} IN
    /\ m \in meals
    /\ \A pm \in own : ~Locked(pm)
    /\ meals' = meals \ {m}
    /\ composition' = [composition EXCEPT ![m] = {}]
    /\ planned' = planned \ own
    /\ ticked' = [pm \in PlanMeal |-> IF pm \in own THEN 0 ELSE ticked[pm]]
    /\ events' = {Forget(Unplan(e, own), m) : e \in events}
    /\ FailReaders(own)
    /\ UNCHANGED <<recipes, times, last, now>>

(* refused while a meal uses it; waits for uncommitted events that name it *)
DeleteRecipe(r) ==
    /\ r \in recipes
    /\ \A m \in meals : r \notin composition[m]
    /\ \A c \in Writing : \A e \in tx[c].added \cup tx[c].dropped : e.of # r
    /\ recipes' = recipes \ {r}
    /\ events' = {Forget(e, r) : e \in events}
    /\ UNCHANGED <<meals, composition, planned, ticked, times, last, now, tx>>

-----------------------------------------------------------------------------
RequestNext ==
    \E c \in Requests :
        \/ \E pm \in PlanMeal : MarkCooked(c, pm) \/ UndoMarkCooked(c, pm)
        \/ RecordCooked(c)
        \/ UndoCooked(c)
        \/ \E x \in Subject : Refresh(c, x)
        \/ Commit(c)
        \/ Abort(c)

KitchenNext ==
    \/ \E p \in Plans, m \in Meals : AddMeal(p, m)
    \/ \E pm \in PlanMeal : RemoveMeal(pm)
    \/ \E m \in Meals : DeleteMeal(m) \/ \E rs \in Compositions : UpdateMeal(m, rs)
    \/ \E r \in Recipes : DeleteRecipe(r)

Next == RequestNext \/ KitchenNext

Spec == Init /\ [][Next]_vars

-----------------------------------------------------------------------------
(* Properties *)

EventsOf(x) == {e \in events : e.of = x}

(* A plan meal is ticked exactly when the record holds a cooking of it, and  *)
(* its date is one of that record's, however marks, undos and edits overlap. *)
TickedIffRecorded ==
    \A pm \in PlanMeal :
        LET own == {e \in events : e.pm = pm} IN
        /\ ticked[pm] = 0 <=> own = {}
        /\ ticked[pm] # 0 => \E e \in own : e.what = pm[2] /\ e.at = ticked[pm]

(* The counters are what the events say (services/cooking.py).               *)
CountersMatchEvents ==
    \A x \in meals \cup recipes :
        /\ times[x] = Cardinality(EventsOf(x))
        /\ last[x] = Max({0} \cup {e.at : e \in EventsOf(x)})

(* Tidying up never takes from the record: an event leaves it only when its  *)
(* plan meal is still planned and is being unticked.                         *)
HistoryKept ==
    [][\A e \in events :
         (\A f \in events' : f.what # e.what \/ f.at # e.at) =>
            e.pm \in planned' /\ ticked'[e.pm] = 0]_vars
=============================================================================
