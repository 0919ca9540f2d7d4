-------------------------- MODULE CookedHistory_proofs --------------------------
(***************************************************************************)
(* For any number of requests in flight, meals, recipes and plans: the     *)
(* tick on a plan meal and the record of its cooking agree, nothing that   *)
(* is tidied up takes a cooking from the record, and the counters are what *)
(* the record says as long as requests come in turn.                       *)
(***************************************************************************)
EXTENDS CookedInTurn, FiniteSetTheorems, FunctionTheorems, TLAPS

(* The inductive invariant.  The row lock gives each plan meal one writer,   *)
(* and that writer holds either the new events, the meal's own among them,   *)
(* or exactly the events the plan meal has.                                  *)
Marking(t) ==
    /\ t.tick \in Time \ {0}
    /\ t.dropped = {}
    /\ \A e \in t.added : e.pm = t.pm
    /\ \E e \in t.added : e.what = t.pm[2] /\ e.at = t.tick

Unmarking(t) ==
    /\ t.tick = 0
    /\ t.added = {}
    /\ t.dropped = {e \in events : e.pm = t.pm}

Fields == {"phase", "pm", "seen", "tick", "added", "dropped", "todo", "staged"}

(* an event about a meal is about its plan meal's *)
OwnMeal(e) == e.pm # NoPlanMeal /\ e.of \in Meals => e.of = e.pm[2]

Typed ==
    /\ composition \in [Meals -> SUBSET Recipes]
    /\ planned \subseteq PlanMeal
    /\ ticked \in [PlanMeal -> Time]
    /\ events \subseteq Event
    /\ \A e \in events : OwnMeal(e)
    /\ now \in Time
    /\ tx = [c \in Requests |-> tx[c]]
    /\ \A c \in Requests : tx[c].phase \in {"idle", "read", "counting"}
    /\ \A c \in InFlight : tx[c].pm \in planned
    /\ \A c \in Requests : tx[c].phase = "read" =>
          /\ tx[c].op \in {"mark", "undo"}
          /\ tx[c].op = "mark" => tx[c].at \in Time \ {0} /\ tx[c].held \subseteq Recipes
    /\ \A c \in Writing :
          /\ DOMAIN tx[c] = Fields
          /\ tx[c].added \subseteq Event
          /\ \A e \in tx[c].added : OwnMeal(e)

OneWriter == \A c, d \in Writing : tx[c].pm = tx[d].pm => c = d
Writers == \A c \in Writing : Marking(tx[c]) \/ Unmarking(tx[c])

IInv == Typed /\ OneWriter /\ Writers /\ TickedIffRecorded

LEMMA NoPlanMealIsNone == NoPlanMeal \notin PlanMeal
BY SubjectsAssumption DEF NoPlanMeal, PlanMeal

(* Steps that only move one request on, or end it without a write. *)
LEMMA RequestStep ==
    ASSUME IInv, NEW c \in Requests, NEW t, tx' = [tx EXCEPT ![c] = t],
           UNCHANGED <<composition, planned, ticked, events>>, now' \in Time,
           t.phase \in {"idle", "read", "counting"},
           t.phase # "idle" => t.pm \in planned,
           t.phase = "read" =>
              /\ t.op \in {"mark", "undo"}
              /\ t.op = "mark" => t.at \in Time \ {0} /\ t.held \subseteq Recipes,
           t.phase = "counting" =>
              /\ DOMAIN t = Fields
              /\ t.added \subseteq Event
              /\ \A e \in t.added : OwnMeal(e)
              /\ Marking(t) \/ Unmarking(t)
              /\ \A d \in Writing : d # c => tx[d].pm # t.pm
    PROVE  IInv'
<1>1. tx'[c] = t /\ \A d \in Requests : d # c => tx'[d] = tx[d]
  BY DEF IInv, Typed
<1>2. tx' = [d \in Requests |-> tx'[d]]
  BY DEF IInv, Typed
<1>3. \A d \in Requests : d # c => (d \in Writing' <=> d \in Writing)
                                   /\ (d \in InFlight' <=> d \in InFlight)
  BY <1>1 DEF Writing, InFlight
<1>4. /\ c \in Writing' <=> t.phase = "counting"
      /\ c \in InFlight' <=> t.phase # "idle"
      /\ Writing' \subseteq Requests /\ InFlight' \subseteq Requests
  BY <1>1 DEF Writing, InFlight
<1>5. Typed'
  BY <1>1, <1>2, <1>3, <1>4 DEF IInv, Typed
<1>6. OneWriter'
  BY <1>1, <1>3, <1>4 DEF IInv, OneWriter
<1>7. Writers'
  BY <1>1, <1>3, <1>4 DEF IInv, Writers, Marking, Unmarking
<1>8. TickedIffRecorded'
  BY DEF IInv, TickedIffRecorded
<1> QED
  BY <1>5, <1>6, <1>7, <1>8 DEF IInv

(* The plan meals `gone' leave with their ticks; their events stay without    *)
(* one, and no event of a plan meal somebody is writing is touched.           *)
LEMMA RemovalStep ==
    ASSUME IInv, NEW gone \in SUBSET planned, NEW F \in [events -> Event],
           \A pm \in gone : ~Locked(pm),
           FailReaders(gone), composition' \in [Meals -> SUBSET Recipes],
           planned' = planned \ gone, now' = now,
           ticked' = [pm \in PlanMeal |-> IF pm \in gone THEN 0 ELSE ticked[pm]],
           events' = {F[e] : e \in events},
           \A e \in events :
              /\ OwnMeal(F[e])
              /\ F[e].what = e.what /\ F[e].at = e.at
              /\ F[e].pm = IF e.pm \in gone THEN NoPlanMeal ELSE e.pm
              /\ Locked(e.pm) => F[e] = e
    PROVE  IInv'
<1>1. \A c \in Requests : tx'[c] = tx[c] \/ tx'[c] = Idle
  BY DEF FailReaders
<1>2. \A c \in InFlight' : tx'[c] = tx[c] /\ tx[c].pm \in planned' /\ c \in InFlight
  BY DEF FailReaders, Idle, InFlight, IInv, Typed
<1>3. Writing' = Writing /\ \A c \in Writing : tx'[c] = tx[c]
  <2>1. \A c \in Writing : tx'[c] = tx[c]
    BY DEF FailReaders, Writing, Locked
  <2>2. \A c \in Requests \ Writing : tx'[c].phase # "counting"
    BY <1>1 DEF Idle, Writing
  <2> QED
    BY <2>1, <2>2 DEF Writing
<1>4. tx' = [c \in Requests |-> tx'[c]]
  BY DEF FailReaders
<1>5. ticked' \in [PlanMeal -> Time]
  BY MaxMarksAssumption DEF IInv, Typed, Time
<1>6. events' \subseteq Event /\ \A e \in events' : OwnMeal(e)
  OBVIOUS
<1>7. Typed'
  <2>1. \A c \in Requests : tx'[c].phase \in {"idle", "read", "counting"}
    BY <1>1 DEF Idle, IInv, Typed
  <2>2. \A c \in Requests : tx'[c].phase = "read" => tx'[c] = tx[c]
    BY <1>1 DEF Idle
  <2> QED
    BY <1>2, <1>3, <1>4, <1>5, <1>6, <2>1, <2>2 DEF IInv, Typed
<1>8. OneWriter'
  BY <1>3 DEF IInv, OneWriter
<1>9. Writers'
  <2> SUFFICES ASSUME NEW c \in Writing PROVE Marking(tx[c]) \/ Unmarking(tx[c])'
    BY <1>3 DEF Writers, Marking, Unmarking
  <2>1. CASE Marking(tx[c])
    BY <2>1
  <2>2. CASE Unmarking(tx[c])
    <3>1. Locked(tx[c].pm) /\ tx[c].pm \in planned /\ tx[c].pm \notin gone
      BY DEF Locked, IInv, Typed, Writing, InFlight
    <3>2. {e \in events' : e.pm = tx[c].pm} = {e \in events : e.pm = tx[c].pm}
      BY <3>1, NoPlanMealIsNone DEF IInv, Typed
    <3> QED
      BY <1>3, <2>2, <3>2 DEF Unmarking
  <2> QED
    BY <2>1, <2>2 DEF IInv, Writers
<1>10. TickedIffRecorded'
  <2> SUFFICES ASSUME NEW pm \in PlanMeal
               PROVE  LET own == {e \in events' : e.pm = pm} IN
                      /\ ticked'[pm] = 0 <=> own = {}
                      /\ ticked'[pm] # 0 => \E e \in own : e.what = pm[2] /\ e.at = ticked'[pm]
    BY DEF TickedIffRecorded
  <2>1. CASE pm \in gone
    BY <2>1, NoPlanMealIsNone
  <2>2. CASE pm \notin gone
    <3>1. \A e \in events : F[e].pm = pm <=> e.pm = pm
      BY <2>2, NoPlanMealIsNone
    <3>2. ticked'[pm] = ticked[pm]
      BY <2>2
    <3> QED
      BY <3>1, <3>2 DEF IInv, TickedIffRecorded
  <2> QED
    BY <2>1, <2>2
<1> QED
  BY <1>7, <1>8, <1>9, <1>10 DEF IInv

(* The write that commits: the plan meal's tick and its events change        *)
(* together, and nobody else holds either.                                   *)
LEMMA CommitStep ==
    ASSUME IInv, NEW c \in Requests, Commit(c)
    PROVE  IInv'
<1> DEFINE t == tx[c]
           After == (events \ t.dropped) \cup t.added
<1>1. c \in Writing /\ c \in InFlight /\ t.pm \in planned /\ t.pm \in PlanMeal
  BY DEF Commit, Writing, InFlight, IInv, Typed
<1>2. /\ tx'[c] = Idle
      /\ \A d \in Requests : d # c => tx'[d] = tx[d]
      /\ tx' = [d \in Requests |-> tx'[d]]
  BY DEF Commit, IInv, Typed
<1>3. Writing' = Writing \ {c} /\ InFlight' \subseteq InFlight
  BY <1>2 DEF Writing, InFlight, Idle
<1>4. events' = After /\ ticked' = [ticked EXCEPT ![t.pm] = t.tick]
  BY DEF Commit
<1>5. Marking(t) \/ Unmarking(t)
  BY <1>1 DEF IInv, Writers
<1>6. \A e \in Event : e.pm # t.pm => (e \in events' <=> e \in events)
  BY <1>4, <1>5 DEF Marking, Unmarking
<1>7. Typed'
  <2>1. t.tick \in Time
    BY <1>5, MaxMarksAssumption DEF Marking, Unmarking, Time
  <2>2. ticked' \in [PlanMeal -> Time]
    BY <1>4, <2>1 DEF IInv, Typed
  <2>3. events' \subseteq Event /\ \A e \in events' : OwnMeal(e)
    BY <1>1, <1>4 DEF IInv, Typed
  <2>4. \A d \in Requests : /\ tx'[d].phase \in {"idle", "read", "counting"}
                            /\ tx'[d].phase = "read" => tx'[d] = tx[d]
    BY <1>2 DEF Idle, IInv, Typed
  <2>5. \A d \in InFlight' : tx'[d] = tx[d]
    BY <1>2 DEF InFlight, Idle
  <2>6. \A d \in Writing' : tx'[d] = tx[d]
    BY <1>2, <1>3 DEF Writing
  <2>7. UNCHANGED <<composition, planned, now>>
    BY DEF Commit, kitchen
  <2> QED
    BY <1>2, <1>3, <2>2, <2>3, <2>4, <2>5, <2>6, <2>7 DEF IInv, Typed
<1>8. OneWriter'
  BY <1>2, <1>3 DEF IInv, OneWriter, Writing
<1>9. Writers'
  <2> SUFFICES ASSUME NEW d \in Writing, d # c PROVE (Marking(tx[d]) \/ Unmarking(tx[d]))'
    BY <1>3 DEF Writers
  <2>1. tx'[d] = tx[d] /\ tx[d].pm # t.pm
    BY <1>1, <1>2 DEF Writing, IInv, OneWriter
  <2>2. CASE Marking(tx[d])
    BY <2>1, <2>2 DEF Marking
  <2>3. CASE Unmarking(tx[d])
    <3>1. events \subseteq Event /\ events' \subseteq Event
      BY <1>7 DEF IInv, Typed
    <3>2. {e \in events' : e.pm = tx[d].pm} = {e \in events : e.pm = tx[d].pm}
      BY <1>6, <2>1, <3>1
    <3> QED
      BY <2>1, <2>3, <3>2 DEF Unmarking
  <2> QED
    BY <2>2, <2>3 DEF IInv, Writers
<1>10. TickedIffRecorded'
  <2> SUFFICES ASSUME NEW pm \in PlanMeal
               PROVE  LET own == {e \in events' : e.pm = pm} IN
                      /\ ticked'[pm] = 0 <=> own = {}
                      /\ ticked'[pm] # 0 => \E e \in own : e.what = pm[2] /\ e.at = ticked'[pm]
    BY DEF TickedIffRecorded
  <2>1. CASE pm = t.pm
    <3>1. ticked'[pm] = t.tick
      BY <1>4, <2>1 DEF IInv, Typed
    <3>2. CASE Marking(t)
      BY <1>4, <2>1, <3>1, <3>2 DEF Marking
    <3>3. CASE Unmarking(t)
      BY <1>4, <2>1, <3>1, <3>3 DEF Unmarking
    <3> QED
      BY <1>5, <3>2, <3>3
  <2>2. CASE pm # t.pm
    <3>1. ticked'[pm] = ticked[pm]
      BY <1>4, <2>2 DEF IInv, Typed
    <3>2. {e \in events' : e.pm = pm} = {e \in events : e.pm = pm}
      BY <1>6, <1>7, <2>2 DEF IInv, Typed
    <3> QED
      BY <3>1, <3>2 DEF IInv, TickedIffRecorded
  <2> QED
    BY <2>1, <2>2
<1> QED
  BY <1>7, <1>8, <1>9, <1>10 DEF IInv

LEMMA RecordCookedStep ==
    ASSUME IInv, NEW c \in Requests, RecordCooked(c)
    PROVE  IInv'
<1> DEFINE t == tx[c]
           cooked == {t.pm[2]} \cup t.held
           added == {[what |-> x, of |-> x, pm |-> t.pm, at |-> t.at] : x \in cooked}
           new == [phase |-> "counting", pm |-> t.pm, seen |-> t.seen, tick |-> t.at,
                   added |-> added, dropped |-> {}, todo |-> cooked, staged |-> <<>>]
<1>1. t.pm \in planned /\ t.pm \in PlanMeal /\ t.at \in Time \ {0} /\ t.held \subseteq Recipes
  BY DEF RecordCooked, InFlight, IInv, Typed
<1>2. tx' = [tx EXCEPT ![c] = new]
  BY DEF RecordCooked, Write, IInv, Typed
<1>3. UNCHANGED <<composition, planned, ticked, events, now>>
  BY DEF RecordCooked, Write, kitchen, history
<1>4. added \subseteq Event /\ \A e \in added : OwnMeal(e)
  BY <1>1, SubjectsAssumption DEF Event, Subject, OwnMeal, PlanMeal
<1>5. Marking(new)
  <2>1. \A e \in added : e.pm = t.pm
    OBVIOUS
  <2>2. [what |-> t.pm[2], of |-> t.pm[2], pm |-> t.pm, at |-> t.at] \in added
    OBVIOUS
  <2>3. \E e \in added : e.what = t.pm[2] /\ e.at = t.at
    BY <2>2
  <2> HIDE DEF added
  <2> QED
    BY <1>1, <2>1, <2>3 DEF Marking
<1>6. \A d \in Writing : d # c => tx[d].pm # t.pm
  BY DEF RecordCooked, Locked
<1>7. now' \in Time
  BY <1>3 DEF IInv, Typed
<1> QED
  BY <1>1, <1>2, <1>3, <1>4, <1>5, <1>6, <1>7, RequestStep DEF Fields

LEMMA UndoCookedStep ==
    ASSUME IInv, NEW c \in Requests, UndoCooked(c)
    PROVE  IInv'
<1> DEFINE t == tx[c]
           own == {e \in events : e.pm = t.pm}
           new == [phase |-> "counting", pm |-> t.pm, seen |-> t.seen, tick |-> 0,
                   added |-> {}, dropped |-> own, todo |-> {e.of : e \in own} \ {Gone},
                   staged |-> <<>>]
<1>1. t.pm \in planned
  BY DEF UndoCooked, InFlight, IInv, Typed
<1>2. tx' = [tx EXCEPT ![c] = new]
  BY DEF UndoCooked, Write, IInv, Typed
<1>3. UNCHANGED <<composition, planned, ticked, events, now>>
  BY DEF UndoCooked, Write, kitchen, history
<1>4. Unmarking(new)
  BY DEF Unmarking
<1>5. \A d \in Writing : d # c => tx[d].pm # t.pm
  BY DEF UndoCooked, Locked
<1>6. now' \in Time
  BY <1>3 DEF IInv, Typed
<1> QED
  BY <1>1, <1>2, <1>3, <1>4, <1>5, <1>6, RequestStep DEF Fields

(* Counting changes nothing the invariant looks at. *)
LEMMA RefreshStep ==
    ASSUME IInv, NEW c \in Requests, NEW x \in Subject, Refresh(c, x)
    PROVE  IInv'
<1>1. /\ UNCHANGED <<composition, planned, ticked, events, now>>
      /\ c \in Writing /\ c \in InFlight /\ tx[c].phase = "counting"
  BY DEF Refresh, kitchen, history, Writing, InFlight
<1>2. PICK row : tx' = [tx EXCEPT ![c].todo = @ \ {x},
                 ![c].staged = IF x \in meals \cup recipes THEN Put(@, x, row) ELSE @]
  BY DEF Refresh
<1> DEFINE t == tx'[c]
<1>3. tx' = [tx EXCEPT ![c] = t]
  BY <1>2 DEF IInv, Typed
<1>4. /\ t.phase = tx[c].phase /\ t.pm = tx[c].pm /\ t.tick = tx[c].tick
      /\ t.added = tx[c].added /\ t.dropped = tx[c].dropped
      /\ DOMAIN t = Fields
  BY <1>1, <1>2 DEF IInv, Typed, Fields
<1>5. Marking(t) \/ Unmarking(t)
  BY <1>1, <1>4 DEF IInv, Writers, Marking, Unmarking
<1>6. \A d \in Writing : d # c => tx[d].pm # t.pm
  BY <1>1, <1>4 DEF IInv, OneWriter
<1>7. /\ t.pm \in planned /\ now' \in Time
      /\ t.added \subseteq Event /\ \A e \in t.added : OwnMeal(e)
  BY <1>1, <1>4 DEF IInv, Typed
<1> HIDE DEF t
<1> QED
  BY <1>1, <1>3, <1>4, <1>5, <1>6, <1>7, RequestStep

(* Steps of the kitchen that no request in flight depends on. *)
LEMMA KitchenStep ==
    ASSUME IInv, UNCHANGED <<ticked, events, now, tx>>,
           planned \subseteq planned', planned' \subseteq PlanMeal,
           composition' \in [Meals -> SUBSET Recipes]
    PROVE  IInv'
<1>1. InFlight' = InFlight /\ Writing' = Writing
  BY DEF InFlight, Writing
<1>2. Typed'
  BY <1>1 DEF IInv, Typed
<1>3. OneWriter' /\ TickedIffRecorded'
  BY <1>1 DEF IInv, OneWriter, TickedIffRecorded
<1>4. Writers'
  BY <1>1 DEF IInv, Writers, Marking, Unmarking
<1> QED
  BY <1>2, <1>3, <1>4 DEF IInv

LEMMA InvariantStep == IInv /\ [Next]_vars => IInv'
<1> SUFFICES ASSUME IInv, [Next]_vars
             PROVE  IInv'
  OBVIOUS
<1>1. ASSUME NEW c \in Requests, NEW pm \in PlanMeal, MarkCooked(c, pm)
      PROVE  IInv'
  <2>1. now' \in Time \ {0}
    BY <1>1, MaxMarksAssumption DEF MarkCooked, Time, IInv, Typed
  <2>2. composition[pm[2]] \subseteq Recipes
    BY DEF PlanMeal, IInv, Typed
  <2>3. UNCHANGED <<composition, planned, ticked, events>> /\ pm \in planned
    BY <1>1 DEF MarkCooked, Read, kitchen, history
  <2> DEFINE t == [phase |-> "read", op |-> "mark", pm |-> pm, at |-> now',
                   held |-> composition[pm[2]],
                   seen |-> [x \in Loaded(pm[1]) |-> [n |-> times[x], at |-> last[x]]]]
  <2>4. tx' = [tx EXCEPT ![c] = t]
    BY <1>1 DEF MarkCooked, Read
  <2> QED
    BY <2>1, <2>2, <2>3, <2>4, RequestStep
<1>2. ASSUME NEW c \in Requests, NEW pm \in PlanMeal, UndoMarkCooked(c, pm)
      PROVE  IInv'
  <2>1. now' \in Time
    BY <1>2 DEF UndoMarkCooked, IInv, Typed
  <2>2. UNCHANGED <<composition, planned, ticked, events>> /\ pm \in planned
    BY <1>2 DEF UndoMarkCooked, Read, kitchen, history
  <2> DEFINE t == [phase |-> "read", op |-> "undo", pm |-> pm, at |-> now',
                   held |-> composition[pm[2]],
                   seen |-> [x \in Loaded(pm[1]) |-> [n |-> times[x], at |-> last[x]]]]
  <2>3. tx' = [tx EXCEPT ![c] = t]
    BY <1>2 DEF UndoMarkCooked, Read
  <2> QED
    BY <2>1, <2>2, <2>3, RequestStep
<1>3. ASSUME NEW c \in Requests, Abort(c)
      PROVE  IInv'
  <2>1. UNCHANGED <<composition, planned, ticked, events, now>>
    BY <1>3 DEF Abort, kitchen, history
  <2>2. now' \in Time
    BY <2>1 DEF IInv, Typed
  <2> QED
    BY <1>3, <2>1, <2>2, RequestStep DEF Abort, Idle
<1>4. ASSUME NEW p \in Plans, NEW m \in Meals, AddMeal(p, m)
      PROVE  IInv'
  <2>1. UNCHANGED <<composition, ticked, events, now, tx>>
    BY <1>4 DEF AddMeal, kitchen, history
  <2>2. planned \subseteq planned' /\ planned' \subseteq PlanMeal
    BY <1>4 DEF AddMeal, PlanMeal, IInv, Typed
  <2>3. composition' \in [Meals -> SUBSET Recipes]
    BY <2>1 DEF IInv, Typed
  <2> QED
    BY <2>1, <2>2, <2>3, KitchenStep
<1>5. ASSUME NEW pm \in PlanMeal, RemoveMeal(pm)
      PROVE  IInv'
  <2> DEFINE F == [e \in events |-> Unplan(e, {pm})]
  <2>1. F \in [events -> Event]
    BY DEF Unplan, Event, NoPlanMeal, IInv, Typed
  <2>2. \A e \in events :
           /\ OwnMeal(F[e])
           /\ F[e].what = e.what /\ F[e].at = e.at
           /\ F[e].pm = IF e.pm \in {pm} THEN NoPlanMeal ELSE e.pm
           /\ Locked(e.pm) => F[e] = e
    BY <1>5 DEF RemoveMeal, Unplan, OwnMeal, Event, IInv, Typed
  <2>3. /\ ticked' = [x \in PlanMeal |-> IF x \in {pm} THEN 0 ELSE ticked[x]]
        /\ events' = {F[e] : e \in events}
        /\ {pm} \in SUBSET planned
    BY <1>5 DEF RemoveMeal, IInv, Typed
  <2> HIDE DEF F
  <2>4. composition' \in [Meals -> SUBSET Recipes] /\ now' = now /\ planned' = planned \ {pm}
    BY <1>5 DEF RemoveMeal, kitchen, IInv, Typed
  <2>5. FailReaders({pm}) /\ \A x \in {pm} : ~Locked(x)
    BY <1>5 DEF RemoveMeal
  <2> QED
    BY <2>1, <2>2, <2>3, <2>4, <2>5, RemovalStep
<1>6. ASSUME NEW m \in Meals, NEW rs \in Compositions, UpdateMeal(m, rs)
      PROVE  IInv'
  BY <1>6, KitchenStep, SubjectsAssumption DEF UpdateMeal, history, IInv, Typed
<1>7. ASSUME NEW m \in Meals, DeleteMeal(m)
      PROVE  IInv'
  <2> DEFINE own == {pm \in planned : pm[2] = m}
             F == [e \in events |-> Forget(Unplan(e, own), m)]
  <2>1. F \in [events -> Event]
    BY DEF Forget, Unplan, Event, NoPlanMeal, IInv, Typed
  <2>2. \A e \in events : Locked(e.pm) => e.pm \in planned /\ e.pm \notin own /\ e.of # m
    <3> SUFFICES ASSUME NEW e \in events, Locked(e.pm)
                 PROVE  e.pm \in planned /\ e.pm \notin own /\ e.of # m
      OBVIOUS
    <3>1. e.pm \in planned
      BY DEF Locked, Writing, InFlight, IInv, Typed
    <3>2. e.pm \notin own
      BY <1>7 DEF DeleteMeal
    <3>3. e.pm # NoPlanMeal /\ e.pm[2] # m
      BY <3>1, <3>2, NoPlanMealIsNone DEF IInv, Typed
    <3> QED
      BY <3>1, <3>2, <3>3 DEF OwnMeal, IInv, Typed
  <2>3. \A e \in events :
           /\ OwnMeal(F[e])
           /\ F[e].what = e.what /\ F[e].at = e.at
           /\ F[e].pm = IF e.pm \in own THEN NoPlanMeal ELSE e.pm
           /\ Locked(e.pm) => F[e] = e
    BY <2>2, SubjectsAssumption DEF Forget, Unplan, OwnMeal, Event, IInv, Typed
  <2>4. /\ ticked' = [x \in PlanMeal |-> IF x \in own THEN 0 ELSE ticked[x]]
        /\ events' = {F[e] : e \in events}
        /\ own \in SUBSET planned
    BY <1>7 DEF DeleteMeal
  <2>5. composition' \in [Meals -> SUBSET Recipes] /\ now' = now /\ planned' = planned \ own
    BY <1>7 DEF DeleteMeal, IInv, Typed
  <2>6. FailReaders(own) /\ \A x \in own : ~Locked(x)
    BY <1>7 DEF DeleteMeal
  <2> HIDE DEF F, own
  <2> QED
    BY <2>1, <2>3, <2>4, <2>5, <2>6, RemovalStep
<1>8. ASSUME NEW r \in Recipes, DeleteRecipe(r)
      PROVE  IInv'
  <2>1. /\ UNCHANGED <<composition, planned, ticked, now, tx>>
        /\ events' = {Forget(e, r) : e \in events}
    BY <1>8 DEF DeleteRecipe
  <2>2. InFlight' = InFlight /\ Writing' = Writing
    BY <2>1 DEF InFlight, Writing
  <2>3. \A e \in events : /\ Forget(e, r) \in Event
                          /\ OwnMeal(Forget(e, r))
                          /\ Forget(e, r).pm = e.pm
                          /\ Forget(e, r).what = e.what
                          /\ Forget(e, r).at = e.at
    BY SubjectsAssumption DEF Forget, OwnMeal, Event, IInv, Typed
  <2>4. Writers'
    <3> SUFFICES ASSUME NEW c \in Writing PROVE (Marking(tx[c]) \/ Unmarking(tx[c]))'
      BY <2>2 DEF Writers
    <3>1. CASE Marking(tx[c])
      BY <2>1, <3>1 DEF Marking
    <3>2. CASE Unmarking(tx[c])
      <4>1. \A e \in tx[c].dropped : Forget(e, r) = e
        BY <1>8 DEF DeleteRecipe, Forget
      <4>2. {e \in events' : e.pm = tx[c].pm} = {e \in events : e.pm = tx[c].pm}
        BY <2>1, <2>3, <3>2, <4>1 DEF Unmarking
      <4> QED
        BY <2>1, <3>2, <4>2 DEF Unmarking
    <3> QED
      BY <3>1, <3>2 DEF IInv, Writers
  <2>5. TickedIffRecorded'
    BY <2>1, <2>3 DEF IInv, TickedIffRecorded
  <2>6. Typed'
    <3>1. events' \subseteq Event /\ \A e \in events' : OwnMeal(e)'
      BY <2>1, <2>3 DEF OwnMeal
    <3> QED
      BY <2>1, <2>2, <3>1 DEF IInv, Typed
  <2> QED
    BY <2>1, <2>2, <2>4, <2>5, <2>6 DEF IInv, OneWriter
<1>9. CASE UNCHANGED vars
  BY <1>9, KitchenStep DEF vars, kitchen, history, IInv, Typed
<1> QED
  BY <1>1, <1>2, <1>3, <1>4, <1>5, <1>6, <1>7, <1>8, <1>9,
     RecordCookedStep, UndoCookedStep, RefreshStep, CommitStep
     DEF Next, RequestNext, KitchenNext

LEMMA InitialInvariant == Init => IInv
<1>1. Init => Typed /\ InFlight = {} /\ Writing = {}
  BY SubjectsAssumption, MaxMarksAssumption
     DEF Init, Typed, InFlight, Writing, Idle, Time
<1>2. Init => TickedIffRecorded
  BY DEF Init, TickedIffRecorded
<1> QED
  BY <1>1, <1>2 DEF IInv, OneWriter, Writers

LEMMA Invariance == Spec => []IInv
BY InitialInvariant, InvariantStep, PTL DEF Spec

(* However many marks, undos, edits and deletions overlap, a plan meal shows *)
(* as cooked exactly when the record holds a cooking of it, with that date.  *)
THEOREM TickMatchesRecord == Spec => []TickedIffRecorded
<1>1. IInv => TickedIffRecorded
  BY DEF IInv
<1> QED
  BY <1>1, Invariance, PTL

-----------------------------------------------------------------------------
(* An event leaves the record only where a tick is being taken back. *)
LostToAnUndo ==
    \A e \in events :
        (\A f \in events' : f.what # e.what \/ f.at # e.at) => e.pm \in planned' /\ ticked'[e.pm] = 0

LEMMA RecordStep == IInv /\ [Next]_vars => LostToAnUndo
<1> SUFFICES ASSUME IInv, [Next]_vars
             PROVE  LostToAnUndo
  OBVIOUS
<1>1. CASE events' = events
  BY <1>1 DEF LostToAnUndo
<1>2. ASSUME NEW c \in Requests, Commit(c)
      PROVE  LostToAnUndo
  <2> DEFINE t == tx[c]
  <2>1. c \in Writing /\ t.pm \in planned /\ t.pm \in PlanMeal /\ planned' = planned
    BY <1>2 DEF Commit, Writing, InFlight, IInv, Typed
  <2>2. events' = (events \ t.dropped) \cup t.added /\ ticked' = [ticked EXCEPT ![t.pm] = t.tick]
    BY <1>2 DEF Commit
  <2>3. CASE Marking(t)
    BY <2>2, <2>3 DEF Marking, LostToAnUndo
  <2>4. CASE Unmarking(t)
    <3>1. \A e \in events \ events' : e.pm = t.pm
      BY <2>2, <2>4 DEF Unmarking
    <3>2. ticked'[t.pm] = 0
      BY <2>1, <2>2, <2>4 DEF Unmarking, IInv, Typed
    <3> QED
      BY <2>1, <3>1, <3>2 DEF LostToAnUndo
  <2> QED
    BY <2>1, <2>3, <2>4 DEF IInv, Writers
<1>3. ASSUME NEW pm \in PlanMeal, RemoveMeal(pm)
      PROVE  LostToAnUndo
  <2>1. \A e \in events : Unplan(e, {pm}).what = e.what /\ Unplan(e, {pm}).at = e.at
    BY DEF Unplan, Event, IInv, Typed
  <2>2. \A e \in events : Unplan(e, {pm}) \in events'
    BY <1>3 DEF RemoveMeal
  <2> QED
    BY <2>1, <2>2 DEF LostToAnUndo
<1>4. ASSUME NEW m \in Meals, DeleteMeal(m)
      PROVE  LostToAnUndo
  <2>1. PICK own : events' = {Forget(Unplan(e, own), m) : e \in events}
    BY <1>4 DEF DeleteMeal
  <2>2. \A e \in events : /\ Forget(Unplan(e, own), m).what = e.what
                          /\ Forget(Unplan(e, own), m).at = e.at
    BY DEF Forget, Unplan, Event, IInv, Typed
  <2>3. \A e \in events : Forget(Unplan(e, own), m) \in events'
    BY <2>1
  <2> QED
    BY <2>2, <2>3 DEF LostToAnUndo
<1>5. ASSUME NEW r \in Recipes, DeleteRecipe(r)
      PROVE  LostToAnUndo
  <2>1. \A e \in events : Forget(e, r).what = e.what /\ Forget(e, r).at = e.at
    BY DEF Forget, Event, IInv, Typed
  <2>2. \A e \in events : Forget(e, r) \in events'
    BY <1>5 DEF DeleteRecipe
  <2> QED
    BY <2>1, <2>2 DEF LostToAnUndo
<1>6. CASE \E c \in Requests : (\E pm \in PlanMeal : MarkCooked(c, pm) \/ UndoMarkCooked(c, pm))
                            \/ RecordCooked(c) \/ UndoCooked(c) \/ Abort(c)
                            \/ \E x \in Subject : Refresh(c, x)
  BY <1>1, <1>6 DEF MarkCooked, UndoMarkCooked, Read, RecordCooked, UndoCooked, Write, Refresh, Abort, history
<1>7. CASE \/ \E p \in Plans, m \in Meals : AddMeal(p, m)
           \/ \E m \in Meals, rs \in Compositions : UpdateMeal(m, rs)
           \/ UNCHANGED vars
  BY <1>1, <1>7 DEF AddMeal, UpdateMeal, vars, history
<1> QED
  BY <1>2, <1>3, <1>4, <1>5, <1>6, <1>7 DEF Next, RequestNext, KitchenNext

(* remove_meal, delete_meal, delete_recipe: nothing that is tidied up takes  *)
(* a cooking from the record; only unticking its plan meal does.             *)
THEOREM RecordIsKept == Spec => HistoryKept
<1>1. IInv /\ [Next]_vars => [LostToAnUndo]_vars
  BY RecordStep
<1>2. [][LostToAnUndo]_vars => HistoryKept
  BY PTL DEF HistoryKept, LostToAnUndo
<1> QED
  BY <1>1, <1>2, Invariance, PTL DEF Spec

-----------------------------------------------------------------------------
(* The counters.  As long as one request at a time is in flight, what it has *)
(* read stays true, and what it has counted is what the record will hold.    *)

Top(S) == Max({0} \cup {e.at : e \in S})
After(t, x) == {e \in (events \ t.dropped) \cup t.added : e.of = x}

(* What a request that writes has counted, and what it still has to count.   *)
Counting(t) ==
    /\ t.dropped \subseteq events
    /\ \A e \in t.added : e.at = now /\ e.of = e.what /\ e.pm = t.pm
    /\ t.added # {} => \A e \in events : e.at < now
    /\ \A x \in meals \cup recipes :
          (\E e \in t.added \cup t.dropped : e.of = x) => x \in t.todo \cup DOMAIN t.staged
    /\ \A x \in DOMAIN t.staged \cap (meals \cup recipes) :
          t.staged[x] = [n |-> Cardinality(After(t, x)), at |-> Top(After(t, x)),
                         base |-> [n |-> times[x], at |-> last[x]]]

AsRead(t) == \A x \in DOMAIN t.seen : t.seen[x] = [n |-> times[x], at |-> last[x]]

(* One cooking of one thing happens once.                                    *)
Stamped ==
    /\ \A e \in events : e.at <= now
    /\ \A e, f \in events : e.what = f.what /\ e.at = f.at => e = f
    /\ \A x \in Subject : IsFiniteSet(EventsOf(x))

InTurn ==
    /\ meals \subseteq Meals /\ recipes \subseteq Recipes
    /\ Stamped
    /\ CountersMatchEvents
    /\ \A c, d \in InFlight : c = d
    /\ \A c \in InFlight : AsRead(tx[c])
    /\ \A c \in InFlight : tx[c].phase = "read" /\ tx[c].op = "mark" =>
          tx[c].at = now /\ \A e \in events : e.at < now
    /\ \A c \in Writing : Counting(tx[c])

LEMMA CountersAre ==
    CountersMatchEvents <=> \A x \in meals \cup recipes :
        times[x] = Cardinality(EventsOf(x)) /\ last[x] = Top(EventsOf(x))
BY DEF CountersMatchEvents, Top

(* Events that are renamed are as many, and of the same dates.               *)
LEMMA SameCount ==
    ASSUME NEW S, NEW F, IsFiniteSet(S), \A e \in S : F[e].at = e.at,
           \A e, f \in S : F[e] = F[f] => e = f,
           NEW T, T = {F[e] : e \in S}
    PROVE  IsFiniteSet(T) /\ Cardinality(T) = Cardinality(S) /\ Top(T) = Top(S)
<1> DEFINE g == [e \in S |-> F[e]]
<1>1. g \in Bijection(S, T)
  <2>1. g \in [S -> T]  OBVIOUS
  <2>2. \A e, f \in S : g[e] = g[f] => e = f  OBVIOUS
  <2>3. \A y \in T : \E e \in S : g[e] = y  OBVIOUS
  <2> QED  BY <2>1, <2>2, <2>3, Fun_IsBij
<1>2. ExistsBijection(S, T)  BY <1>1 DEF ExistsBijection
<1>3. IsFiniteSet(T) /\ Cardinality(T) = Cardinality(S)  BY <1>2, FS_Bijection
<1>4. {e.at : e \in T} = {e.at : e \in S}  OBVIOUS
<1>5. Top(T) = Top(S)  BY <1>4 DEF Top
<1> QED
  BY <1>3, <1>5

(* What the record will hold of one subject is finite. *)
LEMMA AfterIsFinite ==
    ASSUME IInv, InTurn, NEW c \in Writing, NEW x \in Subject
    PROVE  IsFiniteSet(After(tx[c], x))
<1>1. PICK t : t = tx[c]  OBVIOUS
<1>2. Counting(t) /\ t.added \subseteq Event
  BY <1>1 DEF InTurn, IInv, Typed
<1>3. \A e \in t.added : e.of = x => e = [what |-> x, of |-> x, pm |-> t.pm, at |-> now]
  BY <1>2 DEF Counting, Event
<1>4. After(t, x) \subseteq EventsOf(x) \cup {[what |-> x, of |-> x, pm |-> t.pm, at |-> now]}
  BY <1>3 DEF After, EventsOf
<1>5. IsFiniteSet(EventsOf(x) \cup {[what |-> x, of |-> x, pm |-> t.pm, at |-> now]})
  BY FS_AddElement DEF InTurn, Stamped
<1> QED
  BY <1>1, <1>4, <1>5, FS_Subset

(* Steps that only rename references keep what has been read and counted.    *)
LEMMA RenamingStep ==
    ASSUME IInv, InTurn, NEW F, events' = {F[e] : e \in events},
           UNCHANGED <<times, last, now>>, meals' \subseteq meals, recipes' \subseteq recipes,
           InFlight' \subseteq InFlight, Writing' \subseteq Writing,
           \A c \in InFlight' : tx'[c] = tx[c],
           \A e \in events :
              /\ F[e].what = e.what /\ F[e].at = e.at
              /\ F[e].of = e.of \/ (F[e].of = Gone /\ e.of \notin meals' \cup recipes'),
           \A c \in Writing' : \A e \in tx[c].dropped : F[e] = e
    PROVE  InTurn'
<1>1. meals' \cup recipes' \subseteq Subject /\ Gone \notin meals' \cup recipes'
      /\ meals' \cup recipes' \subseteq meals \cup recipes
  BY SubjectsAssumption DEF InTurn, Subject
<1>2. \A e, f \in events : F[e] = F[f] => e = f
  BY DEF InTurn, Stamped
<1>3. ASSUME NEW x \in meals' \cup recipes'
      PROVE  EventsOf(x)' = {F[e] : e \in EventsOf(x)}
  BY <1>1, <1>3 DEF EventsOf
<1>4. Stamped'
  <2>1. \A e \in events' : e.at <= now'  BY DEF InTurn, Stamped
  <2>2. \A e, f \in events' : e.what = f.what /\ e.at = f.at => e = f
    BY DEF InTurn, Stamped
  <2>3. ASSUME NEW x \in Subject PROVE IsFiniteSet(EventsOf(x)')
    <3>1. EventsOf(x)' \subseteq {F[e] : e \in EventsOf(x)}
      BY SubjectsAssumption, <2>3 DEF EventsOf, Subject
    <3>2. IsFiniteSet({F[e] : e \in EventsOf(x)})
      <4>1. IsFiniteSet(EventsOf(x))  BY <2>3 DEF InTurn, Stamped
      <4>2. EventsOf(x) \subseteq events  BY DEF EventsOf
      <4>3. \A e \in EventsOf(x) : F[e].at = e.at  BY <4>2
      <4>4. \A e, f \in EventsOf(x) : F[e] = F[f] => e = f  BY <1>2, <4>2
      <4> QED  BY <4>1, <4>3, <4>4, SameCount
    <3> QED  BY <3>1, <3>2, FS_Subset
  <2> QED  BY <2>1, <2>2, <2>3 DEF Stamped
<1>5. CountersMatchEvents'
  <2> SUFFICES ASSUME NEW x \in meals' \cup recipes'
               PROVE  times'[x] = Cardinality(EventsOf(x)') /\ last'[x] = Top(EventsOf(x)')
    BY DEF CountersMatchEvents, Top
  <2>1. x \in Subject /\ x \in meals \cup recipes  BY <1>1
  <2>2. times[x] = Cardinality(EventsOf(x)) /\ last[x] = Top(EventsOf(x))
    BY <2>1, CountersAre DEF InTurn
  <2>3. IsFiniteSet(EventsOf(x)) /\ EventsOf(x) \subseteq events
    BY <2>1 DEF InTurn, Stamped, EventsOf
  <2>4. Cardinality(EventsOf(x)') = Cardinality(EventsOf(x)) /\ Top(EventsOf(x)') = Top(EventsOf(x))
    <3>1. \A e \in EventsOf(x) : F[e].at = e.at  BY <2>3
    <3>2. \A e, f \in EventsOf(x) : F[e] = F[f] => e = f  BY <1>2, <2>3
    <3>3. PICK T : T = {F[e] : e \in EventsOf(x)}  OBVIOUS
    <3>4. Cardinality(T) = Cardinality(EventsOf(x)) /\ Top(T) = Top(EventsOf(x))
      BY <2>3, <3>1, <3>2, <3>3, SameCount
    <3>5. T = EventsOf(x)'  BY <1>3, <3>3
    <3> QED  BY <3>4, <3>5
  <2> QED  BY <2>2, <2>4
<1>6. \A c, d \in InFlight' : c = d  BY DEF InTurn
<1>7. \A c \in InFlight' : AsRead(tx[c])'  BY DEF InTurn, AsRead
<1>8. \A c \in InFlight' : tx'[c].phase = "read" /\ tx'[c].op = "mark" =>
          tx'[c].at = now' /\ \A e \in events' : e.at < now'
  BY DEF InTurn
<1>9. ASSUME NEW c \in Writing' PROVE Counting(tx[c])'
  <2>1. PICK t : t = tx[c]  OBVIOUS
  <2>2. c \in Writing /\ c \in InFlight' /\ tx'[c] = t /\ Counting(t)
    BY <1>9, <2>1 DEF Writing, InFlight, InTurn
  <2>3. \A e \in t.dropped : F[e] = e /\ e \in events
    BY <1>9, <2>1, <2>2 DEF Counting
  <2>4. t.dropped \subseteq events'  BY <2>3
  <2>5. \A e \in t.added : e.at = now' /\ e.of = e.what /\ e.pm = t.pm
    BY <2>2 DEF Counting
  <2>6. t.added # {} => \A e \in events' : e.at < now'
    BY <2>2 DEF Counting
  <2>7. \A x \in meals' \cup recipes' :
           (\E e \in t.added \cup t.dropped : e.of = x) => x \in t.todo \cup DOMAIN t.staged
    BY <1>1, <2>2 DEF Counting
  <2>8. ASSUME NEW x \in DOMAIN t.staged \cap (meals' \cup recipes')
        PROVE  t.staged[x] = [n |-> Cardinality(After(t, x)'), at |-> Top(After(t, x)'),
                              base |-> [n |-> times'[x], at |-> last'[x]]]
    <3>1. x \in meals \cup recipes /\ x # Gone /\ x \in Subject  BY <1>1
    <3>2. t.staged[x] = [n |-> Cardinality(After(t, x)), at |-> Top(After(t, x)),
                         base |-> [n |-> times[x], at |-> last[x]]]
      BY <2>2, <3>1 DEF Counting
    <3>3. PICK G : G = [e \in events \cup t.added |-> IF e \in events THEN F[e] ELSE e]  OBVIOUS
    <3>4. t.added # {} => \A e \in events : e.at < now  BY <2>2 DEF Counting
    <3>5. \A e \in t.added : e \notin events
      BY <2>5, <3>4 DEF InTurn, Stamped, IInv, Typed, Event, Time
    <3>6. After(t, x) \subseteq events \cup t.added  BY DEF After
    <3>7. After(t, x)' = {G[e] : e \in After(t, x)}
      <4>1. \A e \in events : F[e] \in t.dropped <=> e \in t.dropped
        BY <1>2, <2>3
      <4>2. \A e \in events : F[e].of = x <=> e.of = x
        BY <1>1, <2>8
      <4>3. \A y : y \in After(t, x) <=> /\ (y \in events /\ y \notin t.dropped) \/ y \in t.added
                                      /\ y.of = x
        BY <2>2 DEF After
      <4>4. \A y : y \in After(t, x)' <=> /\ (y \in events' /\ y \notin t.dropped) \/ y \in t.added
                                       /\ y.of = x
        BY DEF After
      <4>5. ASSUME NEW y \in After(t, x)' PROVE \E e \in After(t, x) : y = G[e]
        <5>1. CASE y \in t.added
          BY <3>3, <3>5, <4>3, <4>4, <4>5, <5>1
        <5>2. CASE y \in events' /\ y \notin t.dropped
          <6>1. PICK e \in events : y = F[e]  BY <5>2
          <6>2. e \in After(t, x)  BY <4>1, <4>2, <4>3, <4>4, <4>5, <5>2, <6>1
          <6> QED  BY <3>3, <6>1, <6>2
        <5> QED  BY <4>4, <4>5, <5>1, <5>2
      <4>6. ASSUME NEW e \in After(t, x) PROVE G[e] \in After(t, x)'
        <5>1. CASE e \in t.added
          BY <3>3, <3>5, <4>3, <4>4, <4>6, <5>1
        <5>2. CASE e \in events /\ e \notin t.dropped
          <6>1. G[e] = F[e] /\ F[e] \in events'  BY <3>3, <5>2
          <6> QED  BY <4>1, <4>2, <4>3, <4>4, <4>6, <5>2, <6>1
        <5> QED  BY <4>3, <4>6, <5>1, <5>2
      <4> QED  BY <4>5, <4>6
    <3>8. IsFiniteSet(After(t, x))  BY <2>1, <2>2, <3>1, AfterIsFinite
    <3>9. \A e \in After(t, x) : G[e].at = e.at  BY <3>3, <3>6
    <3>10. \A e, f \in After(t, x) : G[e] = G[f] => e = f
      <4>1. \A e \in events : F[e].at = e.at  OBVIOUS
      <4>2. \A e \in events, f \in t.added : F[e] # f
        BY <2>5, <3>4, <4>1 DEF InTurn, Stamped, IInv, Typed, Event, Time
      <4> QED  BY <1>2, <3>3, <3>6, <4>2
    <3>11. PICK T : T = {G[e] : e \in After(t, x)}  OBVIOUS
    <3>12. Cardinality(T) = Cardinality(After(t, x)) /\ Top(T) = Top(After(t, x))
      BY <3>8, <3>9, <3>10, <3>11, SameCount
    <3>13. T = After(t, x)'  BY <3>7, <3>11
    <3> QED  BY <3>2, <3>12, <3>13
  <2> QED  BY <2>2, <2>4, <2>5, <2>6, <2>7, <2>8 DEF Counting, After
<1> QED
  BY <1>1, <1>4, <1>5, <1>6, <1>7, <1>8, <1>9 DEF InTurn

(* Steps of the one request in flight that write nothing yet. *)
LEMMA RequestTurn ==
    ASSUME IInv, InTurn, NEW c \in Requests, NEW t, tx' = [tx EXCEPT ![c] = t],
           UNCHANGED <<meals, recipes, events, times, last>>,
           InFlight' \subseteq {c}, now' \in Nat, now <= now',
           t.phase # "idle" => AsRead(t),
           t.phase = "read" /\ t.op = "mark" => t.at = now' /\ \A e \in events : e.at < now',
           t.phase = "counting" => now' = now /\ Counting(t)
    PROVE  InTurn'
<1>1. tx'[c] = t  BY DEF IInv, Typed
<1>2. Stamped'
  <2>1. now \in Nat /\ \A e \in events : e.at \in Nat  BY DEF IInv, Typed, Event, Time
  <2> QED  BY <2>1 DEF InTurn, Stamped, EventsOf
<1>3. CountersMatchEvents'  BY DEF InTurn, CountersMatchEvents, EventsOf
<1>4. \A d \in InFlight' : d = c /\ tx'[d] = t /\ t.phase # "idle"
  BY <1>1 DEF InFlight
<1>5. \A d \in Writing' : d = c /\ t.phase = "counting"
  BY <1>4 DEF InFlight, Writing
<1>6. t.phase # "idle" => AsRead(t)'  BY DEF AsRead
<1>7. t.phase = "counting" => Counting(t)'  BY DEF Counting, After
<1>8. \A d \in InFlight' : AsRead(tx[d])'  BY <1>4, <1>6 DEF AsRead
<1>9. \A d \in Writing' : Counting(tx[d])'  BY <1>1, <1>5, <1>7 DEF Counting, After
<1>10. \A d \in InFlight' : tx'[d].phase = "read" /\ tx'[d].op = "mark" =>
          tx'[d].at = now' /\ \A e \in events' : e.at < now'
  BY <1>4
<1> QED
  BY <1>2, <1>3, <1>4, <1>8, <1>9, <1>10 DEF InTurn

(* One request at a time: the one that acts is the only one.                 *)
LEMMA AloneNow ==
    ASSUME InTurn, NEW c \in InFlight, NEW t, tx' = [tx EXCEPT ![c] = t], IInv
    PROVE  InFlight' \subseteq {c}
<1>1. \A d \in Requests : d # c => tx'[d] = tx[d]  BY DEF InFlight, IInv, Typed
<1> QED  BY <1>1 DEF InFlight, InTurn

LEMMA ReadTurn ==
    ASSUME IInv, InTurn, NEW c \in Requests, NEW pm, NEW op, Read(c, op, pm),
           \A d, e \in InFlight' : d = e, now' \in Nat,
           now' = now \/ now' = now + 1, op = "mark" => now' = now + 1
    PROVE  InTurn'
<1> DEFINE t == [phase |-> "read", op |-> op, pm |-> pm, at |-> now',
                 held |-> composition[pm[2]],
                 seen |-> [x \in Loaded(pm[1]) |-> [n |-> times[x], at |-> last[x]]]]
<1>1. tx' = [tx EXCEPT ![c] = t]  BY DEF Read
<1>2. UNCHANGED <<meals, recipes, events, times, last>>  BY DEF Read, kitchen, history
<1>3. now \in Nat /\ \A e \in events : e.at \in Nat /\ e.at <= now
  BY DEF IInv, Typed, Event, Time, InTurn, Stamped
<1>4. InFlight' \subseteq {c}
  <2>1. tx'[c] = t  BY <1>1 DEF IInv, Typed
  <2>2. t.phase = "read"  OBVIOUS
  <2>3. c \in InFlight'  BY <2>1, <2>2 DEF InFlight
  <2> QED  BY <2>3
<1>5. AsRead(t)  BY DEF AsRead
<1>6. t.phase = "read" /\ t.op = op /\ t.at = now'  OBVIOUS
<1>7. now <= now'  BY <1>3
<1>8. t.op = "mark" => t.at = now' /\ \A e \in events : e.at < now'
  BY <1>3, <1>6
<1> HIDE DEF t
<1> QED
  BY <1>1, <1>2, <1>4, <1>5, <1>6, <1>7, <1>8, RequestTurn

LEMMA RecordCookedTurn ==
    ASSUME IInv, InTurn, NEW c \in Requests, RecordCooked(c)
    PROVE  InTurn'
<1> DEFINE t == tx[c]
           cooked == {t.pm[2]} \cup t.held
           added == {[what |-> x, of |-> x, pm |-> t.pm, at |-> t.at] : x \in cooked}
           new == [phase |-> "counting", pm |-> t.pm, seen |-> t.seen, tick |-> t.at,
                   added |-> added, dropped |-> {}, todo |-> cooked, staged |-> <<>>]
<1>1. c \in InFlight /\ t.phase = "read" /\ t.op = "mark"
  BY DEF RecordCooked, InFlight
<1>2. tx' = [tx EXCEPT ![c] = new]
  BY DEF RecordCooked, Write, IInv, Typed
<1>3. UNCHANGED <<meals, recipes, events, times, last>> /\ now' = now
  BY DEF RecordCooked, Write, kitchen, history
<1>4. now' \in Nat /\ now <= now'
  BY <1>3 DEF IInv, Typed, Time
<1>5. AsRead(t) /\ t.at = now /\ \A e \in events : e.at < now
  BY <1>1 DEF InTurn
<1>6. AsRead(new)
  BY <1>5 DEF AsRead
<1>7. Counting(new)
  <2>1. \A e \in added : e.at = now /\ e.of = e.what /\ e.pm = t.pm /\ e.of \in cooked
    BY <1>5
  <2>2. DOMAIN new.staged = {}  OBVIOUS
  <2>3. new.added = added /\ new.dropped = {} /\ new.todo = cooked /\ new.pm = t.pm
    OBVIOUS
  <2> HIDE DEF new, added, cooked
  <2> QED
    BY <1>5, <2>1, <2>2, <2>3 DEF Counting
<1>8. InFlight' \subseteq {c}
  BY <1>1, <1>2, AloneNow
<1>9. new.phase = "counting"  OBVIOUS
<1> HIDE DEF new
<1> QED
  BY <1>2, <1>3, <1>4, <1>6, <1>7, <1>8, <1>9, RequestTurn

LEMMA UndoCookedTurn ==
    ASSUME IInv, InTurn, NEW c \in Requests, UndoCooked(c)
    PROVE  InTurn'
<1> DEFINE t == tx[c]
           own == {e \in events : e.pm = t.pm}
           new == [phase |-> "counting", pm |-> t.pm, seen |-> t.seen, tick |-> 0,
                   added |-> {}, dropped |-> own, todo |-> {e.of : e \in own} \ {Gone},
                   staged |-> <<>>]
<1>1. c \in InFlight
  BY DEF UndoCooked, InFlight
<1>2. tx' = [tx EXCEPT ![c] = new]
  BY DEF UndoCooked, Write, IInv, Typed
<1>3. UNCHANGED <<meals, recipes, events, times, last>> /\ now' = now
  BY DEF UndoCooked, Write, kitchen, history
<1>4. now' \in Nat /\ now <= now'
  BY <1>3 DEF IInv, Typed, Time
<1>5. AsRead(t)
  BY <1>1 DEF InTurn
<1>6. AsRead(new)
  BY <1>5 DEF AsRead
<1>7. Counting(new)
  <2>1. Gone \notin meals \cup recipes
    BY SubjectsAssumption DEF InTurn, Subject
  <2>2. DOMAIN new.staged = {}  OBVIOUS
  <2>3. new.added = {} /\ new.dropped = own /\ new.todo = {e.of : e \in own} \ {Gone}
    OBVIOUS
  <2>4. own \subseteq events  OBVIOUS
  <2> HIDE DEF new, own
  <2> QED
    BY <2>1, <2>2, <2>3, <2>4 DEF Counting
<1>8. InFlight' \subseteq {c}
  BY <1>1, <1>2, AloneNow
<1>9. new.phase = "counting"  OBVIOUS
<1> HIDE DEF new
<1> QED
  BY <1>2, <1>3, <1>4, <1>6, <1>7, <1>8, <1>9, RequestTurn

LEMMA RefreshTurn ==
    ASSUME IInv, InTurn, NEW c \in Requests, NEW x \in Subject, Refresh(c, x)
    PROVE  InTurn'
<1>1. c \in InFlight /\ c \in Writing /\ tx[c].phase = "counting"
  BY DEF Refresh, InFlight, Writing
<1>2. UNCHANGED <<meals, recipes, events, times, last>> /\ now' = now
  BY DEF Refresh, kitchen, history
<1>3. now' \in Nat /\ now <= now'
  BY <1>2 DEF IInv, Typed, Time
<1>4. PICK o : o = tx[c]  OBVIOUS
<1>5. PICK base : base = IF x \in DOMAIN o.seen THEN o.seen[x] ELSE [n |-> times[x], at |-> last[x]]
  OBVIOUS
<1>6. base = [n |-> times[x], at |-> last[x]]
  BY <1>1, <1>4, <1>5 DEF InTurn, AsRead
<1>7. PICK row : row = [n |-> Cardinality(After(o, x)), at |-> Top(After(o, x)), base |-> base]
  OBVIOUS
<1>8. tx' = [tx EXCEPT ![c].todo = @ \ {x},
                       ![c].staged = IF x \in meals \cup recipes THEN Put(@, x, row) ELSE @]
  BY <1>4, <1>5, <1>7 DEF Refresh, After, Top
<1>9. PICK t : t = tx'[c]  OBVIOUS
<1>10. tx' = [tx EXCEPT ![c] = t]
  BY <1>8, <1>9 DEF IInv, Typed
<1>11. /\ t.phase = "counting" /\ t.pm = o.pm /\ t.seen = o.seen
       /\ t.added = o.added /\ t.dropped = o.dropped
       /\ t.todo = o.todo \ {x}
       /\ t.staged = IF x \in meals \cup recipes THEN Put(o.staged, x, row) ELSE o.staged
  BY <1>1, <1>4, <1>8, <1>9 DEF IInv, Typed, Fields
<1>12. AsRead(t)
  BY <1>1, <1>4, <1>11 DEF InTurn, AsRead
<1>13. Counting(t)
  <2>1. Counting(o)  BY <1>1, <1>4 DEF InTurn
  <2>2. \A y : After(t, y) = After(o, y)  BY <1>11 DEF After
  <2>3. /\ x \in meals \cup recipes =>
             /\ DOMAIN t.staged = DOMAIN o.staged \cup {x}
             /\ \A y \in DOMAIN t.staged : t.staged[y] = IF y = x THEN row ELSE o.staged[y]
        /\ x \notin meals \cup recipes => t.staged = o.staged
    BY <1>11 DEF Put
  <2>4. \A y \in meals \cup recipes :
           (\E e \in t.added \cup t.dropped : e.of = y) => y \in t.todo \cup DOMAIN t.staged
    BY <1>11, <2>1, <2>3 DEF Counting
  <2>5. ASSUME NEW y \in DOMAIN t.staged \cap (meals \cup recipes)
        PROVE  t.staged[y] = [n |-> Cardinality(After(t, y)), at |-> Top(After(t, y)),
                              base |-> [n |-> times[y], at |-> last[y]]]
    <3>1. CASE y = x
      BY <1>6, <1>7, <2>2, <2>3, <2>5, <3>1
    <3>2. CASE y # x
      <4>1. y \in DOMAIN o.staged /\ t.staged[y] = o.staged[y]
        BY <2>3, <2>5, <3>2
      <4> QED
        BY <2>1, <2>2, <2>5, <4>1 DEF Counting
    <3> QED
      BY <3>1, <3>2
  <2> QED
    BY <1>11, <2>1, <2>4, <2>5 DEF Counting
<1>14. InFlight' \subseteq {c}
  BY <1>1, <1>10, AloneNow
<1> QED
  BY <1>2, <1>3, <1>10, <1>11, <1>12, <1>13, <1>14, RequestTurn

LEMMA CommitTurn ==
    ASSUME IInv, InTurn, NEW c \in Requests, Commit(c)
    PROVE  InTurn'
<1>1. c \in Writing /\ c \in InFlight
  BY DEF Commit, Writing, InFlight
<1>2. PICK t : t = tx[c]  OBVIOUS
<1>3. Counting(t) /\ t.added \subseteq Event /\ t.todo = {} /\ events \subseteq Event
  BY <1>1, <1>2 DEF Commit, InTurn, IInv, Typed
<1>4. events' = (events \ t.dropped) \cup t.added /\ UNCHANGED <<meals, recipes, now>>
  BY <1>2 DEF Commit, kitchen
<1>5. tx' = [tx EXCEPT ![c] = Idle]
  BY DEF Commit
<1>6. InFlight' = {}
  <2>1. tx'[c].phase = "idle"  BY <1>5 DEF IInv, Typed, Idle
  <2>2. InFlight' \subseteq {c}  BY <1>1, <1>5, AloneNow
  <2> QED  BY <2>1, <2>2 DEF InFlight
<1>7. Writing' = {}  BY <1>6 DEF InFlight, Writing
<1>8. \A x : EventsOf(x)' = After(t, x)
  BY <1>4 DEF EventsOf, After
<1>9. Stamped'
  <2>1. \A e \in events' : e.at <= now'
    <3>1. now \in Nat  BY DEF IInv, Typed, Time
    <3> QED  BY <1>3, <1>4, <3>1 DEF Counting, InTurn, Stamped
  <2>2. ASSUME NEW e \in events', NEW f \in events', e.what = f.what, e.at = f.at
        PROVE  e = f
    <3>1. CASE e \in events /\ f \in events
      BY <2>2, <3>1 DEF InTurn, Stamped
    <3>2. CASE e \in t.added /\ f \in t.added
      BY <1>3, <2>2, <3>2 DEF Counting, Event
    <3>3. CASE t.added # {} /\ (e \in events \/ f \in events)
      <4>1. \A d \in events : d.at < now  BY <1>3, <3>3 DEF Counting
      <4>2. now \in Nat  BY DEF IInv, Typed, Time
      <4>3. \A d \in t.added : d.at = now  BY <1>3 DEF Counting
      <4> QED  BY <1>4, <2>2, <3>1, <3>2, <4>1, <4>2, <4>3
    <3> QED  BY <1>4, <3>1, <3>2, <3>3
  <2>3. \A x \in Subject : IsFiniteSet(EventsOf(x)')
    BY <1>1, <1>2, <1>8, AfterIsFinite
  <2> QED  BY <2>1, <2>2, <2>3 DEF Stamped
<1>10. CountersMatchEvents'
  <2> SUFFICES ASSUME NEW x \in meals \cup recipes
               PROVE  times'[x] = Cardinality(After(t, x)) /\ last'[x] = Top(After(t, x))
    BY <1>4, <1>8 DEF CountersMatchEvents, Top
  <2>1. x \in Subject  BY DEF InTurn, Subject
  <2>2. times[x] = Cardinality(EventsOf(x)) /\ last[x] = Top(EventsOf(x))
    BY CountersAre DEF InTurn
  <2>3. /\ times'[x] = IF x \in DOMAIN t.staged /\ t.staged[x].n # t.staged[x].base.n
                       THEN t.staged[x].n ELSE times[x]
        /\ last'[x] = IF x \in DOMAIN t.staged /\ t.staged[x].at # t.staged[x].base.at
                      THEN t.staged[x].at ELSE last[x]
    BY <1>2, <2>1 DEF Commit
  <2>4. CASE x \in DOMAIN t.staged
    <3>1. t.staged[x] = [n |-> Cardinality(After(t, x)), at |-> Top(After(t, x)),
                         base |-> [n |-> times[x], at |-> last[x]]]
      BY <1>3, <2>4 DEF Counting
    <3> QED  BY <2>3, <2>4, <3>1
  <2>5. CASE x \notin DOMAIN t.staged
    <3>1. \A e \in t.added \cup t.dropped : e.of # x
      BY <1>3, <2>5 DEF Counting
    <3>2. After(t, x) = EventsOf(x)
      BY <3>1 DEF After, EventsOf
    <3> QED  BY <2>2, <2>3, <2>5, <3>2
  <2> QED  BY <2>4, <2>5
<1> QED
  BY <1>4, <1>6, <1>7, <1>9, <1>10 DEF InTurn

(* Steps that leave the record, the counters and the requests alone.         *)
LEMMA QuietTurn ==
    ASSUME IInv, InTurn, UNCHANGED <<meals, recipes, events, times, last, now, tx>>
    PROVE  InTurn'
<1>1. InFlight' = InFlight /\ Writing' = Writing  BY DEF InFlight, Writing
<1>2. Stamped' /\ CountersMatchEvents'
  BY DEF InTurn, Stamped, EventsOf, CountersMatchEvents
<1>3. \A c \in InFlight : AsRead(tx[c])'  BY DEF InTurn, AsRead
<1>4. \A c \in Writing : Counting(tx[c])'  BY DEF InTurn, Counting, After
<1> QED
  BY <1>1, <1>2, <1>3, <1>4 DEF InTurn

LEMMA ReadersFailed ==
    ASSUME IInv, NEW pms, FailReaders(pms)
    PROVE  /\ InFlight' \subseteq InFlight /\ Writing' \subseteq Writing
           /\ \A c \in InFlight' : tx'[c] = tx[c]
BY DEF FailReaders, Idle, InFlight, Writing

LEMMA RemoveMealTurn ==
    ASSUME IInv, InTurn, NEW pm \in PlanMeal, RemoveMeal(pm)
    PROVE  InTurn'
<1>1. PICK F : F = [e \in events |-> Unplan(e, {pm})]  OBVIOUS
<1>2. events' = {F[e] : e \in events}  BY <1>1 DEF RemoveMeal
<1>3. UNCHANGED <<times, last, now>> /\ meals' \subseteq meals /\ recipes' \subseteq recipes
  BY DEF RemoveMeal, kitchen
<1>4. /\ InFlight' \subseteq InFlight /\ Writing' \subseteq Writing
      /\ \A c \in InFlight' : tx'[c] = tx[c]
  BY ReadersFailed DEF RemoveMeal
<1>5. \A e \in events :
         /\ F[e].what = e.what /\ F[e].at = e.at
         /\ F[e].of = e.of \/ (F[e].of = Gone /\ e.of \notin meals' \cup recipes')
  BY <1>1 DEF Unplan, Event, IInv, Typed
<1>6. \A c \in Writing' : \A e \in tx[c].dropped : F[e] = e
  <2> SUFFICES ASSUME NEW c \in Writing, NEW e \in tx[c].dropped PROVE F[e] = e
    BY <1>4
  <2>1. e \in events /\ e.pm = tx[c].pm
    BY DEF IInv, Writers, Marking, Unmarking
  <2>2. e.pm # pm
    BY <2>1 DEF RemoveMeal, Locked
  <2> QED
    BY <1>1, <2>1, <2>2 DEF Unplan
<1> QED
  BY <1>2, <1>3, <1>4, <1>5, <1>6, RenamingStep

LEMMA DeleteMealTurn ==
    ASSUME IInv, InTurn, NEW m \in Meals, DeleteMeal(m)
    PROVE  InTurn'
<1>1. PICK own : own = {pm \in planned : pm[2] = m}  OBVIOUS
<1>2. PICK F : F = [e \in events |-> Forget(Unplan(e, own), m)]  OBVIOUS
<1>3. events' = {F[e] : e \in events}  BY <1>1, <1>2 DEF DeleteMeal
<1>4. /\ UNCHANGED <<times, last, now>> /\ meals' \subseteq meals /\ recipes' \subseteq recipes
      /\ m \notin meals' \cup recipes'
  BY SubjectsAssumption DEF DeleteMeal, InTurn
<1>5. /\ InFlight' \subseteq InFlight /\ Writing' \subseteq Writing
      /\ \A c \in InFlight' : tx'[c] = tx[c]
  BY <1>1, ReadersFailed DEF DeleteMeal
<1>6. \A e \in events :
         /\ F[e].what = e.what /\ F[e].at = e.at
         /\ F[e].of = e.of \/ (F[e].of = Gone /\ e.of \notin meals' \cup recipes')
  BY <1>2, <1>4 DEF Forget, Unplan, Event, IInv, Typed
<1>7. \A c \in Writing' : \A e \in tx[c].dropped : F[e] = e
  <2> SUFFICES ASSUME NEW c \in Writing, NEW e \in tx[c].dropped PROVE F[e] = e
    BY <1>5
  <2>1. e \in events /\ e.pm = tx[c].pm /\ e.pm \in planned
    BY DEF IInv, Typed, Writers, Marking, Unmarking, Writing, InFlight
  <2>2. e.pm \notin own
    BY <1>1, <2>1 DEF DeleteMeal, Locked
  <2>3. e.pm # NoPlanMeal /\ e.pm[2] # m /\ OwnMeal(e)
    BY <1>1, <2>1, <2>2, NoPlanMealIsNone DEF IInv, Typed
  <2>4. e.of # m
    BY <2>3 DEF OwnMeal
  <2> QED
    BY <1>2, <2>1, <2>2, <2>4 DEF Unplan, Forget
<1> QED
  BY <1>3, <1>4, <1>5, <1>6, <1>7, RenamingStep

LEMMA DeleteRecipeTurn ==
    ASSUME IInv, InTurn, NEW r \in Recipes, DeleteRecipe(r)
    PROVE  InTurn'
<1>1. PICK F : F = [e \in events |-> Forget(e, r)]  OBVIOUS
<1>2. events' = {F[e] : e \in events}  BY <1>1 DEF DeleteRecipe
<1>3. /\ UNCHANGED <<times, last, now, tx>> /\ meals' \subseteq meals /\ recipes' \subseteq recipes
      /\ r \notin recipes'
  BY DEF DeleteRecipe
<1>4. r \notin meals' \cup recipes'
  BY <1>3, SubjectsAssumption DEF InTurn
<1>5. InFlight' = InFlight /\ Writing' = Writing /\ \A c \in InFlight' : tx'[c] = tx[c]
  BY <1>3 DEF InFlight, Writing
<1>6. \A e \in events :
         /\ F[e].what = e.what /\ F[e].at = e.at
         /\ F[e].of = e.of \/ (F[e].of = Gone /\ e.of \notin meals' \cup recipes')
  BY <1>1, <1>4 DEF Forget, Event, IInv, Typed
<1>7. \A c \in Writing' : \A e \in tx[c].dropped : F[e] = e
  <2> SUFFICES ASSUME NEW c \in Writing, NEW e \in tx[c].dropped PROVE F[e] = e
    BY <1>5
  <2>1. e \in events /\ e.of # r
    BY DEF IInv, Writers, Marking, Unmarking, DeleteRecipe
  <2> QED
    BY <1>1, <2>1 DEF Forget
<1> QED
  BY <1>2, <1>3, <1>5, <1>6, <1>7, RenamingStep

LEMMA TurnStep ==
    ASSUME IInv, InTurn, [Next]_vars, \A c, d \in InFlight' : c = d
    PROVE  InTurn'
<1>1. ASSUME NEW c \in Requests, NEW pm \in PlanMeal, MarkCooked(c, pm)
      PROVE  InTurn'
  <2>1. now' = now + 1 /\ now' \in Nat /\ Read(c, "mark", pm)
    BY <1>1 DEF MarkCooked, IInv, Typed, Time
  <2> QED
    BY <2>1, ReadTurn
<1>2. ASSUME NEW c \in Requests, NEW pm \in PlanMeal, UndoMarkCooked(c, pm)
      PROVE  InTurn'
  <2>1. now' = now /\ now' \in Nat /\ Read(c, "undo", pm)
    BY <1>2 DEF UndoMarkCooked, IInv, Typed, Time
  <2> QED
    BY <2>1, ReadTurn
<1>3. ASSUME NEW c \in Requests, Abort(c)
      PROVE  InTurn'
  <2>1. tx' = [tx EXCEPT ![c] = Idle] /\ UNCHANGED <<meals, recipes, events, times, last, now>>
    BY <1>3 DEF Abort, kitchen, history
  <2>2. InFlight' \subseteq {c}
    BY <1>3, <2>1, AloneNow DEF Abort, InFlight
  <2>3. now' \in Nat /\ now <= now'
    BY <2>1 DEF IInv, Typed, Time
  <2>4. Idle.phase = "idle"
    BY DEF Idle
  <2> QED
    BY <2>1, <2>2, <2>3, <2>4, RequestTurn
<1>4. ASSUME \/ \E p \in Plans, m \in Meals : AddMeal(p, m)
             \/ \E m \in Meals, rs \in Compositions : UpdateMeal(m, rs)
             \/ UNCHANGED vars
      PROVE  InTurn'
  <2>1. UNCHANGED <<meals, recipes, events, times, last, now, tx>>
    BY <1>4 DEF AddMeal, UpdateMeal, vars, kitchen, history
  <2> QED
    BY <2>1, QuietTurn
<1> QED
  BY <1>1, <1>2, <1>3, <1>4, RecordCookedTurn, UndoCookedTurn, RefreshTurn, CommitTurn,
     RemoveMealTurn, DeleteMealTurn, DeleteRecipeTurn DEF Next, RequestNext, KitchenNext

TurnInv == IInv /\ (overlapped \/ InTurn)

(* services/cooking.py, _refresh: as long as no two requests have been in    *)
(* flight at once, the counters of every meal and recipe are what the record *)
(* says, whatever is planned, edited, unplanned and deleted in between, and  *)
(* whether or not requests fail halfway.                                     *)
THEOREM CountersMatch == TurnSpec => []CountersMatchInTurn
<1>1. TurnInit => TurnInv
  <2> SUFFICES ASSUME Init PROVE IInv /\ InTurn
    BY DEF TurnInit, TurnInv
  <2>1. IInv
    BY InitialInvariant
  <2>2. InFlight = {} /\ Writing = {}
    BY DEF Init, InFlight, Writing, Idle
  <2>3. \A x : EventsOf(x) = {}
    BY DEF Init, EventsOf
  <2>4. Stamped
    BY <2>3, FS_EmptySet DEF Init, Stamped
  <2>5. Top({}) = 0
    BY DEF Top, Max
  <2>6. CountersMatchEvents
    BY <2>3, <2>5, FS_EmptySet, CountersAre DEF Init, Subject
  <2> QED
    BY <2>1, <2>2, <2>4, <2>6 DEF Init, InTurn
<1>2. TurnInv /\ [TurnNext]_<<vars, overlapped>> => TurnInv'
  <2> SUFFICES ASSUME TurnInv, [TurnNext]_<<vars, overlapped>> PROVE TurnInv'
    OBVIOUS
  <2>1. IInv' /\ [Next]_vars
    BY InvariantStep DEF TurnInv, TurnNext
  <2>2. CASE TurnNext
    <3>1. CASE overlapped \/ \E c, d \in InFlight' : c # d
      BY <2>1, <2>2, <3>1 DEF TurnNext, TurnInv
    <3>2. CASE ~overlapped /\ \A c, d \in InFlight' : c = d
      BY <2>1, <3>2, TurnStep DEF TurnInv
    <3> QED
      BY <3>1, <3>2
  <2>3. CASE UNCHANGED <<vars, overlapped>>
    <3>1. UNCHANGED <<meals, recipes, events, times, last, now, tx>> /\ overlapped' = overlapped
      BY <2>3 DEF vars, kitchen, history
    <3> QED
      BY <2>1, <3>1, QuietTurn DEF TurnInv
  <2> QED
    BY <2>2, <2>3
<1>3. TurnInv => CountersMatchInTurn
  BY DEF TurnInv, InTurn, CountersMatchInTurn
<1> QED
  BY <1>1, <1>2, <1>3, PTL DEF TurnSpec
=============================================================================
