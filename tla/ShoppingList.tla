----------------------------- MODULE ShoppingList -----------------------------
(***************************************************************************)
(* The household's shopping list and everything that writes to it: the     *)
(* recipe library, the meals, the plans and the list itself, one action    *)
(* per transaction of src/backend/app.  A state is the content of the      *)
(* database between two transactions.                                      *)
(*                                                                         *)
(* A line of a list is identified by its list and its key (ingredient and  *)
(* unit); a source row says why a line is there.  `needs' holds the rows   *)
(* with a plan meal, `adhoc' the rows without one.  A quantity is a        *)
(* natural number, 0 standing for "no amount stated" (a stated amount is   *)
(* positive, schemas/common.py:13), so None and a sum behave as in the     *)
(* code.  Row ids are abstracted: a plan meal is the pair <<plan, meal>>   *)
(* (uq_plan_meal), which a removed and re-added meal reuses, soundly,      *)
(* because deleting a plan meal deletes its source rows.                   *)
(***************************************************************************)
EXTENDS Naturals, FiniteSetsExt

CONSTANTS
    Recipes, Meals, Plans,  \* ids the three tables may use
    Ingredients, Units,     \* a key is a pair of these
    Slots,                  \* positions of a recipe's or a meal's own lines
    Quantities,             \* amounts a line may state, 0 for none
    ClientKeys, NoClient,   \* what an ad-hoc add sends as its id: NoClient is none
    Loose,                  \* in the place of a recipe: the meal's own lines
    RecipeBodies,           \* the bodies a recipe may be given
    MealBodies,             \* the compositions a meal may be given
    ToggledFlags,           \* the flags clients patch
    MaxLists                \* bound on the number of lists ever created

Key == Ingredients \X Units
Line == [slot : Slots, key : Key, qty : Quantities]
Link == [recipe : Recipes, scale : Nat]
MealBody == [linked : SUBSET Link, loose : SUBSET Line]
PlanMeal == Plans \X Meals
Flag == {"checked", "excluded", "staple_needed"}
Lists == 1..MaxLists

ASSUME BodiesAssumption ==
    /\ Quantities \subseteq Nat
    /\ RecipeBodies \subseteq SUBSET Line
    /\ MealBodies \subseteq MealBody
    /\ ToggledFlags \subseteq Flag
ASSUME MaxListsAssumption == MaxLists \in Nat \ {0}
ASSUME LooseAssumption == Loose \notin Recipes

VARIABLES
    library,      \* recipes that exist
    body,         \* their ingredient lines
    meals,        \* meals that exist
    composition,  \* their linked recipes and loose ingredients
    status,       \* of each plan: none, active or archived
    planned,      \* plan meals that exist
    active,       \* the live list, 0 before the first; smaller ids are archived
    lines,        \* list_items
    needs,        \* list_item_sources with a plan meal
    adhoc         \* list_item_sources without one

kitchen == <<library, body, meals, composition>>
plans == <<status, planned>>
list == <<active, lines, needs, adhoc>>
vars == <<kitchen, plans, list>>

-----------------------------------------------------------------------------
ListLine == [list : Lists, key : Key, flags : [Flag -> BOOLEAN]]
Need == [list : Lists, key : Key, pm : PlanMeal,
         via : Recipes \cup {Loose}, slot : Slots, qty : Nat]
Adhoc == [list : Lists, key : Key, client : ClientKeys]

TypeOK ==
    /\ library \subseteq Recipes
    /\ body \in [Recipes -> SUBSET Line]
    /\ meals \subseteq Meals
    /\ composition \in [Meals -> MealBody]
    /\ status \in [Plans -> {"none", "active", "archived"}]
    /\ planned \subseteq PlanMeal
    /\ active \in 0..MaxLists
    /\ lines \subseteq ListLine
    /\ needs \subseteq Need
    /\ adhoc \subseteq Adhoc

NoMeal == [linked |-> {}, loose |-> {}]

Init ==
    /\ library = {}
    /\ body = [r \in Recipes |-> {}]
    /\ meals = {}
    /\ composition = [m \in Meals |-> NoMeal]
    /\ status = [p \in Plans |-> "none"]
    /\ planned = {}
    /\ active = 0
    /\ lines = {}
    /\ needs = {}
    /\ adhoc = {}

-----------------------------------------------------------------------------
(* get_active_list: the list a request works on, created when there is none *)
TheList_NotCreated == active  \* mutant: no list yet, none created
TheList == IF active = 0 THEN 1 ELSE active
UseTheList == active' = TheList

At(rows, l, k) == {r \in rows : r.list = l /\ r.key = k}
Sourced(l, k) == At(needs, l, k) \cup At(adhoc, l, k) # {}
FreshLine(l, k) == [list |-> l, key |-> k, flags |-> [f \in Flag |-> FALSE]]
Surfaced(ln) == [ln EXCEPT !.flags = [@ EXCEPT !["checked"] = FALSE]]

(* _meal_contributions: what a meal needs, recipe lines scaled by their link *)
Contributions(cmp, bdy) ==
    (UNION {{[key |-> ln.key, via |-> lk.recipe, slot |-> ln.slot,
              qty |-> ln.qty * lk.scale] : ln \in bdy[lk.recipe]} : lk \in cmp.linked})
    \cup {[key |-> ln.key, via |-> Loose, slot |-> ln.slot, qty |-> ln.qty] :
             ln \in cmp.loose}

(* the source rows that put each of these plan meals on list l *)
RowsFor(pms, l, bdy, cmp) ==
    UNION {{[list |-> l, key |-> c.key, pm |-> pm, via |-> c.via,
             slot |-> c.slot, qty |-> c.qty] : c \in Contributions(cmp[pm[2]], bdy)} :
               pm \in pms}

(* add_meal_contributions: join existing lines, unticking them, else new ones *)
Surface(rows, hit) ==
    LET l == TheList
        keys == {r.key : r \in rows} IN
    {IF ln.list = l /\ ln.key \in keys THEN Surfaced(ln) ELSE ln : ln \in hit}
    \cup {FreshLine(l, k) : k \in {x \in keys : At(hit, l, x) = {}}}

AddContributions(pms) ==
    LET rows == RowsFor(pms, TheList, body, composition) IN
    /\ UseTheList
    /\ needs' = needs \cup rows
    /\ lines' = Surface(rows, lines)

(* remove_meal_contributions, on the active list: lines these plan meals    *)
(* leave without any source go                                              *)
Emptied_Never(pms) == {}  \* mutant: lines nobody needs stay
Emptied(pms) ==
    {ln \in lines :
        /\ ln.list = TheList
        /\ \E n \in At(needs, ln.list, ln.key) : n.pm \in pms
        /\ \A n \in At(needs, ln.list, ln.key) : n.pm \in pms
        /\ At(adhoc, ln.list, ln.key) = {}}

(* resync_meal_contributions: for each plan meal in turn, replace its rows  *)
(* and give back the flags of the lines whose total from it did not change. *)
(* The order is whatever the queries return (rank): it decides only whether *)
(* a line is deleted and created anew, losing its other flags, on the way.  *)
Amount(rows) == MapThenSumSet(LAMBDA r : r.qty, rows)

SameAmount_Never(before, after) == FALSE  \* mutant: no state is given back
SameAmount(before, after) ==
    before # {} /\ after # {} /\ Amount(before) = Amount(after)

Orders(pms) ==
    {rank \in [pms -> 1..Cardinality(pms)] :
        /\ \A x, y \in pms : rank[x] = rank[y] => x = y
        /\ \A x, y, z \in pms :  \* one meal after the other
              x[2] = z[2] /\ rank[x] < rank[y] /\ rank[y] < rank[z] => y[2] = x[2]}

ResyncedNeeds(pms, bdy, cmp) ==
    {n \in needs : n.list # TheList \/ n.pm \notin pms} \cup RowsFor(pms, TheList, bdy, cmp)

ResyncedLines(pms, bdy, cmp, rank) ==
    LET l == TheList
        rows == RowsFor(pms, l, bdy, cmp)
        Before(pm, k) == {n \in At(needs, l, k) : n.pm = pm}
        After(pm, k) == {n \in At(rows, l, k) : n.pm = pm}
        Same(pm, k) == SameAmount(Before(pm, k), After(pm, k))
        Changed(k) == \E pm \in pms : After(pm, k) # {} /\ ~Same(pm, k)
        Others(k) == {n \in At(needs, l, k) : n.pm \notin pms} \cup At(adhoc, l, k)
        Recreated(k) ==
            /\ Others(k) = {}
            /\ \E pm \in pms :
                 /\ Before(pm, k) # {} /\ ~Same(pm, k)
                 /\ \A x \in pms \ {pm} :
                      IF rank[x] < rank[pm] THEN After(x, k) = {} ELSE Before(x, k) = {}
        Updated(ln) ==
            IF ln.list # l \/ ~Changed(ln.key) THEN ln
            ELSE IF Recreated(ln.key) THEN FreshLine(l, ln.key) ELSE Surfaced(ln)
        gone == {ln \in Emptied(pms) : At(rows, l, ln.key) = {}}
    IN  {Updated(ln) : ln \in lines \ gone}
        \cup {FreshLine(l, r.key) : r \in {x \in rows : At(lines, l, x.key) = {}}}

Resync(pms, bdy, cmp) ==
    /\ UseTheList
    /\ needs' = ResyncedNeeds(pms, bdy, cmp)
    /\ \E rank \in Orders(pms) : lines' = ResyncedLines(pms, bdy, cmp, rank)

InActivePlans(ms) == {pm \in planned : pm[2] \in ms /\ status[pm[1]] = "active"}

-----------------------------------------------------------------------------
(* Recipes *)

(* POST /recipes, and an ingest of a new page *)
CreateRecipe(r, b) ==
    /\ r \notin library
    /\ library' = library \cup {r}
    /\ body' = [body EXCEPT ![r] = b]
    /\ UNCHANGED <<meals, composition, plans, list>>

MealsUsing_First(r) ==  \* mutant: only one of the meals using a recipe
    LET using == {m \in meals : \E lk \in composition[m].linked : lk.recipe = r} IN
    IF using = {} THEN {} ELSE {CHOOSE m \in using : TRUE}
MealsUsing(r) == {m \in meals : \E lk \in composition[m].linked : lk.recipe = r}

(* PATCH /recipes/{id} with ingredients, and a re-parse of its page *)
UpdateRecipe(r, b) ==
    /\ r \in library
    /\ body' = [body EXCEPT ![r] = b]
    /\ IF MealsUsing(r) = {} THEN UNCHANGED <<active, lines, needs>>
       ELSE Resync(InActivePlans(MealsUsing(r)), body', composition)
    /\ UNCHANGED <<library, meals, composition, plans, adhoc>>

(* DELETE /recipes/{id}: 409 while a meal uses it; rows that came through it *)
(* on an archived list stay, without a recipe                                *)
DeleteRecipe(r) ==
    /\ r \in library
    /\ MealsUsing(r) = {}
    /\ library' = library \ {r}
    /\ body' = [body EXCEPT ![r] = {}]
    /\ needs' = {IF n.via = r THEN [n EXCEPT !.via = Loose] ELSE n : n \in needs}
    /\ UNCHANGED <<meals, composition, plans, active, lines, adhoc>>

-----------------------------------------------------------------------------
(* Meals: 422 when a linked recipe is not in the library *)

Linkable(b) == \A lk \in b.linked : lk.recipe \in library

(* POST /meals *)
CreateMeal(m, b) ==
    /\ m \notin meals
    /\ Linkable(b)
    /\ meals' = meals \cup {m}
    /\ composition' = [composition EXCEPT ![m] = b]
    /\ UNCHANGED <<library, body, plans, list>>

UpdateMeal(m, b) ==
    /\ m \in meals
    /\ Linkable(b)
    /\ composition' = [composition EXCEPT ![m] = b]
    /\ Resync(InActivePlans({m}), body, composition')
    /\ UNCHANGED <<library, body, meals, plans, adhoc>>

(* DELETE /meals/{id}: off the active list, off every plan, and through the *)
(* foreign key its rows go from archived lists too                          *)
DeleteMeal(m) ==
    /\ m \in meals
    /\ UseTheList
    /\ lines' = lines \ Emptied(InActivePlans({m}))
    /\ needs' = {n \in needs : n.pm[2] # m}
    /\ planned' = {pm \in planned : pm[2] # m}
    /\ meals' = meals \ {m}
    /\ composition' = [composition EXCEPT ![m] = NoMeal]
    /\ UNCHANGED <<library, body, status, adhoc>>

-----------------------------------------------------------------------------
(* Plans *)

(* POST /plans *)
CreatePlan(p) ==
    /\ status[p] = "none"
    /\ status' = [status EXCEPT ![p] = "active"]
    /\ UNCHANGED <<kitchen, planned, list>>

(* POST /plans with copy_from_plan_id: every meal of q joins the new plan *)
CopyPlan(p, q) ==
    LET copied == {<<p, pm[2]>> : pm \in {x \in planned : x[1] = q}} IN
    /\ status[p] = "none"
    /\ status[q] # "none"
    /\ status' = [status EXCEPT ![p] = "active"]
    /\ planned' = planned \cup copied
    /\ IF copied = {} THEN UNCHANGED <<active, lines, needs>>
       ELSE AddContributions(copied)
    /\ UNCHANGED <<kitchen, adhoc>>

(* POST /plans/{id}/meals: 409 on an archived plan or a meal already there *)
AddMeal(p, m) ==
    /\ status[p] = "active"
    /\ m \in meals
    /\ <<p, m>> \notin planned
    /\ planned' = planned \cup {<<p, m>>}
    /\ AddContributions({<<p, m>>})
    /\ UNCHANGED <<kitchen, status, adhoc>>

(* DELETE /plans/{id}/meals/{plan_meal}: an archived plan leaves the active *)
(* list's lines alone, but its plan meal's rows go with it everywhere       *)
RemoveMeal(p, m) ==
    /\ <<p, m>> \in planned
    /\ planned' = planned \ {<<p, m>>}
    /\ IF status[p] = "active"
       THEN UseTheList /\ lines' = lines \ Emptied({<<p, m>>})
       ELSE UNCHANGED <<active, lines>>
    /\ needs' = {n \in needs : n.pm # <<p, m>>}
    /\ UNCHANGED <<kitchen, status, adhoc>>

(* POST /plans/{id}/archive *)
ArchivePlan_KeepsNeeds(p) ==  \* mutant: its needs stay on the list
    /\ status[p] = "active"
    /\ status' = [status EXCEPT ![p] = "archived"]
    /\ UNCHANGED <<kitchen, planned, list>>
ArchivePlan(p) ==
    LET own == {pm \in planned : pm[1] = p} IN
    /\ status[p] = "active"
    /\ status' = [status EXCEPT ![p] = "archived"]
    /\ UseTheList
    /\ lines' = lines \ Emptied(own)
    /\ needs' = {n \in needs : n.list # TheList \/ n.pm \notin own}
    /\ UNCHANGED <<kitchen, planned, adhoc>>

-----------------------------------------------------------------------------
(* The list *)

(* GET /shopping-list *)
GetShoppingList ==
    /\ UseTheList
    /\ UNCHANGED <<kitchen, plans, lines, needs, adhoc>>

Replayed(c) == \E a \in adhoc : a.list = TheList /\ a.client = c /\ c # NoClient

(* POST /shopping-list/items: a client id already on the active list changes *)
(* nothing                                                                   *)
AddItem(k, c) ==
    LET row == [list |-> TheList, key |-> k, client |-> c] IN
    /\ UseTheList
    /\ IF Replayed(c) THEN UNCHANGED <<lines, adhoc>>
       ELSE /\ adhoc' = adhoc \cup {row}
            /\ lines' = Surface({row}, lines)
    /\ UNCHANGED <<kitchen, plans, needs>>

(* PATCH /shopping-list/items/{id}, of the active list or an archived one *)
UpdateItem(ln, patch) ==
    /\ ln \in lines
    /\ lines' = (lines \ {ln}) \cup
          {[ln EXCEPT !.flags =
               [f \in Flag |-> IF f \in DOMAIN patch THEN patch[f] ELSE @[f]]]}
    /\ UNCHANGED <<kitchen, plans, active, needs, adhoc>>

(* DELETE /shopping-list/items/{id}: 409 while a plan meal needs the line *)
DeleteItem_Any(ln) ==  \* mutant: no 409
    /\ ln \in lines
    /\ lines' = lines \ {ln}
    /\ adhoc' = adhoc \ At(adhoc, ln.list, ln.key)
    /\ UNCHANGED <<kitchen, plans, active, needs>>
DeleteItem(ln) ==
    /\ ln \in lines
    /\ At(needs, ln.list, ln.key) = {}
    /\ lines' = lines \ {ln}
    /\ adhoc' = adhoc \ At(adhoc, ln.list, ln.key)
    /\ UNCHANGED <<kitchen, plans, active, needs>>

(* POST /shopping-list/archive *)
ArchiveList ==
    /\ TheList < MaxLists
    /\ active' = TheList + 1
    /\ UNCHANGED <<kitchen, plans, lines, needs, adhoc>>

-----------------------------------------------------------------------------
MergeIngredients_NoFold(keeper, dups) ==  \* mutant: colliding lines stay two
    LET Moved(k) == IF k[1] \in dups THEN <<keeper, k[2]>> ELSE k
        Repoint(rows) == {[r EXCEPT !.key = Moved(@)] : r \in rows}
    IN  /\ keeper \notin dups
        /\ body' = [r \in Recipes |-> Repoint(body[r])]
        /\ composition' = [m \in Meals |->
                             [composition[m] EXCEPT !.loose = Repoint(@)]]
        /\ lines' = Repoint(lines)
        /\ needs' = Repoint(needs)
        /\ adhoc' = Repoint(adhoc)
        /\ UNCHANGED <<library, meals, plans, active>>

(* POST /ingredients/{id}/merge: every reference to a duplicate moves to the *)
(* keeper, and lines that collide fold into one                              *)
MergeIngredients(keeper, dups) ==
    LET Moved(k) == IF k[1] \in dups THEN <<keeper, k[2]>> ELSE k
        Repoint(rows) == {[r EXCEPT !.key = Moved(@)] : r \in rows}
        Halves(l, k) == {ln \in lines : ln.list = l /\ Moved(ln.key) = k}
        Fold(l, k) ==
            [list |-> l, key |-> k,
             flags |-> [f \in Flag |->
                IF f = "staple_needed" THEN \E h \in Halves(l, k) : h.flags[f]
                ELSE \A h \in Halves(l, k) : h.flags[f]]]
    IN  /\ keeper \notin dups
        /\ body' = [r \in Recipes |-> Repoint(body[r])]
        /\ composition' = [m \in Meals |->
                             [composition[m] EXCEPT !.loose = Repoint(@)]]
        /\ lines' = {Fold(ln.list, Moved(ln.key)) : ln \in lines}
        /\ needs' = Repoint(needs)
        /\ adhoc' = Repoint(adhoc)
        /\ UNCHANGED <<library, meals, plans, active>>

-----------------------------------------------------------------------------
RecipeNext ==
    \E r \in Recipes :
        \/ \E b \in RecipeBodies : CreateRecipe(r, b) \/ UpdateRecipe(r, b)
        \/ DeleteRecipe(r)

MealNext ==
    \E m \in Meals :
        \/ \E b \in MealBodies : CreateMeal(m, b) \/ UpdateMeal(m, b)
        \/ DeleteMeal(m)

PlanNext ==
    \E p \in Plans :
        \/ CreatePlan(p)
        \/ \E q \in Plans : CopyPlan(p, q)
        \/ \E m \in Meals : AddMeal(p, m) \/ RemoveMeal(p, m)
        \/ ArchivePlan(p)

ListNext ==
    \/ GetShoppingList
    \/ \E k \in Key, c \in ClientKeys : AddItem(k, c)
    \/ \E ln \in lines :
        \/ \E fs \in SUBSET ToggledFlags : \E patch \in [fs -> BOOLEAN] :
              UpdateItem(ln, patch)
        \/ DeleteItem(ln)
    \/ ArchiveList

MergeNext ==
    \E keeper \in Ingredients, dups \in SUBSET Ingredients :
        MergeIngredients(keeper, dups)

Next == RecipeNext \/ MealNext \/ PlanNext \/ ListNext \/ MergeNext

Spec == Init /\ [][Next]_vars

-----------------------------------------------------------------------------
(* Properties *)

(* A line is identified by its list, ingredient and unit (models/shopping.py, *)
(* ListItem): no path, the merge of ingredients included, leaves two lines    *)
(* with one identity.                                                         *)
LineIdentity ==
    \A x, y \in lines : x.list = y.list /\ x.key = y.key => x = y

(* The list knows why: no line of the live list is without a source, so       *)
(* nothing stays to be bought after the last reason for it went, and no       *)
(* source row is without its line, so no need is hidden.                      *)
EveryLineHasAReason ==
    /\ \A ln \in lines : ln.list = active => Sourced(ln.list, ln.key)
    /\ \A s \in needs \cup adhoc : At(lines, s.list, s.key) # {}

(* A plan meal's row belongs to a plan meal that exists, and on the live list *)
(* to one in an active plan: archiving a plan, removing a meal from it and    *)
(* deleting a meal all take their needs off the list.                         *)
ProvenanceLive ==
    \A n \in needs :
        /\ n.pm \in planned
        /\ n.list = active => status[n.pm[1]] = "active"

(* The live list never disagrees with the meals it came from                  *)
(* (routers/recipes.py, _resync_meals_using): a plan meal of an active plan   *)
(* has there exactly what its meal needs now, or nothing, when the list it    *)
(* had joined was archived.                                                   *)
InSync ==
    \A pm \in planned :
        LET here == {n \in needs : n.list = active /\ n.pm = pm} IN
        status[pm[1]] = "active" =>
            here \in {{}, RowsFor({pm}, active, body, composition)}

NeedsOf(pm, k) == {n \in At(needs, TheList, k) : n.pm = pm}
SameNeed(pm, k) ==
    /\ Amount(NeedsOf(pm, k)) = Amount(NeedsOf(pm, k)')
    /\ NeedsOf(pm, k) = {} <=> NeedsOf(pm, k)' = {}

(* Editing a meal or a recipe never unticks, hides or reveals a line every    *)
(* plan meal needs as much of as before                                       *)
(* (services/shopping.py, resync_meal_contributions).                         *)
UnchangedNeedKeepsState ==
    [][UNCHANGED plans /\ <<kitchen, needs>>' # <<kitchen, needs>> /\ ~MergeNext =>
        \A ln \in lines :
            ln.list = TheList /\ (\A pm \in planned : SameNeed(pm, ln.key))
                => ln \in lines']_vars

(* What somebody added by hand leaves a list only when its line is deleted,   *)
(* and that only while no planned meal needs the line: no planning step, edit *)
(* or merge ever takes it.                                                    *)
AdhocNeverLost ==
    [][\A a \in adhoc :
        (\A b \in adhoc' : b.list # a.list \/ b.client # a.client) =>
            /\ At(needs, a.list, a.key) = {}
            /\ UNCHANGED <<kitchen, plans, needs>>]_vars

StillNeeds(n) == \E x \in At(needs, n.list, n.key) : x.pm = n.pm

=============================================================================
