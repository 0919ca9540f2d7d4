-------------------------- MODULE ShoppingList_proofs --------------------------
(***************************************************************************)
(* What holds of ShoppingList for every household, whatever its recipes,   *)
(* meals, plans and ingredients and however many its lists: lines have     *)
(* reasons, the list follows the meals, edits keep what is ticked, what    *)
(* was added by hand stays, and the loop of ResyncLoop, one plan meal      *)
(* after the other, comes to the Resync that ShoppingList takes at once.   *)
(***************************************************************************)
EXTENDS ResyncLoop, FiniteSetTheorems, FunctionTheorems, WellFoundedInduction, TLAPS

LEMMA FreshLineType ==
    ASSUME NEW l \in Lists, NEW k \in Key
    PROVE  FreshLine(l, k) \in ListLine
BY DEF FreshLine, ListLine

LEMMA SurfacedType ==
    ASSUME NEW ln \in ListLine
    PROVE  /\ Surfaced(ln) \in ListLine
           /\ Surfaced(ln).list = ln.list
           /\ Surfaced(ln).key = ln.key
BY DEF Surfaced, ListLine, Flag

LEMMA TheListType == TypeOK => TheList \in Lists
BY MaxListsAssumption DEF TypeOK, TheList, Lists

LEMMA ContributionsType ==
    ASSUME NEW bdy \in [Recipes -> SUBSET Line], NEW cmp \in MealBody,
           NEW c \in Contributions(cmp, bdy)
    PROVE  /\ c.key \in Key
           /\ c.via \in Recipes \cup {Loose}
           /\ c.slot \in Slots
           /\ c.qty \in Nat
<1>1. CASE c \in {[key |-> ln.key, via |-> Loose, slot |-> ln.slot, qty |-> ln.qty] :
                     ln \in cmp.loose}
  <2>1. PICK ln \in cmp.loose : c = [key |-> ln.key, via |-> Loose,
                                     slot |-> ln.slot, qty |-> ln.qty]
    BY <1>1
  <2>2. ln \in Line
    BY DEF MealBody
  <2> QED
    BY <2>1, <2>2, BodiesAssumption DEF Line
<1>2. CASE \E lk \in cmp.linked : c \in {[key |-> ln.key, via |-> lk.recipe,
                slot |-> ln.slot, qty |-> ln.qty * lk.scale] : ln \in bdy[lk.recipe]}
  <2>1. PICK lk \in cmp.linked : c \in {[key |-> ln.key, via |-> lk.recipe,
                slot |-> ln.slot, qty |-> ln.qty * lk.scale] : ln \in bdy[lk.recipe]}
    BY <1>2
  <2>2. lk.recipe \in Recipes /\ lk.scale \in Nat
    BY DEF MealBody, Link
  <2>3. PICK ln \in bdy[lk.recipe] : c = [key |-> ln.key, via |-> lk.recipe,
                slot |-> ln.slot, qty |-> ln.qty * lk.scale]
    BY <2>1
  <2>4. ln \in Line
    BY <2>2
  <2>5. ln.qty \in Nat /\ ln.key \in Key /\ ln.slot \in Slots
    BY <2>4, BodiesAssumption DEF Line
  <2>6. ln.qty * lk.scale \in Nat
    BY <2>2, <2>5
  <2> QED
    BY <2>2, <2>3, <2>5, <2>6
<1> QED
  BY <1>1, <1>2 DEF Contributions

LEMMA RowsForType ==
    ASSUME NEW bdy \in [Recipes -> SUBSET Line], NEW cmp \in [Meals -> MealBody],
           NEW pms \in SUBSET PlanMeal, NEW l \in Lists
    PROVE  /\ RowsFor(pms, l, bdy, cmp) \subseteq Need
           /\ \A n \in RowsFor(pms, l, bdy, cmp) : n.list = l /\ n.pm \in pms
<1> SUFFICES ASSUME NEW n \in RowsFor(pms, l, bdy, cmp)
             PROVE  n \in Need /\ n.list = l /\ n.pm \in pms
  OBVIOUS
<1>1. PICK pm \in pms : n \in {[list |-> l, key |-> c.key, pm |-> pm, via |-> c.via,
          slot |-> c.slot, qty |-> c.qty] : c \in Contributions(cmp[pm[2]], bdy)}
  BY DEF RowsFor
<1>2. cmp[pm[2]] \in MealBody
  BY DEF PlanMeal
<1>3. PICK c \in Contributions(cmp[pm[2]], bdy) :
         n = [list |-> l, key |-> c.key, pm |-> pm, via |-> c.via,
              slot |-> c.slot, qty |-> c.qty]
  BY <1>1
<1> QED
  BY <1>2, <1>3, ContributionsType DEF Need

LEMMA SurfaceType ==
    ASSUME TypeOK, NEW hit \in SUBSET ListLine, NEW rows,
           \A r \in rows : r.key \in Key
    PROVE  Surface(rows, hit) \subseteq ListLine
BY TheListType, FreshLineType, SurfacedType DEF Surface

LEMMA AddContributionsType ==
    ASSUME TypeOK, NEW pms \in SUBSET PlanMeal, AddContributions(pms)
    PROVE  active' \in 0..MaxLists /\ needs' \subseteq Need /\ lines' \subseteq ListLine
<1> DEFINE rows == RowsFor(pms, TheList, body, composition)
<1>1. rows \subseteq Need
  BY RowsForType, TheListType DEF TypeOK
<1>2. Surface(rows, lines) \subseteq ListLine
  BY <1>1, SurfaceType DEF TypeOK, Need
<1> QED
  BY <1>1, <1>2, TheListType DEF AddContributions, TypeOK, UseTheList, Lists

LEMMA ResyncType ==
    ASSUME TypeOK, NEW pms \in SUBSET PlanMeal,
           NEW bdy \in [Recipes -> SUBSET Line], NEW cmp \in [Meals -> MealBody],
           Resync(pms, bdy, cmp)
    PROVE  active' \in 0..MaxLists /\ needs' \subseteq Need /\ lines' \subseteq ListLine
<1> DEFINE rows == RowsFor(pms, TheList, bdy, cmp)
<1>1. rows \subseteq Need
  BY RowsForType, TheListType
<1>2. active' \in 0..MaxLists
  BY TheListType DEF Resync, UseTheList, Lists
<1>3. needs' \subseteq Need
  BY <1>1 DEF Resync, ResyncedNeeds, TypeOK
<1>4. ASSUME NEW rank, NEW ln \in ResyncedLines(pms, bdy, cmp, rank)
      PROVE  ln \in ListLine
  <2>1. CASE \E r \in rows : ln = FreshLine(TheList, r.key)
    BY <2>1, <1>1, FreshLineType, TheListType DEF Need
  <2>2. CASE \E x \in lines : ln = x \/ ln = FreshLine(TheList, x.key) \/ ln = Surfaced(x)
    BY <2>2, FreshLineType, SurfacedType, TheListType DEF TypeOK, ListLine
  <2> QED
    BY <1>4, <2>1, <2>2 DEF ResyncedLines
<1> QED
  BY <1>2, <1>3, <1>4 DEF Resync

(* No request leaves a table with a row of another kind. *)
LEMMA TypeStep == TypeOK /\ [Next]_vars => TypeOK'
<1> SUFFICES ASSUME TypeOK, [Next]_vars
             PROVE  TypeOK'
  OBVIOUS
<1> USE TheListType
<1>1. ASSUME NEW r \in Recipes, NEW b \in RecipeBodies, CreateRecipe(r, b)
      PROVE  TypeOK'
  BY <1>1, BodiesAssumption DEF CreateRecipe, TypeOK, plans, list
<1>2. ASSUME NEW r \in Recipes, NEW b \in RecipeBodies, UpdateRecipe(r, b)
      PROVE  TypeOK'
  <2>1. body' \in [Recipes -> SUBSET Line]
    BY <1>2, BodiesAssumption DEF UpdateRecipe, TypeOK
  <2>2. InActivePlans(MealsUsing(r)) \in SUBSET PlanMeal
    BY DEF InActivePlans, TypeOK
  <2>3. active' \in 0..MaxLists /\ needs' \subseteq Need /\ lines' \subseteq ListLine
    <3>1. CASE MealsUsing(r) = {}
      BY <1>2, <3>1 DEF UpdateRecipe, TypeOK
    <3>2. CASE Resync(InActivePlans(MealsUsing(r)), body', composition)
      BY <3>2, <2>1, <2>2, ResyncType DEF TypeOK
    <3> QED
      BY <1>2, <3>1, <3>2 DEF UpdateRecipe
  <2> QED
    BY <1>2, <2>1, <2>3 DEF UpdateRecipe, TypeOK, plans
<1>3. ASSUME NEW r \in Recipes, DeleteRecipe(r)
      PROVE  TypeOK'
  <2>1. ASSUME NEW n \in needs
        PROVE  (IF n.via = r THEN [n EXCEPT !.via = Loose] ELSE n) \in Need
    BY DEF TypeOK, Need
  <2> QED
    BY <1>3, <2>1 DEF DeleteRecipe, TypeOK, plans
<1>4. ASSUME NEW m \in Meals, NEW b \in MealBodies, CreateMeal(m, b)
      PROVE  TypeOK'
  BY <1>4, BodiesAssumption DEF CreateMeal, TypeOK, plans, list
<1>5. ASSUME NEW m \in Meals, NEW b \in MealBodies, UpdateMeal(m, b)
      PROVE  TypeOK'
  <2>1. composition' \in [Meals -> MealBody]
    BY <1>5, BodiesAssumption DEF UpdateMeal, TypeOK
  <2>2. InActivePlans({m}) \in SUBSET PlanMeal
    BY DEF InActivePlans, TypeOK
  <2>3. active' \in 0..MaxLists /\ needs' \subseteq Need /\ lines' \subseteq ListLine
    BY <1>5, <2>1, <2>2, ResyncType DEF UpdateMeal, TypeOK
  <2> QED
    BY <1>5, <2>1, <2>3 DEF UpdateMeal, TypeOK, plans
<1>6. ASSUME NEW m \in Meals, DeleteMeal(m)
      PROVE  TypeOK'
  <2>1. composition' \in [Meals -> MealBody]
    BY <1>6 DEF DeleteMeal, TypeOK, NoMeal, MealBody
  <2> QED
    BY <1>6, <2>1 DEF DeleteMeal, TypeOK, UseTheList, Lists
<1>7. ASSUME NEW p \in Plans, CreatePlan(p)
      PROVE  TypeOK'
  BY <1>7 DEF CreatePlan, TypeOK, kitchen, list
<1>8. ASSUME NEW p \in Plans, NEW q \in Plans, CopyPlan(p, q)
      PROVE  TypeOK'
  <2> DEFINE copied == {<<p, pm[2]>> : pm \in {x \in planned : x[1] = q}}
  <2>1. copied \in SUBSET PlanMeal
    BY DEF PlanMeal, TypeOK
  <2>2. active' \in 0..MaxLists /\ needs' \subseteq Need /\ lines' \subseteq ListLine
    BY <1>8, <2>1, AddContributionsType DEF CopyPlan, TypeOK
  <2> QED
    BY <1>8, <2>1, <2>2 DEF CopyPlan, TypeOK, kitchen
<1>9. ASSUME NEW p \in Plans, NEW m \in Meals, AddMeal(p, m)
      PROVE  TypeOK'
  <2>1. {<<p, m>>} \in SUBSET PlanMeal
    BY DEF PlanMeal
  <2>2. active' \in 0..MaxLists /\ needs' \subseteq Need /\ lines' \subseteq ListLine
    BY <1>9, <2>1, AddContributionsType DEF AddMeal
  <2> QED
    BY <1>9, <2>1, <2>2 DEF AddMeal, TypeOK, kitchen
<1>10. ASSUME NEW p \in Plans, NEW m \in Meals, RemoveMeal(p, m)
       PROVE  TypeOK'
  BY <1>10 DEF RemoveMeal, TypeOK, kitchen, UseTheList, Lists
<1>11. ASSUME NEW p \in Plans, ArchivePlan(p)
       PROVE  TypeOK'
  BY <1>11 DEF ArchivePlan, TypeOK, kitchen, UseTheList, Lists
<1>12. CASE GetShoppingList
  BY <1>12 DEF GetShoppingList, TypeOK, kitchen, plans, UseTheList, Lists
<1>13. ASSUME NEW k \in Key, NEW c \in ClientKeys, AddItem(k, c)
       PROVE  TypeOK'
  <2> DEFINE row == [list |-> TheList, key |-> k, client |-> c]
  <2>1. row \in Adhoc /\ row.key \in Key
    BY DEF Adhoc
  <2>2. Surface({row}, lines) \subseteq ListLine
    BY <2>1, SurfaceType DEF TypeOK
  <2>3. active' \in 0..MaxLists /\ UNCHANGED <<kitchen, plans, needs>>
    BY <1>13 DEF AddItem, UseTheList, Lists
  <2>4. adhoc' \subseteq Adhoc /\ lines' \subseteq ListLine
    <3>1. CASE Replayed(c)
      BY <1>13, <3>1 DEF AddItem, TypeOK
    <3>2. CASE ~Replayed(c)
      BY <1>13, <2>1, <2>2, <3>2 DEF AddItem, TypeOK
    <3> QED
      BY <3>1, <3>2
  <2> QED
    BY <2>3, <2>4 DEF TypeOK, kitchen, plans
<1>14. ASSUME NEW ln \in lines, NEW fs \in SUBSET ToggledFlags,
              NEW patch \in [fs -> BOOLEAN], UpdateItem(ln, patch)
       PROVE  TypeOK'
  <2>1. ln \in ListLine
    BY DEF TypeOK
  <2>2. [ln EXCEPT !.flags =
           [f \in Flag |-> IF f \in DOMAIN patch THEN patch[f] ELSE @[f]]] \in ListLine
    BY <2>1 DEF ListLine
  <2> QED
    BY <1>14, <2>2 DEF UpdateItem, TypeOK, kitchen, plans
<1>15. ASSUME NEW ln \in lines, DeleteItem(ln)
       PROVE  TypeOK'
  BY <1>15 DEF DeleteItem, TypeOK, kitchen, plans
<1>16. CASE ArchiveList
  BY <1>16, MaxListsAssumption DEF ArchiveList, TypeOK, kitchen, plans, Lists
<1>17. ASSUME NEW keeper \in Ingredients, NEW dups \in SUBSET Ingredients,
              MergeIngredients(keeper, dups)
       PROVE  TypeOK'
  <2> DEFINE Moved(k) == IF k[1] \in dups THEN <<keeper, k[2]>> ELSE k
             Repoint(rows) == {[r EXCEPT !.key = Moved(@)] : r \in rows}
  <2>1. ASSUME NEW k \in Key PROVE Moved(k) \in Key
    BY DEF Key
  <2>2. ASSUME NEW S \in SUBSET Line PROVE Repoint(S) \in SUBSET Line
    BY <2>1 DEF Line
  <2>3. body' \in [Recipes -> SUBSET Line]
    BY <1>17, <2>2 DEF MergeIngredients, TypeOK
  <2>4. composition' \in [Meals -> MealBody]
    BY <1>17, <2>2 DEF MergeIngredients, TypeOK, MealBody
  <2>5. lines' \subseteq ListLine
    <3> DEFINE Halves(l, k) == {ln \in lines : ln.list = l /\ Moved(ln.key) = k}
               Joint(l, k) ==
                 [f \in Flag |->
                    IF f = "staple_needed" THEN \E h \in Halves(l, k) : h.flags[f]
                    ELSE \A h \in Halves(l, k) : h.flags[f]]
               Fold(l, k) == [list |-> l, key |-> k, flags |-> Joint(l, k)]
    <3>1. lines' = {Fold(ln.list, Moved(ln.key)) : ln \in lines}
      BY <1>17 DEF MergeIngredients
    <3>2. ASSUME NEW l, NEW k PROVE Joint(l, k) \in [Flag -> BOOLEAN]
      <4>1. ASSUME NEW f \in Flag
            PROVE  (IF f = "staple_needed" THEN \E h \in Halves(l, k) : h.flags[f]
                    ELSE \A h \in Halves(l, k) : h.flags[f]) \in BOOLEAN
        <5>1. (\E h \in Halves(l, k) : h.flags[f]) \in BOOLEAN
          OBVIOUS
        <5>2. (\A h \in Halves(l, k) : h.flags[f]) \in BOOLEAN
          OBVIOUS
        <5> QED
          BY <5>1, <5>2
      <4> QED
        BY <4>1
    <3>3. ASSUME NEW ln \in lines PROVE Fold(ln.list, Moved(ln.key)) \in ListLine
      <4>1. ln.list \in Lists /\ ln.key \in Key
        BY DEF TypeOK, ListLine
      <4>2. Joint(ln.list, Moved(ln.key)) \in [Flag -> BOOLEAN]
        BY <3>2
      <4> HIDE DEF Joint, Moved
      <4> QED
        BY <4>1, <4>2, <2>1 DEF ListLine
    <3> HIDE DEF Fold
    <3> QED
      BY <3>1, <3>3
  <2>6. needs' \subseteq Need
    <3>1. needs \subseteq Need
      BY DEF TypeOK
    <3>2. ASSUME NEW n \in Need PROVE [n EXCEPT !.key = Moved(n.key)] \in Need
      <4>1. Moved(n.key) \in Key
        BY <2>1 DEF Need
      <4> HIDE DEF Moved
      <4> QED
        BY <4>1 DEF Need
    <3>3. needs' = Repoint(needs)
      BY <1>17 DEF MergeIngredients
    <3> QED
      BY <3>1, <3>2, <3>3
  <2>7. adhoc' \subseteq Adhoc
    <3>1. adhoc \subseteq Adhoc
      BY DEF TypeOK
    <3>2. ASSUME NEW n \in Adhoc PROVE [n EXCEPT !.key = Moved(n.key)] \in Adhoc
      <4>1. Moved(n.key) \in Key
        BY <2>1 DEF Adhoc
      <4> HIDE DEF Moved
      <4> QED
        BY <4>1 DEF Adhoc
    <3>3. adhoc' = Repoint(adhoc)
      BY <1>17 DEF MergeIngredients
    <3> QED
      BY <3>1, <3>2, <3>3
  <2> QED
    BY <1>17, <2>3, <2>4, <2>5, <2>6, <2>7 DEF MergeIngredients, TypeOK, plans
<1>18. CASE UNCHANGED vars
  BY <1>18 DEF vars, kitchen, plans, list, TypeOK
<1> QED
  BY <1>1, <1>2, <1>3, <1>4, <1>5, <1>6, <1>7, <1>8, <1>9, <1>10, <1>11, <1>12,
     <1>13, <1>14, <1>15, <1>16, <1>17, <1>18
     DEF Next, RecipeNext, MealNext, PlanNext, ListNext, MergeNext

(* Every table holds rows of its own kind, with their references in range:   *)
(* in particular no source row is on list 0, the one that does not exist,    *)
(* whichever request comes first.                                            *)
THEOREM TypeCorrect == Spec => []TypeOK
<1>1. Init => TypeOK
  <2>1. NoMeal \in MealBody
    BY DEF NoMeal, MealBody
  <2> QED
    BY <2>1, MaxListsAssumption DEF Init, TypeOK
<1>2. QED
  BY <1>1, TypeStep, PTL DEF Spec

-----------------------------------------------------------------------------
(* The inductive invariant.  EveryLineHasAReason needs ProvenanceLive (a     *)
(* plan meal that goes while its plan is archived must have nothing on the   *)
(* live list to leave behind), and both need that no row is on a list still  *)
(* to be opened, which would be born with lines of its own.                  *)
OnAnOpenedList ==
    \A row \in lines \cup needs \cup adhoc : row.list <= active

Coherent == OnAnOpenedList /\ LineIdentity /\ EveryLineHasAReason
IInv == TypeOK /\ Coherent /\ ProvenanceLive

LEMMA FreshLineIs ==
    ASSUME NEW l, NEW k
    PROVE  FreshLine(l, k).list = l /\ FreshLine(l, k).key = k
BY DEF FreshLine

(* With no list yet there is nothing on it: opening it changes no row. *)
LEMMA OnTheList ==
    ASSUME IInv
    PROVE  /\ \A row \in lines \cup needs \cup adhoc : row.list <= TheList
           /\ \A ln \in lines : ln.list = TheList => Sourced(ln.list, ln.key)
           /\ \A n \in needs : n.list = TheList =>
                 n.pm \in planned /\ status[n.pm[1]] = "active"
           /\ TheList \in Nat
<1>1. \A row \in lines \cup needs \cup adhoc : row.list \in Lists
  BY DEF IInv, TypeOK, ListLine, Need, Adhoc
<1>2. CASE active = 0
  <2>1. lines \cup needs \cup adhoc = {}
    BY <1>1, <1>2, MaxListsAssumption DEF IInv, Coherent, OnAnOpenedList, Lists
  <2> QED
    BY <1>2, <2>1 DEF TheList
<1>3. CASE active # 0
  BY <1>3 DEF TheList, IInv, Coherent, OnAnOpenedList, EveryLineHasAReason,
              ProvenanceLive, TypeOK
<1> QED
  BY <1>2, <1>3

(* Rows joining the live list, by hand or from a plan, find or get a line. *)
LEMMA SurfaceCoherent ==
    ASSUME IInv, UseTheList, NEW rows, \A r \in rows : r.list = TheList,
           lines' = Surface(rows, lines),
           needs' \cup adhoc' = needs \cup adhoc \cup rows
    PROVE  Coherent'
<1> DEFINE keys == {r.key : r \in rows}
           Up(ln) == IF ln.list = TheList /\ ln.key \in keys THEN Surfaced(ln) ELSE ln
           new == {FreshLine(TheList, k) : k \in {x \in keys : At(lines, TheList, x) = {}}}
<1>1. lines' = {Up(ln) : ln \in lines} \cup new
  BY DEF Surface
<1>2. \A ln \in lines : Up(ln).list = ln.list /\ Up(ln).key = ln.key
  BY SurfacedType DEF IInv, TypeOK
<1>3. \A ln \in new : /\ ln.list = TheList
                      /\ ln.key \in keys
                      /\ At(lines, TheList, ln.key) = {}
                      /\ ln = FreshLine(TheList, ln.key)
  BY FreshLineIs
<1>4. \A k \in keys : At(lines, TheList, k) = {} => FreshLine(TheList, k) \in new
  OBVIOUS
<1> HIDE DEF Up, new
<1>5. active' = TheList
  BY DEF UseTheList
<1>6. OnAnOpenedList'
  BY <1>1, <1>2, <1>3, <1>5, OnTheList DEF OnAnOpenedList
<1>7. LineIdentity'
  BY <1>1, <1>2, <1>3 DEF LineIdentity, At, IInv, Coherent
<1>8. EveryLineHasAReason'
  <2>1. ASSUME NEW ln \in lines', ln.list = TheList PROVE Sourced(ln.list, ln.key)'
    BY <1>1, <1>2, <1>3, <2>1, OnTheList DEF Sourced, At
  <2>2. ASSUME NEW s \in needs' \cup adhoc' PROVE At(lines, s.list, s.key)' # {}
    <3>1. CASE At(lines, s.list, s.key) # {}
      BY <1>1, <1>2, <3>1 DEF At
    <3>2. CASE At(lines, s.list, s.key) = {}
      <4>1. s \in rows
        BY <3>2 DEF IInv, Coherent, EveryLineHasAReason
      <4> QED
        BY <1>1, <1>3, <1>4, <3>2, <4>1, FreshLineIs DEF At
    <3> QED
      BY <3>1, <3>2
  <2> QED
    BY <1>5, <2>1, <2>2 DEF EveryLineHasAReason
<1> QED
  BY <1>6, <1>7, <1>8 DEF Coherent

(* Plan meals leaving the live list take the lines only they needed. *)
LEMMA EmptiedCoherent ==
    ASSUME IInv, UseTheList, NEW pms,
           lines' = lines \ Emptied(pms), adhoc' = adhoc, needs' \subseteq needs,
           \A n \in needs : n.list = TheList => (n \in needs' <=> n.pm \notin pms)
    PROVE  Coherent'
<1>1. active' = TheList
  BY DEF UseTheList
<1>2. OnAnOpenedList'
  BY <1>1, OnTheList DEF OnAnOpenedList
<1>3. LineIdentity'
  BY DEF LineIdentity, IInv, Coherent
<1>4. ASSUME NEW ln \in lines', ln.list = TheList PROVE Sourced(ln.list, ln.key)'
  BY <1>4, OnTheList DEF Sourced, At, Emptied
<1>5. ASSUME NEW s \in needs' \cup adhoc' PROVE At(lines, s.list, s.key)' # {}
  <2>1. PICK ln \in lines : ln.list = s.list /\ ln.key = s.key
    BY DEF IInv, Coherent, EveryLineHasAReason, At
  <2>2. ln \notin Emptied(pms)
    BY <2>1 DEF Emptied, At
  <2> QED
    BY <2>1, <2>2 DEF At
<1> QED
  BY <1>1, <1>2, <1>3, <1>4, <1>5 DEF Coherent, EveryLineHasAReason

(* Contributing again leaves every row with its line, and no line without a *)
(* row, in whatever order the plan meals came.                              *)
LEMMA ResyncCoherent ==
    ASSUME IInv, NEW pms \in SUBSET PlanMeal,
           NEW bdy \in [Recipes -> SUBSET Line], NEW cmp \in [Meals -> MealBody],
           Resync(pms, bdy, cmp), adhoc' = adhoc
    PROVE  Coherent'
<1> DEFINE l == TheList
           rows == RowsFor(pms, l, bdy, cmp)
           new == {FreshLine(l, r.key) : r \in {x \in rows : At(lines, l, x.key) = {}}}
           gone == {ln \in Emptied(pms) : At(rows, l, ln.key) = {}}
<1>1. active' = l
  BY DEF Resync, UseTheList
<1>2. needs' = {n \in needs : n.list # l \/ n.pm \notin pms} \cup rows
  BY DEF Resync, ResyncedNeeds
<1>3. PICK rank \in Orders(pms) : lines' = ResyncedLines(pms, bdy, cmp, rank)
  BY DEF Resync
<1>4. \A r \in rows : r.list = l
  BY RowsForType, TheListType DEF IInv
<1>5. \A ln \in new : /\ ln.list = l
                      /\ At(lines, l, ln.key) = {}
                      /\ ln = FreshLine(l, ln.key)
                      /\ \E r \in rows : r.key = ln.key
  BY FreshLineIs
<1>6. \A r \in rows : At(lines, l, r.key) = {} => FreshLine(l, r.key) \in new
  OBVIOUS
<1>7. PICK Updated \in [lines -> {FreshLine(l, x.key) : x \in lines}
                                  \cup {Surfaced(x) : x \in lines} \cup lines] :
        /\ \A ln \in lines : \/ Updated[ln] \in {ln, Surfaced(ln)}
                             \/ (ln.list = l /\ Updated[ln] = FreshLine(l, ln.key))
        /\ lines' = {Updated[ln] : ln \in lines \ gone} \cup new
  <2> DEFINE Before(pm, k) == {n \in At(needs, l, k) : n.pm = pm}
             After(pm, k) == {n \in At(rows, l, k) : n.pm = pm}
             Same(pm, k) == SameAmount(Before(pm, k), After(pm, k))
             Changed(k) == \E pm \in pms : After(pm, k) # {} /\ ~Same(pm, k)
             Others(k) == {n \in At(needs, l, k) : n.pm \notin pms} \cup At(adhoc, l, k)
             Recreated(k) ==
                /\ Others(k) = {}
                /\ \E pm \in pms :
                     /\ Before(pm, k) # {} /\ ~Same(pm, k)
                     /\ \A x \in pms \ {pm} :
                          IF rank[x] < rank[pm] THEN After(x, k) = {} ELSE Before(x, k) = {}
             Upd(ln) ==
                IF ln.list # l \/ ~Changed(ln.key) THEN ln
                ELSE IF Recreated(ln.key) THEN FreshLine(l, ln.key) ELSE Surfaced(ln)
  <2>1. lines' = {Upd(ln) : ln \in lines \ gone} \cup new
    BY <1>3 DEF ResyncedLines
  <2> HIDE DEF Changed, Recreated
  <2> WITNESS [ln \in lines |-> Upd(ln)] \in
                 [lines -> {FreshLine(l, x.key) : x \in lines}
                           \cup {Surfaced(x) : x \in lines} \cup lines]
  <2> HIDE DEF new, gone
  <2>2. \A ln \in lines : \/ Upd(ln) \in {ln, Surfaced(ln)}
                             \/ (ln.list = l /\ Upd(ln) = FreshLine(l, ln.key))
    OBVIOUS
  <2> HIDE DEF Upd
  <2> QED
    BY <2>1, <2>2
<1>8. \A ln \in lines : Updated[ln].list = ln.list /\ Updated[ln].key = ln.key
  BY <1>7, SurfacedType, FreshLineIs DEF IInv, TypeOK
<1>9. \A ln \in lines : ln \in gone <=>
        /\ ln.list = l
        /\ \E n \in At(needs, ln.list, ln.key) : n.pm \in pms
        /\ \A n \in At(needs, ln.list, ln.key) : n.pm \in pms
        /\ At(adhoc, ln.list, ln.key) = {}
        /\ At(rows, l, ln.key) = {}
  BY DEF Emptied
<1> HIDE DEF rows, new, gone
<1>10. OnAnOpenedList'
  BY <1>1, <1>2, <1>4, <1>5, <1>7, <1>8, OnTheList DEF OnAnOpenedList
<1>11. LineIdentity'
  BY <1>5, <1>7, <1>8 DEF LineIdentity, At, IInv, Coherent
<1>12. ASSUME NEW ln \in lines', ln.list = l PROVE Sourced(ln.list, ln.key)'
  <2>1. CASE ln \in new
    BY <1>2, <1>4, <1>5, <1>12, <2>1 DEF Sourced, At
  <2>2. ASSUME NEW x \in lines \ gone, ln = Updated[x] PROVE Sourced(ln.list, ln.key)'
    <3>1. ln.list = x.list /\ ln.key = x.key /\ x.list = l
      BY <1>8, <1>12, <2>2
    <3>2. CASE At(rows, l, x.key) # {}
      BY <1>2, <3>1, <3>2 DEF Sourced, At
    <3>3. CASE At(rows, l, x.key) = {}
      <4>1. Sourced(x.list, x.key)
        BY <3>1, OnTheList
      <4> QED
        BY <1>2, <1>9, <3>1, <3>3, <4>1 DEF Sourced, At
    <3> QED
      BY <3>2, <3>3
  <2> QED
    BY <1>7, <2>1, <2>2
<1>13. ASSUME NEW s \in needs' \cup adhoc' PROVE At(lines, s.list, s.key)' # {}
  <2>1. CASE s \in rows /\ At(lines, l, s.key) = {}
    BY <1>4, <1>6, <1>7, <2>1, FreshLineIs DEF At
  <2>2. CASE \E ln \in lines : ln.list = s.list /\ ln.key = s.key
    <3>1. PICK ln \in lines : ln.list = s.list /\ ln.key = s.key
      BY <2>2
    <3>2. ln \notin gone
      BY <1>2, <1>4, <1>9, <1>13, <3>1 DEF At
    <3>3. Updated[ln] \in lines'
      BY <1>7, <3>2
    <3> QED
      BY <1>8, <3>1, <3>3 DEF At
  <2> QED
    BY <1>2, <1>4, <2>1, <2>2 DEF IInv, Coherent, EveryLineHasAReason, At
<1> QED
  BY <1>1, <1>10, <1>11, <1>12, <1>13 DEF Coherent, EveryLineHasAReason

(* The rows a plan meal adds are the plan meal's own, on the live list. *)
LEMMA RowsAreFor ==
    ASSUME TypeOK, NEW pms \in SUBSET PlanMeal,
           NEW bdy \in [Recipes -> SUBSET Line], NEW cmp \in [Meals -> MealBody]
    PROVE  \A n \in RowsFor(pms, TheList, bdy, cmp) : n.list = TheList /\ n.pm \in pms
BY RowsForType, TheListType

LEMMA CoherentStep == IInv /\ [Next]_vars => Coherent'
<1> SUFFICES ASSUME IInv, [Next]_vars
             PROVE  Coherent'
  OBVIOUS
<1> USE DEF IInv
<1>1. CASE UNCHANGED list
  BY <1>1 DEF list, Coherent, OnAnOpenedList, LineIdentity, EveryLineHasAReason,
              Sourced, At
<1>2. ASSUME NEW r \in Recipes, NEW b \in RecipeBodies, UpdateRecipe(r, b)
      PROVE  Coherent'
  <2>1. CASE MealsUsing(r) = {}
    BY <1>1, <1>2, <2>1 DEF UpdateRecipe, list
  <2>2. CASE MealsUsing(r) # {}
    <3>1. body' \in [Recipes -> SUBSET Line]
      BY <1>2, BodiesAssumption DEF UpdateRecipe, TypeOK
    <3>2. InActivePlans(MealsUsing(r)) \in SUBSET PlanMeal
      BY DEF InActivePlans, TypeOK
    <3> QED
      BY <1>2, <2>2, <3>1, <3>2, ResyncCoherent DEF UpdateRecipe, TypeOK
  <2> QED
    BY <2>1, <2>2
<1>3. ASSUME NEW r \in Recipes, DeleteRecipe(r)
      PROVE  Coherent'
  <2> DEFINE Via(n) == IF n.via = r THEN [n EXCEPT !.via = Loose] ELSE n
  <2>1. \A n \in needs : Via(n).list = n.list /\ Via(n).key = n.key
    BY DEF TypeOK, Need
  <2>2. needs' = {Via(n) : n \in needs} /\ UNCHANGED <<active, lines, adhoc>>
    BY <1>3 DEF DeleteRecipe
  <2> HIDE DEF Via
  <2>3. OnAnOpenedList' /\ LineIdentity'
    BY <2>1, <2>2 DEF Coherent, OnAnOpenedList, LineIdentity
  <2>4. EveryLineHasAReason'
    BY <2>1, <2>2 DEF Coherent, EveryLineHasAReason, Sourced, At
  <2> QED
    BY <2>3, <2>4 DEF Coherent
<1>4. ASSUME NEW m \in Meals, NEW b \in MealBodies, UpdateMeal(m, b)
      PROVE  Coherent'
  <2>1. composition' \in [Meals -> MealBody]
    BY <1>4, BodiesAssumption DEF UpdateMeal, TypeOK
  <2>2. InActivePlans({m}) \in SUBSET PlanMeal
    BY DEF InActivePlans, TypeOK
  <2> QED
    BY <1>4, <2>1, <2>2, ResyncCoherent DEF UpdateMeal, TypeOK
<1>5. ASSUME NEW m \in Meals, DeleteMeal(m)
      PROVE  Coherent'
  <2> DEFINE pms == InActivePlans({m})
  <2>1. \A n \in needs : n.list = TheList => (n \in needs' <=> n.pm \notin pms)
    BY <1>5, OnTheList DEF DeleteMeal, InActivePlans
  <2> QED
    BY <1>5, <2>1, EmptiedCoherent DEF DeleteMeal
<1>6. ASSUME NEW p \in Plans, NEW q \in Plans, CopyPlan(p, q)
      PROVE  Coherent'
  <2> DEFINE copied == {<<p, pm[2]>> : pm \in {x \in planned : x[1] = q}}
             rows == RowsFor(copied, TheList, body, composition)
  <2>1. CASE copied = {}
    BY <1>1, <1>6, <2>1 DEF CopyPlan, list
  <2>2. CASE AddContributions(copied)
    <3>1. copied \in SUBSET PlanMeal
      BY DEF PlanMeal, TypeOK
    <3>2. \A r \in rows : r.list = TheList
      BY <3>1, RowsAreFor DEF TypeOK
    <3>3. /\ UseTheList
          /\ lines' = Surface(rows, lines)
          /\ needs' \cup adhoc' = needs \cup adhoc \cup rows
      BY <1>6, <2>2 DEF CopyPlan, AddContributions
    <3> HIDE DEF rows
    <3> QED
      BY <3>2, <3>3, SurfaceCoherent
  <2> QED
    BY <1>6, <2>1, <2>2 DEF CopyPlan
<1>7. ASSUME NEW p \in Plans, NEW m \in Meals, AddMeal(p, m)
      PROVE  Coherent'
  <2> DEFINE rows == RowsFor({<<p, m>>}, TheList, body, composition)
  <2>1. \A r \in rows : r.list = TheList
    BY RowsAreFor DEF TypeOK, PlanMeal
  <2>2. /\ UseTheList
        /\ lines' = Surface(rows, lines)
        /\ needs' \cup adhoc' = needs \cup adhoc \cup rows
    BY <1>7 DEF AddMeal, AddContributions
  <2> HIDE DEF rows
  <2> QED
    BY <2>1, <2>2, SurfaceCoherent
<1>8. ASSUME NEW p \in Plans, NEW m \in Meals, RemoveMeal(p, m)
      PROVE  Coherent'
  <2>1. CASE status[p] = "active"
    <3>1. \A n \in needs : n.list = TheList => (n \in needs' <=> n.pm \notin {<<p, m>>})
      BY <1>8 DEF RemoveMeal
    <3> QED
      BY <1>8, <2>1, <3>1, EmptiedCoherent DEF RemoveMeal
  <2>2. CASE status[p] # "active"
    <3>1. \A n \in needs : n.list = TheList => n \in needs'
      BY <1>8, <2>2, OnTheList DEF RemoveMeal
    <3>2. needs' \subseteq needs /\ UNCHANGED <<active, lines, adhoc>>
      BY <1>8, <2>2 DEF RemoveMeal
    <3>3. OnAnOpenedList' /\ LineIdentity'
      BY <3>2 DEF Coherent, OnAnOpenedList, LineIdentity
    <3>4. \A n \in needs : n.list = active => n \in needs'
      BY <3>1, MaxListsAssumption DEF TheList, TypeOK, Need, Lists
    <3>5. EveryLineHasAReason'
      BY <3>2, <3>4 DEF Coherent, EveryLineHasAReason, Sourced, At
    <3> QED
      BY <3>3, <3>5 DEF Coherent
  <2> QED
    BY <2>1, <2>2
<1>9. ASSUME NEW p \in Plans, ArchivePlan(p)
      PROVE  Coherent'
  <2> DEFINE own == {pm \in planned : pm[1] = p}
  <2>1. \A n \in needs : n.list = TheList => (n \in needs' <=> n.pm \notin own)
    BY <1>9 DEF ArchivePlan
  <2> QED
    BY <1>9, <2>1, EmptiedCoherent DEF ArchivePlan
<1>10. CASE GetShoppingList
  BY <1>10, OnTheList DEF GetShoppingList, UseTheList, Coherent, OnAnOpenedList,
                          LineIdentity, EveryLineHasAReason, Sourced, At
<1>11. ASSUME NEW k \in Key, NEW c \in ClientKeys, AddItem(k, c)
       PROVE  Coherent'
  <2> DEFINE row == [list |-> TheList, key |-> k, client |-> c]
  <2>1. CASE Replayed(c)
    BY <1>10, <1>11, <2>1 DEF AddItem, GetShoppingList
  <2>2. CASE ~Replayed(c)
    BY <1>11, <2>2, SurfaceCoherent DEF AddItem
  <2> QED
    BY <2>1, <2>2
<1>12. ASSUME NEW ln \in lines, NEW fs \in SUBSET ToggledFlags,
              NEW patch \in [fs -> BOOLEAN], UpdateItem(ln, patch)
       PROVE  Coherent'
  <2> DEFINE patched ==
        [ln EXCEPT !.flags = [f \in Flag |-> IF f \in DOMAIN patch THEN patch[f] ELSE @[f]]]
  <2>1. patched.list = ln.list /\ patched.key = ln.key
    BY DEF TypeOK, ListLine
  <2>2. /\ lines' = (lines \ {ln}) \cup {patched}
        /\ UNCHANGED <<active, needs, adhoc>>
    BY <1>12 DEF UpdateItem
  <2> HIDE DEF patched
  <2>3. OnAnOpenedList' /\ LineIdentity'
    BY <2>1, <2>2 DEF Coherent, OnAnOpenedList, LineIdentity
  <2>4. EveryLineHasAReason'
    BY <2>1, <2>2 DEF Coherent, EveryLineHasAReason, Sourced, At
  <2> QED
    BY <2>3, <2>4 DEF Coherent
<1>13. ASSUME NEW ln \in lines, DeleteItem(ln)
       PROVE  Coherent'
  <2>1. OnAnOpenedList' /\ LineIdentity'
    BY <1>13 DEF DeleteItem, Coherent, OnAnOpenedList, LineIdentity
  <2>2. EveryLineHasAReason'
    BY <1>13 DEF DeleteItem, Coherent, EveryLineHasAReason, LineIdentity, Sourced, At
  <2> QED
    BY <2>1, <2>2 DEF Coherent
<1>14. CASE ArchiveList
  <2>1. \A row \in lines \cup needs \cup adhoc : row.list < active'
    BY <1>14, OnTheList, TheListType DEF ArchiveList, TypeOK, ListLine, Need, Adhoc, Lists
  <2> QED
    BY <1>14, <2>1 DEF ArchiveList, Coherent, OnAnOpenedList, LineIdentity,
                       EveryLineHasAReason, Sourced, At, TypeOK, ListLine, Need, Adhoc, Lists
<1>15. ASSUME NEW keeper \in Ingredients, NEW dups \in SUBSET Ingredients,
              MergeIngredients(keeper, dups)
       PROVE  Coherent'
  <2> DEFINE Moved(k) == IF k[1] \in dups THEN <<keeper, k[2]>> ELSE k
             Halves(l, k) == {ln \in lines : ln.list = l /\ Moved(ln.key) = k}
             Fold(l, k) ==
               [list |-> l, key |-> k,
                flags |-> [f \in Flag |->
                   IF f = "staple_needed" THEN \E h \in Halves(l, k) : h.flags[f]
                   ELSE \A h \in Halves(l, k) : h.flags[f]]]
             Put(r) == [r EXCEPT !.key = Moved(@)]
  <2>1. \A r \in needs \cup adhoc : Put(r).list = r.list /\ Put(r).key = Moved(r.key)
    BY DEF TypeOK, Need, Adhoc
  <2>2. \A l, k : Fold(l, k).list = l /\ Fold(l, k).key = k
    OBVIOUS
  <2>3. lines' = {Fold(ln.list, Moved(ln.key)) : ln \in lines}
    BY <1>15 DEF MergeIngredients
  <2>4. /\ needs' = {Put(r) : r \in needs}
        /\ adhoc' = {Put(r) : r \in adhoc}
        /\ active' = active
    BY <1>15 DEF MergeIngredients
  <2> HIDE DEF Fold, Put, Moved
  <2>5. OnAnOpenedList'
    BY <2>1, <2>2, <2>3, <2>4 DEF Coherent, OnAnOpenedList
  <2>6. LineIdentity'
    BY <2>2, <2>3 DEF LineIdentity
  <2>7. ASSUME NEW ln \in lines', ln.list = active PROVE Sourced(ln.list, ln.key)'
    <3>1. PICK x \in lines : ln = Fold(x.list, Moved(x.key))
      BY <2>3
    <3>2. PICK s \in needs \cup adhoc : s.list = x.list /\ s.key = x.key
      BY <2>2, <2>7, <3>1 DEF Coherent, EveryLineHasAReason, Sourced, At
    <3> QED
      BY <2>1, <2>2, <2>4, <3>1, <3>2 DEF Sourced, At
  <2>8. ASSUME NEW s \in needs' \cup adhoc' PROVE At(lines, s.list, s.key)' # {}
    <3>1. PICK r \in needs \cup adhoc : s = Put(r)
      BY <2>4
    <3>2. PICK x \in lines : x.list = r.list /\ x.key = r.key
      BY DEF Coherent, EveryLineHasAReason, At
    <3> QED
      BY <2>1, <2>2, <2>3, <3>1, <3>2 DEF At
  <2> QED
    BY <2>4, <2>5, <2>6, <2>7, <2>8 DEF Coherent, EveryLineHasAReason
<1>16. ASSUME NEW r \in Recipes, NEW b \in RecipeBodies, CreateRecipe(r, b)
       PROVE  Coherent'
  BY <1>1, <1>16 DEF CreateRecipe
<1>17. ASSUME NEW m \in Meals, NEW b \in MealBodies, CreateMeal(m, b)
       PROVE  Coherent'
  BY <1>1, <1>17 DEF CreateMeal
<1>18. ASSUME NEW p \in Plans, CreatePlan(p)
       PROVE  Coherent'
  BY <1>1, <1>18 DEF CreatePlan
<1>19. CASE UNCHANGED vars
  BY <1>1, <1>19 DEF vars
<1> QED
  BY <1>2, <1>3, <1>4, <1>5, <1>6, <1>7, <1>8, <1>9, <1>10, <1>11, <1>12, <1>13,
     <1>14, <1>15, <1>16, <1>17, <1>18, <1>19
     DEF Next, RecipeNext, MealNext, PlanNext, ListNext, MergeNext

LEMMA ProvenanceStep == IInv /\ [Next]_vars => ProvenanceLive'
<1> SUFFICES ASSUME IInv, [Next]_vars
             PROVE  ProvenanceLive'
  OBVIOUS
<1> USE DEF IInv
<1>1. CASE UNCHANGED <<plans, active, needs>>
  BY <1>1 DEF ProvenanceLive, plans
<1>2. CASE UseTheList /\ UNCHANGED <<plans, needs>>
  BY <1>2, OnTheList DEF ProvenanceLive, plans, UseTheList
<1>3. ASSUME NEW ms, NEW bdy \in [Recipes -> SUBSET Line], NEW cmp \in [Meals -> MealBody],
             Resync(InActivePlans(ms), bdy, cmp), UNCHANGED plans
      PROVE  ProvenanceLive'
  <2> DEFINE pms == InActivePlans(ms)
             rows == RowsFor(pms, TheList, bdy, cmp)
  <2>1. pms \in SUBSET PlanMeal
    BY DEF InActivePlans, TypeOK
  <2>2. \A n \in rows : n.list = TheList /\ n.pm \in pms
    BY <2>1, RowsAreFor
  <2>3. \A pm \in pms : pm \in planned /\ status[pm[1]] = "active"
    BY DEF InActivePlans
  <2>4. needs' \subseteq needs \cup rows /\ active' = TheList
    BY <1>3 DEF Resync, ResyncedNeeds, UseTheList
  <2> HIDE DEF pms, rows
  <2> QED
    BY <1>3, <2>2, <2>3, <2>4, OnTheList DEF ProvenanceLive, plans
<1>4. ASSUME NEW pms \in SUBSET PlanMeal, AddContributions(pms),
             \A pm \in planned : status[pm[1]] = "active" => status'[pm[1]] = "active",
             planned' = planned \cup pms, \A pm \in pms : status'[pm[1]] = "active"
      PROVE  ProvenanceLive'
  <2> DEFINE rows == RowsFor(pms, TheList, body, composition)
  <2>1. \A n \in rows : n.list = TheList /\ n.pm \in pms
    BY RowsAreFor DEF TypeOK
  <2>2. needs' = needs \cup rows /\ active' = TheList
    BY <1>4 DEF AddContributions, UseTheList
  <2> HIDE DEF rows
  <2> QED
    BY <1>4, <2>1, <2>2, OnTheList DEF ProvenanceLive
<1>5. ASSUME NEW r \in Recipes, NEW b \in RecipeBodies, UpdateRecipe(r, b)
      PROVE  ProvenanceLive'
  <2>1. body' \in [Recipes -> SUBSET Line]
    BY <1>5, BodiesAssumption DEF UpdateRecipe, TypeOK
  <2> QED
    BY <1>1, <1>3, <1>5, <2>1 DEF UpdateRecipe, TypeOK
<1>6. ASSUME NEW r \in Recipes, DeleteRecipe(r)
      PROVE  ProvenanceLive'
  <2> DEFINE Via(n) == IF n.via = r THEN [n EXCEPT !.via = Loose] ELSE n
  <2>1. \A n \in needs : Via(n).list = n.list /\ Via(n).pm = n.pm
    BY DEF TypeOK, Need
  <2>2. needs' = {Via(n) : n \in needs} /\ UNCHANGED <<active, plans>>
    BY <1>6 DEF DeleteRecipe
  <2> HIDE DEF Via
  <2> QED
    BY <2>1, <2>2 DEF ProvenanceLive, plans
<1>7. ASSUME NEW m \in Meals, NEW b \in MealBodies, UpdateMeal(m, b)
      PROVE  ProvenanceLive'
  <2>1. composition' \in [Meals -> MealBody]
    BY <1>7, BodiesAssumption DEF UpdateMeal, TypeOK
  <2> QED
    BY <1>3, <1>7, <2>1 DEF UpdateMeal, TypeOK
<1>8. ASSUME NEW m \in Meals, DeleteMeal(m)
      PROVE  ProvenanceLive'
  BY <1>8, OnTheList DEF DeleteMeal, UseTheList, ProvenanceLive
<1>9. ASSUME NEW p \in Plans, CreatePlan(p)
      PROVE  ProvenanceLive'
  <2>1. \A x \in Plans : status[x] = "active" => status'[x] = "active"
    BY <1>9 DEF CreatePlan, TypeOK
  <2> QED
    BY <1>9, <2>1 DEF CreatePlan, list, ProvenanceLive, TypeOK, PlanMeal, Need
<1>10. ASSUME NEW p \in Plans, NEW q \in Plans, CopyPlan(p, q)
       PROVE  ProvenanceLive'
  <2> DEFINE copied == {<<p, pm[2]>> : pm \in {x \in planned : x[1] = q}}
  <2>1. \A x \in Plans : status[x] = "active" => status'[x] = "active"
    BY <1>10 DEF CopyPlan, TypeOK
  <2>2. \A pm \in planned : status[pm[1]] = "active" => status'[pm[1]] = "active"
    BY <2>1 DEF TypeOK, PlanMeal
  <2>3. copied \in SUBSET PlanMeal
    BY DEF PlanMeal, TypeOK
  <2>4. \A pm \in copied : status'[pm[1]] = "active"
    BY <1>10 DEF CopyPlan, TypeOK
  <2>5. planned' = planned \cup copied
    BY <1>10 DEF CopyPlan
  <2>6. CASE copied = {}
    BY <1>10, <2>2, <2>5, <2>6 DEF CopyPlan, ProvenanceLive
  <2>7. CASE AddContributions(copied)
    BY <1>4, <2>2, <2>3, <2>4, <2>5, <2>7
  <2> QED
    BY <1>10, <2>6, <2>7 DEF CopyPlan
<1>11. ASSUME NEW p \in Plans, NEW m \in Meals, AddMeal(p, m)
       PROVE  ProvenanceLive'
  BY <1>4, <1>11 DEF AddMeal, PlanMeal
<1>12. ASSUME NEW p \in Plans, NEW m \in Meals, RemoveMeal(p, m)
       PROVE  ProvenanceLive'
  BY <1>12, OnTheList DEF RemoveMeal, UseTheList, ProvenanceLive
<1>13. ASSUME NEW p \in Plans, ArchivePlan(p)
       PROVE  ProvenanceLive'
  <2>1. \A n \in needs' : n.list = TheList => n.pm[1] # p
    BY <1>13, OnTheList DEF ArchivePlan
  <2>2. \A n \in needs : n.pm[1] \in Plans
    BY DEF TypeOK, Need, PlanMeal
  <2>3. \A x \in Plans : x # p => status'[x] = status[x]
    BY <1>13 DEF ArchivePlan, TypeOK
  <2> QED
    BY <1>13, <2>1, <2>2, <2>3, OnTheList DEF ArchivePlan, UseTheList, ProvenanceLive
<1>14. CASE ArchiveList
  <2>1. \A n \in needs : n.list < active'
    BY <1>14, OnTheList, TheListType DEF ArchiveList, TypeOK, Need, Lists
  <2> QED
    BY <1>14, <2>1 DEF ArchiveList, plans, ProvenanceLive, TypeOK, Need, Lists
<1>15. ASSUME NEW keeper \in Ingredients, NEW dups \in SUBSET Ingredients,
              MergeIngredients(keeper, dups)
       PROVE  ProvenanceLive'
  <2> DEFINE Put(n) ==
        [n EXCEPT !.key = IF n.key[1] \in dups THEN <<keeper, n.key[2]>> ELSE n.key]
  <2>1. \A n \in needs : Put(n).list = n.list /\ Put(n).pm = n.pm
    BY DEF TypeOK, Need
  <2>2. needs' = {Put(n) : n \in needs} /\ UNCHANGED <<active, plans>>
    BY <1>15 DEF MergeIngredients
  <2> HIDE DEF Put
  <2> QED
    BY <2>1, <2>2 DEF ProvenanceLive, plans
<1>16. ASSUME NEW r \in Recipes, NEW b \in RecipeBodies, CreateRecipe(r, b)
       PROVE  ProvenanceLive'
  BY <1>1, <1>16 DEF CreateRecipe, list
<1>17. ASSUME NEW m \in Meals, NEW b \in MealBodies, CreateMeal(m, b)
       PROVE  ProvenanceLive'
  BY <1>1, <1>17 DEF CreateMeal, list
<1>18. CASE GetShoppingList
  BY <1>2, <1>18 DEF GetShoppingList
<1>19. ASSUME NEW k \in Key, NEW c \in ClientKeys, AddItem(k, c)
       PROVE  ProvenanceLive'
  BY <1>2, <1>19 DEF AddItem
<1>20. ASSUME NEW ln \in lines, NEW fs \in SUBSET ToggledFlags,
              NEW patch \in [fs -> BOOLEAN], UpdateItem(ln, patch)
       PROVE  ProvenanceLive'
  BY <1>1, <1>20 DEF UpdateItem
<1>21. ASSUME NEW ln \in lines, DeleteItem(ln)
       PROVE  ProvenanceLive'
  BY <1>1, <1>21 DEF DeleteItem
<1>22. CASE UNCHANGED vars
  BY <1>1, <1>22 DEF vars, list
<1> QED
  BY <1>5, <1>6, <1>7, <1>8, <1>9, <1>10, <1>11, <1>12, <1>13, <1>14, <1>15, <1>16,
     <1>17, <1>18, <1>19, <1>20, <1>21, <1>22
     DEF Next, RecipeNext, MealNext, PlanNext, ListNext, MergeNext

LEMMA Invariance == Spec => []IInv
<1>1. Init => IInv
  <2>1. Init => TypeOK
    BY MaxListsAssumption DEF Init, TypeOK, NoMeal, MealBody
  <2>2. Init => Coherent /\ ProvenanceLive
    BY DEF Init, Coherent, OnAnOpenedList, LineIdentity, EveryLineHasAReason, ProvenanceLive
  <2> QED
    BY <2>1, <2>2 DEF IInv
<1>2. IInv /\ [Next]_vars => IInv'
  BY TypeStep, CoherentStep, ProvenanceStep DEF IInv
<1>3. QED
  BY <1>1, <1>2, PTL DEF Spec

(* Two lines of one list never stand for the same ingredient and unit, edits *)
(* and merges of ingredients included.                                       *)
THEOREM LineIdentityHolds == Spec => []LineIdentity
<1>1. IInv => LineIdentity
  BY DEF IInv, Coherent
<1>2. QED
  BY <1>1, Invariance, PTL

(* No line of the live list outlives the last reason for it, and no reason   *)
(* is without its line, whatever is planned, edited, merged or archived.     *)
THEOREM LinesHaveReasons == Spec => []EveryLineHasAReason
<1>1. IInv => EveryLineHasAReason
  BY DEF IInv, Coherent
<1>2. QED
  BY <1>1, Invariance, PTL

(* What the live list holds for a plan meal, it holds for one that is still  *)
(* planned, in a plan that is still active.                                  *)
THEOREM ProvenanceHolds == Spec => []ProvenanceLive
<1>1. IInv => ProvenanceLive
  BY DEF IInv
<1>2. QED
  BY <1>1, Invariance, PTL

-----------------------------------------------------------------------------
(* The live list agrees with the meals it came from.  For that a recipe a    *)
(* meal uses has to be in the library and a planned meal has to exist, or    *)
(* what is created under an old name would come with rows of its own.        *)
RecipeRow(l, pm, lk, ln) ==
    [list |-> l, key |-> ln.key, pm |-> pm, via |-> lk.recipe, slot |-> ln.slot,
     qty |-> ln.qty * lk.scale]
LooseRow(l, pm, ln) ==
    [list |-> l, key |-> ln.key, pm |-> pm, via |-> Loose, slot |-> ln.slot, qty |-> ln.qty]

LEMMA InRows ==
    ASSUME NEW pms, NEW l, NEW bdy, NEW cmp, NEW n
    PROVE  n \in RowsFor(pms, l, bdy, cmp) <=>
             \E pm \in pms :
                \/ \E lk \in cmp[pm[2]].linked : \E ln \in bdy[lk.recipe] : n = RecipeRow(l, pm, lk, ln)
                \/ \E ln \in cmp[pm[2]].loose : n = LooseRow(l, pm, ln)
<1> DEFINE Row(pm, c) == [list |-> l, key |-> c.key, pm |-> pm, via |-> c.via,
                          slot |-> c.slot, qty |-> c.qty]
           Cooked(lk, ln) == [key |-> ln.key, via |-> lk.recipe, slot |-> ln.slot,
                              qty |-> ln.qty * lk.scale]
           Added(ln) == [key |-> ln.key, via |-> Loose, slot |-> ln.slot, qty |-> ln.qty]
<1>1. n \in RowsFor(pms, l, bdy, cmp) <=>
        \E pm \in pms : \E c \in Contributions(cmp[pm[2]], bdy) : n = Row(pm, c)
  BY DEF RowsFor
<1>2. ASSUME NEW pm, NEW c
      PROVE  c \in Contributions(cmp[pm[2]], bdy) <=>
               \/ \E lk \in cmp[pm[2]].linked : \E ln \in bdy[lk.recipe] : c = Cooked(lk, ln)
               \/ \E ln \in cmp[pm[2]].loose : c = Added(ln)
  BY DEF Contributions
<1>3. \A pm, lk, ln : Row(pm, Cooked(lk, ln)) = RecipeRow(l, pm, lk, ln)
  BY DEF RecipeRow
<1>4. \A pm, ln : Row(pm, Added(ln)) = LooseRow(l, pm, ln)
  BY DEF LooseRow
<1> HIDE DEF Row, Cooked, Added
<1>5. ASSUME n \in RowsFor(pms, l, bdy, cmp)
      PROVE  \E pm \in pms :
                \/ \E lk \in cmp[pm[2]].linked : \E ln \in bdy[lk.recipe] : n = RecipeRow(l, pm, lk, ln)
                \/ \E ln \in cmp[pm[2]].loose : n = LooseRow(l, pm, ln)
  <2>1. PICK pm \in pms : \E c \in Contributions(cmp[pm[2]], bdy) : n = Row(pm, c)
    BY <1>1, <1>5
  <2>2. PICK c \in Contributions(cmp[pm[2]], bdy) : n = Row(pm, c)
    BY <2>1
  <2>3. CASE \E lk \in cmp[pm[2]].linked : \E ln \in bdy[lk.recipe] : c = Cooked(lk, ln)
    BY <1>3, <2>2, <2>3
  <2>4. CASE \E ln \in cmp[pm[2]].loose : c = Added(ln)
    BY <1>4, <2>2, <2>4
  <2> QED
    BY <1>2, <2>2, <2>3, <2>4
<1>6. ASSUME NEW pm \in pms, NEW lk \in cmp[pm[2]].linked, NEW ln \in bdy[lk.recipe],
             n = RecipeRow(l, pm, lk, ln)
      PROVE  n \in RowsFor(pms, l, bdy, cmp)
  <2>1. Cooked(lk, ln) \in Contributions(cmp[pm[2]], bdy)
    BY <1>2
  <2> QED
    BY <1>1, <1>3, <1>6, <2>1
<1>7. ASSUME NEW pm \in pms, NEW ln \in cmp[pm[2]].loose, n = LooseRow(l, pm, ln)
      PROVE  n \in RowsFor(pms, l, bdy, cmp)
  <2>1. Added(ln) \in Contributions(cmp[pm[2]], bdy)
    BY <1>2
  <2> QED
    BY <1>1, <1>4, <1>7, <2>1
<1> QED
  BY <1>5, <1>6, <1>7

LEMMA RowsOfOne ==
    ASSUME NEW pms, NEW l, NEW bdy, NEW cmp, NEW pm \in pms
    PROVE  {n \in RowsFor(pms, l, bdy, cmp) : n.pm = pm} = RowsFor({pm}, l, bdy, cmp)
  BY InRows DEF RecipeRow, LooseRow

(* What a plan meal needs depends on its meal and the recipes that one uses. *)
LEMMA SameRows ==
    ASSUME NEW l, NEW pm, NEW bdy, NEW cmp, NEW bdy2, NEW cmp2, cmp2[pm[2]] = cmp[pm[2]],
           \A lk \in cmp[pm[2]].linked : bdy2[lk.recipe] = bdy[lk.recipe]
    PROVE  RowsFor({pm}, l, bdy2, cmp2) = RowsFor({pm}, l, bdy, cmp)
<1>1. ASSUME NEW n PROVE n \in RowsFor({pm}, l, bdy2, cmp2) <=> n \in RowsFor({pm}, l, bdy, cmp)
  BY InRows
<1> QED
  BY <1>1

Closed ==
    /\ \A m \in meals : \A lk \in composition[m].linked : lk.recipe \in library
    /\ \A pm \in planned : pm[2] \in meals /\ status[pm[1]] # "none"

SyncInv == IInv /\ Closed /\ InSync

LEMMA ClosedStep == IInv /\ Closed /\ [Next]_vars => Closed'
<1> SUFFICES ASSUME IInv, Closed, [Next]_vars
             PROVE  Closed'
  OBVIOUS
<1>1. CASE UNCHANGED <<meals, composition, plans>> /\ library \subseteq library'
  BY <1>1 DEF Closed, plans
<1>2. ASSUME NEW r \in Recipes, DeleteRecipe(r) PROVE Closed'
  BY <1>2 DEF DeleteRecipe, MealsUsing, Closed, plans
<1>3. ASSUME NEW m \in Meals, NEW b \in MealBodies, CreateMeal(m, b) \/ UpdateMeal(m, b)
      PROVE  Closed'
  BY <1>3 DEF CreateMeal, UpdateMeal, Linkable, Closed, plans, IInv, TypeOK
<1>4. ASSUME NEW m \in Meals, DeleteMeal(m) PROVE Closed'
  BY <1>4 DEF DeleteMeal, Closed, IInv, TypeOK
<1>5. ASSUME NEW p \in Plans, CreatePlan(p) PROVE Closed'
  BY <1>5 DEF CreatePlan, kitchen, Closed, IInv, TypeOK
<1>6. ASSUME NEW p \in Plans, NEW q \in Plans, CopyPlan(p, q) PROVE Closed'
  BY <1>6 DEF CopyPlan, kitchen, Closed, IInv, TypeOK
<1>7. ASSUME NEW p \in Plans, NEW m \in Meals, AddMeal(p, m) PROVE Closed'
  BY <1>7 DEF AddMeal, kitchen, Closed, IInv, TypeOK
<1>8. ASSUME NEW p \in Plans, NEW m \in Meals, RemoveMeal(p, m) PROVE Closed'
  BY <1>8 DEF RemoveMeal, kitchen, Closed
<1>9. ASSUME NEW p \in Plans, ArchivePlan(p) PROVE Closed'
  BY <1>9 DEF ArchivePlan, kitchen, Closed, IInv, TypeOK
<1>10. ASSUME NEW keeper \in Ingredients, NEW dups \in SUBSET Ingredients,
              MergeIngredients(keeper, dups)
       PROVE  Closed'
  <2>1. \A m \in Meals : composition'[m].linked = composition[m].linked
    BY <1>10 DEF MergeIngredients, IInv, TypeOK, MealBody
  <2> QED
    BY <1>10, <2>1 DEF MergeIngredients, plans, Closed, IInv, TypeOK
<1>11. CASE RecipeNext
  BY <1>1, <1>2, <1>11 DEF RecipeNext, CreateRecipe, UpdateRecipe
<1>12. CASE ListNext
  BY <1>1, <1>12 DEF ListNext, GetShoppingList, AddItem, UpdateItem, DeleteItem, ArchiveList, kitchen
<1>13. CASE UNCHANGED vars
  BY <1>1, <1>13 DEF vars, kitchen
<1> QED
  BY <1>3, <1>4, <1>5, <1>6, <1>7, <1>8, <1>9, <1>10, <1>11, <1>12, <1>13
     DEF Next, MealNext, PlanNext, MergeNext

LiveRows(l, rows, pm) == {n \in rows : n.list = l /\ n.pm = pm}

(* Before there is a list, its first has nothing for anybody. *)
LEMMA SyncedOnTheList ==
    ASSUME IInv, InSync, NEW pm \in planned, status[pm[1]] = "active"
    PROVE  LiveRows(TheList, needs, pm) \in {{}, RowsFor({pm}, TheList, body, composition)}
<1>1. CASE active = 0
  <2>1. \A n \in needs : n.list \in Lists /\ n.list <= 0
    BY <1>1 DEF IInv, TypeOK, Need, Coherent, OnAnOpenedList
  <2>2. needs = {}
    BY <2>1, MaxListsAssumption DEF Lists
  <2> QED
    BY <2>2 DEF LiveRows
<1>2. CASE active # 0
  BY <1>2 DEF TheList, InSync, LiveRows
<1> QED
  BY <1>1, <1>2

(* It is enough to look at each plan meal's rows after the step. *)
LEMMA SyncedWhen ==
    ASSUME \A pm \in planned' : status'[pm[1]] = "active" =>
              LiveRows(active', needs', pm) \in {{}, RowsFor({pm}, active', body', composition')}
    PROVE  InSync'
  BY DEF InSync, LiveRows

(* A plan meal whose rows, meal and recipes stay as they are. *)
LEMMA StaysSynced ==
    ASSUME SyncInv, NEW pm \in planned, status[pm[1]] = "active",
           active' \in {active, TheList},
           LiveRows(active', needs', pm) = LiveRows(active', needs, pm)
              \/ LiveRows(active', needs', pm) = {},
           composition'[pm[2]] = composition[pm[2]],
           \A lk \in composition[pm[2]].linked : body'[lk.recipe] = body[lk.recipe]
    PROVE  LiveRows(active', needs', pm) \in {{}, RowsFor({pm}, active', body', composition')}
<1>1. RowsFor({pm}, active', body', composition') = RowsFor({pm}, active', body, composition)
  BY SameRows
<1>2. LiveRows(active', needs, pm) \in {{}, RowsFor({pm}, active', body, composition)}
  <2>1. CASE active' = active
    BY <2>1 DEF SyncInv, InSync, LiveRows
  <2>2. CASE active' = TheList
    BY <2>2, SyncedOnTheList DEF SyncInv
  <2> QED
    BY <2>1, <2>2
<1> QED
  BY <1>1, <1>2

(* The edited meal's plan meals get its rows, the others keep theirs. *)
LEMMA ResyncSynced ==
    ASSUME SyncInv, NEW ms, NEW bdy \in [Recipes -> SUBSET Line], NEW cmp \in [Meals -> MealBody],
           Resync(InActivePlans(ms), bdy, cmp), body' = bdy, composition' = cmp, UNCHANGED plans,
           \A m \in meals \ ms : /\ cmp[m] = composition[m]
                                 /\ \A lk \in composition[m].linked : bdy[lk.recipe] = body[lk.recipe]
    PROVE  InSync'
<1> DEFINE pms == InActivePlans(ms)
<1>1. /\ active' = TheList
      /\ needs' = {n \in needs : n.list # TheList \/ n.pm \notin pms} \cup RowsFor(pms, TheList, bdy, cmp)
  BY DEF Resync, UseTheList, ResyncedNeeds
<1>2. \A n \in RowsFor(pms, TheList, bdy, cmp) : n.list = TheList /\ n.pm \in pms
  BY RowsForType, TheListType DEF SyncInv, IInv, TypeOK, InActivePlans
<1> SUFFICES ASSUME NEW pm \in planned, status[pm[1]] = "active"
             PROVE  LiveRows(active', needs', pm) \in {{}, RowsFor({pm}, active', body', composition')}
  BY SyncedWhen DEF plans
<1>3. pm \in pms <=> pm[2] \in ms
  BY DEF InActivePlans
<1>4. CASE pm \in pms
  <2>1. LiveRows(TheList, needs', pm) = {n \in RowsFor(pms, TheList, bdy, cmp) : n.pm = pm}
    BY <1>1, <1>2, <1>4 DEF LiveRows
  <2> HIDE DEF pms
  <2>2. {n \in RowsFor(pms, TheList, bdy, cmp) : n.pm = pm} = RowsFor({pm}, TheList, bdy, cmp)
    BY <1>4, RowsOfOne
  <2> QED
    BY <1>1, <2>1, <2>2
<1>5. CASE pm \notin pms
  <2>1. LiveRows(active', needs', pm) = LiveRows(active', needs, pm)
    BY <1>1, <1>2, <1>5 DEF LiveRows
  <2>2. pm[2] \in meals \ ms
    BY <1>3, <1>5 DEF SyncInv, Closed
  <2> QED
    BY <1>1, <2>1, <2>2, StaysSynced
<1> QED
  BY <1>4, <1>5

LEMMA AddSynced ==
    ASSUME SyncInv, NEW pms \in SUBSET PlanMeal, pms \cap planned = {}, AddContributions(pms),
           planned' = planned \cup pms, UNCHANGED kitchen,
           \A pm \in planned : status'[pm[1]] = "active" => status[pm[1]] = "active"
    PROVE  InSync'
<1>1. /\ active' = TheList /\ needs' = needs \cup RowsFor(pms, TheList, body, composition)
      /\ body' = body /\ composition' = composition
  BY DEF AddContributions, UseTheList, kitchen
<1>2. \A n \in RowsFor(pms, TheList, body, composition) : n.list = TheList /\ n.pm \in pms
  BY RowsAreFor DEF SyncInv, IInv, TypeOK
<1> SUFFICES ASSUME NEW pm \in planned', status'[pm[1]] = "active"
             PROVE  LiveRows(active', needs', pm) \in {{}, RowsFor({pm}, active', body', composition')}
  BY SyncedWhen
<1>3. CASE pm \in pms
  <2>1. LiveRows(TheList, needs, pm) = {}
    BY <1>3 DEF LiveRows, SyncInv, IInv, ProvenanceLive
  <2>2. LiveRows(TheList, needs', pm) = {n \in RowsFor(pms, TheList, body, composition) : n.pm = pm}
    BY <1>1, <1>2, <2>1 DEF LiveRows
  <2>3. LiveRows(TheList, needs', pm) = RowsFor({pm}, TheList, body, composition)
    BY <1>3, <2>2, RowsOfOne
  <2> QED
    BY <1>1, <2>3
<1>4. CASE pm \notin pms
  <2>1. LiveRows(active', needs', pm) = LiveRows(active', needs, pm)
    BY <1>1, <1>2, <1>4 DEF LiveRows
  <2> QED
    BY <1>1, <1>4, <2>1, StaysSynced
<1> QED
  BY <1>3, <1>4

(* The recipes, the meals and the rows move to the keeper together. *)
LEMMA MergeSynced ==
    ASSUME SyncInv, NEW keeper \in Ingredients, NEW dups \in SUBSET Ingredients,
           MergeIngredients(keeper, dups)
    PROVE  InSync'
<1> DEFINE Moved(k) == IF k[1] \in dups THEN <<keeper, k[2]>> ELSE k
           Put(row) == [row EXCEPT !.key = Moved(@)]
<1>1. /\ needs' = {Put(n) : n \in needs} /\ UNCHANGED <<active, plans>>
      /\ body' = [r \in Recipes |-> {Put(ln) : ln \in body[r]}]
      /\ \A m \in Meals : /\ composition'[m].linked = composition[m].linked
                          /\ composition'[m].loose = {Put(ln) : ln \in composition[m].loose}
  BY DEF MergeIngredients, SyncInv, IInv, TypeOK, MealBody
<1> SUFFICES ASSUME NEW pm \in planned, status[pm[1]] = "active"
             PROVE  LiveRows(active, needs', pm) \in {{}, RowsFor({pm}, active, body', composition')}
  BY <1>1, SyncedWhen DEF plans
<1>2. /\ pm[2] \in Meals
      /\ \A lk \in composition[pm[2]].linked : lk.recipe \in Recipes
      /\ composition[pm[2]].loose \subseteq Line
      /\ \A r \in Recipes : body[r] \subseteq Line
  <2>1. pm[2] \in Meals
    BY DEF SyncInv, IInv, TypeOK, PlanMeal
  <2> QED
    BY <2>1 DEF SyncInv, IInv, TypeOK, MealBody, Link
<1>3. \A n \in needs : Put(n).list = n.list /\ Put(n).pm = n.pm
  BY DEF SyncInv, IInv, TypeOK, Need
<1>4. \A ln \in Line : /\ \A lk : RecipeRow(active, pm, lk, Put(ln)) = Put(RecipeRow(active, pm, lk, ln))
                       /\ LooseRow(active, pm, Put(ln)) = Put(LooseRow(active, pm, ln))
  BY DEF RecipeRow, LooseRow, Line
<1> HIDE DEF Put, Moved
<1>5. LiveRows(active, needs', pm) = {Put(n) : n \in LiveRows(active, needs, pm)}
  BY <1>1, <1>3 DEF LiveRows
<1>6. ASSUME NEW n
      PROVE  n \in RowsFor({pm}, active, body', composition') <=>
               \E x \in RowsFor({pm}, active, body, composition) : n = Put(x)
  <2>1. n \in RowsFor({pm}, active, body', composition') <=>
          \/ \E lk \in composition[pm[2]].linked : \E ln \in body[lk.recipe] :
                n = RecipeRow(active, pm, lk, Put(ln))
          \/ \E ln \in composition[pm[2]].loose : n = LooseRow(active, pm, Put(ln))
    BY <1>1, <1>2, InRows
  <2>2. (\E x \in RowsFor({pm}, active, body, composition) : n = Put(x)) <=>
          \/ \E lk \in composition[pm[2]].linked : \E ln \in body[lk.recipe] :
                n = Put(RecipeRow(active, pm, lk, ln))
          \/ \E ln \in composition[pm[2]].loose : n = Put(LooseRow(active, pm, ln))
    BY InRows
  <2> QED
    BY <1>2, <1>4, <2>1, <2>2
<1>7. LiveRows(active, needs, pm) \in {{}, RowsFor({pm}, active, body, composition)}
  BY DEF SyncInv, InSync, LiveRows
<1> QED
  BY <1>5, <1>6, <1>7

LEMMA SyncStep == SyncInv /\ [Next]_vars => InSync'
<1> SUFFICES ASSUME SyncInv, [Next]_vars
             PROVE  InSync'
  OBVIOUS
<1>1. ASSUME active' \in {active, TheList}, planned' \subseteq planned,
             \A pm \in planned' : status'[pm[1]] = "active" =>
                /\ status[pm[1]] = "active"
                /\ LiveRows(active', needs', pm) = LiveRows(active', needs, pm)
                /\ composition'[pm[2]] = composition[pm[2]]
                /\ \A lk \in composition[pm[2]].linked : body'[lk.recipe] = body[lk.recipe]
      PROVE  InSync'
  BY <1>1, SyncedWhen, StaysSynced
<1>2. CASE UNCHANGED <<body, composition, plans, needs>> /\ active' \in {active, TheList}
  BY <1>1, <1>2 DEF plans
<1>3. ASSUME NEW r \in Recipes, NEW b \in RecipeBodies, CreateRecipe(r, b)
      PROVE  InSync'
  <2>1. \A m \in meals : \A lk \in composition[m].linked : lk.recipe # r
    BY <1>3 DEF CreateRecipe, SyncInv, Closed
  <2>2. \A x \in Recipes \ {r} : body'[x] = body[x]
    BY <1>3 DEF CreateRecipe, SyncInv, IInv, TypeOK
  <2>3. \A pm \in planned : \A lk \in composition[pm[2]].linked : body'[lk.recipe] = body[lk.recipe]
    BY <2>1, <2>2 DEF SyncInv, Closed, IInv, TypeOK
  <2> QED
    BY <1>1, <1>3, <2>3 DEF CreateRecipe, plans, list
<1>4. ASSUME NEW r \in Recipes, NEW b \in RecipeBodies, UpdateRecipe(r, b)
      PROVE  InSync'
  <2>1. body' \in [Recipes -> SUBSET Line] /\ \A x \in Recipes \ {r} : body'[x] = body[x]
    BY <1>4, BodiesAssumption DEF UpdateRecipe, SyncInv, IInv, TypeOK
  <2>2. \A m \in meals \ MealsUsing(r) : \A lk \in composition[m].linked : lk.recipe \in library \ {r}
    BY DEF MealsUsing, SyncInv, Closed
  <2>3. \A m \in meals \ MealsUsing(r) : \A lk \in composition[m].linked : body'[lk.recipe] = body[lk.recipe]
    BY <2>1, <2>2 DEF SyncInv, IInv, TypeOK
  <2>4. CASE MealsUsing(r) = {}
    BY <1>1, <1>4, <2>3, <2>4 DEF UpdateRecipe, plans, SyncInv, Closed
  <2>5. CASE MealsUsing(r) # {}
    <3>1. Resync(InActivePlans(MealsUsing(r)), body', composition) /\ UNCHANGED plans
      BY <1>4, <2>5 DEF UpdateRecipe
    <3>2. composition' = composition /\ composition \in [Meals -> MealBody]
      BY <1>4 DEF UpdateRecipe, SyncInv, IInv, TypeOK
    <3> QED
      BY <2>1, <2>3, <3>1, <3>2, ResyncSynced
  <2> QED
    BY <2>4, <2>5
<1>5. ASSUME NEW r \in Recipes, DeleteRecipe(r)
      PROVE  InSync'
  <2> DEFINE Via(n) == IF n.via = r THEN [n EXCEPT !.via = Loose] ELSE n
  <2>1. /\ needs' = {Via(n) : n \in needs} /\ UNCHANGED <<active, composition, plans>>
        /\ \A x \in Recipes \ {r} : body'[x] = body[x]
    BY <1>5 DEF DeleteRecipe, SyncInv, IInv, TypeOK
  <2>2. \A n \in needs : Via(n).list = n.list /\ Via(n).pm = n.pm
    BY DEF SyncInv, IInv, TypeOK, Need
  <2>3. \A n \in needs : n.via # r => Via(n) = n
    OBVIOUS
  <2> HIDE DEF Via
  <2>4. ASSUME NEW pm \in planned, status[pm[1]] = "active"
        PROVE  /\ LiveRows(active, needs', pm) = LiveRows(active, needs, pm)
               /\ \A lk \in composition[pm[2]].linked : body'[lk.recipe] = body[lk.recipe]
    <3>1. \A lk \in composition[pm[2]].linked : lk.recipe \in Recipes \ {r}
      BY <1>5 DEF DeleteRecipe, MealsUsing, SyncInv, Closed, IInv, TypeOK
    <3>2. LiveRows(active, needs, pm) \in {{}, RowsFor({pm}, active, body, composition)}
      BY <2>4 DEF SyncInv, InSync, LiveRows
    <3>3. \A n \in RowsFor({pm}, active, body, composition) : n.via # r
      BY <3>1, InRows, LooseAssumption DEF RecipeRow, LooseRow
    <3>4. \A n \in LiveRows(active, needs, pm) : Via(n) = n
      BY <2>3, <3>2, <3>3 DEF LiveRows
    <3> QED
      BY <2>1, <2>2, <3>1, <3>4 DEF LiveRows
  <2> QED
    BY <1>1, <2>1, <2>4 DEF plans
<1>6. ASSUME NEW m \in Meals, NEW b \in MealBodies, CreateMeal(m, b)
      PROVE  InSync'
  BY <1>1, <1>6 DEF CreateMeal, plans, list, SyncInv, Closed, IInv, TypeOK
<1>7. ASSUME NEW m \in Meals, NEW b \in MealBodies, UpdateMeal(m, b)
      PROVE  InSync'
  <2>1. composition' \in [Meals -> MealBody] /\ \A x \in meals \ {m} : composition'[x] = composition[x]
    BY <1>7, BodiesAssumption DEF UpdateMeal, SyncInv, IInv, TypeOK
  <2>2. Resync(InActivePlans({m}), body, composition') /\ UNCHANGED <<body, plans>>
    BY <1>7 DEF UpdateMeal
  <2>3. body \in [Recipes -> SUBSET Line]
    BY DEF SyncInv, IInv, TypeOK
  <2> QED
    BY <2>1, <2>2, <2>3, ResyncSynced
<1>8. ASSUME NEW m \in Meals, DeleteMeal(m)
      PROVE  InSync'
  <2>1. \A pm \in planned' : /\ LiveRows(active', needs', pm) = LiveRows(active', needs, pm)
                             /\ composition'[pm[2]] = composition[pm[2]]
    BY <1>8 DEF DeleteMeal, LiveRows, SyncInv, Closed, IInv, TypeOK
  <2> QED
    BY <1>1, <1>8, <2>1 DEF DeleteMeal, UseTheList
<1>9. ASSUME NEW p \in Plans, CreatePlan(p)
      PROVE  InSync'
  <2>1. \A pm \in planned : status'[pm[1]] = "active" => status[pm[1]] = "active"
    BY <1>9 DEF CreatePlan, SyncInv, Closed, IInv, TypeOK
  <2> QED
    BY <1>1, <1>9, <2>1 DEF CreatePlan, kitchen, list
<1>10. ASSUME NEW p \in Plans, NEW q \in Plans, CopyPlan(p, q)
       PROVE  InSync'
  <2> DEFINE copied == {<<p, pm[2]>> : pm \in {x \in planned : x[1] = q}}
  <2>1. copied \in SUBSET PlanMeal /\ copied \cap planned = {}
    BY <1>10 DEF CopyPlan, PlanMeal, SyncInv, Closed, IInv, TypeOK
  <2>2. \A pm \in planned : status'[pm[1]] = "active" => status[pm[1]] = "active"
    BY <1>10 DEF CopyPlan, SyncInv, Closed, IInv, TypeOK
  <2>3. planned' = planned \cup copied /\ UNCHANGED kitchen
    BY <1>10 DEF CopyPlan
  <2>4. CASE copied = {}
    BY <1>1, <1>10, <2>2, <2>4 DEF CopyPlan, kitchen
  <2>5. CASE AddContributions(copied)
    BY <2>1, <2>2, <2>3, <2>5, AddSynced
  <2> QED
    BY <1>10, <2>4, <2>5 DEF CopyPlan
<1>11. ASSUME NEW p \in Plans, NEW m \in Meals, AddMeal(p, m)
       PROVE  InSync'
  BY <1>11, AddSynced DEF AddMeal, PlanMeal
<1>12. ASSUME NEW p \in Plans, NEW m \in Meals, RemoveMeal(p, m)
       PROVE  InSync'
  <2>1. \A pm \in planned' : LiveRows(active', needs', pm) = LiveRows(active', needs, pm)
    BY <1>12 DEF RemoveMeal, LiveRows
  <2> QED
    BY <1>1, <1>12, <2>1 DEF RemoveMeal, UseTheList, kitchen
<1>13. ASSUME NEW p \in Plans, ArchivePlan(p)
       PROVE  InSync'
  <2>1. \A pm \in planned : status'[pm[1]] = "active" => pm[1] # p /\ status[pm[1]] = "active"
    BY <1>13 DEF ArchivePlan, SyncInv, IInv, TypeOK, PlanMeal
  <2>2. \A pm \in planned : status'[pm[1]] = "active" =>
           LiveRows(active', needs', pm) = LiveRows(active', needs, pm)
    BY <1>13, <2>1 DEF ArchivePlan, LiveRows
  <2> QED
    BY <1>1, <1>13, <2>1, <2>2 DEF ArchivePlan, UseTheList, kitchen
<1>14. CASE ArchiveList
  <2>1. \A n \in needs : n.list \in Nat /\ n.list < active'
    BY <1>14, OnTheList, TheListType DEF ArchiveList, SyncInv, IInv, TypeOK, Need, Lists
  <2>2. \A pm : LiveRows(active', needs', pm) = {}
    BY <1>14, <2>1 DEF ArchiveList, LiveRows, SyncInv, IInv, TypeOK, Lists
  <2> QED
    BY <2>2, SyncedWhen
<1>15. CASE ListNext
  BY <1>2, <1>14, <1>15
     DEF ListNext, GetShoppingList, AddItem, UpdateItem, DeleteItem, UseTheList, kitchen
<1>16. CASE UNCHANGED vars
  BY <1>2, <1>16 DEF vars, kitchen, list
<1> QED
  BY <1>3, <1>4, <1>5, <1>6, <1>7, <1>8, <1>9, <1>10, <1>11, <1>12, <1>13, <1>15, <1>16, MergeSynced
     DEF Next, RecipeNext, MealNext, PlanNext, MergeNext

(* _resync_meals_using, add_meal, copy_from_plan_id, merge_ingredients:      *)
(* whatever is edited, planned or merged, the live list has for a plan meal  *)
(* of an active plan exactly what its meal needs now, or nothing.            *)
THEOREM ListFollowsMeals == Spec => []InSync
<1>1. Init => Closed /\ InSync
  BY DEF Init, Closed, InSync
<1>2. SyncInv /\ [Next]_vars => SyncInv'
  <2>1. IInv /\ [Next]_vars => IInv'
    BY TypeStep, CoherentStep, ProvenanceStep DEF IInv
  <2> QED
    BY <2>1, ClosedStep, SyncStep DEF SyncInv
<1>3. Spec => []IInv
  BY Invariance
<1> QED
  BY <1>1, <1>2, Invariance, PTL DEF Spec, SyncInv

-----------------------------------------------------------------------------
(* What a step may not do to a line of the list. *)

LEMMA ResyncKeepsState ==
    ASSUME IInv, NEW pms \in SUBSET planned,
           NEW bdy \in [Recipes -> SUBSET Line], NEW cmp \in [Meals -> MealBody],
           Resync(pms, bdy, cmp), NEW ln \in lines, ln.list = TheList,
           \A pm \in planned : SameNeed(pm, ln.key)
    PROVE  ln \in lines'
<1> DEFINE l == TheList
           rows == RowsFor(pms, l, bdy, cmp)
           new == {FreshLine(l, r.key) : r \in {x \in rows : At(lines, l, x.key) = {}}}
           Before(pm, k) == {n \in At(needs, l, k) : n.pm = pm}
           After(pm, k) == {n \in At(rows, l, k) : n.pm = pm}
           Same(pm, k) == SameAmount(Before(pm, k), After(pm, k))
           Changed(k) == \E pm \in pms : After(pm, k) # {} /\ ~Same(pm, k)
           gone == {x \in Emptied(pms) : At(rows, l, x.key) = {}}
<1>1. TheList' = TheList /\ needs' = {n \in needs : n.list # l \/ n.pm \notin pms} \cup rows
  BY TheListType, MaxListsAssumption DEF Resync, UseTheList, ResyncedNeeds, TheList, IInv, TypeOK, Lists
<1>2. ASSUME NEW pm \in pms, NEW k
      PROVE  NeedsOf(pm, k) = Before(pm, k) /\ NeedsOf(pm, k)' = After(pm, k)
  <2>1. NeedsOf(pm, k) = Before(pm, k)
    BY DEF NeedsOf
  <2>2. NeedsOf(pm, k)' = {n \in needs' : n.list = l /\ n.key = k /\ n.pm = pm}
    BY <1>1 DEF NeedsOf, At
  <2>3. {n \in needs' : n.list = l /\ n.key = k /\ n.pm = pm} = After(pm, k)
    BY <1>1 DEF At
  <2> QED
    BY <2>1, <2>2, <2>3
<1>3. \A pm \in pms : Before(pm, ln.key) = {} <=> After(pm, ln.key) = {}
  BY <1>2 DEF SameNeed
<1>4. \A pm \in pms : Amount(Before(pm, ln.key)) = Amount(After(pm, ln.key))
  BY <1>2 DEF SameNeed
<1>5. ~Changed(ln.key)
  <2> HIDE DEF Before, After
  <2> QED
    BY <1>3, <1>4 DEF SameAmount
<1>6. ln \notin gone
  <2>1. SUFFICES ASSUME ln \in Emptied(pms) PROVE At(rows, l, ln.key) # {}
    OBVIOUS
  <2>2. PICK n \in At(needs, ln.list, ln.key) : n.pm \in pms
    BY <2>1 DEF Emptied
  <2>3. n \in Before(n.pm, ln.key)
    BY <2>2
  <2>4. After(n.pm, ln.key) # {}
    BY <1>3, <2>2, <2>3
  <2> QED
    BY <2>4
<1>7. PICK rank \in Orders(pms) : lines' = ResyncedLines(pms, bdy, cmp, rank)
  BY DEF Resync
<1> DEFINE Others(k) == {n \in At(needs, l, k) : n.pm \notin pms} \cup At(adhoc, l, k)
           Recreated(k) ==
              /\ Others(k) = {}
              /\ \E pm \in pms :
                   /\ Before(pm, k) # {} /\ ~Same(pm, k)
                   /\ \A x \in pms \ {pm} :
                        IF rank[x] < rank[pm] THEN After(x, k) = {} ELSE Before(x, k) = {}
           Upd(x) ==
              IF x.list # l \/ ~Changed(x.key) THEN x
              ELSE IF Recreated(x.key) THEN FreshLine(l, x.key) ELSE Surfaced(x)
<1>8. lines' = {Upd(x) : x \in lines \ gone} \cup new
  BY <1>7 DEF ResyncedLines
<1> HIDE DEF Changed, Recreated, gone, new
<1>9. Upd(ln) = ln
  BY <1>5
<1> HIDE DEF Upd
<1> QED
  BY <1>6, <1>8, <1>9

NeedKeepsState ==
    UNCHANGED plans /\ <<kitchen, needs>>' # <<kitchen, needs>> /\ ~MergeNext =>
        \A ln \in lines :
            ln.list = TheList /\ (\A pm \in planned : SameNeed(pm, ln.key)) => ln \in lines'

LEMMA KeepsStateStep == IInv /\ Next => NeedKeepsState
<1> SUFFICES ASSUME IInv, Next, UNCHANGED plans, <<kitchen, needs>>' # <<kitchen, needs>>, ~MergeNext,
                    NEW ln \in lines, ln.list = TheList, \A pm \in planned : SameNeed(pm, ln.key)
             PROVE  ln \in lines'
  BY DEF NeedKeepsState
<1>1. CASE lines' = lines
  BY <1>1
<1>2. ASSUME NEW ms, NEW bdy \in [Recipes -> SUBSET Line], NEW cmp \in [Meals -> MealBody],
             Resync(InActivePlans(ms), bdy, cmp)
      PROVE  ln \in lines'
  <2>1. InActivePlans(ms) \in SUBSET planned
    BY DEF InActivePlans
  <2> QED
    BY <1>2, <2>1, ResyncKeepsState
<1>3. ASSUME NEW r \in Recipes, NEW b \in RecipeBodies, UpdateRecipe(r, b)
      PROVE  ln \in lines'
  <2>1. body' \in [Recipes -> SUBSET Line] /\ composition \in [Meals -> MealBody]
    BY <1>3, BodiesAssumption DEF UpdateRecipe, IInv, TypeOK
  <2> QED
    BY <1>1, <1>2, <1>3, <2>1 DEF UpdateRecipe
<1>4. ASSUME NEW m \in Meals, NEW b \in MealBodies, UpdateMeal(m, b)
      PROVE  ln \in lines'
  <2>1. composition' \in [Meals -> MealBody] /\ body \in [Recipes -> SUBSET Line]
    BY <1>4, BodiesAssumption DEF UpdateMeal, IInv, TypeOK
  <2> QED
    BY <1>2, <1>4, <2>1 DEF UpdateMeal
<1>5. ASSUME NEW m \in Meals, DeleteMeal(m)
      PROVE  ln \in lines'
  <2>1. planned' = {pm \in planned : pm[2] # m} /\ planned' = planned
        /\ lines' = lines \ Emptied(InActivePlans({m}))
    BY <1>5 DEF DeleteMeal, plans
  <2>2. InActivePlans({m}) = {}
    BY <2>1 DEF InActivePlans
  <2> QED
    BY <2>1, <2>2 DEF Emptied
<1>6. CASE PlanNext
  <2>1. \A p \in Plans : \A s : status' = status /\ status' = [status EXCEPT ![p] = s] => status[p] = s
    BY DEF IInv, TypeOK
  <2>2. ASSUME NEW p \in Plans PROVE ~CreatePlan(p) /\ ~ArchivePlan(p)
    BY <2>1 DEF CreatePlan, ArchivePlan, plans
  <2>3. ASSUME NEW p \in Plans, NEW q \in Plans PROVE ~CopyPlan(p, q)
    BY <2>1 DEF CopyPlan, plans
  <2>4. ASSUME NEW p \in Plans, NEW m \in Meals PROVE ~AddMeal(p, m) /\ ~RemoveMeal(p, m)
    BY DEF AddMeal, RemoveMeal, plans
  <2> QED
    BY <1>6, <2>2, <2>3, <2>4 DEF PlanNext
<1>7. CASE ListNext
  BY <1>7 DEF ListNext, GetShoppingList, AddItem, UpdateItem, DeleteItem, ArchiveList
<1>8. CASE RecipeNext
  BY <1>1, <1>3, <1>8 DEF RecipeNext, CreateRecipe, DeleteRecipe, list
<1>9. CASE MealNext
  BY <1>1, <1>4, <1>5, <1>9 DEF MealNext, CreateMeal, list
<1> QED
  BY <1>6, <1>7, <1>8, <1>9 DEF Next

(* resync_meal_contributions: whatever the order of the plan meals, a line   *)
(* all of them need as much of as before keeps its tick and its flags.       *)
THEOREM EditsKeepState == Spec => UnchangedNeedKeepsState
<1>1. IInv /\ [Next]_vars => [NeedKeepsState]_vars
  BY KeepsStateStep
<1>2. [][NeedKeepsState]_vars => UnchangedNeedKeepsState
  BY PTL DEF NeedKeepsState, UnchangedNeedKeepsState
<1> QED
  BY <1>1, <1>2, Invariance, PTL DEF Spec

LostByHand ==
    \A a \in adhoc :
        (\A b \in adhoc' : b.list # a.list \/ b.client # a.client) =>
            At(needs, a.list, a.key) = {} /\ UNCHANGED <<kitchen, plans, needs>>

LEMMA AdhocStep == IInv /\ Next => LostByHand
<1> SUFFICES ASSUME IInv, Next, NEW a \in adhoc,
                    \A b \in adhoc' : b.list # a.list \/ b.client # a.client
             PROVE  At(needs, a.list, a.key) = {} /\ UNCHANGED <<kitchen, plans, needs>>
  BY DEF LostByHand
<1>1. ~(adhoc \subseteq adhoc')
  OBVIOUS
<1>2. ASSUME NEW ln \in lines, DeleteItem(ln)
      PROVE  At(needs, a.list, a.key) = {} /\ UNCHANGED <<kitchen, plans, needs>>
  <2>1. a \in At(adhoc, ln.list, ln.key)
    BY <1>2 DEF DeleteItem
  <2> QED
    BY <1>2, <2>1 DEF DeleteItem, At
<1>3. ASSUME NEW keeper \in Ingredients, NEW dups \in SUBSET Ingredients,
             MergeIngredients(keeper, dups)
      PROVE  FALSE
  <2> DEFINE Put(x) == [x EXCEPT !.key = IF x.key[1] \in dups THEN <<keeper, x.key[2]>> ELSE x.key]
  <2>1. Put(a) \in adhoc'
    BY <1>3 DEF MergeIngredients
  <2>2. Put(a).list = a.list /\ Put(a).client = a.client
    BY DEF IInv, TypeOK, Adhoc
  <2> HIDE DEF Put
  <2> QED
    BY <2>1, <2>2
<1>4. CASE RecipeNext \/ MealNext \/ PlanNext
  BY <1>1, <1>4 DEF RecipeNext, CreateRecipe, UpdateRecipe, DeleteRecipe,
                    MealNext, CreateMeal, UpdateMeal, DeleteMeal,
                    PlanNext, CreatePlan, CopyPlan, AddMeal, RemoveMeal, ArchivePlan, list
<1>5. CASE GetShoppingList \/ ArchiveList \/ (\E k \in Key, c \in ClientKeys : AddItem(k, c))
           \/ \E ln \in lines, fs \in SUBSET ToggledFlags : \E patch \in [fs -> BOOLEAN] : UpdateItem(ln, patch)
  BY <1>1, <1>5 DEF GetShoppingList, ArchiveList, AddItem, UpdateItem
<1> QED
  BY <1>2, <1>3, <1>4, <1>5 DEF Next, ListNext, MergeNext

(* add_adhoc_item, delete_item: what was added by hand goes only by deleting *)
(* its line, which is refused while a plan meal needs it.                    *)
THEOREM AddedByHandStays == Spec => AdhocNeverLost
<1>1. IInv /\ [Next]_vars =>
        [\A a \in adhoc :
            (\A b \in adhoc' : b.list # a.list \/ b.client # a.client) =>
                /\ At(needs, a.list, a.key) = {}
                /\ UNCHANGED <<kitchen, plans, needs>>]_vars
  BY AdhocStep DEF LostByHand
<1> QED
  BY <1>1, Invariance, PTL DEF Spec, AdhocNeverLost

-----------------------------------------------------------------------------
(* The loop.  Seen from one key of the live list, a turn does one of a few    *)
(* things to its line (TurnAt); so what has become of the line after some     *)
(* turns can be said at once (HereIs, Halfway), each turn leads from there to *)
(* there with one plan meal more, and when all are done it is what            *)
(* ResyncedLines says.                                                        *)

(* One turn, seen from the lines of one key of the live list: `own' and    *)
(* `new' are the plan meal's rows of the key before and after, `others'     *)
(* what else is there.                                                     *)
TurnAt(at, own, new, others, k) ==
    LET left == IF own # {} /\ others = {} THEN {} ELSE at
        added == IF new = {} THEN left
                 ELSE IF left = {} THEN {FreshLine(TheList, k)} ELSE {Surfaced(ln) : ln \in left}
    IN IF SameAmount(own, new) /\ added # {} THEN at ELSE added

LEMMA SurfacedTwice ==
    ASSUME NEW ln \in ListLine
    PROVE  Surfaced(Surfaced(ln)) = Surfaced(ln)
BY DEF Surfaced, ListLine, Flag

LEMMA FreshSurfaced ==
    ASSUME NEW l, NEW k
    PROVE  Surfaced(FreshLine(l, k)) = FreshLine(l, k)
<1>1. FreshLine(l, k).flags = [f \in Flag |-> FALSE]
  BY DEF FreshLine
<1>2. [[f \in Flag |-> FALSE] EXCEPT !["checked"] = FALSE] = [f \in Flag |-> FALSE]
  OBVIOUS
<1> QED
  BY <1>1, <1>2 DEF Surfaced, FreshLine

(* A list's tables are their lines of other lists and, key by key, of this. *)
LEMMA SameLines ==
    ASSUME NEW X \in SUBSET ListLine, NEW Y \in SUBSET ListLine, NEW l,
           \A ln \in ListLine : ln.list # l => (ln \in X <=> ln \in Y),
           \A k \in Key : At(X, l, k) = At(Y, l, k)
    PROVE  X = Y
<1>1. ASSUME NEW ln \in ListLine, ln.list = l PROVE ln \in X <=> ln \in Y
  <2>1. ln.key \in Key
    BY DEF ListLine
  <2>2. At(X, l, ln.key) = At(Y, l, ln.key)
    BY <2>1
  <2> QED
    BY <1>1, <2>2 DEF At
<1> QED
  BY <1>1

SameElsewhere(X, Y) == \A ln \in ListLine : ln.list # TheList => (ln \in X <=> ln \in Y)
SameHere(X, Y) == \A k \in Key : At(X, TheList, k) = At(Y, TheList, k)

LEMMA SameAltogether ==
    ASSUME NEW X \in SUBSET ListLine, NEW Y \in SUBSET ListLine, SameElsewhere(X, Y), SameHere(X, Y)
    PROVE  X = Y
BY SameLines DEF SameElsewhere, SameHere

OtherRows(st, pm, k) == {n \in At(st.needs, TheList, k) : n.pm # pm} \cup At(adhoc, TheList, k)

LEMMA TurnNeeds ==
    ASSUME NEW st, NEW pm, NEW bdy, NEW cmp
    PROVE  Turn(st, pm, bdy, cmp).needs =
             {n \in st.needs : ~(n.list = TheList /\ n.pm = pm)} \cup RowsFor({pm}, TheList, bdy, cmp)
BY DEF Turn, TurnRestore, TurnAdd, TurnRemove

(* First off the list ... *)
LEMMA RemovedAt ==
    ASSUME NEW st, NEW pm, NEW k
    PROVE  At(TurnRemove(st, pm).lines, TheList, k) =
             IF OwnRows(st, pm, k) # {} /\ OtherRows(st, pm, k) = {} THEN {} ELSE At(st.lines, TheList, k)
<1> DEFINE own == {n \in st.needs : n.list = TheList /\ n.pm = pm}
<1>1. (\E n \in own : n.key = k) <=> OwnRows(st, pm, k) # {}
  BY DEF OwnRows, At
<1>2. At(st.needs \ own, TheList, k) \cup At(adhoc, TheList, k) = OtherRows(st, pm, k)
  BY DEF OtherRows, At
<1> HIDE DEF own
<1>3. TurnRemove(st, pm).lines = 
        {ln \in st.lines : ~(/\ ln.list = TheList
                             /\ \E n \in own : n.key = ln.key
                             /\ At(st.needs \ own, TheList, ln.key) \cup At(adhoc, TheList, ln.key) = {})}
  BY DEF TurnRemove, own
<1>4. \A ln : ln \in At(TurnRemove(st, pm).lines, TheList, k) <=>
         /\ ln \in st.lines /\ ln.list = TheList /\ ln.key = k
         /\ ~((\E n \in own : n.key = k) /\ At(st.needs \ own, TheList, k) \cup At(adhoc, TheList, k) = {})
  BY <1>3 DEF At
<1> QED
  BY <1>1, <1>2, <1>4 DEF At

(* ... then on it again ... *)
LEMMA SurfacedAt ==
    ASSUME NEW lns \in SUBSET ListLine, NEW rows, NEW k
    PROVE  At(Surface(rows, lns), TheList, k) =
             IF {r \in rows : r.key = k} = {} THEN At(lns, TheList, k)
             ELSE IF At(lns, TheList, k) = {} THEN {FreshLine(TheList, k)}
             ELSE {Surfaced(ln) : ln \in At(lns, TheList, k)}
<1>1. k \in {r.key : r \in rows} <=> {r \in rows : r.key = k} # {}
  OBVIOUS
<1> DEFINE keys == {r.key : r \in rows}
           Hit(ln) == IF ln.list = TheList /\ ln.key \in keys THEN Surfaced(ln) ELSE ln
<1> HIDE DEF keys
<1>2. Surface(rows, lns) = {Hit(ln) : ln \in lns} \cup {FreshLine(TheList, x) : x \in {x \in keys : At(lns, TheList, x) = {}}}
  BY DEF Surface, keys
<1>3. \A ln \in lns : Hit(ln).list = ln.list /\ Hit(ln).key = ln.key
  BY SurfacedType
<1>4. \A ln \in At(lns, TheList, k) : Hit(ln) = IF k \in keys THEN Surfaced(ln) ELSE ln
  BY DEF At
<1> HIDE DEF Hit
<1>5. \A x : x \in At(Surface(rows, lns), TheList, k) <=>
         \/ \E ln \in At(lns, TheList, k) : x = Hit(ln)
         \/ x = FreshLine(TheList, k) /\ k \in keys /\ At(lns, TheList, k) = {}
  BY <1>2, <1>3, FreshLineIs DEF At
<1>6. CASE k \in keys
  BY <1>1, <1>4, <1>5, <1>6 DEF keys
<1>7. CASE k \notin keys
  BY <1>1, <1>4, <1>5, <1>7 DEF keys
<1> QED
  BY <1>6, <1>7

LEMMA RestoredNone ==
    ASSUME NEW st, NEW was, NEW pm, NEW k,
           \A ln \in st.lines : ln.list = TheList /\ SameAmount(OwnRows(was, pm, ln.key), OwnRows(st, pm, ln.key))
               => At(was.lines, TheList, ln.key) # {},
           At(st.lines, TheList, k) = {}
    PROVE  At(TurnRestore(st, was, pm).lines, TheList, k) = {}
<1> DEFINE Same(x) == SameAmount(OwnRows(was, pm, x), OwnRows(st, pm, x))
           Was(ln) == IF ln.list = TheList /\ Same(ln.key)
                      THEN CHOOSE x \in was.lines : x.list = ln.list /\ x.key = ln.key ELSE ln
<1>1. TurnRestore(st, was, pm).lines = {Was(ln) : ln \in st.lines}
  BY DEF TurnRestore
<1> HIDE DEF Same
<1>2. \A ln \in st.lines : ln.list = TheList /\ Same(ln.key) => \E x \in was.lines : x.list = ln.list /\ x.key = ln.key
  BY DEF At, Same
<1>3. \A ln \in st.lines : Was(ln).list = ln.list /\ Was(ln).key = ln.key
  BY <1>2
<1> HIDE DEF Was
<1> QED
  BY <1>1, <1>3 DEF At

(* ... then as it was, where the amount is the same. *)
LEMMA RestoredAt ==
    ASSUME NEW st, NEW was, NEW pm, NEW k,
           \A x, y \in was.lines : x.list = y.list /\ x.key = y.key => x = y,
           \A ln \in st.lines : ln.list = TheList /\ SameAmount(OwnRows(was, pm, ln.key), OwnRows(st, pm, ln.key))
               => At(was.lines, TheList, ln.key) # {},
           NEW at, at = At(TurnRestore(st, was, pm).lines, TheList, k)
    PROVE  /\ At(st.lines, TheList, k) = {} => at = {}
           /\ SameAmount(OwnRows(was, pm, k), OwnRows(st, pm, k)) =>
                At(st.lines, TheList, k) = {} \/ at = At(was.lines, TheList, k)
           /\ ~SameAmount(OwnRows(was, pm, k), OwnRows(st, pm, k)) => at = At(st.lines, TheList, k)
<1> DEFINE Same(x) == SameAmount(OwnRows(was, pm, x), OwnRows(st, pm, x))
           Was(ln) == IF ln.list = TheList /\ Same(ln.key)
                      THEN CHOOSE x \in was.lines : x.list = ln.list /\ x.key = ln.key ELSE ln
<1>1. TurnRestore(st, was, pm).lines = {Was(ln) : ln \in st.lines}
  BY DEF TurnRestore
<1> HIDE DEF Same
<1>2. ASSUME NEW ln \in st.lines, ln.list = TheList, Same(ln.key)
      PROVE  Was(ln) \in At(was.lines, TheList, ln.key) /\ At(was.lines, TheList, ln.key) = {Was(ln)}
  BY <1>2 DEF At, Same
<1>3. \A ln \in st.lines : Was(ln).list = ln.list /\ Was(ln).key = ln.key
  BY <1>2 DEF At
<1>4. \A ln \in st.lines : ~(ln.list = TheList /\ Same(ln.key)) => Was(ln) = ln
  OBVIOUS
<1> HIDE DEF Was
<1>5. \A x : x \in at <=> \E ln \in At(st.lines, TheList, k) : x = Was(ln)
  BY <1>1, <1>3 DEF At
<1>8. at = {x \in at : TRUE}
  BY DEF At
<1>6. CASE Same(k)
  BY <1>2, <1>5, <1>6 DEF At, Same
<1>7. CASE ~Same(k)
  <2>1. \A x : x \in at <=> x \in At(st.lines, TheList, k)
    BY <1>4, <1>5, <1>7 DEF At
  <2> QED
    BY <1>7, <1>8, <2>1 DEF Same, At
<1> QED
  BY <1>6, <1>7

NewRows(pm, bdy, cmp, k) == {r \in RowsFor({pm}, TheList, bdy, cmp) : r.key = k}

(* The state a turn starts from: a line for every row.                     *)
Sound(st) ==
    /\ st.lines \subseteq ListLine
    /\ \A x, y \in st.lines : x.list = y.list /\ x.key = y.key => x = y
    /\ \A n \in st.needs : n.list = TheList => At(st.lines, TheList, n.key) # {}

LEMMA TurnIs ==
    ASSUME TypeOK, NEW st, Sound(st), NEW pm \in PlanMeal,
           NEW bdy \in [Recipes -> SUBSET Line], NEW cmp \in [Meals -> MealBody]
    PROVE  /\ Turn(st, pm, bdy, cmp).lines \subseteq ListLine
           /\ \A ln : ln.list # TheList => (ln \in Turn(st, pm, bdy, cmp).lines <=> ln \in st.lines)
           /\ \A k : At(Turn(st, pm, bdy, cmp).lines, TheList, k) =
                TurnAt(At(st.lines, TheList, k), OwnRows(st, pm, k), NewRows(pm, bdy, cmp, k), OtherRows(st, pm, k), k)
<1> DEFINE rows == RowsFor({pm}, TheList, bdy, cmp)
           off == TurnRemove(st, pm)
           on == TurnAdd(off, pm, bdy, cmp)
           after == Turn(st, pm, bdy, cmp)
<1>1. TheList \in Lists /\ rows \subseteq Need /\ \A r \in rows : r.list = TheList /\ r.pm = pm
  BY TheListType, RowsForType
<1>2. off.lines \subseteq st.lines /\ off.lines \subseteq ListLine
      /\ off.needs = {n \in st.needs : ~(n.list = TheList /\ n.pm = pm)}
      /\ \A ln \in st.lines : ln.list # TheList => ln \in off.lines
  BY DEF TurnRemove, Sound
<1>3. on.lines = Surface(rows, off.lines) /\ on.needs = off.needs \cup rows
  BY DEF TurnAdd
<1>4. after = TurnRestore(on, st, pm)
  BY DEF Turn
<1> HIDE DEF rows, off, on, after
<1>5. on.lines \subseteq ListLine
  BY <1>1, <1>2, <1>3, SurfaceType DEF Need
<1>6. \A ln : ln.list # TheList => (ln \in on.lines <=> ln \in st.lines)
  <2>1. \A k : FreshLine(TheList, k).list = TheList
    BY FreshLineIs
  <2>2. \A ln \in off.lines : Surfaced(ln).list = ln.list
    BY <1>2, SurfacedType
  <2> QED
    BY <1>2, <1>3, <2>1, <2>2 DEF Surface
<1>7. \A k : OwnRows(on, pm, k) = {r \in rows : r.key = k}
  BY <1>1, <1>2, <1>3 DEF OwnRows, At
<1>8. ASSUME NEW k, OwnRows(st, pm, k) # {} PROVE At(st.lines, TheList, k) # {}
  BY <1>8 DEF OwnRows, At, Sound
<1>9. \A k : SameAmount(OwnRows(st, pm, k), OwnRows(on, pm, k)) => OwnRows(st, pm, k) # {}
  BY DEF SameAmount
<1>10. ASSUME NEW k
       PROVE  /\ SameAmount(OwnRows(st, pm, k), OwnRows(on, pm, k)) /\ At(on.lines, TheList, k) # {} =>
                At(after.lines, TheList, k) = At(st.lines, TheList, k)
              /\ At(on.lines, TheList, k) = {} => At(after.lines, TheList, k) = {}
              /\ ~SameAmount(OwnRows(st, pm, k), OwnRows(on, pm, k)) =>
                At(after.lines, TheList, k) = At(on.lines, TheList, k)
  <2>1. \A x, y \in st.lines : x.list = y.list /\ x.key = y.key => x = y
    BY DEF Sound
  <2>2. \A ln \in on.lines : ln.list = TheList /\ SameAmount(OwnRows(st, pm, ln.key), OwnRows(on, pm, ln.key))
               => At(st.lines, TheList, ln.key) # {}
    BY <1>8, <1>9
  <2>3. \A o : o = on =>
          /\ SameAmount(OwnRows(st, pm, k), OwnRows(o, pm, k)) /\ At(o.lines, TheList, k) # {} =>
                At(TurnRestore(o, st, pm).lines, TheList, k) = At(st.lines, TheList, k)
          /\ At(o.lines, TheList, k) = {} => At(TurnRestore(o, st, pm).lines, TheList, k) = {}
          /\ ~SameAmount(OwnRows(st, pm, k), OwnRows(o, pm, k)) =>
                At(TurnRestore(o, st, pm).lines, TheList, k) = At(o.lines, TheList, k)
    <3> TAKE o
    <3> HAVE o = on
    <3>1. \A ln \in o.lines : ln.list = TheList /\ SameAmount(OwnRows(st, pm, ln.key), OwnRows(o, pm, ln.key))
               => At(st.lines, TheList, ln.key) # {}
      BY <2>2
    <3>2. ASSUME SameAmount(OwnRows(st, pm, k), OwnRows(o, pm, k)), At(o.lines, TheList, k) # {}
          PROVE  At(TurnRestore(o, st, pm).lines, TheList, k) = At(st.lines, TheList, k)
      BY <2>1, <3>1, <3>2, RestoredAt
    <3>4. ASSUME At(o.lines, TheList, k) = {}
          PROVE  At(TurnRestore(o, st, pm).lines, TheList, k) = {}
      BY <3>1, <3>4, RestoredNone
    <3>3. ASSUME ~SameAmount(OwnRows(st, pm, k), OwnRows(o, pm, k))
          PROVE  At(TurnRestore(o, st, pm).lines, TheList, k) = At(o.lines, TheList, k)
      BY <2>1, <3>1, <3>3, RestoredAt
    <3> QED
      BY <3>2, <3>3, <3>4
  <2> QED
    BY <1>4, <2>3
<1>11. ASSUME NEW k
       PROVE  At(after.lines, TheList, k) =
                TurnAt(At(st.lines, TheList, k), OwnRows(st, pm, k), NewRows(pm, bdy, cmp, k), OtherRows(st, pm, k), k)
  <2>1. OwnRows(on, pm, k) = NewRows(pm, bdy, cmp, k)
    BY <1>7 DEF NewRows, rows
  <2>2. At(off.lines, TheList, k) =
             IF OwnRows(st, pm, k) # {} /\ OtherRows(st, pm, k) = {} THEN {} ELSE At(st.lines, TheList, k)
    BY RemovedAt DEF off
  <2>3. At(on.lines, TheList, k) =
             IF NewRows(pm, bdy, cmp, k) = {} THEN At(off.lines, TheList, k)
             ELSE IF At(off.lines, TheList, k) = {} THEN {FreshLine(TheList, k)}
             ELSE {Surfaced(ln) : ln \in At(off.lines, TheList, k)}
    <3>1. NewRows(pm, bdy, cmp, k) = {r \in rows : r.key = k}
      BY DEF NewRows, rows
    <3>2. At(Surface(rows, off.lines), TheList, k) =
             IF {r \in rows : r.key = k} = {} THEN At(off.lines, TheList, k)
             ELSE IF At(off.lines, TheList, k) = {} THEN {FreshLine(TheList, k)}
             ELSE {Surfaced(ln) : ln \in At(off.lines, TheList, k)}
      BY <1>2, SurfacedAt
    <3> QED
      BY <1>3, <3>1, <3>2, Zenon
  <2> QED
    BY <1>10, <2>1, <2>2, <2>3 DEF TurnAt
<1>12. ASSUME NEW ln \in on.lines
       PROVE  LET x == IF ln.list = TheList /\ SameAmount(OwnRows(st, pm, ln.key), OwnRows(on, pm, ln.key))
                       THEN CHOOSE x \in st.lines : x.list = ln.list /\ x.key = ln.key ELSE ln
              IN x \in ListLine /\ x.list = ln.list /\ (ln.list # TheList => x = ln)
  <2>1. CASE ln.list = TheList /\ SameAmount(OwnRows(st, pm, ln.key), OwnRows(on, pm, ln.key))
    <3>1. \E x \in st.lines : x.list = ln.list /\ x.key = ln.key
      BY <1>8, <1>9, <2>1 DEF At
    <3> QED
      BY <3>1, <2>1 DEF Sound
  <2> QED
    BY <1>5, <2>1
<1>13. after.lines \subseteq ListLine /\ \A ln : ln.list # TheList => (ln \in after.lines <=> ln \in on.lines)
  <2> DEFINE Was(ln) == IF ln.list = TheList /\ SameAmount(OwnRows(st, pm, ln.key), OwnRows(on, pm, ln.key))
                       THEN CHOOSE x \in st.lines : x.list = ln.list /\ x.key = ln.key ELSE ln
  <2>1. after.lines = {Was(ln) : ln \in on.lines}
    BY <1>4 DEF TurnRestore
  <2>2. \A ln \in on.lines : Was(ln) \in ListLine /\ Was(ln).list = ln.list /\ (ln.list # TheList => Was(ln) = ln)
    BY <1>12
  <2> HIDE DEF Was
  <2> QED
    BY <2>1, <2>2
<1> QED
  BY <1>6, <1>11, <1>13 DEF after

(* What has become of the lines of one key once some turns have been run:  *)
(* `at' are the lines before the first.                                    *)
HereIs(at, killed, touched, some, k) ==
    IF at # {} /\ ~killed
    THEN IF touched THEN {Surfaced(ln) : ln \in at} ELSE at
    ELSE IF some THEN {FreshLine(TheList, k)} ELSE {}

LEMMA StepAt ==
    ASSUME NEW at \in SUBSET ListLine, NEW killed \in BOOLEAN, NEW touched \in BOOLEAN, NEW some \in BOOLEAN,
           NEW own, NEW new, NEW others, NEW k,
           own # {} => at # {} /\ ~killed,
           some => others # {},
           NEW killed2 \in BOOLEAN, NEW touched2 \in BOOLEAN, NEW some2 \in BOOLEAN,
           killed2 <=> killed \/ (own # {} /\ ~SameAmount(own, new) /\ others = {}),
           touched2 <=> touched \/ (new # {} /\ ~SameAmount(own, new)),
           some2 <=> some \/ new # {}
    PROVE  TurnAt(HereIs(at, killed, touched, some, k), own, new, others, k) =
             HereIs(at, killed2, touched2, some2, k)
<1> DEFINE here == HereIs(at, killed, touched, some, k)
           left == IF own # {} /\ others = {} THEN {} ELSE here
           added == IF new = {} THEN left
                    ELSE IF left = {} THEN {FreshLine(TheList, k)} ELSE {Surfaced(ln) : ln \in left}
<1>1. TurnAt(here, own, new, others, k) = IF SameAmount(own, new) /\ added # {} THEN here ELSE added
  BY DEF TurnAt
<1>2. CASE SameAmount(own, new)
  <2>1. own # {} /\ new # {}
    BY <1>2 DEF SameAmount
  <2>2. added # {}
    BY <2>1
  <2>3. HereIs(at, killed2, touched2, some2, k) = here
    BY <1>2, <2>1 DEF HereIs
  <2> QED
    BY <1>1, <1>2, <2>2, <2>3
<1>3. CASE ~SameAmount(own, new) /\ own # {} /\ others = {}
  <2>1. left = {} /\ ~some /\ killed2
    BY <1>3
  <2>2. HereIs(at, killed2, touched2, some2, k) = IF new # {} THEN {FreshLine(TheList, k)} ELSE {}
    BY <2>1 DEF HereIs
  <2>3. added = IF new # {} THEN {FreshLine(TheList, k)} ELSE {}
    BY <2>1
  <2> QED
    BY <1>1, <1>3, <2>2, <2>3
<1>4. CASE ~SameAmount(own, new) /\ ~(own # {} /\ others = {}) /\ new = {}
  <2>1. added = here /\ killed2 = killed /\ touched2 = touched /\ some2 = some
    BY <1>4
  <2> QED
    BY <1>1, <1>4, <2>1
<1>5. CASE ~SameAmount(own, new) /\ ~(own # {} /\ others = {}) /\ new # {}
  <2>1. left = here /\ killed2 = killed /\ touched2 /\ some2
    BY <1>5
  <2>2. added = IF here = {} THEN {FreshLine(TheList, k)} ELSE {Surfaced(ln) : ln \in here}
    BY <1>5, <2>1
  <2>3. CASE at # {} /\ ~killed
    <3>1. HereIs(at, killed2, touched2, some2, k) = {Surfaced(ln) : ln \in at}
      BY <2>1, <2>3 DEF HereIs
    <3>2. here # {}
      BY <2>3 DEF HereIs
    <3>3. {Surfaced(ln) : ln \in here} = {Surfaced(ln) : ln \in at}
      <4>1. CASE touched
        <5>1. here = {Surfaced(ln) : ln \in at}
          BY <2>3, <4>1 DEF HereIs
        <5>2. \A ln \in at : Surfaced(Surfaced(ln)) = Surfaced(ln)
          BY SurfacedTwice
        <5> QED
          BY <5>1, <5>2
      <4>2. CASE ~touched
        <5>1. here = at
          BY <2>3, <4>2 DEF HereIs
        <5> QED
          BY <5>1
      <4> QED
        BY <4>1, <4>2
    <3>4. added = HereIs(at, killed2, touched2, some2, k)
      BY <2>2, <3>1, <3>2, <3>3, Zenon
    <3> HIDE DEF added
    <3> QED
      BY <1>1, <1>5, <3>4
  <2>4. CASE ~(at # {} /\ ~killed)
    <3>1. HereIs(at, killed2, touched2, some2, k) = {FreshLine(TheList, k)}
      BY <2>1, <2>4 DEF HereIs
    <3>2. here = {} \/ here = {FreshLine(TheList, k)}
      BY <2>4 DEF HereIs
    <3>3. {Surfaced(ln) : ln \in {FreshLine(TheList, k)}} = {FreshLine(TheList, k)}
      BY FreshSurfaced
    <3>4. added = HereIs(at, killed2, touched2, some2, k)
      <4>1. CASE here = {}
        BY <2>2, <3>1, <4>1, Zenon
      <4>2. CASE here # {}
        <5>1. here = {FreshLine(TheList, k)}
          BY <3>2, <4>2, Zenon
        <5>2. added = {Surfaced(ln) : ln \in here}
          BY <2>2, <4>2, Zenon
        <5> QED
          BY <3>1, <3>3, <5>1, <5>2
      <4> QED
        BY <4>1, <4>2
    <3> HIDE DEF added
    <3> QED
      BY <1>1, <1>5, <3>4
  <2> QED
    BY <2>3, <2>4
<1> QED
  BY <1>2, <1>3, <1>4, <1>5

(* The rows of the plan meals already run are what they need now.          *)
Some(done, k, bdy, cmp) == \E x \in done : NewRows(x, bdy, cmp, k) # {}
Touched(done, k, bdy, cmp) ==
    \E x \in done : NewRows(x, bdy, cmp, k) # {} /\ ~SameAmount(NeedsOf(x, k), NewRows(x, bdy, cmp, k))

(* The turn of pm deletes the line of k: no one else has a row of it then. *)
Kills(pm, k, pms, bdy, cmp, rank) ==
    /\ NeedsOf(pm, k) # {}
    /\ ~SameAmount(NeedsOf(pm, k), NewRows(pm, bdy, cmp, k))
    /\ {n \in At(needs, TheList, k) : n.pm \notin pms} \cup At(adhoc, TheList, k) = {}
    /\ \A x \in pms \ {pm} :
          IF rank[x] < rank[pm] THEN NewRows(x, bdy, cmp, k) = {} ELSE NeedsOf(x, k) = {}
Killed(done, k, pms, bdy, cmp, rank) == \E pm \in done : Kills(pm, k, pms, bdy, cmp, rank)

HereAfter(done, k, pms, bdy, cmp, rank) ==
    HereIs(At(lines, TheList, k), Killed(done, k, pms, bdy, cmp, rank),
           Touched(done, k, bdy, cmp), Some(done, k, bdy, cmp), k)

(* The tables once the plan meals in `done' have had their turn.           *)
Halfway(done, pms, bdy, cmp, rank) ==
    [lines |-> {ln \in lines : ln.list # TheList}
               \cup UNION {HereAfter(done, k, pms, bdy, cmp, rank) : k \in Key},
     needs |-> ResyncedNeeds(done, bdy, cmp)]

LEMMA NewRowsAre ==
    ASSUME NEW pms, NEW pm \in pms, NEW bdy, NEW cmp, NEW k
    PROVE  {n \in At(RowsFor(pms, TheList, bdy, cmp), TheList, k) : n.pm = pm} = NewRows(pm, bdy, cmp, k)
BY DEF RowsFor, At, NewRows

LEMMA SomeAre ==
    ASSUME NEW pms, NEW bdy, NEW cmp, NEW k
    PROVE  At(RowsFor(pms, TheList, bdy, cmp), TheList, k) # {} <=> Some(pms, k, bdy, cmp)
BY DEF RowsFor, At, NewRows, Some

LEMMA HereType ==
    ASSUME TypeOK, NEW done, NEW k \in Key, NEW pms, NEW bdy, NEW cmp, NEW rank
    PROVE  /\ HereAfter(done, k, pms, bdy, cmp, rank) \subseteq ListLine
           /\ \A ln \in HereAfter(done, k, pms, bdy, cmp, rank) : ln.list = TheList /\ ln.key = k
<1>1. At(lines, TheList, k) \subseteq ListLine /\ \A ln \in At(lines, TheList, k) : ln.list = TheList /\ ln.key = k
  BY DEF At, TypeOK
<1>2. \A ln \in At(lines, TheList, k) : Surfaced(ln) \in ListLine /\ Surfaced(ln).list = ln.list /\ Surfaced(ln).key = ln.key
  BY <1>1, SurfacedType
<1>3. FreshLine(TheList, k) \in ListLine /\ FreshLine(TheList, k).list = TheList /\ FreshLine(TheList, k).key = k
  BY TheListType, FreshLineIs, FreshLineType
<1> QED
  BY <1>1, <1>2, <1>3 DEF HereAfter, HereIs

LEMMA HalfwayAt ==
    ASSUME TypeOK, NEW done, NEW pms, NEW bdy, NEW cmp, NEW rank
    PROVE  /\ Halfway(done, pms, bdy, cmp, rank).lines \subseteq ListLine
           /\ \A ln : ln.list # TheList => (ln \in Halfway(done, pms, bdy, cmp, rank).lines <=> ln \in lines)
           /\ \A k \in Key : At(Halfway(done, pms, bdy, cmp, rank).lines, TheList, k) =
                               HereAfter(done, k, pms, bdy, cmp, rank)
<1> DEFINE H(k) == HereAfter(done, k, pms, bdy, cmp, rank)
<1>1. Halfway(done, pms, bdy, cmp, rank).lines = {ln \in lines : ln.list # TheList} \cup UNION {H(k) : k \in Key}
  BY DEF Halfway
<1>2. \A k \in Key : H(k) \subseteq ListLine /\ \A ln \in H(k) : ln.list = TheList /\ ln.key = k
  BY HereType
<1> HIDE DEF H
<1>3. lines \subseteq ListLine
  BY DEF TypeOK
<1>4. \A k \in Key : At(Halfway(done, pms, bdy, cmp, rank).lines, TheList, k) = H(k)
  BY <1>1, <1>2 DEF At
<1> QED
  BY <1>1, <1>2, <1>3, <1>4 DEF H

(* A line goes at the turn of the last that had a row of it, not before.   *)
RowsHaveLines == \A n \in needs : At(lines, n.list, n.key) # {}

LEMMA NotKilled ==
    ASSUME NEW pms \in SUBSET PlanMeal, NEW rank, NEW bdy, NEW cmp, NEW k,
           NEW done \in SUBSET pms, NEW n \in At(needs, TheList, k), n.pm \notin done,
           \A x \in done, y \in pms \ done : ~(rank[y] < rank[x])
    PROVE  ~Killed(done, k, pms, bdy, cmp, rank)
<1> SUFFICES ASSUME NEW x \in done, Kills(x, k, pms, bdy, cmp, rank) PROVE FALSE
  BY DEF Killed
<1>1. n.pm \in pms
  BY DEF Kills, At
<1>2. n \in NeedsOf(n.pm, k)
  BY DEF NeedsOf
<1>3. NeedsOf(n.pm, k) = {}
  BY <1>1 DEF Kills
<1> QED
  BY <1>2, <1>3

LEMMA HalfwaySound ==
    ASSUME TypeOK, LineIdentity, RowsHaveLines,
           NEW pms \in SUBSET PlanMeal, NEW rank,
           NEW bdy \in [Recipes -> SUBSET Line], NEW cmp \in [Meals -> MealBody],
           NEW done \in SUBSET pms,
           \A x \in done, y \in pms \ done : ~(rank[y] < rank[x])
    PROVE  Sound(Halfway(done, pms, bdy, cmp, rank))
<1> DEFINE st == Halfway(done, pms, bdy, cmp, rank)
           H(k) == HereAfter(done, k, pms, bdy, cmp, rank)
<1>1. /\ st.lines \subseteq ListLine
      /\ \A ln : ln.list # TheList => (ln \in st.lines <=> ln \in lines)
      /\ \A k \in Key : At(st.lines, TheList, k) = H(k)
  BY HalfwayAt
<1>2. ASSUME NEW k \in Key, NEW x \in H(k), NEW y \in H(k) PROVE x = y
  <2>1. \A a, b \in At(lines, TheList, k) : a = b
    BY DEF At, LineIdentity
  <2> QED
    BY <2>1 DEF HereAfter, HereIs
<1>3. ASSUME NEW x \in st.lines, NEW y \in st.lines, x.list = y.list, x.key = y.key PROVE x = y
  <2>1. CASE x.list = TheList
    <3>1. x.key \in Key
      BY <1>1 DEF ListLine
    <3>2. x \in H(x.key) /\ y \in H(x.key)
      BY <1>1, <1>3, <2>1, <3>1 DEF At
    <3> QED
      BY <1>2, <3>1, <3>2
  <2>2. CASE x.list # TheList
    BY <1>1, <1>3, <2>2 DEF LineIdentity
  <2> QED
    BY <2>1, <2>2
<1>4. ASSUME NEW n \in st.needs, n.list = TheList PROVE At(st.lines, TheList, n.key) # {}
  <2>1. \/ n \in needs /\ n.pm \notin done
        \/ n \in RowsFor(done, TheList, bdy, cmp)
    BY <1>4 DEF Halfway, ResyncedNeeds
  <2>2. n \in Need
    BY <2>1, RowsForType, TheListType DEF TypeOK
  <2>3. n.key \in Key
    BY <2>2 DEF Need
  <2>4. CASE n \in needs /\ n.pm \notin done
    <3>1. n \in At(needs, TheList, n.key)
      BY <1>4, <2>4 DEF At
    <3>2. ~Killed(done, n.key, pms, bdy, cmp, rank)
      BY <2>4, <3>1, NotKilled
    <3>3. At(lines, TheList, n.key) # {}
      BY <1>4, <2>4 DEF RowsHaveLines
    <3>4. H(n.key) # {}
      BY <3>2, <3>3 DEF HereAfter, HereIs
    <3> QED
      BY <1>1, <2>3, <3>4
  <2>5. CASE n \in RowsFor(done, TheList, bdy, cmp)
    <3>1. n \in At(RowsFor(done, TheList, bdy, cmp), TheList, n.key)
      BY <1>4, <2>5 DEF At
    <3>2. Some(done, n.key, bdy, cmp)
      BY <3>1, SomeAre
    <3>3. H(n.key) # {}
      BY <3>2 DEF HereAfter, HereIs
    <3> QED
      BY <1>1, <2>3, <3>3
  <2> QED
    BY <2>1, <2>4, <2>5
<1> HIDE DEF st
<1>5. Sound(st)
  BY <1>1, <1>3, <1>4 DEF Sound
<1> QED
  BY <1>5 DEF st

(* One more turn, and one more plan meal is done.                          *)
LEMMA TurnOfHalfway ==
    ASSUME TypeOK, LineIdentity, RowsHaveLines,
           NEW pms \in SUBSET PlanMeal, NEW rank,
           NEW bdy \in [Recipes -> SUBSET Line], NEW cmp \in [Meals -> MealBody],
           NEW done \in SUBSET pms, NEW pm \in pms \ done,
           \A x \in done : rank[x] < rank[pm],
           \A x \in pms \ (done \cup {pm}) : ~(rank[x] < rank[pm]),
           \A x \in done, y \in pms \ done : ~(rank[y] < rank[x])
    PROVE  Turn(Halfway(done, pms, bdy, cmp, rank), pm, bdy, cmp) =
             Halfway(done \cup {pm}, pms, bdy, cmp, rank)
<1> DEFINE st == Halfway(done, pms, bdy, cmp, rank)
           more == done \cup {pm}
           to == Halfway(more, pms, bdy, cmp, rank)
           new(k) == NewRows(pm, bdy, cmp, k)
<1>1. /\ Turn(st, pm, bdy, cmp).lines \subseteq ListLine
      /\ \A ln : ln.list # TheList => (ln \in Turn(st, pm, bdy, cmp).lines <=> ln \in st.lines)
      /\ \A k : At(Turn(st, pm, bdy, cmp).lines, TheList, k) =
                TurnAt(At(st.lines, TheList, k), OwnRows(st, pm, k), new(k), OtherRows(st, pm, k), k)
  BY HalfwaySound, TurnIs
<1>2. /\ st.lines \subseteq ListLine
      /\ \A ln : ln.list # TheList => (ln \in st.lines <=> ln \in lines)
      /\ \A k \in Key : At(st.lines, TheList, k) = HereAfter(done, k, pms, bdy, cmp, rank)
  BY HalfwayAt
<1>3. /\ to.lines \subseteq ListLine
      /\ \A ln : ln.list # TheList => (ln \in to.lines <=> ln \in lines)
      /\ \A k \in Key : At(to.lines, TheList, k) = HereAfter(more, k, pms, bdy, cmp, rank)
  BY HalfwayAt
<1>4. st.needs = ResyncedNeeds(done, bdy, cmp) /\ to.needs = ResyncedNeeds(more, bdy, cmp)
  BY DEF Halfway
<1>5. \A n \in RowsFor(done, TheList, bdy, cmp) : n.list = TheList /\ n.pm \in done
  BY RowsForType, TheListType
<1>6. ASSUME NEW k \in Key
      PROVE  TurnAt(At(st.lines, TheList, k), OwnRows(st, pm, k), new(k), OtherRows(st, pm, k), k) =
               HereAfter(more, k, pms, bdy, cmp, rank)
  <2>1. OwnRows(st, pm, k) = NeedsOf(pm, k)
    BY <1>4, <1>5 DEF OwnRows, NeedsOf, At, ResyncedNeeds
  <2>2. OtherRows(st, pm, k) =
          {n \in At(needs, TheList, k) : n.pm \notin more}
          \cup At(RowsFor(done, TheList, bdy, cmp), TheList, k) \cup At(adhoc, TheList, k)
    BY <1>4, <1>5 DEF OtherRows, At, ResyncedNeeds
  <2>3. Some(done, k, bdy, cmp) => OtherRows(st, pm, k) # {}
    BY <2>2, SomeAre
  <2>4. OtherRows(st, pm, k) = {} <=>
          /\ {n \in At(needs, TheList, k) : n.pm \notin pms} \cup At(adhoc, TheList, k) = {}
          /\ \A x \in pms \ {pm} :
               IF rank[x] < rank[pm] THEN NewRows(x, bdy, cmp, k) = {} ELSE NeedsOf(x, k) = {}
    <3>1. ~Some(done, k, bdy, cmp) <=> \A x \in pms \ {pm} : rank[x] < rank[pm] => NewRows(x, bdy, cmp, k) = {}
      BY DEF Some
    <3>2. (\A n \in At(needs, TheList, k) : n.pm \notin more => n.pm \notin pms)
          <=> \A x \in pms \ {pm} : ~(rank[x] < rank[pm]) => NeedsOf(x, k) = {}
      BY DEF NeedsOf
    <3>3. (\A n \in At(needs, TheList, k) : n.pm \in more) <=>
            /\ \A n \in At(needs, TheList, k) : n.pm \in pms
            /\ \A n \in At(needs, TheList, k) : n.pm \notin more => n.pm \notin pms
      OBVIOUS
    <3>4. OtherRows(st, pm, k) = {} <=>
            /\ \A n \in At(needs, TheList, k) : n.pm \in more
            /\ ~Some(done, k, bdy, cmp)
            /\ At(adhoc, TheList, k) = {}
      BY <2>2, SomeAre
    <3> QED
      BY <3>1, <3>2, <3>3, <3>4
  <2>5. Kills(pm, k, pms, bdy, cmp, rank) <=>
          NeedsOf(pm, k) # {} /\ ~SameAmount(NeedsOf(pm, k), new(k)) /\ OtherRows(st, pm, k) = {}
    BY <2>4 DEF Kills
  <2>6. NeedsOf(pm, k) # {} => At(lines, TheList, k) # {} /\ ~Killed(done, k, pms, bdy, cmp, rank)
    <3> SUFFICES ASSUME NEW n \in NeedsOf(pm, k)
                 PROVE  At(lines, TheList, k) # {} /\ ~Killed(done, k, pms, bdy, cmp, rank)
      OBVIOUS
    <3>1. n \in At(needs, TheList, k) /\ n.pm \notin done
      BY DEF NeedsOf
    <3> QED
      BY <3>1, NotKilled DEF At, RowsHaveLines
  <2>7. Killed(more, k, pms, bdy, cmp, rank) <=>
          Killed(done, k, pms, bdy, cmp, rank) \/ Kills(pm, k, pms, bdy, cmp, rank)
    BY DEF Killed
  <2>8. Touched(more, k, bdy, cmp) <=>
          Touched(done, k, bdy, cmp) \/ (new(k) # {} /\ ~SameAmount(NeedsOf(pm, k), new(k)))
    BY DEF Touched
  <2>9. Some(more, k, bdy, cmp) <=> Some(done, k, bdy, cmp) \/ new(k) # {}
    BY DEF Some
  <2>10. At(lines, TheList, k) \in SUBSET ListLine
    BY DEF At, TypeOK
  <2>11. /\ Killed(done, k, pms, bdy, cmp, rank) \in BOOLEAN /\ Killed(more, k, pms, bdy, cmp, rank) \in BOOLEAN
         /\ Touched(done, k, bdy, cmp) \in BOOLEAN /\ Touched(more, k, bdy, cmp) \in BOOLEAN
         /\ Some(done, k, bdy, cmp) \in BOOLEAN /\ Some(more, k, bdy, cmp) \in BOOLEAN
    BY DEF Killed, Touched, Some
  <2>12. Killed(more, k, pms, bdy, cmp, rank) <=>
          Killed(done, k, pms, bdy, cmp, rank) \/
          (NeedsOf(pm, k) # {} /\ ~SameAmount(NeedsOf(pm, k), new(k)) /\ OtherRows(st, pm, k) = {})
    BY <2>5, <2>7
  <2> HIDE DEF st, new
  <2>13. TurnAt(HereIs(At(lines, TheList, k), Killed(done, k, pms, bdy, cmp, rank), Touched(done, k, bdy, cmp),
                       Some(done, k, bdy, cmp), k), NeedsOf(pm, k), new(k), OtherRows(st, pm, k), k) =
           HereIs(At(lines, TheList, k), Killed(more, k, pms, bdy, cmp, rank), Touched(more, k, bdy, cmp),
                  Some(more, k, bdy, cmp), k)
    BY <2>3, <2>6, <2>8, <2>9, <2>10, <2>11, <2>12, StepAt
  <2> QED
    BY <1>2, <2>1, <2>13 DEF HereAfter
<1>7. Turn(st, pm, bdy, cmp).lines = to.lines
  <2> DEFINE X == Turn(st, pm, bdy, cmp).lines
             Y == to.lines
  <2>1. X \subseteq ListLine /\ Y \subseteq ListLine
    BY <1>1, <1>3
  <2>2. SameElsewhere(X, Y)
    BY <1>1, <1>2, <1>3 DEF SameElsewhere
  <2>3. SameHere(X, Y)
    BY <1>1, <1>3, <1>6 DEF SameHere
  <2> HIDE DEF X, Y
  <2>4. X = Y
    BY <2>1, <2>2, <2>3, SameAltogether
  <2> QED
    BY <2>4 DEF X, Y
<1>8. Turn(st, pm, bdy, cmp).needs = to.needs
  <2>1. RowsFor(more, TheList, bdy, cmp) = RowsFor(done, TheList, bdy, cmp) \cup RowsFor({pm}, TheList, bdy, cmp)
    BY DEF RowsFor
  <2>2. Turn(st, pm, bdy, cmp).needs =
          {n \in ResyncedNeeds(done, bdy, cmp) : ~(n.list = TheList /\ n.pm = pm)} \cup RowsFor({pm}, TheList, bdy, cmp)
    BY <1>4, TurnNeeds
  <2> QED
    BY <1>4, <1>5, <2>1, <2>2 DEF ResyncedNeeds
<1>9. Turn(st, pm, bdy, cmp) = [lines |-> Turn(st, pm, bdy, cmp).lines, needs |-> Turn(st, pm, bdy, cmp).needs]
  BY DEF Turn, TurnRestore
<1>10. to = [lines |-> to.lines, needs |-> to.needs]
  BY DEF Halfway
<1> QED
  BY <1>7, <1>8, <1>9, <1>10

LEMMA LeastNatural ==
    ASSUME NEW S \in SUBSET Nat, S # {}
    PROVE  \E x \in S : \A y \in S : x <= y
<1> DEFINE R == StrictSubsetOrdering(Nat)
           F == FiniteSubsetsOf(Nat)
           T == {1..n : n \in S}
<1>1. IsWellFoundedOn(R, F)
  BY FS_StrictSubsetOrderingWellFounded
<1>2. T \subseteq F /\ T # {}
  <2>1. \A n \in S : 1..n \in SUBSET Nat /\ IsFiniteSet(1..n)
    BY FS_Interval
  <2> QED
    BY <2>1 DEF FiniteSubsetsOf
<1>3. PICK X \in T : \A Y \in T : <<Y, X>> \notin R
  <2> HIDE DEF R, F, T
  <2> QED
    BY <1>1, <1>2, WFMin
<1>4. PICK x \in S : X = 1..x
  OBVIOUS
<1>5. ASSUME NEW y \in S, y < x PROVE FALSE
  <2>1. 1..y \subseteq 1..x /\ x \in 1..x /\ x \notin 1..y
    BY <1>5
  <2>2. 1..y \in T
    BY <1>5
  <2>3. <<1..y, X>> \in R
    BY <1>4, <2>1 DEF StrictSubsetOrdering
  <2> QED
    BY <1>3, <2>2, <2>3
<1>6. \A y \in S : x <= y
  BY <1>5
<1> QED
  BY <1>4, <1>6

LEMMA HalfwayNone ==
    ASSUME TypeOK, NEW pms, NEW bdy, NEW cmp, NEW rank
    PROVE  Halfway({}, pms, bdy, cmp, rank) = Tables
<1> DEFINE st == Halfway({}, pms, bdy, cmp, rank)
<1>1. /\ st.lines \subseteq ListLine
      /\ \A ln : ln.list # TheList => (ln \in st.lines <=> ln \in lines)
      /\ \A k \in Key : At(st.lines, TheList, k) = HereAfter({}, k, pms, bdy, cmp, rank)
  BY HalfwayAt
<1>2. \A k : HereAfter({}, k, pms, bdy, cmp, rank) = At(lines, TheList, k)
  <2>1. \A k : ~Killed({}, k, pms, bdy, cmp, rank) /\ ~Touched({}, k, bdy, cmp) /\ ~Some({}, k, bdy, cmp)
    BY DEF Killed, Touched, Some
  <2> QED
    BY <2>1 DEF HereAfter, HereIs
<1>3. lines \subseteq ListLine
  BY DEF TypeOK
<1>4. st.lines = lines
  <2> PICK X : X = st.lines
    OBVIOUS
  <2> PICK Y : Y = lines
    OBVIOUS
  <2>1. X \in SUBSET ListLine /\ Y \in SUBSET ListLine
    BY <1>1, <1>3
  <2>2. SameElsewhere(X, Y)
    BY <1>1 DEF SameElsewhere
  <2>3. SameHere(X, Y)
    BY <1>1, <1>2 DEF SameHere
  <2>4. X = Y
    BY <2>1, <2>2, <2>3, SameAltogether
  <2> QED
    BY <2>4
<1>5. st.needs = needs
  <2>1. RowsFor({}, TheList, bdy, cmp) = {}
    BY DEF RowsFor
  <2>2. {n \in needs : n.list # TheList \/ n.pm \notin {}} = needs
    OBVIOUS
  <2> QED
    BY <2>1, <2>2 DEF Halfway, ResyncedNeeds
<1>6. st = [lines |-> st.lines, needs |-> st.needs]
  BY DEF Halfway
<1> QED
  BY <1>4, <1>5, <1>6 DEF Tables

(* An order of the plan meals: each has a rank of its own up to N.         *)
Ranked(pms, N, rank) ==
    /\ N \in Nat
    /\ rank \in [pms -> 1..N]
    /\ \A x, y \in pms : rank[x] = rank[y] => x = y

(* A key whose line no plan meal needs any longer loses it at the turn of  *)
(* the last of those that had needed it.                                   *)
LEMMA LastKills ==
    ASSUME NEW pms \in SUBSET PlanMeal, NEW N, NEW rank, Ranked(pms, N, rank),
           NEW bdy, NEW cmp, NEW k,
           \E pm \in pms : NeedsOf(pm, k) # {},
           {n \in At(needs, TheList, k) : n.pm \notin pms} \cup At(adhoc, TheList, k) = {},
           ~Some(pms, k, bdy, cmp)
    PROVE  Killed(pms, k, pms, bdy, cmp, rank)
<1> DEFINE had == {pm \in pms : NeedsOf(pm, k) # {}}
           left == {N - rank[pm] : pm \in had}
<1> USE DEF Ranked
<1>1. left \in SUBSET Nat /\ left # {}
  OBVIOUS
<1>2. PICK d \in left : \A e \in left : d <= e
  <2> HIDE DEF left
  <2> QED
    BY <1>1, LeastNatural
<1>3. PICK pm \in had : d = N - rank[pm]
  OBVIOUS
<1>4. \A x \in had : ~(rank[pm] < rank[x])
  <2> SUFFICES ASSUME NEW x \in had, rank[pm] < rank[x] PROVE FALSE
    OBVIOUS
  <2>1. N - rank[x] \in left
    OBVIOUS
  <2>2. d <= N - rank[x]
    BY <1>2, <2>1
  <2>3. rank[x] \in 1..N /\ rank[pm] \in 1..N
    OBVIOUS
  <2> QED
    BY <1>3, <2>2, <2>3
<1>5. \A x \in pms : NewRows(x, bdy, cmp, k) = {}
  BY DEF Some
<1>6. ~SameAmount(NeedsOf(pm, k), NewRows(pm, bdy, cmp, k))
  BY <1>5 DEF SameAmount
<1>7. \A x \in pms \ {pm} : IF rank[x] < rank[pm] THEN NewRows(x, bdy, cmp, k) = {} ELSE NeedsOf(x, k) = {}
  <2>1. \A x \in pms \ {pm} : ~(rank[x] < rank[pm]) => rank[pm] < rank[x]
    <3>1. \A x \in pms : rank[x] \in 1..N
      OBVIOUS
    <3> QED
      BY <3>1
  <2> QED
    BY <1>4, <1>5, <2>1
<1> QED
  BY <1>6, <1>7 DEF Killed, Kills

(* A line that stays, and the lines that come: K, T and S say of each key   *)
(* whether its line is deleted on the way, whether its total changes and    *)
(* whether it has rows.                                                     *)
KilledKeys(pms, bdy, cmp, rank) == [k \in Key |-> Killed(pms, k, pms, bdy, cmp, rank)]
TouchedKeys(pms, bdy, cmp) == [k \in Key |-> Touched(pms, k, bdy, cmp)]
SomeKeys(pms, bdy, cmp) == [k \in Key |-> Some(pms, k, bdy, cmp)]
UpdatedBy(K, T, ln) ==
    IF ln.list # TheList \/ ~T[ln.key] THEN ln
    ELSE IF K[ln.key] THEN FreshLine(TheList, ln.key) ELSE Surfaced(ln)
Stays(S, pms, ln) == ~(ln \in Emptied(pms) /\ ~S[ln.key])
Appearing(S) == {FreshLine(TheList, k) : k \in {x \in Key : S[x] /\ At(lines, TheList, x) = {}}}

(* What ShoppingList says of the whole loop, in the same words.            *)
LEMMA ResyncedLinesAre ==
    ASSUME TypeOK, NEW pms \in SUBSET PlanMeal, NEW rank,
           NEW bdy \in [Recipes -> SUBSET Line], NEW cmp \in [Meals -> MealBody],
           NEW K, K = KilledKeys(pms, bdy, cmp, rank),
           NEW T, T = TouchedKeys(pms, bdy, cmp),
           NEW S, S = SomeKeys(pms, bdy, cmp)
    PROVE  ResyncedLines(pms, bdy, cmp, rank) =
             {UpdatedBy(K, T, ln) : ln \in {x \in lines : Stays(S, pms, x)}} \cup Appearing(S)
<1> DEFINE l == TheList
           rows == RowsFor(pms, l, bdy, cmp)
           new == {FreshLine(l, r.key) : r \in {x \in rows : At(lines, l, x.key) = {}}}
           Before(pm, k) == {n \in At(needs, l, k) : n.pm = pm}
           After(pm, k) == {n \in At(rows, l, k) : n.pm = pm}
           Same(pm, k) == SameAmount(Before(pm, k), After(pm, k))
           Changed(k) == \E pm \in pms : After(pm, k) # {} /\ ~Same(pm, k)
           gone == {x \in Emptied(pms) : At(rows, l, x.key) = {}}
           Others(k) == {n \in At(needs, l, k) : n.pm \notin pms} \cup At(adhoc, l, k)
           Recreated(k) ==
              /\ Others(k) = {}
              /\ \E pm \in pms :
                   /\ Before(pm, k) # {} /\ ~Same(pm, k)
                   /\ \A x \in pms \ {pm} :
                        IF rank[x] < rank[pm] THEN After(x, k) = {} ELSE Before(x, k) = {}
           Upd(x) ==
              IF x.list # l \/ ~Changed(x.key) THEN x
              ELSE IF Recreated(x.key) THEN FreshLine(l, x.key) ELSE Surfaced(x)
           Upd2(x) == UpdatedBy(K, T, x)
           new2 == Appearing(S)
           left2 == {x \in lines : Stays(S, pms, x)}
<1>1. ResyncedLines(pms, bdy, cmp, rank) = {Upd(x) : x \in lines \ gone} \cup new
  BY DEF ResyncedLines
<1>2. \A k : \A pm \in pms : Before(pm, k) = NeedsOf(pm, k) /\ After(pm, k) = NewRows(pm, bdy, cmp, k)
  BY NewRowsAre DEF NeedsOf
<1>3. \A k : Changed(k) <=> Touched(pms, k, bdy, cmp)
  <2> HIDE DEF Before, After
  <2> QED
    BY <1>2 DEF Touched
<1>4. \A k : Recreated(k) <=> Killed(pms, k, pms, bdy, cmp, rank)
  <2>1. ASSUME NEW k, NEW pm \in pms
        PROVE  Kills(pm, k, pms, bdy, cmp, rank) <=>
                /\ Others(k) = {}
                /\ Before(pm, k) # {} /\ ~Same(pm, k)
                /\ \A x \in pms \ {pm} :
                        IF rank[x] < rank[pm] THEN After(x, k) = {} ELSE Before(x, k) = {}
    <3> HIDE DEF Before, After
    <3> QED
      BY <1>2 DEF Kills
  <2> HIDE DEF Before, After, Same, Others
  <2> QED
    BY <2>1 DEF Killed
<1>5. \A k : At(rows, l, k) = {} <=> ~Some(pms, k, bdy, cmp)
  BY SomeAre
<1>6. \A r \in rows : r.key \in Key /\ r.list = l
  BY RowsForType, TheListType DEF Need
<1>7. \A ln \in lines : ln.key \in Key
  BY DEF TypeOK, ListLine
<1>8. \A k \in Key : K[k] = Killed(pms, k, pms, bdy, cmp, rank) /\ T[k] = Touched(pms, k, bdy, cmp)
                     /\ S[k] = Some(pms, k, bdy, cmp)
  BY DEF KilledKeys, TouchedKeys, SomeKeys
<1>9. new = new2
  <2>1. \A k : (\E r \in rows : r.key = k) <=> k \in Key /\ Some(pms, k, bdy, cmp)
    <3>1. \A k : (\E r \in rows : r.key = k) <=> k \in Key /\ At(rows, l, k) # {}
      BY <1>6 DEF At
    <3> QED
      BY <1>5, <3>1
  <2> HIDE DEF rows
  <2>2. \A x : x \in new <=> \E k : (\E r \in rows : r.key = k) /\ At(lines, l, k) = {} /\ x = FreshLine(l, k)
    OBVIOUS
  <2>6. \A k \in Key : S[k] = Some(pms, k, bdy, cmp)
    BY <1>8
  <2>3. \A x : x \in new2 <=> \E k : (k \in Key /\ Some(pms, k, bdy, cmp)) /\ At(lines, l, k) = {} /\ x = FreshLine(l, k)
    BY <2>6 DEF Appearing
  <2>4. \A x : x \in new2 <=> x \in new
    <3> HIDE DEF new, new2
    <3> QED
      BY <2>1, <2>2, <2>3, Zenon
  <2>5. new = {x \in new : TRUE} /\ new2 = {x \in new2 : TRUE}
    OBVIOUS
  <2> HIDE DEF new, new2
  <2> QED
    BY <2>4, <2>5
<1>10. lines \ gone = left2
  <2> HIDE DEF rows
  <2>1. Emptied(pms) \subseteq lines
    BY DEF Emptied
  <2> QED
    BY <1>5, <1>7, <1>8, <2>1 DEF Stays
<1>11. \A x \in lines : Upd(x) = Upd2(x)
  <2> HIDE DEF Changed, Recreated
  <2> QED
    BY <1>3, <1>4, <1>7, <1>8 DEF UpdatedBy
<1> HIDE DEF Upd, Upd2, gone
<1>12. {Upd(x) : x \in lines \ gone} = {Upd2(x) : x \in left2}
  BY <1>10, <1>11
<1> HIDE DEF new, new2, left2
<1>13. ResyncedLines(pms, bdy, cmp, rank) = {Upd2(x) : x \in left2} \cup new2
  BY <1>1, <1>9, <1>12
<1> QED
  BY <1>13 DEF Upd2, new2, left2

LEMMA KilledLine ==
    ASSUME NEW pms \in SUBSET PlanMeal, NEW N, NEW rank, Ranked(pms, N, rank),
           NEW bdy, NEW cmp, NEW k, NEW ln \in At(lines, TheList, k)
    PROVE  /\ Killed(pms, k, pms, bdy, cmp, rank) => ln \in Emptied(pms)
           /\ Killed(pms, k, pms, bdy, cmp, rank) /\ Some(pms, k, bdy, cmp) => Touched(pms, k, bdy, cmp)
           /\ ln \in Emptied(pms) /\ ~Some(pms, k, bdy, cmp) => Killed(pms, k, pms, bdy, cmp, rank)
<1>1. ln \in lines /\ ln.list = TheList /\ ln.key = k
  BY DEF At
<1>2. ln \in Emptied(pms) <=>
        /\ \E pm \in pms : NeedsOf(pm, k) # {}
        /\ {n \in At(needs, TheList, k) : n.pm \notin pms} \cup At(adhoc, TheList, k) = {}
  <2>1. (\E n \in At(needs, TheList, k) : n.pm \in pms) <=> \E pm \in pms : NeedsOf(pm, k) # {}
    BY DEF NeedsOf
  <2>2. (\A n \in At(needs, TheList, k) : n.pm \in pms) /\ At(adhoc, TheList, k) = {} <=>
        {n \in At(needs, TheList, k) : n.pm \notin pms} \cup At(adhoc, TheList, k) = {}
    OBVIOUS
  <2> QED
    BY <1>1, <2>1, <2>2 DEF Emptied
<1>3. ASSUME NEW pm \in pms, Kills(pm, k, pms, bdy, cmp, rank), Some(pms, k, bdy, cmp)
      PROVE  Touched(pms, k, bdy, cmp)
  <2>1. PICK x \in pms : NewRows(x, bdy, cmp, k) # {}
    BY <1>3 DEF Some
  <2>2. ~SameAmount(NeedsOf(x, k), NewRows(x, bdy, cmp, k))
    <3>1. CASE x = pm
      BY <1>3, <3>1 DEF Kills
    <3>2. CASE x # pm
      <4>1. NeedsOf(x, k) = {}
        BY <1>3, <2>1, <3>2 DEF Kills
      <4> QED
        BY <4>1 DEF SameAmount
    <3> QED
      BY <3>1, <3>2
  <2> QED
    BY <2>1, <2>2 DEF Touched
<1>4. Killed(pms, k, pms, bdy, cmp, rank) => ln \in Emptied(pms)
  BY <1>2 DEF Killed, Kills
<1>5. ln \in Emptied(pms) /\ ~Some(pms, k, bdy, cmp) => Killed(pms, k, pms, bdy, cmp, rank)
  BY <1>2, LastKills
<1> QED
  BY <1>3, <1>4, <1>5 DEF Killed

(* When every plan meal has had its turn, the list is what Resync says.    *)
LEMMA HalfwayAll ==
    ASSUME TypeOK, LineIdentity,
           NEW pms \in SUBSET PlanMeal, NEW N, NEW rank, Ranked(pms, N, rank),
           NEW bdy \in [Recipes -> SUBSET Line], NEW cmp \in [Meals -> MealBody]
    PROVE  Halfway(pms, pms, bdy, cmp, rank) =
             [lines |-> ResyncedLines(pms, bdy, cmp, rank), needs |-> ResyncedNeeds(pms, bdy, cmp)]
<1> DEFINE st == Halfway(pms, pms, bdy, cmp, rank)
<1>1. PICK K : K = KilledKeys(pms, bdy, cmp, rank)
  OBVIOUS
<1>2. PICK T : T = TouchedKeys(pms, bdy, cmp)
  OBVIOUS
<1>3. PICK S : S = SomeKeys(pms, bdy, cmp)
  OBVIOUS
<1> DEFINE Upd(ln) == UpdatedBy(K, T, ln)
           Left(ln) == Stays(S, pms, ln)
           new == Appearing(S)
<1>4. PICK X : X = ResyncedLines(pms, bdy, cmp, rank)
  OBVIOUS
<1>5. X = {Upd(ln) : ln \in {x \in lines : Left(x)}} \cup new
  BY <1>1, <1>2, <1>3, <1>4, ResyncedLinesAre
<1>6. \A k \in Key : K[k] = Killed(pms, k, pms, bdy, cmp, rank) /\ T[k] = Touched(pms, k, bdy, cmp)
                     /\ S[k] = Some(pms, k, bdy, cmp)
  BY <1>1, <1>2, <1>3 DEF KilledKeys, TouchedKeys, SomeKeys
<1>7. lines \subseteq ListLine /\ TheList \in Lists
  BY TheListType DEF TypeOK
<1>8. \A ln \in lines : Upd(ln) \in ListLine /\ Upd(ln).list = ln.list /\ Upd(ln).key = ln.key
  <2>1. \A ln \in lines : ln \in ListLine /\ ln.key \in Key
    BY <1>7 DEF ListLine
  <2>2. \A ln \in ListLine : Surfaced(ln) \in ListLine /\ Surfaced(ln).list = ln.list /\ Surfaced(ln).key = ln.key
    BY SurfacedType
  <2>3. \A k \in Key : FreshLine(TheList, k) \in ListLine /\ FreshLine(TheList, k).list = TheList /\ FreshLine(TheList, k).key = k
    BY <1>7, FreshLineIs, FreshLineType
  <2> QED
    BY <2>1, <2>2, <2>3 DEF UpdatedBy
<1>9. \A x : x \in new <=> \E k \in Key : Some(pms, k, bdy, cmp) /\ At(lines, TheList, k) = {} /\ x = FreshLine(TheList, k)
  <2>1. \A k \in Key : S[k] = Some(pms, k, bdy, cmp)
    BY <1>6
  <2> QED
    BY <2>1 DEF Appearing
<1>10. \A k : FreshLine(TheList, k).list = TheList /\ FreshLine(TheList, k).key = k
  BY FreshLineIs
<1>11. \A k \in Key : FreshLine(TheList, k) \in ListLine
  BY <1>7, FreshLineType
<1>12. \A ln \in lines : ln.list # TheList => Upd(ln) = ln /\ Left(ln)
  BY DEF Emptied, UpdatedBy, Stays
<1>13. ASSUME NEW k \in Key PROVE At(X, TheList, k) = HereAfter(pms, k, pms, bdy, cmp, rank)
  <2> DEFINE killed == Killed(pms, k, pms, bdy, cmp, rank)
             touched == Touched(pms, k, bdy, cmp)
             some == Some(pms, k, bdy, cmp)
             at == At(lines, TheList, k)
  <2>1. \A ln \in at : Upd(ln) = (IF ~touched THEN ln ELSE IF killed THEN FreshLine(TheList, k) ELSE Surfaced(ln))
                       /\ (Left(ln) <=> ~(ln \in Emptied(pms) /\ ~some))
    BY <1>6 DEF At, UpdatedBy, Stays
  <2>2. \A ln \in at : /\ killed => ln \in Emptied(pms)
                       /\ killed /\ some => touched
                       /\ ln \in Emptied(pms) /\ ~some => killed
    BY KilledLine
  <2> HIDE DEF Upd, Left, new
  <2>3. \A x : x \in At(X, TheList, k) <=>
                 \/ \E ln \in at : Left(ln) /\ x = Upd(ln)
                 \/ some /\ at = {} /\ x = FreshLine(TheList, k)
    <3>1. \A x : x \in {Upd(ln) : ln \in {y \in lines : Left(y)}} /\ x.list = TheList /\ x.key = k
                  <=> \E ln \in at : Left(ln) /\ x = Upd(ln)
      BY <1>8 DEF At
    <3>2. \A x : x \in new /\ x.list = TheList /\ x.key = k <=> some /\ at = {} /\ x = FreshLine(TheList, k)
      <4>1. \A x : x \in new /\ x.key = k => some /\ at = {} /\ x = FreshLine(TheList, k)
        <5> TAKE x
        <5> HAVE x \in new /\ x.key = k
        <5>1. PICK j \in Key : Some(pms, j, bdy, cmp) /\ At(lines, TheList, j) = {} /\ x = FreshLine(TheList, j)
          BY <1>9
        <5>2. j = k
          BY <1>10, <5>1
        <5> QED
          BY <5>1, <5>2
      <4>2. some /\ at = {} => FreshLine(TheList, k) \in new
        BY <1>9
      <4> HIDE DEF some, at
      <4> QED
        BY <1>10, <4>1, <4>2
    <3>3. \A x : x \in At(X, TheList, k) <=> x \in X /\ x.list = TheList /\ x.key = k
      BY DEF At
    <3> HIDE DEF at, some
    <3> QED
      BY <1>5, <3>1, <3>2, <3>3
  <2>4. At(X, TheList, k) = {x \in At(X, TheList, k) : TRUE}
    OBVIOUS
  <2> PICK Y : Y = At(X, TheList, k)
    OBVIOUS
  <2> HIDE DEF killed, touched, some, at
  <2>5. CASE at # {} /\ ~killed
    <3>1. \A ln \in at : Left(ln) /\ Upd(ln) = IF touched THEN Surfaced(ln) ELSE ln
      BY <2>1, <2>2, <2>5
    <3>2. \A x : x \in Y <=> \E ln \in at : x = IF touched THEN Surfaced(ln) ELSE ln
      BY <2>3, <2>5, <3>1
    <3>3. CASE touched
      <4>1. Y = {Surfaced(ln) : ln \in at}
        BY <3>2, <3>3
      <4> QED
        BY <2>5, <3>3, <4>1 DEF HereAfter, HereIs, at, killed, touched
    <3>4. CASE ~touched
      <4>1. Y = at
        BY <3>2, <3>4
      <4> QED
        BY <2>5, <3>4, <4>1 DEF HereAfter, HereIs, at, killed, touched
    <3> QED
      BY <3>3, <3>4
  <2>6. CASE at # {} /\ killed /\ some
    <3>1. \A ln \in at : Left(ln) /\ Upd(ln) = FreshLine(TheList, k)
      BY <2>1, <2>2, <2>6
    <3>2. Y = {FreshLine(TheList, k)}
      BY <2>3, <2>6, <3>1
    <3> QED
      BY <2>6, <3>2 DEF HereAfter, HereIs, at, killed, some
  <2>7. CASE at # {} /\ killed /\ ~some
    <3>1. \A ln \in at : ~Left(ln)
      BY <2>1, <2>2, <2>7
    <3>2. Y = {}
      BY <2>3, <2>7, <3>1
    <3> QED
      BY <2>7, <3>2 DEF HereAfter, HereIs, at, killed, some
  <2>8. CASE at = {}
    <3>1. Y = IF some THEN {FreshLine(TheList, k)} ELSE {}
      BY <2>3, <2>8
    <3> QED
      BY <2>8, <3>1 DEF HereAfter, HereIs, at, some
  <2> QED
    BY <2>5, <2>6, <2>7, <2>8
<1>14. X \subseteq ListLine
  <2> HIDE DEF Upd, Left, new
  <2> QED
    BY <1>5, <1>8, <1>9, <1>11
<1>15. \A ln \in ListLine : ln.list # TheList => (ln \in X <=> ln \in lines)
  <2>1. \A x : x \in new => x.list = TheList
    BY <1>9, <1>10
  <2> HIDE DEF Upd, Left, new
  <2> QED
    BY <1>5, <1>8, <1>12, <2>1
<1>16. st.lines = X
  <2>1. st.lines \in SUBSET ListLine /\ X \in SUBSET ListLine
    BY <1>14, HalfwayAt
  <2>2. \A ln \in ListLine : ln.list # TheList => (ln \in st.lines <=> ln \in lines)
    BY HalfwayAt
  <2>3. \A k \in Key : At(st.lines, TheList, k) = HereAfter(pms, k, pms, bdy, cmp, rank)
    BY HalfwayAt
  <2> HIDE DEF st, Upd, Left, new
  <2>4. PICK Y \in SUBSET ListLine : Y = st.lines
    BY <2>1
  <2>5. PICK Z \in SUBSET ListLine : Z = X
    BY <2>1
  <2>6. SameElsewhere(Y, Z)
    BY <1>15, <2>2, <2>4, <2>5 DEF SameElsewhere
  <2>7. SameHere(Y, Z)
    BY <1>13, <2>3, <2>4, <2>5 DEF SameHere
  <2>8. Y = Z
    BY <2>6, <2>7, SameAltogether
  <2> QED
    BY <2>4, <2>5, <2>8
<1>17. st = [lines |-> st.lines, needs |-> ResyncedNeeds(pms, bdy, cmp)]
  BY DEF Halfway
<1> HIDE DEF st
<1> QED
  BY <1>4, <1>16, <1>17 DEF st

LEMMA UpTo ==
    ASSUME NEW N \in Nat, NEW S, 0 \in S, \A k \in 0..N : k \in S /\ k < N => k + 1 \in S
    PROVE  \A k \in 0..N : k \in S
<1> SUFFICES ASSUME NEW j \in 0..N, j \notin S PROVE FALSE
  OBVIOUS
<1> DEFINE missing == {k \in 0..N : k \notin S}
<1>1. missing \in SUBSET Nat /\ missing # {}
  OBVIOUS
<1>2. PICK k \in missing : \A x \in missing : k <= x
  <2> HIDE DEF missing
  <2> QED
    BY <1>1, LeastNatural
<1>3. k # 0 /\ k - 1 \in 0..N /\ k - 1 < N /\ (k - 1) + 1 = k
  OBVIOUS
<1>4. k - 1 \notin S
  BY <1>3
<1>5. k - 1 \in missing
  BY <1>3, <1>4
<1> QED
  BY <1>2, <1>3, <1>5

(* Every place of an order is somebody's.                                  *)
LEMMA EveryRankTaken ==
    ASSUME NEW pms, IsFiniteSet(pms), NEW rank \in Orders(pms)
    PROVE  /\ Ranked(pms, Cardinality(pms), rank)
           /\ \A k \in 1..Cardinality(pms) : \E pm \in pms : rank[pm] = k
<1> DEFINE N == Cardinality(pms)
<1>1. N \in Nat
  BY FS_CardinalityType
<1>2. rank \in [pms -> 1..N] /\ \A x, y \in pms : rank[x] = rank[y] => x = y
  BY DEF Orders
<1>3. rank \in Injection(pms, 1..N)
  BY <1>2, Fun_IsInj
<1>4. IsFiniteSet(1..N) /\ Cardinality(1..N) = N
  BY <1>1, FS_Interval
<1>5. rank \in Surjection(pms, 1..N)
  BY <1>3, <1>4, FS_Injection
<1> QED
  BY <1>1, <1>2, <1>5 DEF Ranked, Surjection

(* Running the turns one by one leaves what Resync says.                   *)
LEMMA LoopIs ==
    ASSUME TypeOK, LineIdentity, RowsHaveLines,
           NEW pms \in SUBSET PlanMeal, IsFiniteSet(pms), NEW rank \in Orders(pms),
           NEW bdy \in [Recipes -> SUBSET Line], NEW cmp \in [Meals -> MealBody]
    PROVE  Loop(pms, bdy, cmp, rank) =
             [lines |-> ResyncedLines(pms, bdy, cmp, rank), needs |-> ResyncedNeeds(pms, bdy, cmp)]
<1> DEFINE N == Cardinality(pms)
           Done(k) == {x \in pms : rank[x] <= k}
           Half(k) == Halfway(Done(k), pms, bdy, cmp, rank)
<1>1. Ranked(pms, N, rank) /\ \A k \in 1..N : \E pm \in pms : rank[pm] = k
  BY EveryRankTaken
<1>2. N \in Nat /\ rank \in [pms -> 1..N] /\ \A x, y \in pms : rank[x] = rank[y] => x = y
  BY <1>1 DEF Ranked
<1> HIDE DEF N
<1>3. Done(0) = {} /\ Done(N) = pms
  BY <1>2
<1>4. ASSUME NEW k \in 1..N
      PROVE  /\ Nth(pms, rank, k) \in pms \ Done(k - 1)
             /\ rank[Nth(pms, rank, k)] = k
             /\ Done(k) = Done(k - 1) \cup {Nth(pms, rank, k)}
  <2>1. PICK pm \in pms : pm = Nth(pms, rank, k) /\ rank[pm] = k
    BY <1>1 DEF Nth
  <2>2. \A x \in pms : rank[x] \in Nat /\ (rank[x] = k <=> x = pm)
    BY <1>2, <2>1
  <2> QED
    BY <2>1, <2>2
<1>5. ASSUME NEW k \in 1..N
      PROVE  Turn(Half(k - 1), Nth(pms, rank, k), bdy, cmp) = Half(k)
  <2> PICK done : done = Done(k - 1)
    OBVIOUS
  <2> PICK pm \in pms : pm = Nth(pms, rank, k)
    BY <1>4
  <2>1. done \in SUBSET pms /\ pm \notin done /\ Done(k) = done \cup {pm}
    BY <1>4
  <2>2. \A x \in pms : rank[x] \in Nat
    BY <1>2
  <2>3. rank[pm] = k
    BY <1>4
  <2>4. \A x \in done : rank[x] < rank[pm]
    BY <2>2, <2>3
  <2>5. \A x \in pms \ (done \cup {pm}) : ~(rank[x] < rank[pm])
    BY <2>2, <2>3
  <2>6. \A x \in done, y \in pms \ done : ~(rank[y] < rank[x])
    BY <2>2, <2>3
  <2>7. Turn(Halfway(done, pms, bdy, cmp, rank), pm, bdy, cmp) =
             Halfway(done \cup {pm}, pms, bdy, cmp, rank)
    <3> HIDE DEF Done
    <3> QED
      BY <2>1, <2>4, <2>5, <2>6, TurnOfHalfway
  <2> QED
    BY <2>1, <2>7
<1>6. Half(0) = Tables
  BY <1>3, HalfwayNone
<1>7. Half(N) = [lines |-> ResyncedLines(pms, bdy, cmp, rank), needs |-> ResyncedNeeds(pms, bdy, cmp)]
  BY <1>1, <1>3, HalfwayAll
<1> HIDE DEF Half
<1> DEFINE Eq(f) == f = [k \in 0..N |-> IF k = 0 THEN Tables ELSE Turn(f[k - 1], Nth(pms, rank, k), bdy, cmp)]
<1>8. Eq([k \in 0..N |-> Half(k)])
  <2>1. \A k \in 0..N : k # 0 => k \in 1..N /\ k - 1 \in 0..N
    BY <1>2
  <2> QED
    BY <1>5, <1>6, <2>1
<1>9. PICK after : after = (CHOOSE f : Eq(f))
  OBVIOUS
<1>10. Eq(after)
  <2> HIDE DEF Eq
  <2> QED
    BY <1>8, <1>9
<1>11. Loop(pms, bdy, cmp, rank) = after[N]
  BY <1>9 DEF Loop, N
<1>12. \A k \in 0..N : k \in {j \in 0..N : after[j] = Half(j)}
  <2> DEFINE S == {j \in 0..N : after[j] = Half(j)}
  <2>1. 0 \in S
    BY <1>2, <1>6, <1>10
  <2>2. ASSUME NEW k \in 0..N, k \in S, k < N PROVE k + 1 \in S
    <3>1. k + 1 \in 1..N /\ k + 1 \in 0..N /\ (k + 1) - 1 = k /\ k + 1 # 0
      BY <1>2, <2>2
    <3>2. after[k + 1] = Turn(after[(k + 1) - 1], Nth(pms, rank, k + 1), bdy, cmp)
      BY <1>10, <3>1
    <3>3. Turn(Half((k + 1) - 1), Nth(pms, rank, k + 1), bdy, cmp) = Half(k + 1)
      BY <1>5, <3>1
    <3>4. after[k] = Half(k)
      BY <2>2
    <3> QED
      BY <3>1, <3>2, <3>3, <3>4
  <2> HIDE DEF S
  <2>3. \A k \in 0..N : k \in S
    BY <1>2, <2>1, <2>2, UpTo
  <2> QED
    BY <2>3 DEF S
<1> QED
  BY <1>2, <1>7, <1>11, <1>12

PlannedFinite == IsFiniteSet(planned)

LEMMA PlannedFiniteStep ==
    ASSUME TypeOK, PlannedFinite, [Next]_vars
    PROVE  PlannedFinite'
<1> USE DEF PlannedFinite, kitchen, plans, list, vars
<1>1. ASSUME NEW p \in Plans, NEW q \in Plans, CopyPlan(p, q) PROVE IsFiniteSet(planned')
  <2> DEFINE from == {x \in planned : x[1] = q}
             copied == {<<p, pm[2]>> : pm \in from}
             f == [pm \in from |-> <<p, pm[2]>>]
  <2>1. IsFiniteSet(from)
    BY FS_Subset
  <2>2. f \in Surjection(from, copied)
    BY DEF Surjection
  <2>3. IsFiniteSet(copied)
    BY <2>1, <2>2, FS_Surjection
  <2>4. planned' = planned \cup copied
    BY <1>1 DEF CopyPlan
  <2> HIDE DEF copied
  <2> QED
    BY <2>3, <2>4, FS_Union
<1>2. ASSUME NEW p \in Plans, NEW m \in Meals, AddMeal(p, m) PROVE IsFiniteSet(planned')
  <2>1. planned' = planned \cup {<<p, m>>}
    BY <1>2 DEF AddMeal
  <2> QED
    BY <2>1, FS_AddElement
<1>3. ASSUME NEW p \in Plans, NEW m \in Meals, RemoveMeal(p, m) PROVE IsFiniteSet(planned')
  <2>1. planned' \in SUBSET planned
    BY <1>3 DEF RemoveMeal
  <2> QED
    BY <2>1, FS_Subset
<1>4. ASSUME NEW m \in Meals, DeleteMeal(m) PROVE IsFiniteSet(planned')
  <2>1. planned' \in SUBSET planned
    BY <1>4 DEF DeleteMeal
  <2> QED
    BY <2>1, FS_Subset
<1>5. ASSUME NEW p \in Plans, CreatePlan(p) \/ ArchivePlan(p) PROVE IsFiniteSet(planned')
  BY <1>5 DEF CreatePlan, ArchivePlan
<1>6. ASSUME RecipeNext PROVE IsFiniteSet(planned')
  BY <1>6 DEF RecipeNext, CreateRecipe, UpdateRecipe, DeleteRecipe
<1>7. ASSUME NEW m \in Meals, NEW b \in MealBodies, CreateMeal(m, b) \/ UpdateMeal(m, b) PROVE IsFiniteSet(planned')
  BY <1>7 DEF CreateMeal, UpdateMeal
<1>8. ASSUME ListNext PROVE IsFiniteSet(planned')
  BY <1>8 DEF ListNext, GetShoppingList, AddItem, UpdateItem, DeleteItem, ArchiveList
<1>9. ASSUME MergeNext PROVE IsFiniteSet(planned')
  BY <1>9 DEF MergeNext, MergeIngredients
<1>10. CASE UNCHANGED vars
  BY <1>10
<1> QED
  BY <1>1, <1>2, <1>3, <1>4, <1>5, <1>6, <1>7, <1>8, <1>9, <1>10 DEF Next, MealNext, PlanNext

LEMMA AgreesHere ==
    ASSUME IInv, PlannedFinite, NEW pms \in SUBSET planned,
           NEW bdy \in [Recipes -> SUBSET Line], NEW cmp \in [Meals -> MealBody]
    PROVE  Agrees(pms, bdy, cmp)
<1>1. TypeOK /\ LineIdentity /\ RowsHaveLines
  BY DEF IInv, Coherent, EveryLineHasAReason, RowsHaveLines
<1>2. IsFiniteSet(pms)
  BY FS_Subset DEF PlannedFinite
<1>3. pms \in SUBSET PlanMeal
  BY <1>1 DEF TypeOK
<1> QED
  BY <1>1, <1>2, <1>3, LoopIs DEF Agrees

LEMMA LoopAgreesIn == IInv /\ PlannedFinite => LoopAgrees
<1> SUFFICES ASSUME IInv, PlannedFinite PROVE LoopAgrees
  OBVIOUS
<1>1. TypeOK
  BY DEF IInv
<1>2. \A ms : InActivePlans(ms) \in SUBSET planned
  BY DEF InActivePlans
<1>3. ASSUME NEW m \in meals, NEW b \in MealBodies
      PROVE  Agrees(InActivePlans({m}), body, [composition EXCEPT ![m] = b])
  <2>1. body \in [Recipes -> SUBSET Line] /\ [composition EXCEPT ![m] = b] \in [Meals -> MealBody]
    BY <1>1, BodiesAssumption DEF TypeOK
  <2> QED
    BY <1>2, <2>1, AgreesHere
<1>4. ASSUME NEW r \in library, NEW b \in RecipeBodies
      PROVE  Agrees(InActivePlans(MealsUsing(r)), [body EXCEPT ![r] = b], composition)
  <2>1. composition \in [Meals -> MealBody] /\ [body EXCEPT ![r] = b] \in [Recipes -> SUBSET Line]
    BY <1>1, BodiesAssumption DEF TypeOK
  <2> QED
    BY <1>2, <2>1, AgreesHere
<1> QED
  BY <1>3, <1>4 DEF LoopAgrees

(* Whatever edit of a meal or a recipe comes next, and in whatever order the  *)
(* plan meals are taken, resync_meal_contributions run one plan meal after    *)
(* the other leaves the list Resync says.                                     *)
THEOREM LoopComesToResync == Spec => []LoopAgrees
<1>1. Init => PlannedFinite
  BY FS_EmptySet DEF Init, PlannedFinite
<1>2. IInv /\ PlannedFinite /\ [Next]_vars => PlannedFinite'
  BY PlannedFiniteStep DEF IInv
<1>3. QED
  BY <1>1, <1>2, Invariance, LoopAgreesIn, PTL DEF Spec
================================================================================
