------------------------------ MODULE ResyncLoop ------------------------------
(***************************************************************************)
(* The loop of resync_meal_contributions as the code runs it: one plan     *)
(* meal after the other, each first off the list, then back on, then given *)
(* the flags of the lines whose total it did not change.  ShoppingList     *)
(* says what the whole loop comes to; this module checks that the two      *)
(* agree, state by state, for every edit the state allows.                 *)
(***************************************************************************)
EXTENDS ShoppingList

(* one list's tables, handed from one turn of the loop to the next *)
Tables == [lines |-> lines, needs |-> needs]

OwnRows(st, pm, k) == {n \in At(st.needs, TheList, k) : n.pm = pm}

(* remove_meal_contributions: touched lines that keep no source go *)
TurnRemove(st, pm) ==
    LET own == {n \in st.needs : n.list = TheList /\ n.pm = pm}
        left == st.needs \ own
        Sourceless(ln) ==
            /\ ln.list = TheList
            /\ \E n \in own : n.key = ln.key
            /\ At(left, TheList, ln.key) \cup At(adhoc, TheList, ln.key) = {}
    IN [lines |-> {ln \in st.lines : ~Sourceless(ln)}, needs |-> left]

(* add_meal_contributions *)
TurnAdd(st, pm, bdy, cmp) ==
    LET rows == RowsFor({pm}, TheList, bdy, cmp) IN
    [lines |-> Surface(rows, st.lines), needs |-> st.needs \cup rows]

TurnRestore_Forgotten(st, was, pm) == st  \* mutant: no state is given back

(* the last loop: unchanged totals get their state back *)
TurnRestore(st, was, pm) ==
    LET Unchanged(k) == SameAmount(OwnRows(was, pm, k), OwnRows(st, pm, k)) IN
    [lines |-> {IF ln.list = TheList /\ Unchanged(ln.key)
                THEN CHOOSE x \in was.lines : x.list = ln.list /\ x.key = ln.key
                ELSE ln : ln \in st.lines},
     needs |-> st.needs]

Turn(st, pm, bdy, cmp) ==
    TurnRestore(TurnAdd(TurnRemove(st, pm), pm, bdy, cmp), st, pm)

(* the plan meals in turn, in the order rank puts them in *)
Nth(pms, rank, k) == CHOOSE pm \in pms : rank[pm] = k
Loop(pms, bdy, cmp, rank) ==
    LET after[k \in 0..Cardinality(pms)] ==
            IF k = 0 THEN Tables ELSE Turn(after[k - 1], Nth(pms, rank, k), bdy, cmp)
    IN after[Cardinality(pms)]

Agrees(pms, bdy, cmp) ==
    \A rank \in Orders(pms) :
        Loop(pms, bdy, cmp, rank) =
            [lines |-> ResyncedLines(pms, bdy, cmp, rank),
             needs |-> ResyncedNeeds(pms, bdy, cmp)]

(* Whatever edit of a meal or a recipe comes next, and in whatever order the  *)
(* database returns the plan meals, re-contributing them one by one leaves    *)
(* the list ShoppingList's Resync says.                                       *)
LoopAgrees ==
    /\ \A m \in meals, b \in MealBodies :
          Linkable(b) =>
             Agrees(InActivePlans({m}), body, [composition EXCEPT ![m] = b])
    /\ \A r \in library, b \in RecipeBodies :
          Agrees(InActivePlans(MealsUsing(r)), [body EXCEPT ![r] = b], composition)
===============================================================================
