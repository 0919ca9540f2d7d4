---------------------------- MODULE MCShoppingList ----------------------------
(* Instances of ShoppingList for TLC.                                        *)
EXTENDS ResyncLoop

CONSTANTS r1, i1, i2, u, s1

Need1(i) == [slot |-> s1, key |-> <<i, u>>, qty |-> 1]
Some(i) == [slot |-> s1, key |-> <<i, u>>, qty |-> 0]
Cook(r, n) == [recipe |-> r, scale |-> n]

MCRecipeBodies == {{Need1(i1)}, {Some(i2)}}
MCMealBodies ==
    {[linked |-> {Cook(r1, 1)}, loose |-> {}],
     [linked |-> {Cook(r1, 2)}, loose |-> {}],
     [linked |-> {}, loose |-> {Need1(i1)}]}
=============================================================================
