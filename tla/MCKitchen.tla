------------------------------ MODULE MCKitchen ------------------------------
(* Kitchen for model checking: two spellings of one name, and another. *)
EXTENDS Kitchen, TLC

LowerCase == ("Lidl" :> "lidl") @@ ("LIDL" :> "lidl") @@ ("Aldi" :> "aldi")

Symmetry == Permutations(Requests) \cup Permutations(Batches) \cup Permutations(Stores) \cup Permutations(Needs)
=============================================================================
