----------------------------- MODULE MCHousehold -----------------------------
(* Household for model checking: requests are alike. *)
EXTENDS Household, TLC

Symmetry == Permutations(Requests)
=============================================================================
