------------------------------ MODULE MCDunning ------------------------------
(* Dunning for model checking: households are alike. *)
EXTENDS Dunning, TLC
=============================================================================
