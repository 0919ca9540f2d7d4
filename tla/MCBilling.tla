------------------------------ MODULE MCBilling ------------------------------
(* Values of the constants of Billing for model checking. *)
EXTENDS Billing
=============================================================================
