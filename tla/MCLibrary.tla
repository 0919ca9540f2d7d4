------------------------------ MODULE MCLibrary ------------------------------
(* Library for model checking: the hosted profile, with caps on recipes and *)
(* ingests that are small enough to be met, and tie with the ceiling.       *)
EXTENDS Library, TLC

Small ==
    (<<"free", "recipes">> :> 1) @@ (<<"free", "ingests_per_month">> :> 2) @@
    (<<"paid", "recipes">> :> 2) @@ (<<"paid", "ingests_per_month">> :> 3) @@
    (<<"ceiling", "recipes">> :> 2) @@ (<<"ceiling", "ingests_per_month">> :> 2)

ASSUME SettingsAssumption == CheckSettings("hosted", StartTier, Small, {NoLimit})

SmallTable == Overridden("hosted", Small)

Symmetry == Permutations(Requests) \cup Permutations(Urls)
=============================================================================
