---------------------------- MODULE MCCookedHistory ----------------------------
(* CookedHistory for TLC, with a bound on what is tried once requests overlap. *)
EXTENDS CookedInTurn, TLC

CONSTANTS r1, r2,
    MaxOverlapping   \* bound on cookings once requests have overlapped

MCCompositions == {{r1}, {r1, r2}}

MCNext == TurnNext /\ (overlapped' => now' <= MaxOverlapping)
MCSpec == TurnInit /\ [][MCNext]_<<vars, overlapped>>

Symmetry == Permutations(Requests) \cup Permutations(Plans)
=============================================================================
