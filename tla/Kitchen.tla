------------------------------- MODULE Kitchen -------------------------------
(***************************************************************************)
(* A household's requests to its freezer, its supermarkets and its live    *)
(* list.  The three have no row in common: requests to two of them share   *)
(* nothing but the server, so a behaviour is one part's, chosen at the     *)
(* start.                                                                  *)
(***************************************************************************)
EXTENDS Freezer, Supermarkets, LiveList

VARIABLE part   \* the part the behaviour is about

vars == <<part, sessionVars, freezerVars, supermarketVars, liveListVars>>

Init ==
    /\ part \in {"freezer", "supermarkets", "list"}
    /\ SessionInit /\ FreezerInit /\ SupermarketsInit /\ LiveListInit

Next ==
    /\ UNCHANGED part
    /\ \E r \in Requests :
        \/ part = "freezer" /\ FreezerStep(r) /\ UNCHANGED <<supermarketVars, liveListVars>>
        \/ part = "supermarkets" /\ SupermarketStep(r) /\ UNCHANGED <<freezerVars, liveListVars>>
        \/ part = "list" /\ LiveListStep(r) /\ UNCHANGED <<freezerVars, supermarketVars>>
        \/ End(r) /\ UNCHANGED <<freezerVars, supermarketVars, liveListVars>>

Spec == Init /\ [][Next]_vars

TypeOK ==
    /\ served \in 0..MaxRequests
    /\ FreezerTypeOK
    /\ SupermarketsTypeOK
    /\ LiveListTypeOK
=============================================================================
