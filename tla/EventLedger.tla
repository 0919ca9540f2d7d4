---------------------------- MODULE EventLedger -----------------------------
(***************************************************************************)
(* What the billing ledger promises about each event of the processor,     *)
(* whatever is delivered twice, late or in parallel: it gets one outcome,  *)
(* which never changes; the outcomes that say a household was credited or  *)
(* cut off are only given to an event that took effect; and no event       *)
(* first takes effect once it has its outcome.                             *)
(***************************************************************************)
VARIABLES
    acted,   \* the events that took effect on the household
    ledger   \* the recorded outcomes

Recorded(id) == \E entry \in ledger : entry.id = id

Init == acted = {} /\ ledger = {}

Act(id) ==
    /\ ~Recorded(id)
    /\ acted' = acted \cup {id}
    /\ UNCHANGED ledger

Record(entry) ==
    /\ ~Recorded(entry.id)
    /\ entry.outcome \in {"granted", "revoked"} => entry.id \in acted
    /\ ledger' = ledger \cup {entry}
    /\ UNCHANGED acted

Next ==
    \/ \E id \in acted' \ acted : Act(id)
    \/ \E entry \in ledger' \ ledger : Record(entry)

Spec == Init /\ [][Next]_<<acted, ledger>>
=============================================================================
