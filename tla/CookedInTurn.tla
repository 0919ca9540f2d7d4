---------------------------- MODULE CookedInTurn ----------------------------
(***************************************************************************)
(* CookedHistory with a note of whether two requests have been in flight   *)
(* at once, which the counters do not survive.                             *)
(***************************************************************************)
EXTENDS CookedHistory

VARIABLE overlapped   \* history: two requests have been in flight at once

TurnInit == Init /\ overlapped = FALSE
TurnNext == Next /\ overlapped' = (overlapped \/ \E c, d \in InFlight' : c # d)
TurnSpec == TurnInit /\ [][TurnNext]_<<vars, overlapped>>

(* Requests that come one after another leave the counters as the events     *)
(* say, whatever is planned, edited and deleted meanwhile                    *)
(* (services/cooking.py, _refresh).                                          *)
CountersMatchInTurn == overlapped \/ CountersMatchEvents
=============================================================================
