----------------------------- MODULE RateLimiter -----------------------------
(***************************************************************************)
(* The in-memory limiter of the auth endpoints (deps.py): per client, the  *)
(* instants of the attempts that were charged and not forgiven, oldest     *)
(* first.                                                                  *)
(***************************************************************************)
EXTENDS Naturals, Sequences, SequencesExt

CONSTANTS
    Limit,   \* AUTH_RATE_LIMIT_PER_MINUTE
    Minute   \* 60 seconds

ASSUME RateLimiterAssumption == Limit \in Nat \ {0} /\ Minute \in Nat \ {0}

(* What is older than a minute falls out at the front, up to the first      *)
(* instant that is not.                                                     *)
Pruned(window, now) ==
    LET recent == {i \in DOMAIN window : now - window[i] <= Minute}
    IN IF recent = {} THEN <<>> ELSE SubSeq(window, Min(recent), Len(window))

(* Mutant: one too many. *)
Admits_OneMore(window, now) == Len(Pruned(window, now)) <= Limit

Admits(window, now) == Len(Pruned(window, now)) < Limit

Charge(window, now) == Append(window, now)

(* forgive_auth_attempt: the latest charge is refunded, whoever's it is. *)
Forgive(window) == IF window = <<>> THEN window ELSE Front(window)
=============================================================================
