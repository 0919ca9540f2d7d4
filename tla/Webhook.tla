------------------------------- MODULE Webhook -------------------------------
(***************************************************************************)
(* From what a processor posts to one normalised event: the verification   *)
(* and the parsing of services/billing.py.                                 *)
(*                                                                         *)
(* A request is a header and a body.  The header carries the time it was   *)
(* signed (0 when it names none) and the set of keys it was signed with.   *)
(* The body is what the three processors' payloads have in common: a type, *)
(* an id, the household in the checkout's custom data, two places for the  *)
(* end of the paid period (0 when absent), an amount and a customer.       *)
(***************************************************************************)
EXTENDS Entitlements

CONSTANT Tolerance  \* BILLING_SIGNATURE_TOLERANCE_SECONDS, in days of the model
ASSUME ToleranceAssumption == Tolerance \in Nat

NoHousehold == "none"  \* no household_id, or one that is no id
NoId == <<"", 0>>

-----------------------------------------------------------------------------
Distance(a, b) == IF a > b THEN a - b ELSE b - a

(* Only Paddle and Stripe sign a timestamp; a Lemon Squeezy request        *)
(* without a signature is one whose signature does not match.              *)
Verify(processor, header, now) ==
    IF processor = "lemonsqueezy"
    THEN IF "secret" \in header.keys THEN "ok" ELSE "bad_signature"
    ELSE IF header.signedAt = 0 \/ header.keys = {} THEN "unsigned"
    ELSE IF "secret" \notin header.keys THEN "bad_signature"
    ELSE IF Distance(now, header.signedAt) > Tolerance THEN "stale"
    ELSE "ok"

-----------------------------------------------------------------------------
Grants == [paddle |-> {"subscription.created", "subscription.updated",
                       "subscription.activated", "transaction.completed"},
           lemonsqueezy |-> {"subscription_created", "subscription_updated",
                             "subscription_payment_success", "subscription_resumed"},
           stripe |-> {"customer.subscription.created", "customer.subscription.updated"}]

Revokes == [paddle |-> {"subscription.canceled", "subscription.cancelled"},
            lemonsqueezy |-> {"subscription_expired"},
            stripe |-> {"customer.subscription.deleted"}]

Action(processor, type) ==
    CASE type \in Grants[processor] -> "grant"
      [] type \in Revokes[processor] -> "revoke"
      [] OTHER -> "ignore"

(* No amount, or one that is a discount or a trial, is no price. *)
Money(amount) == IF amount > 0 THEN amount ELSE NoPrice

(* Stripe names the end on the subscription and on its items: the latest.  *)
(* Lemon Squeezy has renews_at, or ends_at once it is cancelled.           *)
PeriodEnd(processor, ends) ==
    CASE processor = "paddle" -> ends[1]
      [] processor = "stripe" -> IF ends[1] > ends[2] THEN ends[1] ELSE ends[2]
      [] OTHER -> IF ends[1] # NoDate THEN ends[1] ELSE ends[2]

(* Lemon Squeezy sends no id: the body, without one, identifies itself. *)
EventId(processor, body) ==
    IF processor = "lemonsqueezy" THEN [body EXCEPT !.id = NoId] ELSE body.id

Unreadable(processor, body) ==
    \/ body.type = ""
    \/ processor # "lemonsqueezy" /\ body.id = NoId

Parse(processor, body) ==
    [id        |-> EventId(processor, body),
     action    |-> Action(processor, body.type),
     household |-> body.household,
     renewsAt  |-> PeriodEnd(processor, body.ends),
     price     |-> IF processor = "lemonsqueezy" THEN NoPrice ELSE Money(body.amount),
     customer  |-> body.customer]
=============================================================================
