---------------------------- MODULE Entitlements ----------------------------
(***************************************************************************)
(* What a household is entitled to: the columns of its row, the changes    *)
(* services/entitlements.py makes to them, and what is derived from them   *)
(* there and in limits.py.  A change is computed from the row a session    *)
(* loaded and written by an UPDATE that names only the columns it changed. *)
(* Dates are counted in days from 1; the note and the currency are left    *)
(* out.                                                                    *)
(***************************************************************************)
EXTENDS Integers

CONSTANT Grace  \* ENTITLEMENT_GRACE_DAYS
ASSUME GraceAssumption == Grace \in Nat

NoDate == 0
NoPrice == 0
Nobody == "nobody"   \* no customer at the processor
Date == Nat

Free == "free"
Paid == "paid"
Unlimited == "unlimited"
Tiers == {Free, Paid, Unlimited}
Comp == "comp"
Processor == {"paddle", "stripe", "lemonsqueezy"}
Source == Processor \cup {Comp, "none"}

(* warned and notified are expiry_warned_at and lapse_notified_at: set or null *)
Row(Customer) ==
    [tier : Tiers, until : Date, source : Source, price : Nat,
     customer : Customer \cup {Nobody}, warned : BOOLEAN, notified : BOOLEAN]

(* A household as it is created on a server that sells. *)
NewRow == [tier |-> Free, until |-> NoDate, source |-> "none", price |-> NoPrice,
           customer |-> Nobody, warned |-> FALSE, notified |-> FALSE]

(* An UPDATE emits the columns in which the changed row differs from the   *)
(* loaded one; the others keep what other sessions committed meanwhile.    *)
Emit(current, loaded, changed) ==
    [c \in DOMAIN current |->
        IF changed[c] # loaded[c] THEN changed[c] ELSE current[c]]

-----------------------------------------------------------------------------
(* The changes.  Each has its refusal (EntitlementError) beside it.        *)

ResetDunning(r) == [r EXCEPT !.warned = FALSE, !.notified = FALSE]

Conflicting(r, price) == price # NoPrice /\ r.price # NoPrice /\ r.price # price

GrantRefused(r, until, price, keep, now) ==
    \/ until # NoDate /\ until <= now
    \/ Conflicting(r, price) /\ ~keep

(* Mutant: the price snapshot follows every payment. *)
Grant_Reprices(r, tier, until, source, price, customer) ==
    ResetDunning([r EXCEPT
        !.tier = tier, !.until = until, !.source = source,
        !.price = IF price # NoPrice THEN price ELSE @,
        !.customer = IF customer # Nobody THEN customer ELSE @])

Grant(r, tier, until, source, price, customer) ==
    ResetDunning([r EXCEPT
        !.tier = tier, !.until = until, !.source = source,
        !.price = IF @ = NoPrice THEN price ELSE @,
        !.customer = IF customer # Nobody THEN customer ELSE @])

(* Mutant: a revocation only clears the date. *)
Revoke_KeepsTier(r) ==
    ResetDunning([r EXCEPT !.until = NoDate, !.source = "none"])

(* The price and the customer are kept for when they come back. *)
Revoke(r) ==
    ResetDunning([r EXCEPT !.tier = Free, !.until = NoDate, !.source = "none"])

(* By a positive number of days, from the expiry while that is ahead and   *)
(* from now otherwise.                                                     *)
Extend(r, days, now) ==
    LET base == IF r.until # NoDate /\ r.until > now THEN r.until ELSE now IN
    ResetDunning([r EXCEPT !.until = base + days])

-----------------------------------------------------------------------------
(* What is derived.                                                        *)

GraceEndsAt(r) == r.until + Grace

State(r, now) ==
    IF r.until = NoDate THEN "permanent"
    ELSE IF now < r.until THEN "paid"
    ELSE IF now < GraceEndsAt(r) THEN "grace" ELSE "lapsed"

(* Mutant: the limits apply again the day the entitlement expires. *)
HasLapsed_NoGrace(r, now) == r.until # NoDate /\ r.until < now

HasLapsed(r, now) == r.until # NoDate /\ r.until + Grace < now

EffectiveTier(r, now) == IF HasLapsed(r, now) THEN Free ELSE r.tier
=============================================================================
