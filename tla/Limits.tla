------------------------------- MODULE Limits -------------------------------
(***************************************************************************)
(* What a household may have (app/limits.py): a cap by the tier it is on   *)
(* and a ceiling of the server's own, compared in one place when a write   *)
(* is refused (_verdict) and in another when GET /limits publishes the     *)
(* allowance (_effective).  No effects, so everything is an operator.      *)
(***************************************************************************)
EXTENDS Integers

CONSTANT Table   \* PROFILES[LIMITS_PROFILE] with LIMITS_OVERRIDES applied

NoLimit == -1    \* None: unlimited
Tiers == {"unlimited", "free", "paid"}
LimitSets == Tiers \cup {"ceiling"}
Resources ==
    {"members", "recipes", "ingredients", "meals", "meal_lines", "plans", "plan_meals",
     "supermarkets", "freezer_items", "api_tokens", "ingests_per_month"}

(* PROFILES: a profile that limits nothing, and the hosted one. *)
UnlimitedLimits == [resource \in Resources |-> NoLimit]
Hosted ==
    [unlimited |-> UnlimitedLimits,
     free |-> [members |-> 1, recipes |-> 50, ingredients |-> 500, meals |-> 100,
               meal_lines |-> 50, plans |-> 20, plan_meals |-> 30, supermarkets |-> 2,
               freezer_items |-> 100, api_tokens |-> 3, ingests_per_month |-> 20],
     paid |-> [members |-> 8, recipes |-> 2000, ingredients |-> 5000, meals |-> 2000,
               meal_lines |-> 50, plans |-> 1000, plan_meals |-> 30, supermarkets |-> 20,
               freezer_items |-> 1000, api_tokens |-> 10, ingests_per_month |-> 500],
     ceiling |-> [members |-> 12, recipes |-> 5000, ingredients |-> 10000, meals |-> 5000,
                  meal_lines |-> 50, plans |-> 2000, plan_meals |-> 30, supermarkets |-> 20,
                  freezer_items |-> 2000, api_tokens |-> 10, ingests_per_month |-> 1000]]
Profile(name) == IF name = "hosted" THEN Hosted ELSE [s \in LimitSets |-> UnlimitedLimits]

(* _table: LIMITS_OVERRIDES replaces single limits of single sets. *)
Overridden(profile, changes) ==
    [s \in LimitSets |-> [resource \in Resources |->
        IF <<s, resource>> \in DOMAIN changes THEN changes[<<s, resource>>]
        ELSE Profile(profile)[s][resource]]]

(* check_settings: what LIMITS_* and MAX_* may be for the server to start.   *)
(* A limit is a whole number or null, and so is a ceiling of the instance.   *)
Limit == Nat \cup {NoLimit}
CheckSettings(profile, tier, changes, instance) ==
    /\ profile \in {"unlimited", "hosted"}
    /\ tier \in Tiers
    /\ DOMAIN changes \subseteq LimitSets \X Resources
    /\ \A key \in DOMAIN changes : changes[key] \in Limit
    /\ instance \subseteq Limit

(* A server that has started runs with such a table (SettingsMakeATable).    *)
ASSUME LimitsAssumption ==
    Table \in [LimitSets -> [Resources -> Limit]]

(* A tier this build has not heard of limits nothing. *)
LimitsFor(tier) ==
    IF tier \in Tiers THEN Table[tier] ELSE [resource \in Resources |-> NoLimit]
Ceilings == Table["ceiling"]

AnythingConfigured == \E s \in LimitSets, resource \in Resources : Table[s][resource] # NoLimit
HasLimit(tier, resource) ==
    LimitsFor(tier)[resource] # NoLimit \/ Ceilings[resource] # NoLimit

Exceeds(count, limit) == limit # NoLimit /\ count > limit

(* Only the free tier has a way up, to the paid one. *)
Upgradable(tier, resource, cap) ==
    LET better == LimitsFor("paid")[resource]
    IN tier = "free" /\ (better = NoLimit \/ better > cap)

(* _verdict: the ceiling is checked first, so that nothing is sold that     *)
(* would not help.                                                          *)
Verdict(tier, resource, used, adding) ==
    LET cap == LimitsFor(tier)[resource]  after == used + adding IN
    CASE Exceeds(after, Ceilings[resource]) -> "403"
      [] ~Exceeds(after, Ceilings[resource]) /\ Exceeds(after, cap) ->
            IF Upgradable(tier, resource, cap) THEN "402" ELSE "403"
      [] OTHER -> "ok"

(* Mutant: a tie goes to the tier. *)
Effective_TieToTier(tier, resource) ==
    LET cap == LimitsFor(tier)[resource]  ceiling == Ceilings[resource] IN
    IF ceiling # NoLimit /\ (cap = NoLimit \/ cap > ceiling)
    THEN [limit |-> ceiling, upgradable |-> FALSE]
    ELSE [limit |-> cap, upgradable |-> cap # NoLimit /\ Upgradable(tier, resource, cap)]

(* _effective: the number GET /limits publishes, and whether money lifts it. *)
Effective(tier, resource) ==
    LET cap == LimitsFor(tier)[resource]  ceiling == Ceilings[resource] IN
    IF ceiling # NoLimit /\ (cap = NoLimit \/ cap >= ceiling)
    THEN [limit |-> ceiling, upgradable |-> FALSE]
    ELSE [limit |-> cap, upgradable |-> cap # NoLimit /\ Upgradable(tier, resource, cap)]

(* snapshot: what GET /limits says is left. *)
Remaining(tier, resource, used) ==
    LET limit == Effective(tier, resource).limit
    IN IF limit = NoLimit THEN NoLimit ELSE IF used >= limit THEN 0 ELSE limit - used

(* enforce: a resource nobody limits is not even counted. *)
Refused(tier, resource, used, adding) ==
    AnythingConfigured /\ HasLimit(tier, resource) /\ Verdict(tier, resource, used, adding) # "ok"

(* GET /limits keeps its word: as many as it says remain may be added, one   *)
(* more is refused; and a household that has just reached its allowance is   *)
(* refused with 402, the offer of a larger tier, exactly where the published *)
(* row says that one would help.                                             *)
PublishedIsEnforced(tier, resource, used) ==
    LET left == Remaining(tier, resource, used)
        published == Effective(tier, resource)
    IN
    /\ left = NoLimit => ~Refused(tier, resource, used, 1)
    /\ left > 0 => ~Refused(tier, resource, used, left)
    /\ left >= 0 => Refused(tier, resource, used, left + 1)
    /\ used = published.limit => (Verdict(tier, resource, used, 1) = "402" <=> published.upgradable)
=============================================================================
