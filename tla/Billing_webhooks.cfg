SPECIFICATION FairSpec
CONSTANTS
    Subs = {s1}
    Sessions = {d1, d2}
    Processors = {"stripe", "lemonsqueezy"}
    ManageUrl = FALSE
    OfferPrice = 7
    Year = 1
    Grace = 1
    Tolerance = 1
    MaxTime = 3
    MaxEvents = 2
    MaxFaults = 1
INVARIANTS
    CreditFollowsPayment
PROPERTIES
    LedgerSpec
    FoundingPriceForLife
    PaymentsAreAnswered
CHECK_DEADLOCK FALSE
