SPECIFICATION FairDunningSpec
CONSTANTS
    Households = {h1, h2}
    WarnDays = 1
    Renewal = 1
    Grace = 2
    MaxDays = 5
    MaxChanges = 1
    MaxDeaths = 1
INVARIANTS
    AgainOnlyForACause
    StateAgreesWithLimits
PROPERTIES
    LapseIsTold
CHECK_DEADLOCK FALSE
