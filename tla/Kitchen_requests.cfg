SPECIFICATION Spec
CONSTANTS
    Requests = {r1, r2}
    MaxRequests = 5
    Batches = {b1, b2}
    FreezerLimit = 1
    MaxPortions = 2
    Stores = {s1, s2, s3}
    Names = {"Lidl", "LIDL", "Aldi"}
    Folded <- LowerCase
    StoreLimit = 2
    Needs = {milk, bread}
    Keys = {k}
    NoKey = NoKey
    MaxLists = 3
SYMMETRY Symmetry
INVARIANTS
    LeftIsAsSaid
    ActiveIsAsChosen
    OneLiveList
    OneLinePerNeed
CHECK_DEADLOCK FALSE
