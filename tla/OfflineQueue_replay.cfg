SPECIFICATION FairSpec
CONSTANTS
    Names = {n1}
    Flags = {checked}
    Checked = checked
    MaxOps = 3
    MaxOthers = 2
    MaxFaults = 2
INVARIANTS
    CountedOnce
    FollowUpsLandUninterrupted
PROPERTIES
    AddsReachTheServer
    QueueDrains
CHECK_DEADLOCK FALSE
