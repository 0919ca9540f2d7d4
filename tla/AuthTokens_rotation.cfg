SPECIFICATION Spec
CONSTANTS
    Users = {u1}
    Clients = {c1}
    Requests = {r1, r2}
    ApiTokens = 2
    Limit = 2
    Minute = 1
    MaxTime = 2
    MaxRequests = 3
    MaxTokens = 3
    MaxRestarts = 1
SYMMETRY Symmetry
INVARIANTS
    SessionsFollowThePassword
    OneCodeAtATime
    BruteForceIsBounded
CHECK_DEADLOCK FALSE
