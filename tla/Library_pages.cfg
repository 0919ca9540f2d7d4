SPECIFICATION Spec
CONSTANTS
    Table <- SmallTable
    Urls = {a, b}
    Requests = {r1, r2}
    StartTier = "free"
    MaxRequests = 3
    MaxMonth = 2
    MaxVersion = 2
    MaxChanges = 1
SYMMETRY Symmetry
INVARIANTS
    LinesAreOfOneHand
    FetchesAreCharged
    LimitsKeepTheirWord
PROPERTIES
    RecipesStayWithinCap
CHECK_DEADLOCK FALSE
