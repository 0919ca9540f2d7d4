SPECIFICATION MCSpec
CONSTANTS
    r1 = r1
    r2 = r2
    Meals = {m1}
    Recipes = {r1, r2}
    Plans = {p1, p2}
    Compositions <- MCCompositions
    Requests = {c1, c2}
    Gone = Gone
    MaxMarks = 4
    MaxOverlapping = 2
SYMMETRY Symmetry
INVARIANTS
    CountersMatchInTurn
    TickedIffRecorded
PROPERTIES
    HistoryKept
CHECK_DEADLOCK FALSE
