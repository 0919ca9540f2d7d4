SPECIFICATION Spec
CONSTANTS
    r1 = r1
    i1 = i1
    i2 = i2
    u = u
    s1 = s1
    Recipes = {r1}
    Meals = {m1, m2}
    Plans = {p1, p2}
    Ingredients = {i1, i2}
    Units = {u}
    Slots = {s1}
    Quantities = {0, 1}
    ClientKeys = {}
    NoClient = NoClient
    Loose = Loose
    RecipeBodies <- MCRecipeBodies
    MealBodies <- MCMealBodies
    ToggledFlags = {"checked", "excluded"}
    MaxLists = 1
INVARIANTS
    ProvenanceLive
    InSync
    LoopAgrees
PROPERTIES
    UnchangedNeedKeepsState
CHECK_DEADLOCK FALSE
