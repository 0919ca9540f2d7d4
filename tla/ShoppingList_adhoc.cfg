SPECIFICATION Spec
CONSTANTS
    r1 = r1
    i1 = i1
    i2 = i2
    u = u
    s1 = s1
    Recipes = {r1}
    Meals = {m1}
    Plans = {p1}
    Ingredients = {i1, i2}
    Units = {u}
    Slots = {s1}
    Quantities = {0, 1}
    ClientKeys = {c1}
    NoClient = NoClient
    Loose = Loose
    RecipeBodies <- MCRecipeBodies
    MealBodies <- MCMealBodies
    ToggledFlags = {"checked"}
    MaxLists = 2
INVARIANTS
    TypeOK
    LineIdentity
    EveryLineHasAReason
PROPERTIES
    AdhocNeverLost
CHECK_DEADLOCK FALSE
