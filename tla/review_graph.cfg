SPECIFICATION Spec
CONSTANTS
    Plugins = {p1}
    Containers = {p1}
    Contents = {x, y}
    MaxLabel = 2
    Reqs = {r1, r2}
    Calls = {c1}
    MaxGen = 1
    MayCrash = TRUE
SYMMETRY Symmetric
VIEW WithoutCards
INVARIANTS OrgContentReviewed TakedownHolds
PROPERTIES DecisionFinal
