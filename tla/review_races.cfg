SPECIFICATION Spec
CONSTANTS
    Plugins = {p1}
    Containers = {}
    Contents = {x}
    MaxLabel = 2
    Reqs = {r1, r2}
    Calls = {c1, c2}
    MaxGen = 0
    MayCrash = FALSE
SYMMETRY Symmetric
INVARIANTS TypeOK RequestsSound LabelsMintedOnce PendingIsNotified
PROPERTIES OnlyReuploadRegresses
