CONSTANTS
    Reviews = {r1}
    Events = {e1}
    Operators = {o1}
    Calls = {c1}
    Troubles = {"label", "target", "name"}
    MayReuse = FALSE
    None = None
SPECIFICATION FairSpec
PROPERTIES EventsSettle
