CONSTANTS
    Reviews = {r1}
    Events = {e1}
    Operators = {o1}
    Calls = {c1, c2}
    Troubles = {"label", "target", "name"}
    MayReuse = TRUE
    None = None
SPECIFICATION FairSpec
INVARIANTS AppliedExactlyOnce AnswersSound
PROPERTIES ReplayIsBound 
