SPECIFICATION FairSpec
CONSTANTS
    Plugins = {p1}
    Containers = {}
    Contents = {x}
    MaxLabel = 1
    Reqs = {r1}
    Calls = {c1, c2}
    MaxGen = 0
    MayCrash = FALSE
    Resources = {m1}
    Foreign = {x1}
    Events = {e1}
    Workers = {w1, w2}
    FlushIDs = {f1}
    Batch = 1
    MaxRetries = 2
    Hazard = {"expiry", "outage"}
    Tasks = {t1}
    Pods = {d1}
    Slots = {s1}
    Clients = {u1, u2}
    QueueSize = 1
    MaxAttempts = 3
    MaxFaults = 2
    MaxUses = 1
    Patience = {TRUE, FALSE}
    None = None
PROPERTIES AutoSubmissionSettles EventuallyCounted ParsingSettles
