SPECIFICATION Spec
CONSTANTS
    Resources = {m1}
    Foreign = {x1}
    Events = {e1, e2}
    Workers = {w1, w2}
    FlushIDs = {f1, f2}
    Batch = 1
    MaxRetries = 2
    Hazard = {"expiry", "outage"}
    None = None
SYMMETRY Symmetric
INVARIANTS TypeOK EventsKept
PROPERTIES CountsExactlyOnce ReleaseIsOwn
