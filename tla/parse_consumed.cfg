SPECIFICATION Spec
CONSTANTS
    Tasks = {t1}
    Pods = {p1}
    Slots = {s1}
    Clients = {c1, c2}
    QueueSize = 1
    MaxAttempts = 2
    MaxFaults = 0
    MaxUses = 2
    Patience = {TRUE, FALSE}
    None = None
INVARIANTS UsedOnce
