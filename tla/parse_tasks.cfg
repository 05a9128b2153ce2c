SPECIFICATION Spec
CONSTANTS
    Tasks = {t1, t2}
    Pods = {p1}
    Slots = {s1}
    Clients = {c1, c2}
    QueueSize = 1
    MaxAttempts = 3
    MaxFaults = 1
    MaxUses = 2
    Patience = {TRUE, FALSE}
    None = None
CONSTRAINT FewAttempts
SYMMETRY Symmetric
INVARIANTS TypeOK JobsWithinAttempts PatientUsedOnce ConsumedIsUsed
PROPERTIES OutcomesStay
