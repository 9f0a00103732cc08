SPECIFICATION DeliveriesSpec
CONSTANTS
    w1 = w1
    w2 = w2
    Absent = Absent
    Meals = {dinner}
    Servers = {w1, w2}
    Marks = {"done", "failed", "rescheduled"}
    LastDay = 2
    MaxBorn = 3
    MaxRequests = 3
    MaxFaults = 2
SYMMETRY Interchangeable
INVARIANTS MirrorAgrees AdoptedNotDuplicated
PROPERTIES MarkLands
CHECK_DEADLOCK FALSE
