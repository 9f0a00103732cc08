SPECIFICATION Spec
CONSTANTS
    w1 = w1
    w2 = w2
    s1 = s1
    s2 = s2
    None = None
    Subs = {s1}
    Visits = {1, 2}
    Workers = {w1, w2}
    LastDay = 1
    MaxBookings = 1
    MaxRequests = 4
SYMMETRY Interchangeable
INVARIANTS TypeOK OneSchedule CountHonest
CHECK_DEADLOCK FALSE
