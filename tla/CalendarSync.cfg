SPECIFICATION CalendarSpec
CONSTANTS
    w1 = w1
    w2 = w2
    d1 = d1
    d2 = d2
    v1 = v1
    v2 = v2
    Blank = Blank
    Visits = {v1, v2}
    Syncs = {w1, w2}
    Days = {d1, d2}
    MaxEvents = 3
    Changes = 1
    Strikes = 1
    Loads = 4
    Repairs = {"reconcile", "restore"}
SYMMETRY Interchangeable
INVARIANTS NeverShared Shown ShownOnce
CHECK_DEADLOCK FALSE
