SPECIFICATION FairSpec
CONSTANTS
    w1 = w1
    w2 = w2
    None = None
    Subs = {s1}
    Kinds = {"cleaning", "food", "universal"}
    Keys = {k1}
    Payments = {p1}
    Sales = {x1, x2}
    Workers = {w1, w2}
    Term = 2
    Window = 1
    Horizon = 3
PROPERTIES LapsedEnds
INVARIANTS RenewedOnce FirstChargeIncluded ExpiredIsOver
CHECK_DEADLOCK FALSE
