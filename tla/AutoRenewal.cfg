SPECIFICATION BillingSpec
CONSTANTS
    s1 = s1
    w1 = w1
    w2 = w2
    w3 = w3
    Rows <- MCRows
    Callers <- MCCallers
SYMMETRY Symmetry
INVARIANTS
    CancelledIsNotCharged
    RenewsOnlyPaid
