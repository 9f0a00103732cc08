SPECIFICATION FairSpec
CONSTANTS
    w1 = w1
    w2 = w2
    s1 = s1
    None = None
    Subs = {s1}
    Workers = {w1, w2}
    Watched = {"2_day", "unscheduled_3", "new_order", "visit"}
    Term = 2
    Horizon = 3
    Strikes = 1
INVARIANTS MailedOnce RemindedOnce
PROPERTIES NoNagging NudgedInTheEnd
CHECK_DEADLOCK FALSE
