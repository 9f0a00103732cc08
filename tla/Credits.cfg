SPECIFICATION Spec
CONSTANTS
    w1 = w1
    w2 = w2
    o1 = o1
    o2 = o2
    None = None
    Users = {a, b}
    Orders = {o1, o2}
    Workers = {w1, w2}
    Price = 2
    Share = 1
    Discount = 1
    Reward = 1
    Welcome = 1
    CashbackPct = 50
    MaxRedemptions = 1
    PerCustomer = 1
    Grant = 1
    MaxEdits = 3
SYMMETRY Interchangeable
INVARIANTS RewardOnce SpendFollowsOrder RedeemedOnce OverdrawnByRaceOnly
CHECK_DEADLOCK FALSE
