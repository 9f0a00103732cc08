SPECIFICATION FairSpec
CONSTANTS
    e1 = e1
    e2 = e2
    c1 = c1
    None = None
    Events = {e1, e2}
    Consumers = {c1}
    Subs <- SharedSub
    Drains = {d1, d2}
    Limits = {1, 2}
    MaxAttempts = 2
    MaxFaults = 1
INVARIANTS NoSilentLoss HonestLedger
PROPERTIES LogSpec EventuallyPublished
