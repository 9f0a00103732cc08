SPECIFICATION FairSpec
CONSTANTS
    r1 = r1
    f1 = f1
    f2 = f2
    None = None
    Rows = {r1}
    Refs = {f1, f2}
    Webhooks = {h1}
    Crons = {c1}
    Polls = {p1}
    Invoicers = {i1}
    ScanLimit = 2
    MaxRefunds = 1
    MaxFaults = 1
INVARIANTS MoneyIsReal CapturesAnnounced
PROPERTIES MoneyFound
