SPECIFICATION FairSpec
CONSTANTS
    r1 = r1
    r2 = r2
    w1 = w1
    w2 = w2
    court = court
    ana = ana
    None = None
    Requests = {r1, r2}
    Slots = {court}
    SlotOf <- OnCourt
    SubjectOf <- OneAna
    MaxSeats = 1
    Capacity <- Seats1
    Desk = {r2}
    Rules <- OneActive
    Waiters = {w1, w2}
    WaitsFor <- AllWait
    Sweeps = {a1}
    Cancels = {a2}
    TTL = 1
    LastRequest = 3
    MaxFaults = 1
INVARIANTS WaitlistFIFO
PROPERTIES SeatsSpec TimelyConfirmKept HoldsEnd
