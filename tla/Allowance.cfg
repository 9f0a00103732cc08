SPECIFICATION AllowanceSpec
CONSTANTS
    r1 = r1
    r2 = r2
    r3 = r3
    Nil = Nil
    Requests = {r1, r2, r3}
    Desk = {r3}
    Courts = {"tennis"}
    Hours <- OneHour
    Plans <- TwoPlans
    RequiresMembership = TRUE
    MaxActiveBookings = 1
    MaxPerDay = 1
    LastTime = 3
    SlotTimes <- Later
    DayOf <- EachTime
    Window <- Calendar
    MaxOddities = 1
SYMMETRY Interchangeable
INVARIANTS HoursKept LimitsKept ListIsTrue
CHECK_DEADLOCK FALSE
