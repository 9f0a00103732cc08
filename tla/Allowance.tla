------------------------------- MODULE Allowance -------------------------------
(* What one customer may book: the hours a plan includes, the limits of the    *)
(* provider's policy, and the provider's own list of the day.                  *)
(*   - hold with assertPolicyAllows, confirm, cancel and the sweep:            *)
(*     src/src/booking/booking.service.ts, src/src/booking/allowance.ts;       *)
(*   - marks, moves and removals by the provider:                              *)
(*     src/src/account/occurrences.service.ts;                                 *)
(*   - the trigger that mirrors bookings into service_occurrences.             *)
(* A call of hold stops at every query of assertPolicyAllows; it makes one     *)
(* booking at most, which is named by the call. Other customers are left out:  *)
(* they take slots, which Booking is about. The clock ticks in hours, so a     *)
(* hold, which has minutes to live, may run out at any time.                   *)
EXTENDS Integers, FiniteSets

CONSTANTS
    Requests,           \* calls of hold for the customer
    Desk,               \* those made by bookForCustomer: the policy is bypassed
    Courts,
    Hours,              \* the length of a court's slots
    Plans,              \* the plans held, as [courts, lines]
    RequiresMembership, MaxActiveBookings, MaxPerDay,  \* the policy
    LastTime,           \* bound: the clock runs from 1 to LastTime
    SlotTimes,          \* when the slots of the schedule start
    DayOf,              \* the day of a time
    Window,             \* the calendar period of a time, per kind of period
    MaxOddities,        \* bound: marks and moves by the provider, what fails
    Nil

Times == 1..LastTime
PeriodNames == {"weekly", "monthly", "quarterly", "yearly"}
PERIOD_RANK == [weekly |-> 0, monthly |-> 1, quarterly |-> 2, yearly |-> 3]
Line == [unit: {"hour", "visit"}, courts: SUBSET Courts, quantity: Nat, period: PeriodNames]

ASSUME AllowanceAssumption ==
    /\ LastTime \in Nat \ {0} /\ SlotTimes \subseteq Times
    /\ IsFiniteSet(Requests) /\ Desk \subseteq Requests /\ Hours \in [Courts -> Nat \ {0}]
    /\ Plans \subseteq [courts: SUBSET Courts, lines: SUBSET Line]
    /\ IsFiniteSet(Plans) /\ \A p \in Plans : IsFiniteSet(p.lines)
    /\ RequiresMembership \in BOOLEAN
    /\ MaxActiveBookings \in Nat /\ MaxPerDay \in Nat
    /\ MaxOddities \in Nat
    /\ Nil \notin [court: Courts, at: Times]
    /\ DayOf \in [Times -> Nat] /\ Window \in [PeriodNames -> [Times -> Nat]]

VARIABLES
    now,
    member,      \* the customer's subscriptions are live: plansHeldBy is not null
    call,        \* where every call of hold stands
    slot,        \* the slot it is about
    status,      \* bookings.status, "none" while there is no row
    listed,      \* service_occurrences.status of the booking, "none" without a row
    removing,    \* bookings a call of remove has cancelled and will take off the list
    moving,      \* what a call of reschedule has loaded: the status it will write
    elsewhere,   \* bookings the list shows at another time than their own
    freely,      \* ghost: booked ahead of its period, or while no plan was held or read
    raced,       \* ghost: inserted although another insert came after their counts
    marked,      \* ghost: brought back to life by a mark of the provider
    unmirrored,  \* ghost: bookings whose trigger failed
    overtaken,   \* ghost: bookings whose row a move wrote back to a status that was gone
    misses,      \* ghost: triggers and reads of the plans that failed so far
    marks        \* ghost: marks and moves so far

ghosts == <<freely, raced, marked>>
list == <<listed, elsewhere, unmirrored, overtaken, misses>>
chores == <<removing, moving, marks>>
allowanceVars == <<now, member, call, slot, status, chores, ghosts, list>>

Active == {"held", "confirmed"}
Spending == {"held", "confirmed", "completed"}
BookingStatuses == Spending \cup {"none", "cancelled", "released", "no_show"}
Statuses == {"scheduled", "done", "failed", "cancelled", "rescheduled"}

AllowanceTypeOK ==
    /\ now \in Times /\ member \in BOOLEAN
    /\ call \in [Requests -> {"new", "hours", "active", "day", "insert", "done"}]
    /\ slot \in [Requests -> [court: Courts, at: Times] \cup {Nil}]
    /\ status \in [Requests -> BookingStatuses]
    /\ listed \in [Requests -> Statuses \cup {"none"}]
    /\ removing \cup elsewhere \subseteq Requests
    /\ moving \in [Requests -> Statuses \cup {"none"}]
    /\ \A b \in Requests : status[b] # "none" => call[b] = "done" /\ slot[b] # Nil
    /\ freely \cup raced \cup marked \cup unmirrored \cup overtaken \subseteq Requests
    /\ misses \in 0..MaxOddities /\ marks \in 0..MaxOddities

AllowanceInit ==
    /\ now = 1 /\ member \in BOOLEAN
    /\ call = [r \in Requests |-> "new"]
    /\ slot = [r \in Requests |-> Nil]
    /\ status = [r \in Requests |-> "none"]
    /\ listed = [r \in Requests |-> "none"]
    /\ moving = [r \in Requests |-> "none"]
    /\ removing = {} /\ elsewhere = {} /\ freely = {} /\ raced = {} /\ marked = {}
    /\ unmirrored = {} /\ overtaken = {}
    /\ misses = 0 /\ marks = 0

Tick ==
    /\ now < LastTime
    /\ now' = now + 1
    /\ UNCHANGED <<member, call, slot, status, chores, ghosts, list>>

\* A subscription lapses, or is bought again.
Subscribe ==
    /\ member' = ~member
    /\ UNCHANGED <<now, call, slot, status, chores, ghosts, list>>
-----------------------------------------------------------------------------
\* grantedResourceIds: the courts a plan names, itself or in a line.
Named(p) == p.courts \cup UNION {l.courts : l \in p.lines}

\* decideCoverage: a plan that names no court opens all of them.
Covers(c) == member /\ (Plans = {} \/ \E p \in Plans : Named(p) = {} \/ c \in Named(p))

\* The lines that count hours of the court. Plans are a set: each counts once.
HourLines(c) ==
    {x \in Plans \X UNION {p.lines : p \in Plans} :
        /\ x[2] \in x[1].lines
        /\ x[2].unit = "hour" /\ (x[2].courts = {} \/ c \in x[2].courts)}

\* hourAllowanceFor: distinct plans add up, the shortest period wins, and a line
\* without a quantity makes it unlimited.
AllowanceOf(c) ==
    LET lines == HourLines(c)
    IN  IF lines = {} \/ \E x \in lines : x[2].quantity = 0 THEN Nil
        ELSE [limit |-> Cardinality(UNION {{x} \X (1..x[2].quantity) : x \in lines}),
              period |-> CHOOSE p \in PeriodNames :
                  /\ \E x \in lines : x[2].period = p
                  /\ \A x \in lines : PERIOD_RANK[p] <= PERIOD_RANK[x[2].period]]

\* The courts an allowance counts: all that any plan names, or every court.
Counted ==
    LET named == UNION {Named(p) : p \in Plans}
    IN  IF named = {} THEN Courts ELSE named

\* bookedHours, hour by hour.
HoursOf(bookings) == Cardinality(UNION {{b} \X (1..Hours[slot[b].court]) : b \in bookings})
Booked(statuses) == {b \in Requests : status[b] \in statuses}

\* Mutant: hours already played are forgotten.
SpentIn_Played(period, t) ==
    {b \in Booked(Active) :
        Window[period][slot[b].at] = Window[period][t] /\ slot[b].court \in Counted}

\* hourUsage: what is held, confirmed or played in the calendar period of t.
SpentIn(period, t) ==
    {b \in Booked(Spending) :
        Window[period][slot[b].at] = Window[period][t] /\ slot[b].court \in Counted}

\* A call goes on, or ends with a refusal and leaves nothing.
Proceeds(r, allowed, step) ==
    /\ call' = [call EXCEPT ![r] = IF allowed THEN step ELSE "done"]
    /\ slot' = IF allowed THEN slot ELSE [slot EXCEPT ![r] = Nil]
    /\ raced' = IF allowed THEN raced ELSE raced \ {r}

\* rest: a read that fails answers null, as if there were no rows.
ReadFails == misses + marks < MaxOddities /\ misses' = misses + 1

\* membershipCoversResource. Without the subscriptions the customer is no member,
\* and without their plans he may have any court.
Opens(c, open) ==
    \/ open = Covers(c) /\ UNCHANGED misses
    \/ (open => member) /\ ReadFails

\* hold: the slot is offered while it is to come; the desk is not asked for a policy.
Ask(r, c, t) ==
    /\ call[r] = "new" /\ now <= t
    /\ \E open \in BOOLEAN :
          /\ IF r \notin Desk /\ RequiresMembership
             THEN Opens(c, open) ELSE open /\ UNCHANGED misses
          /\ IF open
             THEN /\ call' = [call EXCEPT ![r] = IF r \in Desk THEN "insert" ELSE "hours"]
                  /\ slot' = [slot EXCEPT ![r] = [court |-> c, at |-> t]]
             ELSE call' = [call EXCEPT ![r] = "done"] /\ UNCHANGED slot
    /\ UNCHANGED <<now, member, status, chores, ghosts, listed, elsewhere, unmirrored, overtaken>>

\* The plans are read again, and their hours counted in the period of today.
CountHours(r) ==
    LET a == AllowanceOf(slot[r].court)
        enough == \/ ~member \/ a = Nil
                  \/ HoursOf(SpentIn(a.period, now)) + Hours[slot[r].court] <= a.limit
        within == member /\ (a = Nil \/ Window[a.period][now] = Window[a.period][slot[r].at])
    IN  /\ call[r] = "hours"
        /\ Proceeds(r, enough, "active")
        /\ freely' = IF enough /\ ~within THEN freely \cup {r} ELSE freely
        /\ UNCHANGED <<now, member, status, chores, marked, list>>

\* hourUsage without some of the plans, or with none: then there is no limit.
MissPlans(r) ==
    /\ call[r] = "hours" /\ ReadFails
    /\ \E enough \in BOOLEAN :
          /\ Proceeds(r, enough, "active")
          /\ freely' = IF enough THEN freely \cup {r} ELSE freely
    /\ UNCHANGED <<now, member, status, chores, marked, listed, elsewhere, unmirrored, overtaken>>

\* Mutant: one booking too many.
Room_OneMore == MaxActiveBookings > 0 =>
    Cardinality({b \in Booked(Active) : slot[b].at >= now}) <= MaxActiveBookings

\* Room for one more that is held or confirmed and still to come, on any
\* provider's calendar.
Room == MaxActiveBookings > 0 =>
    Cardinality({b \in Booked(Active) : slot[b].at >= now}) < MaxActiveBookings

CountActive(r) ==
    /\ call[r] = "active"
    /\ Proceeds(r, Room, "day")
    /\ freely' = IF Room THEN freely ELSE freely \ {r}
    /\ UNCHANGED <<now, member, status, chores, marked, list>>

CountDay(r) ==
    LET sameDay == {b \in Booked(Active) : DayOf[slot[b].at] = DayOf[slot[r].at]}
        room == MaxPerDay > 0 => Cardinality(sameDay) < MaxPerDay
    IN  /\ call[r] = "day"
        /\ Proceeds(r, room, "insert")
        /\ freely' = IF room THEN freely ELSE freely \ {r}
        /\ UNCHANGED <<now, member, status, chores, marked, list>>
-----------------------------------------------------------------------------
\* mirror_legacy_occurrence: a row that was released reads as scheduled.
Shown(value) ==
    CASE value = "cancelled" -> "cancelled"
      [] value = "completed" -> "done"
      [] value = "no_show" -> "failed"
      [] OTHER -> "scheduled"

\* A write of bookings with its trigger, whose failure is swallowed.
Mirrors(changed, to) ==
    /\ status' = [b \in Requests |-> IF b \in changed THEN to[b] ELSE status[b]]
    /\ \/ /\ listed' = [b \in Requests |-> IF b \in changed THEN Shown(to[b]) ELSE listed[b]]
          /\ elsewhere' = elsewhere \ changed /\ overtaken' = overtaken \ changed
          /\ UNCHANGED <<unmirrored, misses>>
       \/ /\ misses + marks < MaxOddities /\ changed # {}
          /\ misses' = misses + 1
          /\ unmirrored' = unmirrored \cup changed
          /\ UNCHANGED <<listed, elsewhere, overtaken>>

Writes(b, value) == Mirrors({b}, [x \in {b} |-> value])

\* bookings_active_slot_uidx
Taking(r) == {b \in Booked(Active) \ {r} : slot[b] = slot[r]}

\* hold: holds of the slot that ran out are released, then the row is inserted,
\* or refused by the index.
Insert(r) ==
    /\ call[r] = "insert"
    /\ call' = [call EXCEPT ![r] = "done"]
    /\ \E stale \in SUBSET {b \in Taking(r) : status[b] = "held"} :
          IF stale = Taking(r)
          THEN /\ Mirrors(stale \cup {r},
                          [b \in stale \cup {r} |-> IF b = r THEN "held" ELSE "released"])
               /\ raced' = IF r \in Desk THEN raced
                           ELSE raced \cup {q \in Requests \ {r} :
                                               call[q] \in {"active", "day", "insert"}}
               /\ UNCHANGED <<slot, freely>>
          ELSE /\ Mirrors(stale, [b \in stale |-> "released"])
               /\ slot' = [slot EXCEPT ![r] = Nil]
               /\ raced' = raced \ {r} /\ freely' = freely \ {r}
    /\ UNCHANGED <<now, member, chores, marked>>

Confirm(b) ==
    /\ status[b] = "held"
    /\ Writes(b, "confirmed")
    /\ UNCHANGED <<now, member, call, slot, chores, ghosts>>

\* cancel, by the customer or the desk, whatever has become of the booking.
Cancel(b) ==
    /\ status[b] # "none"
    /\ Writes(b, "cancelled")
    /\ UNCHANGED <<now, member, call, slot, chores, ghosts>>

\* expireHolds
Release(b) ==
    /\ status[b] = "held"
    /\ Writes(b, "released")
    /\ UNCHANGED <<now, member, call, slot, chores, ghosts>>
-----------------------------------------------------------------------------
\* BOOKING_STATUS: what a mark means for the booking; "rescheduled" means nothing.
BookingStatus ==
    [scheduled |-> "confirmed", done |-> "completed", failed |-> "no_show", cancelled |-> "cancelled"]

Counts == misses + marks < MaxOddities /\ marks' = marks + 1

\* setStatus, by the provider: any status over any other, unless the index refuses.
Mark(b, st) ==
    /\ listed[b] # "none"
    /\ st = "scheduled" => Taking(b) = {}
    /\ Counts
    /\ IF st \in DOMAIN BookingStatus
       THEN /\ Writes(b, BookingStatus[st])
            /\ marked' = IF \/ st = "scheduled" /\ status[b] \notin Active
                            \/ st = "done" /\ status[b] \notin Spending
                         THEN marked \cup {b} ELSE marked
       ELSE /\ listed' = [listed EXCEPT ![b] = st]
            /\ UNCHANGED <<status, marked, elsewhere, unmirrored, overtaken, misses>>
    /\ UNCHANGED <<now, member, call, slot, removing, moving, freely, raced>>

\* reschedule, which no slot_id keeps from a court, loads the row ...
MoveRead(b) ==
    /\ listed[b] # "none" /\ moving[b] = "none"
    /\ Counts
    /\ moving' = [moving EXCEPT ![b] = listed[b]]
    /\ UNCHANGED <<now, member, call, slot, status, removing, ghosts, list>>

\* ... and writes another time and the status it loaded. The booking is not moved.
MoveWrite(b) ==
    /\ moving[b] # "none"
    /\ moving' = [moving EXCEPT ![b] = "none"]
    /\ listed' = [listed EXCEPT ![b] = moving[b]]
    /\ elsewhere' = elsewhere \cup {b}
    /\ overtaken' = IF listed[b] = moving[b] THEN overtaken ELSE overtaken \cup {b}
    /\ UNCHANGED <<now, member, call, slot, status, removing, marks, ghosts, unmirrored, misses>>

\* Mutant: the row is taken off the list, and the court stays booked.
RemoveCancels_Not(b) == UNCHANGED <<status, list>>

\* remove cancels first, through setStatus, unless the list says cancelled ...
RemoveCancels(b) ==
    IF listed[b] = "cancelled" THEN UNCHANGED <<status, list>> ELSE Writes(b, "cancelled")

RemoveRead(b) ==
    /\ listed[b] # "none" /\ b \notin removing
    /\ RemoveCancels(b)
    /\ removing' = removing \cup {b}
    /\ UNCHANGED <<now, member, call, slot, moving, marks, ghosts>>

\* ... and then deletes the row, which a move under way no longer finds.
RemoveRow(b) ==
    /\ b \in removing
    /\ removing' = removing \ {b}
    /\ moving' = [moving EXCEPT ![b] = "none"]
    /\ listed' = [listed EXCEPT ![b] = "none"]
    /\ elsewhere' = elsewhere \ {b}
    /\ UNCHANGED <<now, member, call, slot, status, marks, ghosts, unmirrored, overtaken, misses>>

AllowanceNext ==
    \/ Tick \/ Subscribe
    \/ \E r \in Requests :
          \/ CountHours(r) \/ MissPlans(r) \/ CountActive(r) \/ CountDay(r) \/ Insert(r)
          \/ Confirm(r) \/ Cancel(r) \/ Release(r) \/ RemoveRead(r) \/ RemoveRow(r)
          \/ MoveRead(r) \/ MoveWrite(r)
          \/ \E c \in Courts, t \in SlotTimes : Ask(r, c, t)
          \/ \E st \in Statuses : Mark(r, st)

AllowanceSpec == AllowanceInit /\ [][AllowanceNext]_allowanceVars
-----------------------------------------------------------------------------
\* What the customer booked through the policy, one request after the other.
Orderly == Requests \ (Desk \cup raced \cup marked)

\* "4 court hours a month" (hourAllowanceFor, hourUsage): what a member books
\* within a period, one request after the other, stays within the hours of the
\* plan, whatever is cancelled, played, released and booked again, and although
\* the desk books for the same customer. Excepted are hours of a later period,
\* which the code counts against this one's, hours booked while no plan was held or
\* while reading the plans failed (then there is no limit), racing requests, what
\* the provider brought back to life, and courts that no plan names although one
\* names courts: hourUsage limits them and does not count them.
HoursKept ==
    \A c \in Counted :
        LET a == AllowanceOf(c)
        IN  a # Nil => \A t \in Times :
                HoursOf({b \in Booked(Spending) \cap (Orderly \ freely) :
                            /\ Window[a.period][slot[b].at] = Window[a.period][t]
                            /\ slot[b].court \in Counted
                            /\ AllowanceOf(slot[b].court) = a}) <= a.limit

\* The provider's limits (assertPolicyAllows) hold for requests that do not race:
\* so many bookings to come, so many a day.
LimitsKept ==
    LET own == {b \in Orderly : status[b] \in Active}
    IN  /\ MaxActiveBookings > 0 =>
              Cardinality({b \in own : slot[b].at >= now}) <= MaxActiveBookings
        /\ MaxPerDay > 0 => \A t \in Times :
              Cardinality({b \in own : DayOf[slot[b].at] = DayOf[t]}) <= MaxPerDay

\* "A court held for a booking nobody can see" (OccurrencesService.remove): a
\* booking that holds a court is on the provider's list, and what the list shows
\* as scheduled was not cancelled nor played, unless a trigger failed. A booking
\* marked while it is being removed may still vanish, and one cancelled or marked
\* while it is being moved is listed as it was before, for good (reschedule), at
\* the time it was moved to.
ListIsTrue ==
    \A b \in Requests \ unmirrored :
        /\ status[b] \in Active /\ b \notin marked => listed[b] \in {"scheduled", "rescheduled"}
        /\ listed[b] = "scheduled" /\ b \notin overtaken => status[b] \in Active \cup {"released"}
=============================================================================
