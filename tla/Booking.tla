------------------------------ MODULE Booking ------------------------------
(* The booking engine of src/src/booking/booking.service.ts: hold, confirm,    *)
(* cancel, the waitlist and the cron sweep expireHolds, over the tables        *)
(* bookings and booking_waitlist. Requests and sweeps run concurrently, each   *)
(* split where it awaits a read it acts on later. A hold request creates one   *)
(* booking at most, so bookings are named by the request that made them.       *)
EXTENDS Integers, FiniteSets

CONSTANTS
    Requests,     \* calls of hold
    Slots,        \* resource|date|from, the base slot key
    SlotOf,       \* the slot each request asks for
    SubjectOf,    \* the customer each request is for
    MaxSeats,     \* bound: the largest capacity
    Capacity,     \* how many may share a slot: 1, or the capacity of the boat
    Desk,         \* requests of bookForCustomer, which bypass the policy
    Rules,        \* the policy: [slots |-> those counted, limit |-> how many]
    Waiters,      \* calls of joinWaitlist
    WaitsFor,     \* the slot each of them waits for
    Sweeps,       \* calls of expireHolds that may run at once
    Cancels,      \* calls of cancel that may run at once
    TTL,          \* HOLD_TTL_MINUTES
    LastRequest,  \* bound: no hold is asked for after this time
    MaxFaults,    \* bound: sweeps and cancellations cut short
    None          \* no waitlist entry, no slot

MaxTime == LastRequest + TTL + 1
SeatNumbers == 1 .. MaxSeats
Workers == Sweeps \cup Cancels

ASSUME BookingAssumption ==
    /\ MaxSeats \in Nat /\ IsFiniteSet(Waiters) /\ Sweeps \cap Cancels = {}
    /\ SlotOf \in [Requests -> Slots]
    /\ Capacity \in [Slots -> SeatNumbers]
    /\ Desk \subseteq Requests
    /\ Rules \subseteq [slots : SUBSET Slots, limit : Nat]
    /\ WaitsFor \in [Waiters -> Slots]
    /\ TTL \in Nat /\ LastRequest \in Nat \ {0} /\ MaxFaults \in Nat
    /\ None \notin Waiters \cup Slots

VARIABLES
    now,         \* the clock, from 1
    asked,       \* where every hold request stands
    askedAt,     \* its "now"
    trying,      \* the seat it tries next
    status,      \* bookings.status, "none" while there is no row
    seat,        \* the |s<n> of bookings.slot_key
    expiresAt,   \* bookings.expires_at, 0 for null
    waitStatus,  \* booking_waitlist.status, "none" while there is no row
    joinedAt,    \* booking_waitlist.created_at, as an order of arrival
    doing,       \* where every worker stands
    expired,     \* the rows its sweep has still to release
    freed,       \* the slot it promotes the waitlist of
    next,        \* the entry findFirst returned to it
    timely,      \* ghost: bookings confirmed before their hold ran out
    promotions,  \* ghost: WaitlistPromoted events per entry
    faults       \* ghost: faults so far

request == <<asked, askedAt, trying>>
rows == <<status, seat, expiresAt>>
waitlist == <<waitStatus, joinedAt, promotions>>
worker == <<doing, expired, freed, next>>
vars == <<now, request, rows, waitlist, worker, timely, faults>>

ActiveStatus == {"held", "confirmed"}
Active == {b \in Requests : status[b] \in ActiveStatus}
HasExpired(b, time) == status[b] = "held" /\ expiresAt[b] < time

TypeOK ==
    /\ now \in Nat
    /\ asked \in [Requests -> {"new", "freeing", "claiming", "held", "refused"}]
    /\ askedAt \in [Requests -> Nat]
    /\ trying \in [Requests -> Nat \ {0}]
    /\ status \in [Requests -> {"none", "cancelled", "released"} \cup ActiveStatus]
    /\ seat \in [Requests -> Nat]
    /\ expiresAt \in [Requests -> Nat]
    /\ waitStatus \in [Waiters -> {"none", "waiting", "promoted"}]
    /\ joinedAt \in [Waiters -> Nat]
    /\ doing \in [Workers -> {"idle", "sweeping", "reading", "promoting"}]
    /\ expired \in [Workers -> SUBSET Requests]
    /\ freed \in [Workers -> Slots \cup {None}]
    /\ next \in [Workers -> Waiters \cup {None}]
    /\ timely \subseteq Requests
    /\ promotions \in [Waiters -> Nat]
    /\ faults \in Nat

Init ==
    /\ now = 1
    /\ asked = [r \in Requests |-> "new"]
    /\ askedAt = [r \in Requests |-> 0]
    /\ trying = [r \in Requests |-> 1]
    /\ status = [r \in Requests |-> "none"]
    /\ seat = [r \in Requests |-> 0]
    /\ expiresAt = [r \in Requests |-> 0]
    /\ waitStatus = [w \in Waiters |-> "none"]
    /\ joinedAt = [w \in Waiters |-> 0]
    /\ doing = [a \in Workers |-> "idle"]
    /\ expired = [a \in Workers |-> {}]
    /\ freed = [a \in Workers |-> None]
    /\ next = [a \in Workers |-> None]
    /\ timely = {}
    /\ promotions = [w \in Waiters |-> 0]
    /\ faults = 0

Tick ==
    /\ now < MaxTime
    /\ now' = now + 1
    /\ UNCHANGED <<request, rows, waitlist, worker, timely, faults>>
-----------------------------------------------------------------------------
\* assertPolicyAllows: every rule that counts the slot has room for one more of
\* the customer's holds and bookings.
PolicyAllows(r) ==
    \A rule \in Rules :
        SlotOf[r] \in rule.slots =>
            Cardinality({b \in Active : SubjectOf[b] = SubjectOf[r] /\ SlotOf[b] \in rule.slots})
                < rule.limit

\* hold, up to the instant it takes as now: the slot exists, the policy allows
\* it or is bypassed.
AskHold(r) ==
    /\ asked[r] = "new"
    /\ now <= LastRequest
    /\ \/ /\ r \in Desk \/ PolicyAllows(r)
          /\ asked' = [asked EXCEPT ![r] = "freeing"]
          /\ askedAt' = [askedAt EXCEPT ![r] = now]
       \/ /\ ~(r \in Desk \/ PolicyAllows(r))
          /\ asked' = [asked EXCEPT ![r] = "refused"]
          /\ UNCHANGED askedAt
    /\ UNCHANGED <<now, trying, rows, waitlist, worker, timely, faults>>

\* One conditional updateMany releases the slot's expired holds, on every seat.
FreeExpired(r) ==
    /\ asked[r] = "freeing"
    /\ asked' = [asked EXCEPT ![r] = "claiming"]
    /\ status' = [b \in Requests |->
                     IF SlotOf[b] = SlotOf[r] /\ HasExpired(b, askedAt[r])
                     THEN "released" ELSE status[b]]
    /\ UNCHANGED <<now, askedAt, trying, seat, expiresAt, waitlist, worker, timely, faults>>

\* Mutant: the index covers confirmed bookings only.
SeatFree_ConfirmedOnly(s, n) ==
    \A b \in Requests : status[b] = "confirmed" => ~(SlotOf[b] = s /\ seat[b] = n)

\* bookings_active_slot_uidx: unique (resource_id, slot_key) among active rows.
SeatFree(s, n) ==
    \A b \in Active : ~(SlotOf[b] = s /\ seat[b] = n)

\* The insert of a held row, refused by the index when the seat is taken (P2002);
\* then the next seat is tried, and after the last the answer is slot_taken.
ClaimOneOf(r, seats) ==
    /\ asked[r] = "claiming"
    /\ \/ /\ trying[r] <= seats
          /\ SeatFree(SlotOf[r], trying[r])
          /\ status' = [status EXCEPT ![r] = "held"]
          /\ seat' = [seat EXCEPT ![r] = trying[r]]
          /\ expiresAt' = [expiresAt EXCEPT ![r] = askedAt[r] + TTL]
          /\ asked' = [asked EXCEPT ![r] = "held"]
          /\ UNCHANGED trying
       \/ /\ trying[r] <= seats
          /\ ~SeatFree(SlotOf[r], trying[r])
          /\ trying' = [trying EXCEPT ![r] = @ + 1]
          /\ UNCHANGED <<asked, rows>>
       \/ /\ trying[r] > seats
          /\ asked' = [asked EXCEPT ![r] = "refused"]
          /\ UNCHANGED <<trying, rows>>
    /\ UNCHANGED <<now, askedAt, waitlist, worker, timely, faults>>

ClaimSeat(r) == ClaimOneOf(r, Capacity[SlotOf[r]])

\* confirm: conditional on held, whatever expires_at says.
Confirm(b) ==
    /\ status[b] = "held"
    /\ status' = [status EXCEPT ![b] = "confirmed"]
    /\ expiresAt' = [expiresAt EXCEPT ![b] = 0]
    /\ timely' = IF now <= expiresAt[b] THEN timely \cup {b} ELSE timely
    /\ UNCHANGED <<now, request, seat, waitlist, worker, faults>>

JoinWaitlist(w) ==
    /\ waitStatus[w] = "none"
    /\ waitStatus' = [waitStatus EXCEPT ![w] = "waiting"]
    /\ joinedAt' = [joinedAt EXCEPT
          ![w] = Cardinality({v \in Waiters : waitStatus[v] # "none"}) + 1]
    /\ UNCHANGED <<now, request, rows, promotions, worker, timely, faults>>
-----------------------------------------------------------------------------
\* An update by id takes effect whatever the row's status is by now.
SetStatus(a, b, value) ==
    /\ status' = [status EXCEPT ![b] = value]
    /\ freed' = [freed EXCEPT ![a] = SlotOf[b]]
    /\ doing' = [doing EXCEPT ![a] = "reading"]

\* cancel, by the customer or the desk.
Cancel(a, b) ==
    /\ a \in Cancels
    /\ doing[a] = "idle"
    /\ status[b] # "none"
    /\ SetStatus(a, b, "cancelled")
    /\ UNCHANGED <<now, request, seat, expiresAt, waitlist, expired, next, timely, faults>>

\* expireHolds: the rows to release are read first, then released one by one.
SweepRows(a, snapshot) ==
    /\ a \in Sweeps
    /\ doing[a] = "idle"
    /\ doing' = [doing EXCEPT ![a] = "sweeping"]
    /\ expired' = [expired EXCEPT ![a] = snapshot]
    /\ UNCHANGED <<now, request, rows, waitlist, freed, next, timely, faults>>

\* Mutants: the sweep reads all holds; it compares the wrong way round.
StartSweep_AllHolds(a) == SweepRows(a, {b \in Requests : status[b] = "held"})
StartSweep_NotYetExpired(a) == SweepRows(a, {b \in Requests : status[b] = "held" /\ expiresAt[b] > now})

StartSweep(a) == SweepRows(a, {b \in Requests : HasExpired(b, now)})

ReleaseAs(a, value) ==
    /\ doing[a] = "sweeping"
    /\ \E b \in expired[a] :
          /\ SetStatus(a, b, value)
          /\ expired' = [expired EXCEPT ![a] = @ \ {b}]
    /\ UNCHANGED <<now, request, seat, expiresAt, waitlist, next, timely, faults>>

ReleaseExpired(a) == ReleaseAs(a, "released")

EndSweep(a) ==
    /\ doing[a] = "sweeping"
    /\ expired[a] = {}
    /\ doing' = [doing EXCEPT ![a] = "idle"]
    /\ UNCHANGED <<now, request, rows, waitlist, expired, freed, next, timely, faults>>

\* promoteWaitlist reads the oldest entry that is waiting for the slot ...
Waiting(s) == {w \in Waiters : waitStatus[w] = "waiting" /\ WaitsFor[w] = s}
AfterPromotion(a) == [doing EXCEPT ![a] = IF expired[a] = {} THEN "idle" ELSE "sweeping"]

ReadFrom(a, Chosen(_)) ==
    /\ doing[a] = "reading"
    /\ \/ /\ \E w \in Waiting(freed[a]) : Chosen(w) /\ next' = [next EXCEPT ![a] = w]
          /\ doing' = [doing EXCEPT ![a] = "promoting"]
          /\ UNCHANGED freed
       \/ /\ Waiting(freed[a]) = {}
          /\ doing' = AfterPromotion(a)
          /\ freed' = [freed EXCEPT ![a] = None]
          /\ UNCHANGED next
    /\ UNCHANGED <<now, request, rows, waitlist, expired, timely, faults>>

\* Mutant: findFirst without its orderBy.
ReadWaitlist_Unordered(a) == ReadFrom(a, LAMBDA w : TRUE)

ReadWaitlist(a) ==
    ReadFrom(a, LAMBDA w : \A v \in Waiting(freed[a]) : joinedAt[w] <= joinedAt[v])

\* ... and marks it promoted, whoever promoted it meanwhile.
Promote(a) ==
    /\ doing[a] = "promoting"
    /\ waitStatus' = [waitStatus EXCEPT ![next[a]] = "promoted"]
    /\ promotions' = [promotions EXCEPT ![next[a]] = @ + 1]
    /\ doing' = AfterPromotion(a)
    /\ freed' = [freed EXCEPT ![a] = None]
    /\ next' = [next EXCEPT ![a] = None]
    /\ UNCHANGED <<now, request, rows, joinedAt, expired, timely, faults>>

\* A database error ends the call; what it had done stays done.
CutShort(a) ==
    /\ doing[a] # "idle"
    /\ faults < MaxFaults
    /\ faults' = faults + 1
    /\ doing' = [doing EXCEPT ![a] = "idle"]
    /\ expired' = [expired EXCEPT ![a] = {}]
    /\ freed' = [freed EXCEPT ![a] = None]
    /\ next' = [next EXCEPT ![a] = None]
    /\ UNCHANGED <<now, request, rows, waitlist, timely>>

WorkerStep(a) ==
    \/ StartSweep(a) \/ ReleaseExpired(a) \/ EndSweep(a) \/ ReadWaitlist(a) \/ Promote(a)

Next ==
    \/ Tick
    \/ \E r \in Requests : AskHold(r) \/ FreeExpired(r) \/ ClaimSeat(r) \/ Confirm(r)
    \/ \E w \in Waiters : JoinWaitlist(w)
    \/ \E a \in Workers : WorkerStep(a) \/ CutShort(a) \/ \E b \in Requests : Cancel(a, b)

Spec == Init /\ [][Next]_vars

\* Time passes, the cron sweeps again and again, a call not cut short runs on.
FairSpec == Spec /\ WF_vars(Tick) /\ \A a \in Workers : WF_vars(WorkerStep(a))
-----------------------------------------------------------------------------
\* "No two ACTIVE claims on the same resource+slot" (the migration that creates
\* bookings_active_slot_uidx), whatever requests, confirmations and sweeps
\* interleave: no two active bookings share a seat of a slot.
NoDoubleBooking ==
    \A b, c \in Active : SlotOf[b] = SlotOf[c] /\ seat[b] = seat[c] => b = c

\* A boat is never sold to more people than it carries.
WithinCapacity ==
    \A s \in Slots : Cardinality({b \in Active : SlotOf[b] = s}) <= Capacity[s]

\* A booking confirmed while its hold still ran is lost to a cancellation only,
\* never to a sweep or to another request's release of stale holds, although
\* both read or decide at one time and write at another.
TimelyConfirmKept ==
    [][\A b \in timely : status[b] = "confirmed" => status'[b] \in {"confirmed", "cancelled"}]_vars

\* The waitlist is served in order of arrival even when promotions race on a
\* stale findFirst: an entry is promoted only after those that came before it.
WaitlistFIFO ==
    \A v, w \in Waiters :
        /\ waitStatus[w] = "promoted" /\ waitStatus[v] # "none"
        /\ WaitsFor[v] = WaitsFor[w] /\ joinedAt[v] < joinedAt[w]
        => waitStatus[v] = "promoted"

\* No hold outlives its TTL for ever: it is confirmed, cancelled or released.
HoldsEnd == \A b \in Requests : (status[b] = "held") ~> (status[b] # "held")
-----------------------------------------------------------------------------
\* Why these hold. A request without a booking has no row. An active booking has
\* a seat the slot has.
RowsInv ==
    /\ \A r \in Requests : asked[r] # "held" => status[r] = "none"
    /\ \A b \in Active : seat[b] \in 1 .. Capacity[SlotOf[b]]

\* What a sweep still has to release had run out when it looked, so whatever has
\* become of it since, it was not confirmed in time.
SweepInv ==
    /\ \A b \in timely : status[b] \in {"confirmed", "cancelled"}
    /\ \A a \in Workers, b \in Requests : b \in expired[a] =>
          /\ b \notin timely
          /\ status[b] # "none"
          /\ status[b] = "held" => expiresAt[b] < now

\* An entry in hand has no one before it who is still waiting, and whoever joins
\* later is numbered later.
Joined == {w \in Waiters : waitStatus[w] # "none"}
FirstInLine(w) ==
    \A v \in Joined : WaitsFor[v] = WaitsFor[w] /\ joinedAt[v] < joinedAt[w]
                         => waitStatus[v] = "promoted"
WaitlistInv ==
    /\ \A w \in Joined : joinedAt[w] <= Cardinality(Joined)
    /\ \A a \in Workers : doing[a] = "promoting" =>
          next[a] \in Joined /\ FirstInLine(next[a])

IInv == TypeOK /\ NoDoubleBooking /\ RowsInv /\ SweepInv /\ WaitlistFIFO /\ WaitlistInv

\* The table with its partial index is a register of seats with one claim each.
Claims == INSTANCE Seats WITH Bookings <- Requests,
                              claims <- {<<SlotOf[b], seat[b], b>> : b \in Active}
SeatsSpec == Claims!Spec
=============================================================================
