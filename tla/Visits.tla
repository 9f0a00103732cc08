-------------------------------- MODULE Visits --------------------------------
(* The visits of cleaning subscriptions, and the seats they take in slots.     *)
(* A slot keeps a counter of the seats taken, and everyone who books, moves,   *)
(* cancels or deletes a visit keeps it up himself:                             *)
(*   - the customer picks a weekday: schedule_cleaning_subscription, one       *)
(*     transaction (src/supabase/migrations/20260812060018);                   *)
(*   - a partner books: src/src/integrations/integrations.service.ts;          *)
(*   - the customer moves a visit: src/src/account/account-cleaning.service.ts; *)
(*   - the admin reserves, edits, deletes, cancels and deletes subscriptions:  *)
(*     src/src/admin/admin.service.ts;                                         *)
(*   - the daily sweep: src/src/account/subscription-expiration.service.ts.    *)
(* Requests are jobs of a worker, split at each call to the database. There is *)
(* one slot a day, named by the day. Prisma writes statuses in capitals, REST  *)
(* and SQL in small letters, and neither reads the other's.                    *)
EXTENDS Integers, FiniteSets

CONSTANTS
    Subs, Visits, Workers,
    LastDay,     \* bound: days are 0..LastDay
    MaxBookings, \* seats of a slot
    MaxRequests, \* bound: requests in all
    None

Slots == 0..LastDay
\* late is a ghost: the visit was given another day when its own was over.
Visit == [sub: Subs, slot: Slots, recurring: BOOLEAN, late: BOOLEAN,
          status: {"booked", "BOOKED", "cancelled", "CANCELLED", "COMPLETED"}]

ASSUME VisitsAssumption ==
    /\ LastDay \in Nat /\ MaxRequests \in Nat /\ MaxBookings \in Nat \ {0}
    /\ IsFiniteSet(Visits)
    /\ None \notin Subs \cup Visit

VARIABLES
    today,
    sub,      \* subscription_status; all are paid for
    count,    \* current_bookings of the slots
    visit,    \* cleaning_bookings
    job,      \* the request every worker serves
    drift,    \* ghost: something happened after which the counters may be wrong
    requests  \* bound: requests so far

vars == <<today, sub, count, visit, job, drift, requests>>

Steps == {"idle", "scheduling", "booking", "bumping", "activating", "moving", "taking",
          "reserving", "inserting", "cancelling", "cancelVisits", "deleting", "dropping",
          "removing", "freeing", "sweeping", "sweepVisits"}

Nothing == [t \in Slots |-> None]

\* What a worker holds: the slot it takes and the count it read of it, ids of
\* visits, the seats to free with the counts read for that, and what comes then.
Idle == [at |-> "idle", sub |-> None, slot |-> 0, seen |-> 0, ids |-> {},
         seats |-> [t \in Slots |-> 0], read |-> Nothing, next |-> "idle"]
Job == [at: Steps, sub: Subs \cup {None}, slot: Slots, seen: Nat, ids: SUBSET Visits,
        seats: [Slots -> Nat], read: [Slots -> Nat \cup {None}], next: Steps]

TypeOK ==
    /\ today \in Slots
    /\ sub \in [Subs -> {"pending_schedule", "active", "cancelled", "expired", "deleted"}]
    /\ count \in [Slots -> Nat]
    /\ visit \in [Visits -> Visit \cup {None}]
    /\ job \in [Workers -> Job]
    /\ drift \in BOOLEAN
    /\ requests \in 0..MaxRequests

Init ==
    /\ today = 0
    /\ sub = [s \in Subs |-> "pending_schedule"]
    /\ count = [t \in Slots |-> 0]
    /\ visit = [v \in Visits |-> None]
    /\ job = [w \in Workers |-> Idle]
    /\ drift = FALSE
    /\ requests = 0

Of(s) == {v \in Visits : visit[v] # None /\ visit[v].sub = s}
Booked == {v \in Visits : visit[v] # None /\ visit[v].status = "booked"}
Future == {v \in Visits : visit[v] # None /\ visit[v].slot >= today}
SeatsOf(ids) == [t \in Slots |-> Cardinality({v \in ids : visit[v].slot = t})]
Full(t) == count[t] >= MaxBookings

Do(w, j) == job' = [job EXCEPT ![w] = j]
Ends(w) == Do(w, Idle)
At(w, step) == job[w].at = step

\* A request that runs beside another, or across midnight, may go by what is no
\* longer so.
Starts(w, j) ==
    /\ job[w] = Idle /\ Do(w, j)
    /\ requests < MaxRequests /\ requests' = requests + 1
    /\ drift' = (drift \/ \E other \in Workers : job[other] # Idle)

Frees(w, ids, next) ==
    Do(w, [job[w] EXCEPT !.at = "freeing", !.ids = {}, !.seats = SeatsOf(ids), !.next = next])

Fresh == \E v \in Visits : visit[v] = None
Inserts(s, t, recurring) ==
    LET v == CHOOSE v \in Visits : visit[v] = None
    IN  /\ Fresh
        /\ visit' = [visit EXCEPT ![v] =
               [sub |-> s, slot |-> t, status |-> "booked", recurring |-> recurring,
                late |-> FALSE]]
Cancels(ids) ==
    visit' = [v \in Visits |-> IF v \in ids THEN [visit[v] EXCEPT !.status = "cancelled"]
                               ELSE visit[v]]
-----------------------------------------------------------------------------
NewDay ==
    /\ today < LastDay /\ today' = today + 1
    /\ drift' = (drift \/ \E w \in Workers : job[w] # Idle)
    /\ UNCHANGED <<sub, count, visit, job, requests>>

\* Mutant: the subscription is read without FOR UPDATE.
Locked_Never(s) == FALSE

Locked(s) == \E w \in Workers : At(w, "scheduling") /\ job[w].sub = s

\* schedule_cleaning_subscription reads what will be given up, and refuses a slot
\* that is full of others ...
ScheduleRead(w, s, t) ==
    LET old == Of(s) \cap Booked \cap Future
    IN  /\ sub[s] \in {"pending_schedule", "active"} /\ ~Locked(s)
        /\ t >= today
        /\ Full(t) => \E v \in old : visit[v].slot = t
        /\ Starts(w, [Idle EXCEPT !.at = "scheduling", !.sub = s, !.slot = t, !.ids = old,
                      !.seats = SeatsOf(old)])
        /\ UNCHANGED <<today, sub, count, visit>>

Floor(n) == IF n > 0 THEN n ELSE 0

\* ... and commits: the seats of the old visits freed and a new one taken, from
\* what the counters are by then.
ScheduleCommit(w) ==
    LET j == job[w]
        old == {v \in j.ids : visit[v] # None}
        cancelled == [v \in Visits |->
            IF v \in old THEN [visit[v] EXCEPT !.status = "cancelled"] ELSE visit[v]]
        new == CHOOSE v \in Visits : visit[v] = None
    IN  /\ At(w, "scheduling") /\ Fresh
        /\ count' = [t \in Slots |->
              Floor(count[t] - j.seats[t]) + (IF t = j.slot THEN 1 ELSE 0)]
        /\ visit' = [cancelled EXCEPT ![new] =
              [sub |-> j.sub, slot |-> j.slot, status |-> "booked", recurring |-> TRUE,
               late |-> FALSE]]
        /\ sub' = [sub EXCEPT ![j.sub] = "active"]
        /\ Ends(w)
        /\ UNCHANGED <<today, drift, requests>>
-----------------------------------------------------------------------------
\* A partner books: insert, set the counter by what was read, activate what was
\* pending, each by id.
BookRead(w, s, t) ==
    /\ sub[s] \in {"pending_schedule", "active"}
    /\ t >= today /\ ~Full(t)
    /\ Starts(w, [Idle EXCEPT !.at = "booking", !.sub = s, !.slot = t, !.seen = count[t],
                  !.next = IF sub[s] = "pending_schedule" THEN "activating" ELSE "idle"])
    /\ UNCHANGED <<today, sub, count, visit>>

BookInsert(w) ==
    /\ At(w, "booking")
    /\ Inserts(job[w].sub, job[w].slot, FALSE)
    /\ Do(w, [job[w] EXCEPT !.at = "bumping"])
    /\ UNCHANGED <<today, sub, count, drift, requests>>

Taken(w) == [count EXCEPT ![job[w].slot] = job[w].seen + 1]

BookBump(w) ==
    /\ At(w, "bumping")
    /\ count' = Taken(w)
    /\ IF job[w].next = "idle" THEN Ends(w) ELSE Do(w, [job[w] EXCEPT !.at = "activating"])
    /\ UNCHANGED <<today, sub, visit, drift, requests>>

BookActivate(w) ==
    /\ At(w, "activating") /\ ~Locked(job[w].sub)
    /\ sub[job[w].sub] # "deleted"
    /\ sub' = [sub EXCEPT ![job[w].sub] = "active"]
    /\ Ends(w)
    /\ UNCHANGED <<today, count, visit, drift, requests>>

\* The customer moves a visit, one whose day is over too: the visit first, then
\* the old seat, then the new. It stays a visit of the schedule if it was one.
MoveRead(w, v, t) ==
    /\ visit[v] # None /\ visit[v].status \in {"booked", "BOOKED"}
    /\ t # visit[v].slot /\ ~Full(t)
    /\ Starts(w, [Idle EXCEPT !.at = "moving", !.slot = t, !.seen = count[t], !.ids = {v},
                  !.seats = SeatsOf({v})])
    /\ UNCHANGED <<today, sub, count, visit>>

MoveVisit(w) ==
    LET ids == {v \in job[w].ids : visit[v] # None}
    IN  /\ At(w, "moving")
        /\ visit' = [v \in Visits |->
              IF v \in ids THEN [visit[v] EXCEPT !.slot = job[w].slot,
                                                !.late = @ \/ visit[v].slot < today]
              ELSE visit[v]]
        /\ Do(w, [job[w] EXCEPT !.at = "freeing", !.ids = {}, !.next = "taking"])
        /\ UNCHANGED <<today, sub, count, drift, requests>>

\* ... or an admin reserves for a subscription, whatever its status: the seat
\* first, the visit last.
ReserveRead(w, s, t) ==
    /\ sub[s] # "deleted" /\ ~Full(t)
    /\ Starts(w, [Idle EXCEPT !.at = "reserving", !.sub = s, !.slot = t, !.seen = count[t]])
    /\ UNCHANGED <<today, sub, count, visit>>

\* The seat in the new slot, by the count read at first.
Take(w) ==
    /\ At(w, "taking") \/ At(w, "reserving")
    /\ count' = Taken(w)
    /\ IF At(w, "taking") THEN Ends(w) ELSE Do(w, [job[w] EXCEPT !.at = "inserting"])
    /\ UNCHANGED <<today, sub, visit, drift, requests>>

ReserveInsert(w) ==
    /\ At(w, "inserting")
    /\ Inserts(job[w].sub, job[w].slot, FALSE)
    /\ Ends(w)
    /\ UNCHANGED <<today, sub, count, drift, requests>>
-----------------------------------------------------------------------------
\* decrementSlotBookings, and its like: each slot is read and written back.
FreeRead(w, t) ==
    /\ At(w, "freeing") /\ job[w].seats[t] > 0 /\ job[w].read[t] = None
    /\ Do(w, [job[w] EXCEPT !.read[t] = count[t]])
    /\ UNCHANGED <<today, sub, count, visit, drift, requests>>

\* Mutant: not floored at zero.
Less_Unfloored(n, seats) == n - seats

Less(n, seats) == Floor(n - seats)

FreeWrite(w, t) ==
    /\ At(w, "freeing") /\ job[w].seats[t] > 0 /\ job[w].read[t] # None
    /\ count' = [count EXCEPT ![t] = Less(job[w].read[t], job[w].seats[t])]
    /\ Do(w, [job[w] EXCEPT !.seats[t] = 0, !.read[t] = None])
    /\ UNCHANGED <<today, sub, visit, drift, requests>>

FreeDone(w) ==
    /\ At(w, "freeing") /\ \A t \in Slots : job[w].seats[t] = 0
    /\ IF job[w].next = "idle" THEN Ends(w)
       ELSE Do(w, [job[w] EXCEPT !.at = job[w].next])
    /\ UNCHANGED <<today, sub, count, visit, drift, requests>>

\* cancelSubscription: the row, then its booked visits are listed; if any is to
\* come, all that are booked by now are cancelled, the past ones too, and the
\* seats of those listed are freed.
CancelSub(w, s) ==
    /\ sub[s] # "deleted" /\ ~Locked(s)
    /\ sub' = [sub EXCEPT ![s] = "cancelled"]
    /\ Starts(w, [Idle EXCEPT !.at = "cancelling", !.sub = s])
    /\ UNCHANGED <<today, count, visit>>

CancelFind(w) ==
    LET found == Of(job[w].sub) \cap Booked \cap Future
    IN  /\ At(w, "cancelling")
        /\ IF found = {} THEN Ends(w)
           ELSE Do(w, [job[w] EXCEPT !.at = "cancelVisits", !.seats = SeatsOf(found)])
        /\ UNCHANGED <<today, sub, count, visit, drift, requests>>

\* Mutant: the visits are cancelled and their seats kept.
CancelFrees_Not(w) == Ends(w)

CancelFrees(w) == Do(w, [job[w] EXCEPT !.at = "freeing"])

CancelVisits(w) ==
    /\ At(w, "cancelVisits")
    /\ Cancels(Of(job[w].sub) \cap Booked)
    /\ CancelFrees(w)
    /\ UNCHANGED <<today, sub, count, drift, requests>>

\* deleteSubscription: seats of all its visits, cancelled ones too, then the
\* visits, then the row.
DeleteFind(w, s) ==
    /\ sub[s] # "deleted"
    /\ Starts(w, [Idle EXCEPT !.at = "deleting", !.sub = s, !.ids = Of(s)])
    /\ UNCHANGED <<today, sub, count, visit>>

DeleteSeats(w) ==
    LET ids == {v \in job[w].ids : visit[v] # None}
    IN  /\ At(w, "deleting")
        /\ Frees(w, ids, "dropping")
        /\ drift' = (drift \/ ids \ Booked # {})
        /\ UNCHANGED <<today, sub, count, visit, requests>>

DeleteRows(w) ==
    LET s == job[w].sub
    IN  /\ At(w, "dropping") /\ ~Locked(s)
        /\ visit' = [v \in Visits |-> IF v \in Of(s) THEN None ELSE visit[v]]
        /\ sub' = [sub EXCEPT ![s] = "deleted"]
        /\ Ends(w)
        /\ UNCHANGED <<today, count, drift, requests>>

\* deleteCleaningBooking: a visit cancelled in small letters frees no seat.
RemoveRead(w, v) ==
    /\ visit[v] # None
    /\ Starts(w, [Idle EXCEPT !.at = "removing", !.ids = {v},
                  !.seats = SeatsOf(IF visit[v].status = "cancelled" THEN {} ELSE {v})])
    /\ UNCHANGED <<today, sub, count, visit>>

RemoveRow(w) ==
    /\ At(w, "removing")
    /\ \A v \in job[w].ids : visit[v] # None
    /\ visit' = [v \in Visits |-> IF v \in job[w].ids THEN None ELSE visit[v]]
    /\ Do(w, [job[w] EXCEPT !.at = "freeing", !.ids = {}])
    /\ UNCHANGED <<today, sub, count, drift, requests>>

\* updateCleaningBooking, completeCleaningBooking: a status in capitals, and the
\* counter left alone.
Edit(v, st) ==
    /\ visit[v] # None /\ st \in {"BOOKED", "CANCELLED", "COMPLETED"}
    /\ visit' = [visit EXCEPT ![v].status = st]
    /\ drift' = TRUE
    /\ UNCHANGED <<today, sub, count, job, requests>>

\* The sweep expires the subscription, lists the visits to come and the counts of
\* their slots, cancels those visits by id and writes the counts back.
Expire(w, s) ==
    /\ sub[s] = "active" /\ ~Locked(s)
    /\ sub' = [sub EXCEPT ![s] = "expired"]
    /\ Starts(w, [Idle EXCEPT !.at = "sweeping", !.sub = s])
    /\ UNCHANGED <<today, count, visit>>

SweepFind(w) ==
    LET found == Of(job[w].sub) \cap Booked \cap Future
    IN  /\ At(w, "sweeping")
        /\ IF found = {} THEN Ends(w)
           ELSE Do(w, [job[w] EXCEPT !.at = "sweepVisits", !.ids = found,
                       !.seats = SeatsOf(found), !.read = count])
        /\ UNCHANGED <<today, sub, count, visit, drift, requests>>

SweepVisits(w) ==
    /\ At(w, "sweepVisits")
    /\ Cancels({v \in job[w].ids : visit[v] # None})
    /\ Do(w, [job[w] EXCEPT !.at = "freeing", !.ids = {}])
    /\ UNCHANGED <<today, sub, count, drift, requests>>

\* A request fails or is killed; a transaction is rolled back.
CutShort(w) ==
    /\ job[w] # Idle
    /\ Ends(w)
    /\ drift' = TRUE
    /\ UNCHANGED <<today, sub, count, visit, requests>>

Step(w) ==
    \/ ScheduleCommit(w) \/ BookInsert(w) \/ BookBump(w) \/ BookActivate(w)
    \/ MoveVisit(w) \/ Take(w) \/ ReserveInsert(w) \/ FreeDone(w)
    \/ CancelFind(w) \/ CancelVisits(w) \/ DeleteSeats(w) \/ DeleteRows(w)
    \/ RemoveRow(w) \/ SweepFind(w) \/ SweepVisits(w)
    \/ \E t \in Slots : FreeRead(w, t) \/ FreeWrite(w, t)

Request(w) ==
    \/ \E s \in Subs : CancelSub(w, s) \/ DeleteFind(w, s) \/ Expire(w, s)
    \/ \E v \in Visits : RemoveRead(w, v)
    \/ \E s \in Subs, t \in Slots :
          ScheduleRead(w, s, t) \/ BookRead(w, s, t) \/ ReserveRead(w, s, t)
    \/ \E v \in Visits, t \in Slots : MoveRead(w, v, t)

Next ==
    \/ NewDay
    \/ \E v \in Visits, st \in {"BOOKED", "CANCELLED", "COMPLETED"} : Edit(v, st)
    \/ \E w \in Workers : Step(w) \/ CutShort(w) \/ Request(w)

Spec == Init /\ [][Next]_vars
-----------------------------------------------------------------------------
BookedIn(t) == Cardinality({v \in Booked : visit[v].slot = t})

\* One schedule a subscription: however often and however fast the customer picks
\* a weekday, and moves the visits picked, the visits of the schedule before are
\* given up. Two kinds of visits are not: those an admin saved as BOOKED, which
\* the function does not read, and those whose day was over when it read, which
\* the customer can still move to a day to come.
OneSchedule ==
    \A s \in Subs :
        Cardinality({v \in Of(s) \cap Booked \cap Future :
                        visit[v].recurring /\ ~visit[v].late}) <= 1

\* Through any sequence of requests that do not overlap, run to their end and
\* leave statuses to SQL, the counters of the days to come are the visits booked.
CountHonest ==
    ~drift /\ (\A w \in Workers : job[w] = Idle) =>
        \A t \in today..LastDay : count[t] = BookedIn(t)
=============================================================================
