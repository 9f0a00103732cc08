----------------------------- MODULE CalendarSync -----------------------------
(* Cleaning visits and their events in Google Calendar:                        *)
(* src/src/google-calendar/cleaning-calendar-sync.service.ts, with the calls   *)
(* of google-calendar.service.ts it makes and the calendars of                 *)
(* provider-calendar.service.ts. A visit's row remembers its event and the     *)
(* calendar it was written to; an event carries the id of its visit as a tag.  *)
(* Nothing joins the two: a sync reads the row, speaks to Google several times *)
(* and writes the row, and may be killed between any two of these, or find the *)
(* row changed. Syncs run beside each other: a customer's, of all visits of a  *)
(* subscription at once, the cron's, the admin's and the admin's repairs.      *)
(* Events of one title (one customer's) are told apart by day.                 *)
EXTENDS Integers, FiniteSets

CONSTANTS
    Visits,     \* cleaning_bookings, of one customer with one provider
    Syncs,      \* workers: the syncs and repairs that may run at once
    Days,       \* days a visit may be on
    MaxEvents,  \* bound: events ever created
    Changes,    \* bound: changes of a visit or the provider, and repairs
    Loads,      \* bound: syncs ever begun
    Strikes,    \* bound: how often a call fails or a process dies
    Repairs,    \* the repairs the admin may start: "reconcile", "restore"
    Blank

Calendars == {"shared", "own"}
Events == 1..MaxEvents
Row == [status: {"booked", "cancelled"}, day: Days, event: Events \cup {Blank},
        cal: Calendars \cup {Blank}, sync: {"pending", "synced", "failed"}]
Known == [status: {"booked", "cancelled"}, day: Days, event: Events \cup {Blank},
          cal: Calendars \cup {Blank}]
Event == [cal: Calendars, tag: Visits \cup {Blank}, day: Days, live: BOOLEAN]

ASSUME CalendarSyncAssumption ==
    /\ MaxEvents \in Nat \ {0} /\ Changes \in Nat /\ Strikes \in Nat /\ Loads \in Nat
    /\ Repairs \subseteq {"reconcile", "restore"}
    /\ Blank \notin Visits \cup Calendars /\ Blank \notin Events
    /\ Blank \notin Row /\ Blank \notin Known /\ Blank \notin Event

VARIABLES
    row,        \* the visits' rows, Blank once deleted
    home,       \* the calendar of the provider: the shared one, until it gets its own
    requeue,    \* the provider got its calendar, and its visits are still to be flagged
    cache,      \* calendarIdCache, for as long as the process lives
    event,      \* Google's events
    created,    \* how many there have been
    job,        \* what every worker is at
    stale,      \* ghost: visits whose row says "synced" over a change it did not see
    astray,     \* ghost: visits that a failure, a repair or two jobs of theirs at once
                \* left without their one event
    crossed,    \* ghost: visits whose sync had an event in hand with another visit's
    reopened,   \* ghost: cancelled visits that were set back to booked
    met,        \* ghost: workers whose job met another of the same visit or event, or a repair
    changes, strikes, loads

ghosts == <<stale, astray, crossed, reopened, met>>
google == <<event, created>>
calendarVars == <<row, home, requeue, cache, google, job, ghosts, changes, strikes, loads>>

\* What a sync has in hand: what it loaded of the row, the calendar it goes to and the
\* event it has settled on. A repair has a list, of events or of visits.
Idle == [at |-> "idle"]
Carrying == {"updating", "finding", "matching", "adopting", "creating", "storing"}
Writing == {"evicting", "owning"} \cup Carrying
Jobs ==
    {Idle}
    \cup [at: {"resolving"}, visit: Visits, seen: Known]
    \cup [at: Writing, visit: Visits, seen: Known, to: Calendars, event: Events \cup {Blank}]
    \cup [at: {"failing", "removed"}, visit: Visits]
    \cup [at: {"cancelling", "removing"}, visit: Visits, event: Events \cup {Blank}]
    \cup [at: {"reconciling"}, todo: SUBSET (Events \X Visits \X Calendars),
          kept: SUBSET (Visits \X Calendars)]
    \cup [at: {"restoring"}, todo: SUBSET Visits, seen: [Visits -> Known \cup {Blank}]]

CalendarTypeOK ==
    /\ row \in [Visits -> Row \cup {Blank}]
    /\ home \in Calendars /\ requeue \in BOOLEAN
    /\ cache \in [Visits -> Calendars \cup {Blank}]
    /\ event \in [Events -> Event \cup {Blank}]
    /\ created \in 0..MaxEvents
    /\ job \in [Syncs -> Jobs]
    /\ stale \subseteq Visits /\ astray \subseteq Visits
    /\ crossed \subseteq Visits /\ reopened \subseteq Visits /\ met \subseteq Syncs
    /\ changes \in 0..Changes /\ strikes \in 0..Strikes /\ loads \in 0..Loads

\* New visits; an older sync may have left an event without a tag.
CalendarInit ==
    /\ row \in [Visits -> [status: {"booked"}, day: Days, event: {Blank}, cal: {Blank},
                           sync: {"pending"}]]
    /\ home = "shared" /\ requeue = FALSE
    /\ cache = [v \in Visits |-> Blank]
    /\ \E d \in Days \cup {Blank} :
          /\ event = [e \in Events |-> IF e = 1 /\ d # Blank
                         THEN [cal |-> "shared", tag |-> Blank, day |-> d, live |-> TRUE]
                         ELSE Blank]
          /\ created = IF d = Blank THEN 0 ELSE 1
    /\ job = [w \in Syncs |-> Idle]
    /\ stale = {} /\ astray = {} /\ crossed = {} /\ reopened = {} /\ met = {}
    /\ changes = 0 /\ strikes = 0 /\ loads = 0

Do(w, j) == job' = [job EXCEPT ![w] = j]
Starts(w, j) == job[w] = Idle /\ Do(w, j)
Ends(w) == Do(w, Idle) /\ met' = met \ {w}
Goes(w, at) == Do(w, [job[w] EXCEPT !.at = at])
GoesWith(w, at, e) == Do(w, [job[w] EXCEPT !.at = at, !.event = e])
Strike == strikes < Strikes /\ strikes' = strikes + 1
Change == changes < Changes /\ changes' = changes + 1

Seen(v) == [status |-> row[v].status, day |-> row[v].day, event |-> row[v].event,
            cal |-> row[v].cal]

On(cal) == {e \in Events : event[e] # Blank /\ event[e].cal = cal}
Live(cal) == {e \in On(cal) : event[e].live}
Tagged(v, cal) == {e \in Live(cal) : event[e].tag = v}
Keeping(es) == {v \in Visits : row[v] # Blank /\ row[v].event \in es}
Without(es) == [e \in Events |-> IF e \in es THEN Blank ELSE event[e]]

\* For the ghosts: whom a job serves, which jobs a new one meets, which other
\* visit's sync has an event in hand.
Repairing(w) == job[w].at \in {"reconciling", "restoring"}
Serves(w) == IF job[w] = Idle \/ Repairing(w) THEN {} ELSE {job[w].visit}
Beside(w, vs) == {x \in Syncs \ {w} : Repairing(x) \/ Serves(x) \cap vs # {}}
Meets(w, vs) == met' = IF Beside(w, vs) = {} THEN met ELSE met \cup {w} \cup Beside(w, vs)
Rivals(w, e) ==
    {x \in Syncs : job[x].at \in Carrying /\ job[x].event = e /\ job[x].visit # job[w].visit}
Visiting(ws) == {job[x].visit : x \in ws}

\* A sync takes an event: its own, one it found or one it adopts.
Takes(w, at, e) ==
    LET rivals == Rivals(w, e)
        all == IF rivals = {} THEN {} ELSE {w} \cup rivals
    IN  /\ GoesWith(w, at, e)
        /\ crossed' = crossed \cup Visiting(all) /\ met' = met \cup all

\* A sync or a removal begins.
Begins(w, v, j) ==
    /\ Starts(w, j) /\ Meets(w, {v})
    /\ astray' = IF Beside(w, {v}) = {} THEN astray ELSE astray \cup {v}
    /\ UNCHANGED <<stale, crossed, reopened>>

\* A call to Google that fails, a lookup that is answered by nobody, ends in the
\* catch: the row is to say "failed".
Throws(w) == Do(w, [at |-> "failing", visit |-> job[w].visit])
-----------------------------------------------------------------------------
\* The world. A customer moves a visit, or it is cancelled and flagged; the admin's
\* cancellation of a subscription does not flag it but removes the event.
Reschedule(v, d) ==
    /\ row[v] # Blank /\ row[v].status = "booked" /\ row[v].day # d /\ Change
    /\ row' = [row EXCEPT ![v].day = d, ![v].sync = "pending"]
    /\ UNCHANGED <<home, requeue, cache, google, job, ghosts, strikes, loads>>

CancelVisit(v) ==
    /\ row[v] # Blank /\ row[v].status = "booked" /\ Change
    /\ row' = [row EXCEPT ![v].status = "cancelled", ![v].sync = "pending"]
    /\ UNCHANGED <<home, requeue, cache, google, job, ghosts, strikes, loads>>

\* The admin sets a cancelled visit back to booked, in the same form.
Reopen(v) ==
    /\ row[v] # Blank /\ row[v].status = "cancelled"
    /\ row' = [row EXCEPT ![v].status = "booked", ![v].sync = "pending"]
    /\ reopened' = reopened \cup {v}
    /\ UNCHANGED <<home, requeue, cache, google, job, stale, astray, crossed, met,
                    changes, strikes, loads>>

CancelRemoves(w, v) ==
    /\ row[v] # Blank /\ row[v].status = "booked" /\ Change
    /\ row' = [row EXCEPT ![v].status = "cancelled"]
    /\ Begins(w, v, [at |-> "cancelling", visit |-> v, event |-> row[v].event])
    /\ UNCHANGED <<home, requeue, cache, google, strikes, loads>>

\* provisionProvider gives the provider a calendar of its own, and then flags the
\* visits that have an event.
Provision ==
    /\ home = "shared" /\ Change
    /\ home' = "own" /\ requeue' = TRUE
    /\ UNCHANGED <<row, cache, google, job, ghosts, strikes, loads>>

Requeue ==
    /\ requeue /\ requeue' = FALSE
    /\ row' = [v \in Visits |->
                  IF row[v] # Blank /\ row[v].event # Blank
                  THEN [row[v] EXCEPT !.sync = "pending"] ELSE row[v]]
    /\ UNCHANGED <<home, cache, google, job, ghosts, changes, strikes, loads>>
-----------------------------------------------------------------------------
OutOfDate(v) == row[v].sync \in {"pending", "failed"}

\* The cron takes what is out of date; a customer and the admin may sync any visit.
Load(w, v) ==
    /\ row[v] # Blank
    /\ loads < Loads /\ loads' = loads + 1
    /\ Begins(w, v, [at |-> "resolving", visit |-> v, seen |-> Seen(v)])
    /\ UNCHANGED <<row, home, requeue, cache, google, changes, strikes>>

CronLoad(w, v) == row[v] # Blank /\ OutOfDate(v) /\ Load(w, v)

\* Whether the visit has its event on another calendar than it goes to.
MovedTo(j, cal) == j.seen.event # Blank /\ j.seen.cal \notin {Blank, cal}

\* With an event the visit goes on to look whose it is, without to search for one.
Onward(e) == IF e = Blank THEN "finding" ELSE "owning"

\* The calendar comes from the cache; a failed lookup caches the shared one.
ResolveTo(w, cal) ==
    LET j == job[w]
    IN  /\ cache' = [cache EXCEPT ![j.visit] = cal]
        /\ Do(w, [at |-> IF MovedTo(j, cal) THEN "evicting" ELSE Onward(j.seen.event),
                  visit |-> j.visit, seen |-> j.seen, to |-> cal, event |-> j.seen.event])
        /\ UNCHANGED <<row, home, requeue, google, ghosts, changes, loads>>

Resolve(w) ==
    /\ job[w].at = "resolving"
    /\ LET known == cache[job[w].visit]
       IN  \/ ResolveTo(w, IF known # Blank THEN known ELSE home) /\ UNCHANGED strikes
           \/ known = Blank /\ ResolveTo(w, "shared") /\ Strike

\* An event on another calendar is deleted there. Best effort: the visit carries on
\* without it even if that stays.
Evict(w) ==
    LET e == job[w].event
    IN  /\ job[w].at = "evicting"
        /\ GoesWith(w, "finding", Blank)
        /\ astray' = astray \cup {job[w].visit} \cup Keeping({e}) \cup Visiting(Rivals(w, e))
        /\ met' = met \cup Rivals(w, e)
        /\ \/ event' = Without({e} \cap On(job[w].seen.cal)) /\ UNCHANGED strikes
           \/ Strike /\ UNCHANGED event
        /\ UNCHANGED <<row, home, requeue, cache, created, stale, crossed, reopened, changes, loads>>

\* Mutant: nobody looks whether another visit has the event.
Taken_Never(e, v) == FALSE

\* Does a visit that is not cancelled point at this event already?
Taken(e, v) == \E u \in Visits \ {v} :
    row[u] # Blank /\ row[u].status # "cancelled" /\ row[u].event = e

\* An event shared with another visit is given up; so is one nobody can tell about.
Own(w) ==
    LET e == job[w].event
    IN  /\ job[w].at = "owning"
        /\ \/ ~Taken(e, job[w].visit) /\ Takes(w, "updating", e) /\ UNCHANGED <<astray, strikes>>
           \/ /\ Taken(e, job[w].visit) /\ GoesWith(w, "finding", Blank)
              /\ UNCHANGED <<astray, crossed, met, strikes>>
           \/ /\ GoesWith(w, "finding", Blank) /\ Strike
              /\ astray' = astray \cup {job[w].visit} /\ UNCHANGED <<crossed, met>>
        /\ UNCHANGED <<row, home, requeue, cache, google, stale, reopened, changes, loads>>

\* PATCH: the event shows the visit as it was loaded, or is cancelled with it.
Patched(w) == [cal |-> job[w].to, tag |-> job[w].visit, day |-> job[w].seen.day,
               live |-> job[w].seen.status = "booked"]

\* An event that is cancelled stays so: a PATCH without a status does not revive it.
Patch(w, e) ==
    /\ event' = [event EXCEPT ![e] = [Patched(w) EXCEPT !.live = @ /\ event[e].live]]
    /\ GoesWith(w, "storing", e)
    /\ UNCHANGED <<row, home, requeue, cache, created, ghosts, changes, strikes, loads>>

\* The stored event is updated, unless it is not on this calendar.
Update(w) ==
    LET e == job[w].event
    IN  /\ job[w].at = "updating"
        /\ IF e \in On(job[w].to) THEN Patch(w, e)
           ELSE /\ Goes(w, "finding")
                /\ UNCHANGED <<row, home, requeue, cache, google, ghosts, changes, strikes, loads>>

\* Mutant: the search looks on the shared calendar, as it does without a calendar id.
Found_Shared(w) == Tagged(job[w].visit, "shared")

Found(w) == Tagged(job[w].visit, job[w].to)

\* Events tagged with the visit: one is kept, the others go. A search that fails
\* finds nothing, and a deletion that fails leaves a second one.
Find(w) ==
    LET v == job[w].visit
        found == Found(w)
    IN  /\ job[w].at = "finding"
        /\ \/ /\ found = {}
              /\ Goes(w, "matching") /\ UNCHANGED <<event, astray, crossed, met, strikes>>
           \/ \E keep \in found :
              /\ Takes(w, "adopting", keep)
              /\ event' = Without(found \ {keep}) /\ UNCHANGED <<astray, strikes>>
           \/ /\ Strike /\ found # {} /\ Goes(w, "matching")
              /\ astray' = astray \cup {v} /\ UNCHANGED <<event, crossed, met>>
        /\ UNCHANGED <<row, home, requeue, cache, created, stale, reopened, changes, loads>>

\* An event of the same title on the same day is adopted, unless another visit's;
\* a search or a lookup that fails is an answer against it.
Match(w) ==
    LET same == {e \in Live(job[w].to) : event[e].day = job[w].seen.day}
        \* A new one, but not for a visit that is cancelled.
        new == IF job[w].seen.status = "cancelled" THEN "storing" ELSE "creating"
    IN  /\ job[w].at = "matching"
        /\ \/ \E e \in same :
                 ~Taken(e, job[w].visit) /\ Takes(w, "adopting", e) /\ UNCHANGED strikes
           \/ /\ Goes(w, new) /\ UNCHANGED <<crossed, met>>
              /\ \/ same = {} /\ UNCHANGED strikes
                 \/ \E e \in same : Taken(e, job[w].visit) /\ UNCHANGED strikes
                 \/ same # {} /\ Strike
        /\ UNCHANGED <<row, home, requeue, cache, google, stale, astray, reopened, changes, loads>>

\* An event found is updated; if it went meanwhile, the sync has failed.
Adopt(w) ==
    /\ job[w].at = "adopting"
    /\ IF job[w].event \in On(job[w].to) THEN Patch(w, job[w].event)
       ELSE /\ Throws(w)
            /\ UNCHANGED <<row, home, requeue, cache, google, ghosts, changes, strikes, loads>>

\* None of that: a new event.
Create(w) ==
    /\ job[w].at = "creating"
    /\ created < MaxEvents /\ created' = created + 1
    /\ event' = [event EXCEPT ![created'] = Patched(w)]
    /\ GoesWith(w, "storing", created')
    /\ UNCHANGED <<row, home, requeue, cache, ghosts, changes, strikes, loads>>

\* Mutant: the calendar it went to is not remembered.
StoredAt_Forgotten(w) == Blank

StoredAt(w) == job[w].to

\* patchBooking: whatever the row has become since. For the ghosts: a sync that met
\* no other, and saw the visit as it is, leaves it with its one event, live if booked.
Store(w) ==
    LET v == job[w].visit
        same == row[v] # Blank /\ row[v].day = job[w].seen.day /\ row[v].status = job[w].seen.status
        booked == job[w].seen.status = "booked"
        mended == IF /\ w \notin met
                     /\ \A cal \in Calendars : Tagged(v, cal) \subseteq {job[w].event}
                     /\ booked => job[w].event \in Live(job[w].to)
                  THEN {v} ELSE {}
    IN  /\ job[w].at = "storing" /\ Ends(w)
        /\ row' = IF row[v] = Blank THEN row
                  ELSE [row EXCEPT ![v].event = job[w].event, ![v].cal = StoredAt(w),
                                   ![v].sync = "synced"]
        /\ stale' = IF same THEN stale \ {v} ELSE stale \cup {v}
        /\ astray' = astray \ mended /\ crossed' = crossed \ mended
        /\ reopened' = IF booked THEN reopened \ mended ELSE reopened
        /\ UNCHANGED <<home, requeue, cache, google, changes, strikes, loads>>

\* markSyncFailed.
Fail(w) ==
    LET v == job[w].visit
    IN  /\ job[w].at = "failing" /\ Ends(w)
        /\ row' = IF row[v] = Blank THEN row ELSE [row EXCEPT ![v].sync = "failed"]
        /\ UNCHANGED <<home, requeue, cache, google, stale, astray, crossed, reopened,
                        changes, strikes, loads>>

GoogleFails(w) ==
    /\ job[w].at \in {"updating", "adopting", "creating", "storing"}
    /\ Strike /\ Throws(w)
    /\ UNCHANGED <<row, home, requeue, cache, google, ghosts, changes, loads>>
-----------------------------------------------------------------------------
\* deleteCalendarEventForBooking looks on the shared calendar alone.
DeleteVisit(w, v) ==
    /\ row[v] # Blank /\ Change
    /\ Begins(w, v, [at |-> "removing", visit |-> v, event |-> row[v].event])
    /\ UNCHANGED <<row, home, requeue, cache, google, strikes, loads>>

Removes(v, e) == IF e # Blank THEN {e} \cap On("shared") ELSE Tagged(v, "shared")

\* The row of a deleted visit goes after its event, even if that stayed; another
\* visit may have adopted the event.
Remove(w) ==
    LET v == job[w].visit
        es == Removes(v, job[w].event)
        rivals == UNION {Rivals(w, e) : e \in es}
        dropping == job[w].at = "removing"
        mets == IF dropping THEN met ELSE met \ {w}
    IN  /\ job[w].at \in {"cancelling", "removing"}
        /\ Do(w, IF dropping THEN [at |-> "removed", visit |-> v] ELSE Idle)
        /\ \/ /\ event' = Without(es) /\ UNCHANGED <<row, strikes>>
              /\ astray' = astray \cup {v} \cup Keeping(es) \cup Visiting(rivals)
              /\ met' = mets \cup rivals
           \/ /\ es # {} /\ Strike /\ UNCHANGED <<event, astray>> /\ met' = mets
              /\ row' = IF row[v] = Blank THEN row ELSE [row EXCEPT ![v].sync = "failed"]
        /\ UNCHANGED <<home, requeue, cache, created, stale, crossed, reopened, changes, loads>>

DropRow(w) ==
    /\ job[w].at = "removed" /\ Ends(w)
    /\ row' = [row EXCEPT ![job[w].visit] = Blank]
    /\ UNCHANGED <<home, requeue, cache, google, stale, astray, crossed, reopened,
                    changes, strikes, loads>>
-----------------------------------------------------------------------------
\* For the ghosts: the visits that have a job when a repair begins.
Engaged(w) == UNION {Serves(x) : x \in Syncs \ {w}}

\* The admin reconciles: the live events of all calendars in use are listed ...
ReconcileList(w) ==
    /\ "reconcile" \in Repairs /\ Change
    /\ Starts(w, [at |-> "reconciling", kept |-> {},
                  todo |-> {<<e, event[e].tag, event[e].cal>> :
                               e \in {f \in Live("shared") \cup Live(home) : event[f].tag # Blank}}])
    /\ Meets(w, Visits) /\ astray' = astray \cup Engaged(w)
    /\ UNCHANGED <<row, home, requeue, cache, google, stale, crossed, reopened, strikes, loads>>

\* The row names a calendar, and it is another one.
Moved(v, cal) == row[v].cal \notin {Blank, cal}

\* ... and one after the other, as it was listed, looked up: orphans go, those left
\* behind by a move, and all but the first of a visit that is not cancelled.
ReconcileEvent(w, e, v, cal) ==
    LET again == <<v, cal>> \in job[w].kept
        gone == row[v] = Blank \/ Moved(v, cal) \/ (row[v].status = "booked" /\ again)
    IN  /\ job[w].at = "reconciling" /\ <<e, v, cal>> \in job[w].todo
        /\ event' = IF gone THEN Without({e}) ELSE event
        /\ Do(w, [job[w] EXCEPT !.todo = @ \ {<<e, v, cal>>},
                                !.kept = IF gone \/ row[v].status = "cancelled" THEN @
                                         ELSE @ \cup {<<v, cal>>}])
        /\ UNCHANGED <<row, home, requeue, cache, created, ghosts, changes, strikes, loads>>

\* The admin restores: every cleaning event on the shared calendar is deleted, and
\* one created for every visit that was read before; killed in between, it leaves
\* visits that say "synced" without an event.
RestoreWipe(w) ==
    /\ "restore" \in Repairs /\ Change
    /\ Starts(w, [at |-> "restoring",
                  seen |-> [v \in Visits |-> IF row[v] = Blank THEN Blank ELSE Seen(v)],
                  todo |-> {v \in Visits : row[v] # Blank}])
    /\ event' = Without(Live("shared"))
    /\ Meets(w, Visits)
    /\ astray' = astray \cup Engaged(w) \cup ({event[e].tag : e \in Live("shared")} \ {Blank})
    /\ UNCHANGED <<row, home, requeue, cache, created, stale, crossed, reopened, strikes, loads>>

\* The calendar is not written: a visit whose row names none, or the provider's own,
\* has two events before long, for nothing tells a later sync to evict this one.
RestoreVisit(w, v) ==
    LET seen == job[w].seen[v]
        mended == /\ w \notin met /\ row[v] # Blank
                  /\ row[v].cal = "shared" /\ Tagged(v, "own") = {}
    IN  /\ job[w].at = "restoring" /\ v \in job[w].todo
        /\ created < MaxEvents /\ created' = created + 1
        /\ event' = [event EXCEPT ![created'] =
                        [cal |-> "shared", tag |-> v, day |-> seen.day, live |-> TRUE]]
        /\ row' = IF row[v] = Blank THEN row
                  ELSE [row EXCEPT ![v].event = created', ![v].sync = "synced"]
        /\ stale' = IF row[v] # Blank /\ row[v].day = seen.day /\ row[v].status = seen.status
                    THEN stale \ {v} ELSE stale \cup {v}
        /\ astray' = IF mended THEN astray \ {v} ELSE astray \cup {v}
        /\ crossed' = IF mended THEN crossed \ {v} ELSE crossed
        /\ reopened' = IF mended THEN reopened \ {v} ELSE reopened
        /\ Do(w, [job[w] EXCEPT !.todo = @ \ {v}])
        /\ UNCHANGED <<home, requeue, cache, met, changes, strikes, loads>>

RepairEnds(w) ==
    /\ Repairing(w) /\ job[w].todo = {} /\ Ends(w)
    /\ UNCHANGED <<row, home, requeue, cache, google, stale, astray, crossed, reopened,
                    changes, strikes, loads>>

\* The process dies, and its cache with it.
Restart ==
    /\ Strike
    /\ job' = [w \in Syncs |-> Idle] /\ met' = {}
    /\ cache' = [v \in Visits |-> Blank]
    /\ UNCHANGED <<row, home, requeue, google, stale, astray, crossed, reopened, changes, loads>>
-----------------------------------------------------------------------------
SyncStep(w) ==
    \/ Resolve(w) \/ Evict(w) \/ Own(w) \/ Update(w) \/ Find(w) \/ Match(w)
    \/ Adopt(w) \/ Create(w) \/ Store(w) \/ Fail(w)

RepairStep(w) ==
    \/ Remove(w) \/ DropRow(w) \/ RepairEnds(w)
    \/ job[w].at = "reconciling" /\ \E t \in job[w].todo : ReconcileEvent(w, t[1], t[2], t[3])
    \/ job[w].at = "restoring" /\ \E v \in job[w].todo : RestoreVisit(w, v)

CalendarNext ==
    \/ Provision \/ Requeue \/ Restart
    \/ \E v \in Visits : CancelVisit(v) \/ Reopen(v) \/ \E d \in Days : Reschedule(v, d)
    \/ \E w \in Syncs :
          \/ SyncStep(w) \/ RepairStep(w) \/ GoogleFails(w)
          \/ ReconcileList(w) \/ RestoreWipe(w)
          \/ \E v \in Visits :
                CronLoad(w, v) \/ Load(w, v) \/ CancelRemoves(w, v) \/ DeleteVisit(w, v)

CalendarSpec == CalendarInit /\ [][CalendarNext]_calendarVars
-----------------------------------------------------------------------------
\* "Using the full title plus a DB guard prevents two different bookings from ever
\* being mapped onto the same calendar event id": two booked visits have the same event
\* only where their syncs had it in hand at once, for the guard is read before the row
\* is stored, or where one was set back to booked after the other had adopted it.
NeverShared ==
    \A u, v \in Visits :
        u # v /\ row[u] # Blank /\ row[v] # Blank
              /\ row[u].status = "booked" /\ row[v].status = "booked"
              /\ row[u].event # Blank /\ row[u].event = row[v].event
        => {u, v} \cap (crossed \cup reopened) # {}

\* What says "synced" is in the calendar: the booked visit's event is live on the
\* calendar the row names, bears its tag and shows its day, unless the visit changed
\* under the sync; a failed call, a repair or two jobs of the visit at once left it
\* astray; another visit's sync had its event in hand at once; or it was cancelled and
\* set back to booked, whose event stays cancelled at Google.
Shown ==
    \A v \in Visits :
        /\ row[v] # Blank /\ row[v].status = "booked" /\ row[v].sync = "synced"
        /\ v \notin stale \cup astray \cup crossed \cup reopened
        => /\ row[v].event # Blank
           /\ event[row[v].event] =
                [cal |-> row[v].cal, tag |-> v, day |-> row[v].day, live |-> TRUE]

\* One visit, one event: wherever a sync is killed between the event and the row that
\* is to name it, and whatever other visits' syncs run beside it, no calendar shows a
\* visit twice, but where a call that failed, a repair or two jobs of the visit at
\* once left it astray, where two visits' syncs had one event in hand, or where the
\* visit was set back to booked after another had adopted its event.
ShownOnce ==
    \A v \in Visits, cal \in Calendars :
        v \notin astray \cup crossed \cup reopened => Cardinality(Tagged(v, cal)) <= 1
=============================================================================
