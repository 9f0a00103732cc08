---------------------------- MODULE Subscriptions ----------------------------
(* The paid term of a subscription: who extends it and who ends it.           *)
(*   - the customer renews: src/src/account/account-renewals.service.ts,      *)
(*     src/src/food/food.service.ts, and the engine both share,               *)
(*     src/src/payments/subscription-renewal.service.ts;                      *)
(*   - PayPal charges every term and says so to a webhook:                    *)
(*     src/supabase/functions/api/routes/paypal-subscriptions.ts;             *)
(*   - the daily sweep expires it and food access expires it when looked at:  *)
(*     src/src/account/subscription-expiration.service.ts, food.service.ts;   *)
(* The three tables are one here: a row has a kind, and the kinds differ in   *)
(* the column that says when the row lapses and in the length of a term.      *)
(* Calls are jobs of a worker, split where they await; a job may be cut short *)
(* anywhere. Days are numbers. Who switches PayPal's billing on and off is     *)
(* AutoRenewal's subject; here it just starts and stops.                      *)
EXTENDS Integers, FiniteSets

CONSTANTS
    Subs,       \* rows
    Kinds,      \* the kinds of row an instance looks at
    Keys,       \* idempotency keys of customers' renewals
    Payments,   \* references of customers' payments
    Sales,      \* charges PayPal may make, ids of sales
    Workers,    \* calls that may run at once
    Term,       \* days a term lasts
    Window,     \* FIRST_CHARGE_WINDOW_MS, in days
    Horizon,    \* bound: the last day, and the end of a scheduled term
    None

ASSUME SubscriptionsAssumption ==
    /\ Kinds \subseteq {"cleaning", "food", "universal"}
    /\ Term \in Nat /\ Window \in Nat /\ Horizon \in Nat
    /\ 0 < Window /\ Window <= Term /\ 1 < Term
    /\ Keys \cap Sales = {}
    /\ None \notin Nat \cup (Subs \X Nat)

VARIABLES
    today,      \* the business date
    kind,       \* which table the row is in
    status,     \* status, or subscription_status
    paid,       \* payment_status = "paid"
    end,        \* end_date
    serviceEnd, \* service_end_date, of cleaning only
    audit,      \* subscription_renewals
    confirmed,  \* references their provider confirms as paid
    billed,     \* rows whose subscription PayPal charges
    since,      \* the day PayPal's subscription started
    sales,      \* the charges PayPal made: of which row, on which day
    job,        \* what every worker is at
    extended    \* ghost: how often a key extended a row

row == <<kind, status, paid, end, serviceEnd>>
paypal == <<billed, since, sales>>
vars == <<today, row, audit, confirmed, paypal, job, extended>>

Days == Nat
Idle == [at |-> "idle"]
Renewal == [sub: Subs, key: Keys \cup Sales, from: Days, until: Days]

\* What a worker knows between two awaits.
Jobs ==
    {Idle}
    \cup [at: {"verifying"}, sub: Subs, key: Keys, payment: Payments, end: Days]
    \cup [at: {"asking"}, sub: Subs, key: Sales, paid: BOOLEAN, end: Days]
    \cup [at: {"extending"}, sub: Subs, key: Keys \cup Sales, until: Days]
    \cup [at: {"persisting"}, sub: Subs]

TypeOK ==
    /\ today \in Days
    /\ kind \in [Subs -> Kinds]
    /\ status \in [Subs -> {"pending", "pending_schedule", "active", "expired", "cancelled"}]
    /\ paid \in [Subs -> BOOLEAN]
    /\ end \in [Subs -> Days]
    /\ serviceEnd \in [Subs -> Days \cup {None}]
    /\ audit \subseteq Renewal
    /\ confirmed \subseteq Payments
    /\ billed \subseteq Subs
    /\ since \in [Subs -> Days \cup {None}]
    /\ sales \in [Sales -> {None} \cup (Subs \X Days)]
    /\ job \in [Workers -> Jobs]
    /\ extended \in [Subs \X (Keys \cup Sales) -> Nat]

\* Bought and paid for, still to be scheduled (cleaning), or reserved.
Init ==
    /\ today = 0
    /\ kind \in [Subs -> Kinds]
    /\ paid \in [Subs -> BOOLEAN]
    /\ status \in [Subs -> {"pending", "pending_schedule", "active"}]
    /\ \A s \in Subs :
        /\ status[s] = "pending" <=> ~paid[s]
        /\ status[s] = "pending_schedule" => kind[s] = "cleaning"
    /\ end = [s \in Subs |-> Term]
    /\ serviceEnd = [s \in Subs |-> None]
    /\ audit = {} /\ confirmed = {}
    /\ billed = {} /\ since = [s \in Subs |-> None]
    /\ sales = [x \in Sales |-> None]
    /\ job = [w \in Workers |-> Idle]
    /\ extended = [k \in Subs \X (Keys \cup Sales) |-> 0]

\* The day the expiry rules go by: cleaning has a column that comes first.
Lapse(s) == IF kind[s] = "cleaning" /\ serviceEnd[s] # None THEN serviceEnd[s] ELSE end[s]

\* continuousNextStart, nextStartAfter: the day after, or today if that is past.
NextStart(previous) == IF previous + 1 > today THEN previous + 1 ELSE today

\* Food counts the first day when a customer renews, and not when PayPal does.
Length(s, k) == IF kind[s] = "food" /\ k \in Keys THEN Term - 1 ELSE Term

Do(w, j) == job' = [job EXCEPT ![w] = j]
Starts(w, j) == job[w] = Idle /\ Do(w, j)
Ends(w) == Do(w, Idle)
-----------------------------------------------------------------------------
\* The world: days pass, customers pay, PayPal charges.
NewDay ==
    /\ today < Horizon /\ today' = today + 1
    /\ UNCHANGED <<row, audit, confirmed, paypal, job, extended>>

Confirm(p) ==
    /\ p \notin confirmed
    /\ confirmed' = confirmed \cup {p}
    /\ UNCHANGED <<today, row, audit, paypal, job, extended>>

ChargesOf(s) == {x \in Sales : sales[x] # None /\ sales[x][1] = s}

\* PayPal bills an active subscription once a term, the first time soon after
\* it starts.
Charge(s, x) ==
    /\ s \in billed /\ sales[x] = None
    /\ LET n == Cardinality(ChargesOf(s))
       IN  IF n = 0 THEN today < since[s] + Window ELSE today >= since[s] + n * Term
    /\ sales' = [sales EXCEPT ![x] = <<s, today>>]
    /\ UNCHANGED <<today, row, audit, confirmed, billed, since, job, extended>>

\* The admin's hard cancel.
AdminCancel(s) ==
    /\ status[s] # "cancelled"
    /\ status' = [status EXCEPT ![s] = "cancelled"]
    /\ UNCHANGED <<today, kind, paid, end, serviceEnd,
                   audit, confirmed, paypal, job, extended>>

\* schedule_cleaning_subscription: the term is anchored at the first visit, which
\* is no earlier than today.
Schedule(s, first) ==
    /\ kind[s] = "cleaning" /\ paid[s] /\ status[s] \in {"pending_schedule", "active"}
    /\ today <= first
    /\ status' = [status EXCEPT ![s] = "active"]
    /\ end' = [end EXCEPT ![s] = first + Term]
    /\ serviceEnd' = [serviceEnd EXCEPT ![s] = first + Term]
    /\ UNCHANGED <<today, kind, paid, audit, confirmed, paypal, job, extended>>
-----------------------------------------------------------------------------
\* A customer renews: the row is read, the payment verified ...
RenewRead(w, s, k, p) ==
    /\ status[s] # "cancelled"
    /\ Starts(w, [at |-> "verifying", sub |-> s, key |-> k, payment |-> p, end |-> end[s]])
    /\ UNCHANGED <<today, row, audit, confirmed, paypal, extended>>

Audited(s, k) == \E r \in audit : r.sub = s /\ r.key = k

\* Insert the audit row under the unique index; a conflict ends the call.
RecordUnless(w, s, k, previous, conflict) ==
    LET from == NextStart(previous)
        until == from + Length(s, k)
    IN  IF conflict THEN Ends(w) /\ UNCHANGED audit
        ELSE /\ audit' = audit \cup {[sub |-> s, key |-> k, from |-> from, until |-> until]}
             /\ Do(w, [at |-> "extending", sub |-> s, key |-> k, until |-> until])

\* Mutant: the index is on the key and the new start.
Record_ByStart(w, s, k, previous) ==
    RecordUnless(w, s, k, previous,
        \E r \in audit : r.sub = s /\ r.key = k /\ r.from = NextStart(previous))

Record(w, s, k, previous) == RecordUnless(w, s, k, previous, Audited(s, k))

\* ... and the renewal recorded.
RenewRecord(w) ==
    /\ job[w].at = "verifying"
    /\ job[w].payment \in confirmed
    /\ Record(w, job[w].sub, job[w].key, job[w].end)
    /\ UNCHANGED <<today, row, confirmed, paypal, extended>>

\* The row is extended in place, by id, to the dates computed before; PayPal's
\* renewal also moves cleaning's own dates.
Extend(w) ==
    LET s == job[w].sub
        k == job[w].key
    IN  /\ job[w].at = "extending"
        /\ end' = [end EXCEPT ![s] = job[w].until]
        /\ status' = [status EXCEPT ![s] = "active"]
        /\ paid' = [paid EXCEPT ![s] = TRUE]
        /\ serviceEnd' = IF k \in Sales /\ kind[s] = "cleaning"
                         THEN [serviceEnd EXCEPT ![s] = job[w].until] ELSE serviceEnd
        /\ extended' = [extended EXCEPT ![<<s, k>>] = @ + 1]
        /\ Ends(w)
        /\ UNCHANGED <<today, kind, audit, confirmed, paypal>>
-----------------------------------------------------------------------------
\* A reserved row gets a PayPal subscription, and the customer approves it.
Approve(s) ==
    /\ ~paid[s] /\ since[s] = None
    /\ billed' = billed \cup {s}
    /\ since' = [since EXCEPT ![s] = today]
    /\ UNCHANGED <<today, row, audit, confirmed, sales, job, extended>>

\* Billing is suspended, cancelled or resumed.
Switch(s) ==
    /\ since[s] # None
    /\ billed' = IF s \in billed THEN billed \ {s} ELSE billed \cup {s}
    /\ UNCHANGED <<today, row, audit, confirmed, since, sales, job, extended>>

\* markFirstPaid: only where payment_status is not paid yet.
FirstPaid(s) ==
    IF paid[s] THEN UNCHANGED <<status, paid>>
    ELSE /\ status' = [status EXCEPT ![s] = "active"]
         /\ paid' = [paid EXCEPT ![s] = TRUE]

\* The browser asks after the approval: has PayPal taken the first payment?
Activate(s) ==
    /\ ~paid[s] /\ s \in billed /\ ChargesOf(s) # {}
    /\ FirstPaid(s)
    /\ UNCHANGED <<today, kind, end, serviceEnd, audit, confirmed, paypal, job, extended>>

\* PayPal tells the webhook of a sale, as often as it likes.
SaleRead(w, x) ==
    /\ sales[x] # None
    /\ LET s == sales[x][1]
       IN  Starts(w, [at |-> "asking", sub |-> s, key |-> x, paid |-> paid[s], end |-> end[s]])
    /\ UNCHANGED <<today, row, audit, confirmed, paypal, extended>>

IsFirstCharge(s, x) == sales[x][2] < since[s] + Window

\* Mutant: only a row not paid yet has its first term before it.
FirstTerm_Unpaid(w) == ~job[w].paid

\* The first charge pays the first term; the others are renewals.
FirstTerm(w) == ~job[w].paid \/ IsFirstCharge(job[w].sub, job[w].key)

SaleFirst(w) ==
    /\ job[w].at = "asking" /\ FirstTerm(w)
    /\ FirstPaid(job[w].sub)
    /\ Ends(w)
    /\ UNCHANGED <<today, kind, end, serviceEnd, audit, confirmed, paypal, extended>>

SaleRecord(w) ==
    /\ job[w].at = "asking" /\ ~FirstTerm(w)
    /\ Record(w, job[w].sub, job[w].key, job[w].end)
    /\ UNCHANGED <<today, row, confirmed, paypal, extended>>

\* The sweep: one conditional update a table, and one that fails is only logged.
\* Mutant: a row ends on its last day.
Overdue_LastDay(s) == status[s] = "active" /\ Lapse(s) <= today

Overdue(s) == status[s] = "active" /\ Lapse(s) < today

SweepTo(failing, verdict) ==
    LET swept == {s \in Subs : Overdue(s) /\ kind[s] \notin failing}
    IN  /\ swept # {}
        /\ status' = [s \in Subs |-> IF s \in swept THEN verdict ELSE status[s]]

\* Mutant: the universal rows are forgotten.
SweepRows_Legacy(failing) == SweepTo(failing \cup {"universal"}, "expired")

SweepRows(failing) == SweepTo(failing, "expired")

Sweep(failing) ==
    /\ SweepRows(failing)
    /\ UNCHANGED <<today, kind, paid, end, serviceEnd,
                   audit, confirmed, paypal, job, extended>>

\* A look at a meal plan that is over persists the expiry, by id.
AccessRead(w, s) ==
    /\ kind[s] = "food" /\ status[s] = "active" /\ end[s] < today
    /\ Starts(w, [at |-> "persisting", sub |-> s])
    /\ UNCHANGED <<today, row, audit, confirmed, paypal, extended>>

AccessExpire(w) ==
    /\ job[w].at = "persisting"
    /\ status' = [status EXCEPT ![job[w].sub] = "expired"]
    /\ Ends(w)
    /\ UNCHANGED <<today, kind, paid, end, serviceEnd,
                   audit, confirmed, paypal, extended>>
-----------------------------------------------------------------------------
\* A call fails, is refused or is killed.
CutShort(w) ==
    /\ job[w] # Idle
    /\ Ends(w)
    /\ UNCHANGED <<today, row, audit, confirmed, paypal, extended>>

Step(w) ==
    \/ RenewRecord(w) \/ Extend(w) \/ SaleFirst(w) \/ SaleRecord(w)
    \/ AccessExpire(w)

Next ==
    \/ NewDay
    \/ \E p \in Payments : Confirm(p)
    \/ \E failing \in SUBSET Kinds : Sweep(failing)
    \/ \E s \in Subs : Approve(s) \/ Switch(s) \/ Activate(s) \/ AdminCancel(s)
    \/ \E s \in Subs, first \in 0..(Horizon - Term) : Schedule(s, first)
    \/ \E s \in Subs, x \in Sales : Charge(s, x)
    \/ \E w \in Workers :
          \/ Step(w) \/ CutShort(w)
          \/ \E x \in Sales : SaleRead(w, x)
          \/ \E s \in Subs :
                \/ AccessRead(w, s)
                \/ \E k \in Keys, p \in Payments : RenewRead(w, s, k, p)

Spec == Init /\ [][Next]_vars

\* Vercel runs the sweep every day, and it does not fail every time.
FairSpec == Spec /\ SF_vars(Sweep({}))
-----------------------------------------------------------------------------
\* One key, one term: however often a client retries, PayPal repeats itself or a
\* call dies half way, a key extends its row once, and only by a renewal on
\* record for which the payment was confirmed, or PayPal charged.
RenewedOnce ==
    \A s \in Subs, k \in Keys \cup Sales :
        /\ extended[<<s, k>>] <= 1
        /\ extended[<<s, k>>] = 1 => Audited(s, k)
        /\ Audited(s, k) => IF k \in Keys THEN confirmed # {} ELSE k \in ChargesOf(s)

\* PayPal's first charge buys the term the row already has: whoever comes first,
\* browser or webhook, the row gains fewer terms than PayPal charged.
FirstChargeIncluded ==
    \A s \in Subs :
        LET gained == {x \in Sales : extended[<<s, x>>] > 0}
        IN  gained # {} => Cardinality(gained) < Cardinality(ChargesOf(s))

\* Nobody is expired before the day the expiry rules go by, although a renewal
\* writes dates and status it computed before the sweep.  A look at a
\* meal plan may: it writes what it read.
ExpiredIsOver ==
    \A s \in Subs : status[s] = "expired" /\ kind[s] # "food" => Lapse(s) < today

\* What lapsed ends: the sweep gets every row that is over and not renewed.
LapsedEnds ==
    \A s \in Subs :
        LET over == status[s] = "active" /\ Lapse(s) < today
        IN  over ~> ~over
=============================================================================
