------------------------------ MODULE Reminders ------------------------------
(* What customers and businesses are told, and how it is kept to one time:    *)
(*   - the daily reminders of a plan that ends or was never scheduled         *)
(*     (src/src/account/subscription-expiration.service.ts): claim the stage, *)
(*     deliver, release the claim if that fails;                              *)
(*   - the mail about a new order (src/supabase/functions/api/routes/         *)
(*     provider-alerts.ts): claim, deliver, never release;                    *)
(*   - the reminder of a visit (src/src/account/cleaning-reminder.service.ts):*)
(*     look whether it is marked as sent, deliver, mark.                      *)
(* Cron runs and requests are jobs of a worker, split where they await, and   *)
(* may be cut short anywhere. Days are numbers.                               *)
EXTENDS Integers, FiniteSets

CONSTANTS
    Subs,       \* subscriptions
    Workers,    \* runs and requests that may go on at once
    Watched,    \* the messages an instance looks at
    Term,       \* days of a term
    Horizon,    \* bound: the last day
    Strikes,    \* bound: how often something may fail or be killed
    None

Ladder == {"2_day", "1_day", "expired"}
Nudges == {"unscheduled_1", "unscheduled_3"}
Daily == Ladder \cup Nudges
Claimed == Daily \cup {"new_order"}

ASSUME RemindersAssumption ==
    /\ Watched \subseteq Claimed \cup {"visit"}
    /\ Term \in Nat /\ Horizon \in Nat /\ Strikes \in Nat
    /\ 1 < Term
    /\ None \notin Nat

VARIABLES
    today,      \* the business date
    status,     \* pending_schedule, active or expired
    end,        \* the day the expiry ladder goes by
    visit,      \* the day of the visit on the calendar, if there is one
    flag,       \* cancel_at_period_end
    asked,      \* cancel_requested_at
    claims,     \* the rows of subscription_expiration_notifications and
                \* provider_order_notifications
    marks,      \* visits whose row of cleaning_reminder_jobs says "sent"
    mailed,     \* ghost: how often a message was mailed, twice standing for more
    noticed,    \* ghost: how often the notice of a daily reminder was made in the app
    refused,    \* ghost: daily reminders whose mail was refused once
    unanswered, \* ghost: daily reminders and visits whose mail was accepted, but
                \* the answer lost
    loose,      \* ghost: messages whose claim outlived its run, and visits whose
                \* run met another or could not make its mark
    strikes,    \* ghost: failures so far
    job         \* what every worker is at

row == <<status, end, visit, flag, asked>>
told == <<mailed, noticed, refused, unanswered>>
vars == <<today, row, claims, marks, told, loose, strikes, job>>

Messages == Subs \X Watched
Days == Nat

Idle == [at |-> "idle"]

\* What the daily run alone goes by is its date: the others keep none.
Undated == 0

\* What a run knows: its date and what is left of its list. A message in hand
\* goes from its claim or its look-up to the mail, and to the mark.
Jobs ==
    {Idle}
    \cup [at: {"swept", "due"}, day: Days, items: SUBSET Messages]
    \cup [at: {"found", "mailing", "failed", "marking"},
          day: Days, items: SUBSET Messages, msg: Messages]

TypeOK ==
    /\ today \in Days
    /\ status \in [Subs -> {"pending_schedule", "active", "expired"}]
    /\ end \in [Subs -> Days]
    /\ visit \in [Subs -> Days \cup {None}]
    /\ flag \in [Subs -> BOOLEAN]
    /\ asked \in [Subs -> Days \cup {None}]
    /\ claims \subseteq Messages
    /\ marks \subseteq Messages /\ loose \subseteq Messages
    /\ mailed \in [Messages -> 0..2] /\ noticed \in [Messages -> 0..2]
    /\ refused \subseteq Messages /\ unanswered \subseteq Messages
    /\ strikes \in 0..Strikes
    /\ job \in [Workers -> Jobs]

\* Paid on day 0: a cleaning plan is still to be scheduled, a meal plan runs.
Init ==
    /\ today = 0
    /\ status \in [Subs -> {"pending_schedule", "active"}]
    /\ end = [s \in Subs |-> Term]
    /\ visit = [s \in Subs |-> None]
    /\ flag = [s \in Subs |-> FALSE] /\ asked = [s \in Subs |-> None]
    /\ claims = {} /\ marks = {} /\ loose = {}
    /\ mailed = [m \in Messages |-> 0] /\ noticed = [m \in Messages |-> 0]
    /\ refused = {} /\ unanswered = {}
    /\ strikes = 0
    /\ job = [w \in Workers |-> Idle]

Do(w, j) == job' = [job EXCEPT ![w] = j]
Starts(w, j) == job[w] = Idle /\ Do(w, j)
Strike == strikes < Strikes /\ strikes' = strikes + 1

\* The job with its list, with a message in hand, and back without it.
List(w, at, items) == [at |-> at, day |-> job[w].day, items |-> items]
InHand(w, at, m) == [at |-> at, day |-> job[w].day, items |-> job[w].items, msg |-> m]
PutAway(w) == Do(w, List(w, "due", job[w].items \ {job[w].msg}))
-----------------------------------------------------------------------------
\* The world.
NewDay ==
    /\ today < Horizon /\ today' = today + 1
    /\ UNCHANGED <<row, claims, marks, told, loose, strikes, job>>

\* The customer picks the first visit of a plan that waits for it.
Schedule(s, first) ==
    /\ status[s] = "pending_schedule" /\ today <= first
    /\ status' = [status EXCEPT ![s] = "active"]
    /\ end' = [end EXCEPT ![s] = first + Term]
    /\ visit' = [visit EXCEPT ![s] = first]
    /\ UNCHANGED <<today, flag, asked, claims, marks, told, loose, strikes, job>>

CancelVisit(s) ==
    /\ visit[s] # None
    /\ visit' = [visit EXCEPT ![s] = None]
    /\ UNCHANGED <<today, status, end, flag, asked, claims, marks, told, loose, strikes, job>>

AskedOn(cancel) == IF cancel THEN today ELSE None

\* setFlag: cancel at the end of the period, or resume.
SetFlag(s, cancel) ==
    /\ flag[s] # cancel
    /\ cancel => status[s] # "expired"
    /\ flag' = [flag EXCEPT ![s] = cancel]
    /\ asked' = [asked EXCEPT ![s] = AskedOn(cancel)]
    /\ UNCHANGED <<today, status, end, visit, claims, marks, told, loose, strikes, job>>

\* A renewal moves the dates on and leaves the flag.
Renew(s) ==
    /\ status[s] # "pending_schedule" /\ end[s] < Horizon
    /\ status' = [status EXCEPT ![s] = "active"]
    /\ end' = [end EXCEPT ![s] = (IF @ + 1 > today THEN @ + 1 ELSE today) + Term]
    /\ UNCHANGED <<today, visit, flag, asked, claims, marks, told, loose, strikes, job>>
-----------------------------------------------------------------------------
\* The daily run first expires what is over ...
Sweep(w) ==
    /\ Starts(w, [at |-> "swept", day |-> today, items |-> {}])
    /\ status' = [s \in Subs |->
                     IF status[s] = "active" /\ end[s] < today THEN "expired" ELSE status[s]]
    /\ UNCHANGED <<today, end, visit, flag, asked, claims, marks, told, loose, strikes>>

StageFor(s, day) ==
    CASE end[s] - day = 2 -> {"2_day"} [] end[s] - day = 1 -> {"1_day"}
      [] end[s] = day -> {"expired"}   [] OTHER -> {}

\* Paid on day 0.
NudgeFor(day) ==
    CASE day = 1 -> {"unscheduled_1"} [] day >= 3 -> {"unscheduled_3"} [] OTHER -> {}

\* Mutant: a customer who has cancelled is reminded like everybody else.
Chased_All(s) == status[s] = "active"

Chased(s) == status[s] = "active" /\ ~flag[s]

\* ... and then collects what is due on its date.
Collect(w) ==
    LET day == job[w].day
        due == {m \in Messages : m[2] \in Ladder /\ Chased(m[1]) /\ m[2] \in StageFor(m[1], day)}
               \cup {m \in Messages : m[2] \in Nudges
                        /\ status[m[1]] = "pending_schedule" /\ m[2] \in NudgeFor(day)}
    IN  /\ job[w].at = "swept"
        /\ Do(w, List(w, "due", due))
        /\ UNCHANGED <<today, row, claims, marks, told, loose, strikes>>

\* notifyNewOrder: from the checkout's tab, and from the payment's webhook.
NewOrder(w, s) ==
    /\ "new_order" \in Watched
    /\ Starts(w, [at |-> "due", day |-> Undated, items |-> {<<s, "new_order">>}])
    /\ UNCHANGED <<today, row, claims, marks, told, loose, strikes>>

\* processDueReminders: the visits that are booked and near.
CollectVisits(w) ==
    /\ "visit" \in Watched
    /\ Starts(w, [at |-> "due", day |-> Undated,
                  items |-> {<<s, "visit">> : s \in {t \in Subs : visit[t] = today}}])
    /\ UNCHANGED <<today, row, claims, marks, told, loose, strikes>>

\* Mutant: a claim that is there already is taken over, not ignored.
Claimable_Merged(m) == TRUE

\* A claim is an insert under a unique key.
Claimable(m) == m \notin claims

Claim(w, m) ==
    /\ job[w].at = "due" /\ m \in job[w].items /\ m[2] \in Claimed
    /\ IF Claimable(m)
       THEN /\ claims' = claims \cup {m}
            /\ Do(w, InHand(w, "mailing", m))
       ELSE /\ Do(w, List(w, "due", job[w].items \ {m}))
            /\ UNCHANGED claims
    /\ UNCHANGED <<today, row, marks, told, loose, strikes>>

\* The claim fails, or the run cannot read the address: no mail this time. With
\* the claim made and the address missing, the notice alone counts as delivered.
PassOver(w, m) ==
    /\ job[w].at = "due" /\ m \in job[w].items /\ m[2] \in Claimed /\ Claimable(m)
    /\ Strike
    /\ \/ UNCHANGED <<claims, loose>>
       \/ claims' = claims \cup {m} /\ loose' = loose \cup {m}
    /\ Do(w, List(w, "due", job[w].items \ {m}))
    /\ UNCHANGED <<today, row, marks, told>>

\* Mutant: that the job row exists is not looked at.
Remind_Always(m) == TRUE

Remind(m) == m \notin marks

\* Another run has the same visit in hand.
Met(w, m) == \E v \in Workers \ {w} :
    job[v].at \in {"found", "mailing", "marking"} /\ job[v].msg = m

\* A visit's reminder is looked up ...
LookUp(w, m) ==
    /\ job[w].at = "due" /\ m \in job[w].items /\ m[2] = "visit"
    /\ Do(w, IF Remind(m) THEN InHand(w, "found", m)
             ELSE List(w, "due", job[w].items \ {m}))
    /\ loose' = IF Met(w, m) THEN loose \cup {m} ELSE loose
    /\ UNCHANGED <<today, row, claims, marks, told, strikes>>

\* ... and its row written as pending, over whatever it says by now.
Upsert(w) ==
    /\ job[w].at = "found"
    /\ marks' = marks \ {job[w].msg}
    /\ Do(w, InHand(w, "mailing", job[w].msg))
    /\ UNCHANGED <<today, row, claims, told, loose, strikes>>

Once(count, m) == [count EXCEPT ![m] = IF @ < 2 THEN @ + 1 ELSE @]
Notice(m) == noticed' = IF m[2] \in Daily THEN Once(noticed, m) ELSE noticed

\* The notice, and then the mail.
Mail(w) ==
    LET m == job[w].msg
    IN  /\ job[w].at = "mailing"
        /\ mailed' = Once(mailed, m) /\ Notice(m)
        /\ IF m[2] = "visit" THEN Do(w, InHand(w, "marking", m)) ELSE PutAway(w)
        /\ UNCHANGED <<today, row, claims, marks, refused, unanswered, loose, strikes>>

\* The notice is made and sendMail throws: the mail was refused, or it was
\* accepted and the answer is lost. tellProvider only logs that, the daily run
\* releases its claim, and a visit's row stays pending.
MailFails(w) ==
    LET m == job[w].msg
    IN  /\ job[w].at = "mailing" /\ Strike
        /\ \/ /\ refused' = IF m[2] \in Daily THEN refused \cup {m} ELSE refused
              /\ UNCHANGED <<mailed, unanswered>>
           \/ /\ mailed' = Once(mailed, m)
              /\ unanswered' = IF m[2] # "new_order" THEN unanswered \cup {m} ELSE unanswered
              /\ UNCHANGED refused
        /\ Notice(m)
        /\ IF m[2] \in Daily THEN Do(w, InHand(w, "failed", m)) ELSE PutAway(w)
        /\ UNCHANGED <<today, row, claims, marks, loose>>

\* Mutant: the claim of a reminder that failed is kept.
Released_Kept(m) == claims

Released(m) == claims \ {m}

Release(w) ==
    /\ job[w].at = "failed"
    /\ claims' = Released(job[w].msg)
    /\ PutAway(w)
    /\ UNCHANGED <<today, row, marks, told, loose, strikes>>

\* markJob.
Mark(w) ==
    /\ job[w].at = "marking"
    /\ marks' = marks \cup {job[w].msg}
    /\ PutAway(w)
    /\ UNCHANGED <<today, row, claims, told, loose, strikes>>

Finish(w) ==
    /\ job[w].at = "due" /\ job[w].items = {}
    /\ Do(w, Idle)
    /\ UNCHANGED <<today, row, claims, marks, told, loose, strikes>>

Holds(w) == job[w].at = "mailing" /\ job[w].msg[2] \in Claimed

\* A run is killed, perhaps between the notice and the mail; a release or a mark
\* that fails is the end of it for its message.
CutShort(w) ==
    /\ job[w] # Idle /\ Strike
    /\ \/ Do(w, Idle) /\ UNCHANGED noticed
       \/ /\ job[w].at = "mailing"
          /\ Do(w, Idle) /\ Notice(job[w].msg)
       \/ job[w].at \in {"failed", "marking"} /\ PutAway(w) /\ UNCHANGED noticed
    /\ loose' = IF job[w].at \in {"failed", "marking"} \/ Holds(w)
                THEN loose \cup {job[w].msg} ELSE loose
    /\ UNCHANGED <<today, row, claims, marks, mailed, refused, unanswered>>
-----------------------------------------------------------------------------
Deliver(w) ==
    \/ \E m \in job[w].items : Claim(w, m) \/ LookUp(w, m)
    \/ Upsert(w) \/ Mail(w) \/ Release(w) \/ Mark(w) \/ Finish(w)

RunStep(w) == job[w] # Idle /\ (Collect(w) \/ Deliver(w))

Next ==
    \/ NewDay
    \/ \E s \in Subs :
          \/ CancelVisit(s) \/ Renew(s)
          \/ \E first \in 0..(Horizon - 1) : Schedule(s, first)
          \/ \E cancel \in BOOLEAN : SetFlag(s, cancel)
    \/ \E w \in Workers :
          \/ Sweep(w) \/ CollectVisits(w) \/ \E s \in Subs : NewOrder(w, s)
          \/ RunStep(w)
          \/ job[w] # Idle /\ \E m \in job[w].items : PassOver(w, m)
          \/ MailFails(w) \/ CutShort(w)

Spec == Init /\ [][Next]_vars

\* Vercel starts a run again and again, and a run that is not killed goes on.
FairSpec ==
    /\ Spec
    /\ \A w \in Workers : WF_vars(RunStep(w))
    /\ SF_vars(\E w \in Workers : Sweep(w))
-----------------------------------------------------------------------------
\* A claim is a promise: whatever runs at once, is killed and is repeated, nobody
\* gets a message with a claim twice, and one that was mailed stays claimed. The
\* exception, which the comment "delivered at most once" does not make, is a
\* reminder of the daily run whose mail was accepted while the answer was lost:
\* its claim is released, and it is mailed again. Its notice in the app is
\* repeated after any failure of its mail, and after nothing else.
MailedOnce ==
    \A m \in Messages : m[2] \in Claimed =>
        /\ m \notin unanswered => mailed[m] <= 1 /\ (mailed[m] = 1 => m \in claims)
        /\ m \notin refused \cup unanswered => noticed[m] <= 1

\* A visit's reminder has no claim, only a mark made afterwards: it is mailed
\* again only after a run that met another, could not make its mark, or did not
\* learn that its mail was accepted.
RemindedOnce ==
    \A m \in Messages : m[2] = "visit" /\ m \notin loose \cup unanswered => mailed[m] <= 1

\* "Chasing them afterwards ... is nagging someone for a decision they already
\* made": no run writes about the end of a plan to a customer who had cancelled
\* before the run's day, and has not resumed.
NoNagging ==
    [][\A s \in Subs, stage \in Ladder \cap Watched, w \in Workers :
          /\ job[w].at = "mailing" /\ job[w].msg = <<s, stage>>
          /\ mailed' # mailed /\ job'[w] # job[w]
          => (flag[s] => asked[s] >= job[w].day)]_vars

\* "Paid for, never scheduled" is chased: from the third day on the nudge is
\* mailed, unless the customer schedules, or a run died with the claim in its
\* hands or found no address.
NudgedInTheEnd ==
    \A s \in Subs :
        LET m == <<s, "unscheduled_3">>
        IN  status[s] = "pending_schedule" /\ today >= 3
            ~> (status[s] # "pending_schedule" \/ mailed[m] > 0 \/ m \in loose)
=============================================================================
