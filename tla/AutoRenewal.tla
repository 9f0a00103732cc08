---------------------------- MODULE AutoRenewal ----------------------------
(* Who switches PayPal's billing of a subscription on and off, and what the   *)
(* row says of it: cancelling at the end of the period and resuming           *)
(* (src/supabase/functions/api/routes/cancellation.ts, after                  *)
(* src/src/account/account-cancellation.service.ts), turning auto-renewal off *)
(* and PayPal's webhook (paypal-subscriptions.ts). PayPal and the row are two *)
(* systems: every call reads the row, speaks to PayPal and then writes the    *)
(* row, may die between any two of these, and may meet another one. PayPal's  *)
(* events come late, twice, or in another order.                              *)
EXTENDS FiniteSets

CONSTANTS
    Rows,       \* rows
    Callers     \* calls that may run at once

VARIABLES
    shown,      \* of the row; paid rows are active, until they end
    flag,       \* cancel_at_period_end
    auto,       \* auto_renew
    remote,     \* PayPal's status of the subscription, "none" if there is none
    events,     \* events PayPal has sent of a row, to be delivered at any time
    call,       \* what every worker is at
    lifted      \* ghost: rows whose billing the customer switched on again after a
                \* cancel: by a resume, or by an approval that came late

rowVars == <<shown, flag, auto>>
billingVars == <<rowVars, remote, events, call, lifted>>

Remotes == {"none", "APPROVAL_PENDING", "ACTIVE", "SUSPENDED", "CANCELLED"}
NoCall == [at |-> "idle"]

\* What a call knows: whether it cancels or resumes, what it has told PayPal.
Calls ==
    {NoCall}
    \cup [at: {"asking", "telling"}, sub: Rows, cancel: BOOLEAN]
    \cup [at: {"writing"}, sub: Rows, cancel: BOOLEAN, told: BOOLEAN]
    \cup [at: {"asking first payment", "paying"}, sub: Rows]
    \cup [at: {"stopping", "stopped"}, sub: Rows]

BillingTypeOK ==
    /\ shown \in [Rows -> {"pending", "active", "expired", "cancelled"}]
    /\ flag \in [Rows -> BOOLEAN] /\ auto \in [Rows -> BOOLEAN]
    /\ remote \in [Rows -> Remotes]
    /\ events \in [Rows -> SUBSET {"ACTIVATED", "STOPPED"}]
    /\ call \in [Callers -> Calls]
    /\ lifted \subseteq Rows

\* Rows reserved, or paid already.
BillingInit ==
    /\ shown \in [Rows -> {"pending", "active"}]
    /\ flag = [s \in Rows |-> FALSE] /\ auto = [s \in Rows |-> FALSE]
    /\ remote = [s \in Rows |-> "none"]
    /\ events = [s \in Rows |-> {}]
    /\ call = [w \in Callers |-> NoCall]
    /\ lifted = {}

Goes(w, c) == call' = [call EXCEPT ![w] = c]
Begins(w, c) == call[w] = NoCall /\ Goes(w, c)
Returns(w) == Goes(w, NoCall)
Paid(s) == shown[s] # "pending"
-----------------------------------------------------------------------------
\* PayPal moves a subscription to another status, and sends an event of it.
PayPalMoves(s, from, to) ==
    /\ remote[s] \in from
    /\ remote' = [remote EXCEPT ![s] = to]
    /\ events' = [events EXCEPT ![s] =
                     @ \cup {IF to = "ACTIVE" THEN "ACTIVATED" ELSE "STOPPED"}]

\* A reserved row gets a subscription at PayPal, which the customer approves.
Create(s) ==
    /\ ~Paid(s) /\ remote[s] = "none"
    /\ remote' = [remote EXCEPT ![s] = "APPROVAL_PENDING"]
    /\ UNCHANGED <<rowVars, events, call, lifted>>

CancelAsked(s) == flag[s] \/ \E w \in Callers :
    call[w].at = "writing" /\ call[w].sub = s /\ call[w].cancel

Approved(s) ==
    /\ PayPalMoves(s, {"APPROVAL_PENDING"}, "ACTIVE")
    /\ lifted' = IF CancelAsked(s) THEN lifted \cup {s} ELSE lifted
    /\ UNCHANGED <<rowVars, call>>

\* The customer pays the reserved row some other way, and PayPal's is left pending.
PaidOtherwise(s) ==
    /\ ~Paid(s)
    /\ shown' = [shown EXCEPT ![s] = "active"]
    /\ UNCHANGED <<flag, auto, remote, events, call, lifted>>

\* The card is refused once too often, or the customer cancels at PayPal.
PayPalStops(s) ==
    /\ \E to \in {"SUSPENDED", "CANCELLED"} :
          PayPalMoves(s, {"ACTIVE", "SUSPENDED"} \ {to}, to)
    /\ UNCHANGED <<rowVars, call, lifted>>

\* The first charge is settled: by the browser's call or the sale's webhook.
PayRead(w, s) ==
    /\ remote[s] # "none"
    /\ Begins(w, [at |-> "asking first payment", sub |-> s])
    /\ UNCHANGED <<rowVars, remote, events, lifted>>

PayAsk(w) ==
    LET s == call[w].sub
    IN  /\ call[w].at = "asking first payment"
        /\ IF remote[s] = "ACTIVE" THEN Goes(w, [at |-> "paying", sub |-> s]) ELSE Returns(w)
        /\ UNCHANGED <<rowVars, remote, events, lifted>>

FirstPaidStatus == "active"

\* markFirstPaid: where payment_status is not paid yet.
MarkFirstPaid(w) ==
    LET s == call[w].sub
    IN  /\ call[w].at = "paying"
        /\ IF Paid(s) THEN UNCHANGED <<shown, auto>>
           ELSE /\ shown' = [shown EXCEPT ![s] = FirstPaidStatus]
                /\ auto' = [auto EXCEPT ![s] = TRUE]
        /\ Returns(w)
        /\ UNCHANGED <<flag, remote, events, lifted>>

\* The term is over, or an admin ends it; a renewal makes it active again.
TermEnds(s) ==
    /\ shown[s] = "active"
    /\ \E over \in {"expired", "cancelled"} : shown' = [shown EXCEPT ![s] = over]
    /\ UNCHANGED <<flag, auto, remote, events, call, lifted>>

Renew(s) ==
    /\ shown[s] = "expired"
    /\ shown' = [shown EXCEPT ![s] = "active"]
    /\ UNCHANGED <<flag, auto, remote, events, call, lifted>>
-----------------------------------------------------------------------------
\* setFlag: what ended cannot be cancelled; what is so already is not asked again.
FlagRead(w, s, cancel) ==
    /\ cancel => shown[s] = "active"
    /\ flag[s] # cancel
    /\ Begins(w, IF remote[s] = "none"
                 THEN [at |-> "writing", sub |-> s, cancel |-> cancel, told |-> FALSE]
                 ELSE [at |-> "asking", sub |-> s, cancel |-> cancel])
    /\ UNCHANGED <<rowVars, remote, events, lifted>>

\* PayPal first, and only if it is the other way round there.
FlagAsk(w) ==
    LET s == call[w].sub
        c == call[w].cancel
    IN  /\ call[w].at = "asking"
        /\ Goes(w, IF remote[s] = (IF c THEN "ACTIVE" ELSE "SUSPENDED")
                 THEN [at |-> "telling", sub |-> s, cancel |-> c]
                 ELSE [at |-> "writing", sub |-> s, cancel |-> c, told |-> FALSE])
        /\ UNCHANGED <<rowVars, remote, events, lifted>>

FlagTell(w) ==
    LET s == call[w].sub
        c == call[w].cancel
    IN  /\ call[w].at = "telling"
        /\ IF c THEN PayPalMoves(s, {"ACTIVE"}, "SUSPENDED")
           ELSE PayPalMoves(s, {"SUSPENDED"}, "ACTIVE")
        /\ lifted' = IF c THEN lifted \ {s} ELSE lifted \cup {s}
        /\ Goes(w, [at |-> "writing", sub |-> s, cancel |-> c, told |-> TRUE])
        /\ UNCHANGED rowVars

\* Mutant: PayPal's refusal is logged, and the flag set all the same.
Refused_Logged(w) ==
    Goes(w, [at |-> "writing", sub |-> call[w].sub, cancel |-> call[w].cancel, told |-> FALSE])

\* PayPal refuses, as it does when the status is another by now: the call throws.
Refused(w) == Returns(w)

FlagRefused(w) ==
    /\ call[w].at = "telling"
    /\ Refused(w)
    /\ UNCHANGED <<rowVars, remote, events, lifted>>

FlagWrite(w) ==
    LET s == call[w].sub
        c == call[w].cancel
    IN  /\ call[w].at = "writing"
        /\ flag' = [flag EXCEPT ![s] = c]
        /\ auto' = IF call[w].told THEN [auto EXCEPT ![s] = ~c] ELSE auto
        /\ Returns(w)
        /\ UNCHANGED <<shown, remote, events, lifted>>

\* auto-renew/cancel: PayPal is asked only if the row says it renews.
OffRead(w, s) ==
    /\ Begins(w, [at |-> IF remote[s] # "none" /\ auto[s] THEN "stopping" ELSE "stopped",
                  sub |-> s])
    /\ UNCHANGED <<rowVars, remote, events, lifted>>

OffTell(w) ==
    LET s == call[w].sub
    IN  /\ call[w].at = "stopping"
        /\ PayPalMoves(s, {"ACTIVE", "SUSPENDED"}, "CANCELLED")
        /\ Goes(w, [at |-> "stopped", sub |-> s])
        /\ UNCHANGED <<rowVars, lifted>>

OffWrite(w) ==
    /\ call[w].at = "stopped"
    /\ auto' = [auto EXCEPT ![call[w].sub] = FALSE]
    /\ Returns(w)
    /\ UNCHANGED <<shown, flag, remote, events, lifted>>

\* A call fails or is killed.
CallDies(w) ==
    /\ call[w] # NoCall
    /\ Returns(w)
    /\ UNCHANGED <<rowVars, remote, events, lifted>>
-----------------------------------------------------------------------------
\* Mutant: any activation switches auto-renewal on, the first one too.
Reactivated_Any(s) == TRUE

\* "The first activation is settled by the sale."
Reactivated(s) == Paid(s)

\* The webhook: late, repeated or out of order.
Webhook(s, e) ==
    /\ e \in events[s]
    /\ e = "ACTIVATED" => Reactivated(s)
    /\ auto' = [auto EXCEPT ![s] = e = "ACTIVATED"]
    /\ UNCHANGED <<shown, flag, remote, events, call, lifted>>

BillingNext ==
    \/ \E s \in Rows :
          \/ Create(s) \/ Approved(s) \/ PaidOtherwise(s) \/ PayPalStops(s) \/ TermEnds(s) \/ Renew(s)
          \/ \E e \in events[s] : Webhook(s, e)
    \/ \E w \in Callers :
          \/ PayAsk(w) \/ MarkFirstPaid(w)
          \/ FlagAsk(w) \/ FlagTell(w) \/ FlagRefused(w) \/ FlagWrite(w)
          \/ OffTell(w) \/ OffWrite(w) \/ CallDies(w)
          \/ \E s \in Rows :
                \/ PayRead(w, s) \/ OffRead(w, s)
                \/ \E cancel \in BOOLEAN : FlagRead(w, s, cancel)

BillingSpec == BillingInit /\ [][BillingNext]_billingVars
-----------------------------------------------------------------------------
\* "If PayPal refuses, our flag must not claim billing stopped": PayPal charges a
\* row marked as cancelled only if the customer switched that on again after the
\* last suspension: by a resume that died or met a cancel before it could clear
\* the flag, or by approving late what PayPal was asked for before the cancel.
CancelledIsNotCharged ==
    \A s \in Rows : flag[s] /\ remote[s] = "ACTIVE" => s \in lifted

\* A row is said to renew by itself only once its first term is paid, whatever the
\* order of approval, first charge, webhooks and a cancellation.
RenewsOnlyPaid == \A s \in Rows : auto[s] => Paid(s)
=============================================================================
