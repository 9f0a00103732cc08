------------------------------- MODULE Credits -------------------------------
(* What the platform gives away: the credit ledger, referrals and promo codes. *)
(*   - triggers of the order tables, which fire on the edges of an order:      *)
(*     src/supabase/migrations/20260907232527 (a referral qualifies),          *)
(*     20260914120100 and 20260914120200 (a code is checked, and redeemed),    *)
(*     20260929120100 (credit is spent, earned and given back);                *)
(*   - src/src/account/referrals.service.ts: a code is claimed;                *)
(*   - src/src/admin/customer-credits.service.ts: the desk moves a balance;    *)
(*   - src/src/admin/promo-codes.service.ts: a code is switched and removed.   *)
(* The four order tables are one. A transaction that reads what others may      *)
(* change is split into the reads and the commit, for Postgres runs them at     *)
(* READ COMMITTED: rows of a transaction in flight are nobody else's to see.   *)
(* There is one promo code, for any business, always in its window, and the    *)
(* programme is switched on. Customers have uuids. An admin that writes an      *)
(* order as paid takes two steps here.                                         *)
EXTENDS Integers, FiniteSets

CONSTANTS
    Users, Orders,
    Workers,      \* requests that may run at once
    Price,        \* of every order
    Share,        \* bonus_max_share_pct of Price: what credit may cover
    Discount,     \* what the promo code takes off, at most
    Reward,       \* referral_reward_cents
    Welcome,      \* referral_welcome_cents
    CashbackPct,  \* bonus_cashback_pct
    MaxRedemptions, PerCustomer,  \* the limits of the promo code
    Grant,        \* what an admin grants or takes back
    MaxEdits,     \* bound: edges of orders and adjustments by the desk, together
    None

Dead == {"expired", "cancelled", "failed"}
Statuses == {"pending", "paid", "refunded"} \cup Dead
Order == [user: Users, status: Statuses, applied: 0..Price, discount: 0..Price]

ASSUME CreditsAssumption ==
    /\ {Price, Share, Discount, MaxRedemptions, PerCustomer, MaxEdits} \subseteq Nat
    /\ {Reward, Welcome} \subseteq Nat /\ Grant \in Nat \ {0}
    /\ Share <= Price /\ Discount <= Price
    /\ CashbackPct \in 0..100
    /\ Users \cap Orders = {} /\ None \notin Users \cup Orders \cup Order

VARIABLES
    order,        \* the orders written
    ledger,       \* user_credits: rows alike are told apart by a number
    referrer,     \* referrals, by referee: who invited them
    referral,     \* ... and its status
    promo,        \* the code: active, inactive or deleted
    redeemed,     \* promo_redemptions of every order
    job,          \* the transaction or request every worker is in
    paidOnce,     \* ghost: orders that were paid once
    raced,        \* ghost: customers with two debits in flight at once
    unreturned,   \* ghost: orders whose last death failed to give credit back
    edits         \* bound: edges and adjustments so far

tables == <<order, ledger, referrer, referral, promo, redeemed>>
ghosts == <<paidOnce, raced, unreturned, edits>>
vars == <<tables, job, ghosts>>

Entry == [user: Users, amount: Int, of: Users \cup Orders \cup {None},
          reason: {"referral_reward", "referral_welcome", "spend", "spend_returned",
                   "cashback", "admin_adjustment"}, nth: Nat]
Idle == [at |-> "idle"]
Jobs ==
    {Idle}
    \cup [at: {"ordering"}, order: Orders, user: Users, applied: 0..Price, discount: 0..Price]
    \cup [at: {"paying"}, order: Orders, qualifies: BOOLEAN]
    \cup [at: {"debiting"}, user: Users]
    \cup [at: {"claiming"}, user: Users, by: Users]
    \cup [at: {"deleting"}]

TypeOK ==
    /\ order \in [Orders -> Order \cup {None}]
    /\ ledger \subseteq Entry
    /\ referrer \in [Users -> Users \cup {None}]
    /\ referral \in [Users -> {"none", "pending", "qualified"}]
    /\ promo \in {"active", "inactive", "deleted"}
    /\ redeemed \in [Orders -> Nat]
    /\ job \in [Workers -> Jobs]
    /\ paidOnce \subseteq Orders
    /\ raced \subseteq Users /\ unreturned \subseteq Orders
    /\ edits \in 0..MaxEdits

Init ==
    /\ order = [o \in Orders |-> None]
    /\ ledger = {}
    /\ referrer = [u \in Users |-> None]
    /\ referral = [u \in Users |-> "none"]
    /\ promo = "active"
    /\ redeemed = [o \in Orders |-> 0]
    /\ job = [w \in Workers |-> Idle]
    /\ paidOnce = {} /\ raced = {} /\ unreturned = {}
    /\ edits = 0

\* What rows of the ledger add up to, cent by cent: those in less those out.
In(rows) == UNION {{e} \X (1 .. e.amount) : e \in rows}
Out(rows) == UNION {{e} \X (1 .. -e.amount) : e \in rows}
Sum(rows) == Cardinality(In(rows)) - Cardinality(Out(rows))

\* referral_balance_cents, ledger: never stored, always summed.
Balance(u) == Sum({e \in ledger : e.user = u})

\* What an order has taken from the balance and not given back.
Spent(o) ==
    -Sum({e \in ledger : e.of = o /\ e.reason \in {"spend", "spend_returned"}})

Row(u, amount, of, reason) ==
    LET alike == {e \in ledger : e.user = u /\ e.of = of /\ e.reason = reason}
    IN  [user |-> u, amount |-> amount, of |-> of, reason |-> reason, nth |-> Cardinality(alike)]
RowIf(condition, new) == IF condition THEN {new} ELSE {}

Do(w, j) == job' = [job EXCEPT ![w] = j]
Starts(w, j) == job[w] = Idle /\ Do(w, j)
Ends(w) == Do(w, Idle)
Counted == edits < MaxEdits /\ edits' = edits + 1

\* A transaction that updates a row holds its lock until it commits.
Locked(o) == \E w \in Workers : job[w].at \in {"ordering", "paying"} /\ job[w].order = o

\* A debit of u in flight, unseen by the others.
InFlight(u) ==
    \E w \in Workers :
        \/ job[w].at = "debiting" /\ job[w].user = u
        \/ job[w].at = "ordering" /\ job[w].user = u /\ job[w].applied > 0
RacedIf(u, debit) == raced' = IF debit /\ InFlight(u) THEN raced \cup {u} ELSE raced
-----------------------------------------------------------------------------
\* promo_quote, for u: the limits count redemptions, not orders that ask.
Quoted(u) ==
    LET used == {o \in Orders : redeemed[o] > 0}
    IN  /\ promo = "active"
        /\ Cardinality(used) < MaxRedemptions
        /\ PerCustomer > 0 => Cardinality({o \in used : order[o].user = u}) < PerCustomer

\* Mutant: the order's own check forgotten, only the share is checked.
Covered_Unchecked(u, c) == c <= Share

\* bonus_spend_on_order, user_credits_guard_balance.
Covered(u, c) == c > 0 => c <= Share /\ c <= Balance(u)

\* A checkout writes an order with c of credit and d of discount: the triggers
\* check both ...
PlaceCheck(w, o, u, c, d) ==
    /\ order[o] = None /\ ~Locked(o)
    /\ Covered(u, c)
    /\ d > 0 => Quoted(u) /\ d <= Discount
    /\ Starts(w, [at |-> "ordering", order |-> o, user |-> u, applied |-> c, discount |-> d])
    /\ RacedIf(u, c > 0)
    /\ UNCHANGED <<tables, paidOnce, unreturned, edits>>

\* ... and the order commits, with the ledger row that pays for it.
PlaceCommit(w) ==
    LET j == job[w]
    IN  /\ j.at = "ordering"
        /\ order' = [order EXCEPT ![j.order] =
                        [user |-> j.user, status |-> "pending",
                         applied |-> j.applied, discount |-> j.discount]]
        /\ ledger' = ledger \cup RowIf(j.applied > 0, Row(j.user, -j.applied, j.order, "spend"))
        /\ Ends(w)
        /\ UNCHANGED <<referrer, referral, promo, redeemed, ghosts>>

Qualifies(u) == referral[u] = "pending"

\* An order is marked paid: only the edge counts. Its triggers look for a pending
\* referral of the customer ...
PayRead(w, o) ==
    /\ order[o] # None /\ order[o].status # "paid" /\ ~Locked(o)
    /\ Starts(w, [at |-> "paying", order |-> o,
                  qualifies |-> Qualifies(order[o].user)])
    /\ Counted
    /\ UNCHANGED <<tables, paidOnce, raced, unreturned>>

\* The unique index on (referral_id, reason).
\* Mutant: there is none.
Rewarded_NoIndex(u, reason) == FALSE

Rewarded(u, reason) == \E e \in ledger : e.of = u /\ e.reason = reason

\* referrals_qualify: both sides, on conflict do nothing.
Rewards(u) ==
    RowIf(Reward > 0 /\ ~Rewarded(u, "referral_reward"), Row(referrer[u], Reward, u, "referral_reward"))
    \cup RowIf(Welcome > 0 /\ ~Rewarded(u, "referral_welcome"), Row(u, Welcome, u, "referral_welcome"))

\* bonus_earn_on_paid: on what was paid in money.
Cashback(o) ==
    LET base == Price - order[o].discount - order[o].applied
        earned == IF base > 0 THEN (base * CashbackPct) \div 100 ELSE 0
    IN  RowIf(earned > 0, Row(order[o].user, earned, o, "cashback"))

\* promo_redeem_on_paid: one redemption an order, if the code is still there.
\* Mutant: no unique index on the order.
Redeem_NoIndex(o) ==
    redeemed' = IF order[o].discount > 0 /\ promo # "deleted"
                THEN [redeemed EXCEPT ![o] = @ + 1] ELSE redeemed

Redeem(o) ==
    redeemed' = IF order[o].discount > 0 /\ promo # "deleted" /\ redeemed[o] = 0
                THEN [redeemed EXCEPT ![o] = 1] ELSE redeemed

\* ... and commit what they grant; one that fails is only logged, for it must
\* never fail a payment.
PayCommit(w, failing) ==
    LET o == job[w].order
        u == order[o].user
        qualify == job[w].qualifies /\ "referral" \notin failing
    IN  /\ job[w].at = "paying"
        /\ order' = [order EXCEPT ![o].status = "paid"]
        /\ ledger' = ledger \cup (IF qualify THEN Rewards(u) ELSE {})
                            \cup (IF "cashback" \in failing THEN {} ELSE Cashback(o))
        /\ referral' = IF qualify THEN [referral EXCEPT ![u] = "qualified"] ELSE referral
        /\ IF "promo" \in failing THEN UNCHANGED redeemed ELSE Redeem(o)
        /\ paidOnce' = paidOnce \cup {o}
        /\ Ends(w)
        /\ UNCHANGED <<referrer, promo, raced, unreturned, edits>>

\* bonus_return_on_dead: what was taken for the order and not returned yet.
\* Mutant: what the order says it took.
Returned_Applied(o, st) ==
    RowIf(st \in Dead /\ order[o].applied > 0,
          Row(order[o].user, order[o].applied, o, "spend_returned"))

Returned(o, st) ==
    RowIf(st \in Dead /\ order[o].applied > 0 /\ Spent(o) > 0,
          Row(order[o].user, Spent(o), o, "spend_returned"))

\* Any other edge, written by id: the cron expires what it cannot verify, a full
\* refund, and an admin's edit, which knows every status but expired. A row that
\* gives back and cannot be written is only logged.
Close(o, st, fails) ==
    /\ order[o] # None /\ st \notin {"paid", order[o].status} /\ ~Locked(o)
    /\ st = "refunded" \/ st \in Dead \cup {"pending"}
    /\ order' = [order EXCEPT ![o].status = st]
    /\ IF fails
       THEN /\ Returned(o, st) # {} /\ unreturned' = unreturned \cup {o}
            /\ UNCHANGED ledger
       ELSE /\ ledger' = ledger \cup Returned(o, st)
            /\ unreturned' = unreturned \ {o}
    /\ Counted
    /\ UNCHANGED <<referrer, referral, promo, redeemed, job, paidOnce, raced>>
-----------------------------------------------------------------------------
\* The desk grants credit, or takes it back if the guard finds enough of it.
AdjustGrant(u) ==
    /\ ledger' = ledger \cup {Row(u, Grant, None, "admin_adjustment")}
    /\ Counted
    /\ UNCHANGED <<order, referrer, referral, promo, redeemed, job, paidOnce, raced, unreturned>>

DebitCheck(w, u) ==
    /\ Balance(u) >= Grant
    /\ Starts(w, [at |-> "debiting", user |-> u])
    /\ RacedIf(u, TRUE)
    /\ Counted
    /\ UNCHANGED <<tables, paidOnce, unreturned>>

DebitCommit(w) ==
    /\ job[w].at = "debiting"
    /\ ledger' = ledger \cup {Row(job[w].user, -Grant, None, "admin_adjustment")}
    /\ Ends(w)
    /\ UNCHANGED <<order, referrer, referral, promo, redeemed, ghosts>>

HasPaidOrder(u) == \E o \in Orders : order[o] # None /\ order[o].user = u /\ order[o].status = "paid"

\* claim: a code of somebody else, once, by someone who has bought nothing; an
\* order table that does not answer has no order in it.
ClaimRead(w, u, v, answers) ==
    /\ u # v /\ referral[u] = "none"
    /\ answers => ~HasPaidOrder(u)
    /\ Starts(w, [at |-> "claiming", user |-> u, by |-> v])
    /\ UNCHANGED <<tables, ghosts>>

\* One referral a referee, for ever; a duplicate is ignored.
ClaimInsert(w) ==
    LET u == job[w].user
    IN  /\ job[w].at = "claiming"
        /\ IF referral[u] = "none"
           THEN /\ referrer' = [referrer EXCEPT ![u] = job[w].by]
                /\ referral' = [referral EXCEPT ![u] = "pending"]
           ELSE UNCHANGED <<referrer, referral>>
        /\ Ends(w)
        /\ UNCHANGED <<order, ledger, promo, redeemed, ghosts>>

\* update: the code is switched off or on.
Toggle ==
    /\ promo # "deleted"
    /\ promo' = IF promo = "active" THEN "inactive" ELSE "active"
    /\ UNCHANGED <<order, ledger, referrer, referral, redeemed, job, ghosts>>

\* remove: only if nobody has used the code; its redemptions go with it.
RemoveRead(w) ==
    /\ promo # "deleted"
    /\ \A o \in Orders : redeemed[o] = 0
    /\ Starts(w, [at |-> "deleting"])
    /\ UNCHANGED <<tables, ghosts>>

RemoveDelete(w) ==
    /\ job[w].at = "deleting"
    /\ promo' = "deleted"
    /\ redeemed' = [o \in Orders |-> 0]
    /\ Ends(w)
    /\ UNCHANGED <<order, ledger, referrer, referral, ghosts>>

\* A transaction rolls back, a request is killed.
CutShort(w) ==
    /\ job[w] # Idle
    /\ Ends(w)
    /\ UNCHANGED <<tables, ghosts>>

Triggers == {"referral", "promo", "cashback"}

Next ==
    \/ Toggle
    \/ \E u \in Users : AdjustGrant(u)
    \/ \E o \in Orders, st \in Statuses, fails \in BOOLEAN : Close(o, st, fails)
    \/ \E w \in Workers :
          \/ PlaceCommit(w) \/ DebitCommit(w) \/ ClaimInsert(w)
          \/ RemoveRead(w) \/ RemoveDelete(w) \/ CutShort(w)
          \/ \E failing \in SUBSET Triggers : PayCommit(w, failing)
          \/ \E o \in Orders : PayRead(w, o)
          \/ \E u \in Users : DebitCheck(w, u)
          \/ \E u, v \in Users, answers \in BOOLEAN : ClaimRead(w, u, v, answers)
          \/ \E o \in Orders, u \in Users, c \in 0..Price, d \in 0..Discount :
                PlaceCheck(w, o, u, c, d)

Spec == Init /\ [][Next]_vars
-----------------------------------------------------------------------------
Rewarding == {"referral_reward", "referral_welcome"}

\* "Paid out once per side, no matter how many times a confirmation is
\* replayed": however orders of one customer are paid and paid again, a referral
\* pays each side once, both or none, and only with the customer's money in.
RewardOnce ==
    /\ \A e, f \in ledger :
          e.reason \in Rewarding /\ e.reason = f.reason /\ e.of = f.of => e = f
    /\ \A u \in Users :
          /\ Reward > 0 /\ referral[u] = "qualified" <=> Rewarded(u, "referral_reward")
          /\ Welcome > 0 /\ referral[u] = "qualified" <=> Rewarded(u, "referral_welcome")
          /\ referral[u] = "qualified" =>
                \E o \in paidOnce : order[o].user = u

\* An order that dies gives back exactly what it took, whatever it died of and
\* came back from, unless the row that gives it back could not be written; one
\* that is alive, or died so, holds what it took, or nothing.
SpendFollowsOrder ==
    \A o \in Orders : order[o] # None =>
        /\ Spent(o) \in {0, order[o].applied}
        /\ order[o].status \in Dead /\ o \notin unreturned => Spent(o) = 0

\* A code is used up by the orders it was paid with, once each.
RedeemedOnce ==
    \A o \in Orders :
        /\ redeemed[o] <= 1
        /\ redeemed[o] = 1 => promo # "deleted" /\ o \in paidOnce /\ order[o].discount > 0

\* The guards are enough for a customer who does one thing at a time: whatever is
\* granted, returned and taken back, the balance is overdrawn by races only.
OverdrawnByRaceOnly == \A u \in Users : Balance(u) < 0 => u \in raced
=============================================================================
