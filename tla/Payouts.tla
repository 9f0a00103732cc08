------------------------------ MODULE Payouts ------------------------------
(* How a provider's earnings leave the platform: withdrawals, the admin's      *)
(* decisions, sends and settlements of                                        *)
(* src/src/account/provider-payouts.service.ts over the table                 *)
(* provider_payouts, against the balance ProviderEarningsService computes, and *)
(* of its port supabase/functions/api/routes/payouts.ts, which serves the same *)
(* table.                                                                      *)
(* One provider: nothing relates the payouts of two. Calls run concurrently,  *)
(* each split where it awaits. A call creates one row at most, so rows are    *)
(* named before they exist.                                                   *)
EXTENDS Integers, FiniteSets

CONSTANTS
    Payouts,       \* rows that may come to be
    Workers,       \* calls of request, send and settle that may run at once
    Amounts,       \* cents asked for or recorded by hand, the minimum met
    MaxEarned,     \* bound: the most the provider ever earns
    MaxDecisions,  \* bound: decisions of the admins
    None

ASSUME PayoutsAssumption ==
    /\ IsFiniteSet(Payouts) /\ IsFiniteSet(Workers)
    /\ Amounts \subseteq Nat \ {0}
    /\ MaxEarned \in Nat /\ MaxDecisions \in Nat
    /\ None \notin Payouts

VARIABLES
    enabled,    \* BlinkService.payoutsEnabled, a switch of the deployment
    earned,     \* earnedCents, recognized day by day and taken back by refunds
    kind,       \* how the row came to be: withdrawn at once, asked for, recorded
    amount,     \* amount_cents
    status,     \* status, "none" without a row
    pc,         \* where every call stands
    payout,     \* the row it is about
    seen,       \* the earnings it read
    verdict,    \* the status it is about to write
    peak,       \* ghost: the most that was ever earned
    sends,      \* ghost: calls of blink.sendPayout for the row
    gone,       \* ghost: rows whose money left the wallet
    unclear,    \* ghost: rows for which such a call threw
    approvals,  \* ghost: decisions to approve the row
    overruled,  \* ghost: rows an admin decided on, or deleted
    decisions   \* ghost: decisions so far

table == <<kind, amount, status>>
worker == <<pc, payout, seen, verdict>>
transfers == <<sends, gone, unclear>>
admin == <<approvals, overruled, decisions>>
vars == <<enabled, earned, peak, table, worker, transfers, admin>>

CommittedStatus == {"requested", "approved", "sending", "paid"}
Exists == {p \in Payouts : status[p] # "none"}
Committed == {p \in Payouts : status[p] \in CommittedStatus}

\* The cents of a set of payouts, one by one; their number is the sum.
SumOf(f, P) == Cardinality(UNION {{p} \X (1 .. f[p]) : p \in P})
Total(P) == SumOf(amount, P)

TypeOK ==
    /\ enabled \in BOOLEAN
    /\ earned \in Nat /\ peak \in Nat
    /\ kind \in [Payouts -> {"none", "instant", "queued", "recorded"}]
    /\ amount \in [Payouts -> Nat]
    /\ status \in [Payouts -> {"none", "failed", "rejected"} \cup CommittedStatus]
    /\ pc \in [Workers -> {"idle", "checking", "settling", "claiming", "verifying",
                           "comparing", "locking", "paying", "landing"}]
    /\ payout \in [Workers -> Payouts \cup {None}]
    /\ seen \in [Workers -> Nat]
    /\ verdict \in [Workers -> {"none", "rejected", "paid", "sending", "failed"}]
    /\ sends \in [Payouts -> Nat]
    /\ gone \subseteq Payouts /\ unclear \subseteq Payouts /\ overruled \subseteq Payouts
    /\ approvals \in [Payouts -> Nat]
    /\ decisions \in Nat

Init ==
    /\ enabled \in BOOLEAN
    /\ earned = 0 /\ peak = 0
    /\ kind = [p \in Payouts |-> "none"]
    /\ amount = [p \in Payouts |-> 0]
    /\ status = [p \in Payouts |-> "none"]
    /\ pc = [w \in Workers |-> "idle"]
    /\ payout = [w \in Workers |-> None]
    /\ seen = [w \in Workers |-> 0]
    /\ verdict = [w \in Workers |-> "none"]
    /\ sends = [p \in Payouts |-> 0]
    /\ gone = {} /\ unclear = {} /\ overruled = {}
    /\ approvals = [p \in Payouts |-> 0]
    /\ decisions = 0

\* The deployment turns sending on or off.
Switch ==
    /\ enabled' = ~enabled
    /\ UNCHANGED <<earned, peak, table, worker, transfers, admin>>

\* Revenue is recognized, or an order refunded.
Recognize ==
    /\ earned' \in 0 .. MaxEarned
    /\ peak' = IF earned' > peak THEN earned' ELSE peak
    /\ UNCHANGED <<enabled, table, worker, transfers, admin>>

Fresh(p) == kind[p] = "none" /\ amount[p] = 0

\* A call of w ends.
Return(w) ==
    /\ pc' = [pc EXCEPT ![w] = "idle"]
    /\ payout' = [payout EXCEPT ![w] = None]
    /\ seen' = [seen EXCEPT ![w] = 0]
    /\ verdict' = [verdict EXCEPT ![w] = "none"]

\* A call of w begins at place with row p in hand.
Begin(w, p, place) ==
    /\ pc[w] = "idle"
    /\ pc' = [pc EXCEPT ![w] = place]
    /\ payout' = [payout EXCEPT ![w] = p]
    /\ UNCHANGED verdict
-----------------------------------------------------------------------------
\* request: summarize adds up the earnings first ...
Request(w, p, cents) ==
    /\ Fresh(p)
    /\ Begin(w, p, "checking")
    /\ amount' = [amount EXCEPT ![p] = cents]
    /\ seen' = [seen EXCEPT ![w] = earned]
    /\ UNCHANGED <<enabled, earned, peak, kind, status, transfers, admin>>

\* ... then what is committed; the request is refused beyond the difference (or
\* by the wallet, the minimum). It waits for an admin where sending is off, and,
\* in the port of this code to the edge functions, where the wallets are short.
Check(w) ==
    /\ pc[w] = "checking"
    /\ \/ /\ amount[payout[w]] + Total(Committed) <= seen[w]
          /\ pc' = [pc EXCEPT ![w] = "claiming"]
          /\ \E how \in {"instant", "queued"} :
                /\ how = "instant" => enabled
                /\ kind' = [kind EXCEPT ![payout[w]] = how]
          /\ UNCHANGED <<payout, seen, verdict>>
       \/ Return(w) /\ UNCHANGED kind
    /\ UNCHANGED <<enabled, earned, peak, amount, status, transfers, admin>>

\* The insert: an instant withdrawal is claimed as sending, a queued one waits.
Claim(w) ==
    /\ pc[w] = "claiming"
    /\ \/ /\ kind[payout[w]] = "instant"
          /\ status' = [status EXCEPT ![payout[w]] = "sending"]
          /\ pc' = [pc EXCEPT ![w] = "verifying"]
          /\ UNCHANGED <<payout, seen, verdict>>
       \/ /\ kind[payout[w]] # "instant"
          /\ status' = [status EXCEPT ![payout[w]] =
                          IF kind[payout[w]] = "queued" THEN "requested" ELSE "paid"]
          /\ Return(w)
    /\ UNCHANGED <<enabled, earned, peak, kind, amount, transfers, admin>>

\* Verify after claiming: the earnings again ...
Reread(w) ==
    /\ pc[w] = "verifying"
    /\ seen' = [seen EXCEPT ![w] = earned]
    /\ pc' = [pc EXCEPT ![w] = "comparing"]
    /\ UNCHANGED <<enabled, earned, peak, table, payout, verdict, transfers, admin>>

\* ... and all claims, this one among them: void it, or pay.
CompareWith(w, claims) ==
    /\ pc[w] = "comparing"
    /\ \/ /\ Total(claims) > seen[w]
          /\ pc' = [pc EXCEPT ![w] = "landing"]
          /\ verdict' = [verdict EXCEPT ![w] = "rejected"]
       \/ /\ Total(claims) <= seen[w]
          /\ pc' = [pc EXCEPT ![w] = "paying"]
          /\ UNCHANGED verdict
    /\ UNCHANGED <<enabled, earned, peak, table, payout, seen, transfers, admin>>

\* Mutant: a claim that is still in flight is not counted.
Compare_PaidOnly(w) ==
    CompareWith(w, {p \in Committed : status[p] # "sending" \/ p = payout[w]})

Compare(w) == CompareWith(w, Committed)
-----------------------------------------------------------------------------
\* dispatch asks Blink to pay: the answer is SUCCESS, PENDING or a refusal, or
\* the call throws, and then the money may have left or not.
Answer(w, value, left, threw) ==
    /\ verdict' = [verdict EXCEPT ![w] = value]
    /\ gone' = IF left THEN gone \cup {payout[w]} ELSE gone
    /\ unclear' = IF threw THEN unclear \cup {payout[w]} ELSE unclear

PayThen(w, pending) ==
    /\ pc[w] = "paying"
    /\ sends' = [sends EXCEPT ![payout[w]] = @ + 1]
    /\ pc' = [pc EXCEPT ![w] = "landing"]
    /\ \/ Answer(w, "paid", TRUE, FALSE)
       \/ Answer(w, pending, TRUE, FALSE)
       \/ Answer(w, "failed", FALSE, FALSE)
       \/ \E left \in BOOLEAN : Answer(w, "failed", left, TRUE)
    /\ UNCHANGED <<enabled, earned, peak, table, payout, seen, admin>>

\* Mutant: PENDING is taken for a failure.
Pay_PendingFails(w) == PayThen(w, "failed")

Pay(w) == PayThen(w, "sending")

\* finish: an update by id, whatever the row's status is by now; a deleted row
\* stays deleted.
Land(w) ==
    /\ pc[w] = "landing"
    /\ status' = IF payout[w] \in Exists
                 THEN [status EXCEPT ![payout[w]] = verdict[w]] ELSE status
    /\ Return(w)
    /\ UNCHANGED <<enabled, earned, peak, kind, amount, transfers, admin>>

\* send, by an admin: the row is read and must be approved ...
ReadApproved(w, p) ==
    /\ enabled
    /\ status[p] = "approved"
    /\ Begin(w, p, "locking")
    /\ UNCHANGED <<enabled, earned, peak, table, seen, transfers, admin>>

\* ... and claimed by a conditional update: who comes second gets no row.
LockFrom(w, states) ==
    /\ pc[w] = "locking"
    /\ \/ /\ status[payout[w]] \in states
          /\ status' = [status EXCEPT ![payout[w]] = "sending"]
          /\ pc' = [pc EXCEPT ![w] = "paying"]
          /\ UNCHANGED <<payout, seen, verdict>>
       \/ /\ status[payout[w]] \notin states
          /\ Return(w)
          /\ UNCHANGED status
    /\ UNCHANGED <<enabled, earned, peak, kind, amount, transfers, admin>>

\* Mutant: the update is not conditional.
Lock_Any(w) == LockFrom(w, CommittedStatus)

Lock(w) == LockFrom(w, {"approved"})
-----------------------------------------------------------------------------
\* decide, by an admin: an update by id, whatever the row's status is by now.
Decide(p, decision) ==
    /\ p \in Exists
    /\ decisions < MaxDecisions
    /\ decisions' = decisions + 1
    /\ status' = [status EXCEPT ![p] = decision]
    /\ approvals' = IF decision = "approved" THEN [approvals EXCEPT ![p] = @ + 1] ELSE approvals
    /\ overruled' = overruled \cup {p}
    /\ UNCHANGED <<enabled, earned, peak, kind, amount, worker, transfers>>

\* remove, in any status.
Remove(p) ==
    /\ p \in Exists
    /\ decisions < MaxDecisions
    /\ decisions' = decisions + 1
    /\ status' = [status EXCEPT ![p] = "none"]
    /\ overruled' = overruled \cup {p}
    /\ UNCHANGED <<enabled, earned, peak, kind, amount, worker, transfers, approvals>>

\* create: the record of a payment made by hand, whatever is available; status
\* is the column's default.
Create(p, cents) ==
    /\ Fresh(p)
    /\ kind' = [kind EXCEPT ![p] = "recorded"]
    /\ amount' = [amount EXCEPT ![p] = cents]
    /\ status' = [status EXCEPT ![p] = "paid"]
    /\ UNCHANGED <<enabled, earned, peak, worker, transfers, admin>>

\* settle: all that is outstanding, read like a request's balance, is recorded
\* by create.
Settle(w, p) ==
    /\ Fresh(p)
    /\ Begin(w, p, "settling")
    /\ kind' = [kind EXCEPT ![p] = "recorded"]
    /\ seen' = [seen EXCEPT ![w] = earned]
    /\ UNCHANGED <<enabled, earned, peak, amount, status, transfers, admin>>

Outstanding(w) ==
    /\ pc[w] = "settling"
    /\ \/ /\ seen[w] > Total(Committed)
          /\ amount' = [amount EXCEPT ![payout[w]] = seen[w] - Total(Committed)]
          /\ pc' = [pc EXCEPT ![w] = "claiming"]
          /\ UNCHANGED <<payout, seen, verdict>>
       \/ /\ seen[w] <= Total(Committed)
          /\ Return(w)
          /\ UNCHANGED amount
    /\ UNCHANGED <<enabled, earned, peak, kind, status, transfers, admin>>

\* The instance is killed or a database call fails.
CutShort(w) ==
    /\ pc[w] # "idle"
    /\ Return(w)
    /\ UNCHANGED <<enabled, earned, peak, table, transfers, admin>>

WorkerStep(w) ==
    \/ Check(w) \/ Claim(w) \/ Reread(w) \/ Compare(w) \/ Pay(w) \/ Land(w)
    \/ Lock(w) \/ Outstanding(w) \/ CutShort(w)

Next ==
    \/ Switch \/ Recognize
    \/ \E p \in Payouts :
          \/ \E decision \in {"approved", "rejected", "paid"} : Decide(p, decision)
          \/ Remove(p)
          \/ \E cents \in Amounts : Create(p, cents)
    \/ \E w \in Workers :
          \/ WorkerStep(w)
          \/ \E p \in Payouts :
                \/ ReadApproved(w, p) \/ Settle(w, p)
                \/ \E cents \in Amounts : Request(w, p, cents)

Spec == Init /\ [][Next]_vars
-----------------------------------------------------------------------------
\* The withdrawals Blink was told to pay and that no admin touched.
Withdrawn == {p \in Committed \ overruled : kind[p] = "instant" /\ sends[p] > 0}

\* "The one that finds it does voids itself rather than sending": however many
\* withdrawals race, those sent never add up to more than was earned, even when
\* earnings grow and shrink meanwhile; those written down as failed apart.
NeverOverdrawn == Total(Withdrawn) <= peak

\* Every send has an approval of its own, or was the withdrawal itself: two
\* admins, or a double click, cannot spend one approval twice.
OneSendPerApproval ==
    \A p \in Payouts : sends[p] <= approvals[p] + (IF kind[p] = "instant" THEN 1 ELSE 0)

\* "A failure never reads as paid" and "PENDING stays in flight": of a row no
\* admin touched, paid means the money left, and money that left with a known
\* answer stays committed; a killed call or a late finish changes neither.
MoneyAccounted ==
    \A p \in Payouts \ overruled :
        /\ status[p] = "paid" /\ kind[p] # "recorded" => p \in gone
        /\ p \in gone \ unclear => status[p] \in {"sending", "paid"}
-----------------------------------------------------------------------------
\* Why these hold. A row no admin touched is in one call's hands at most; until
\* the call has paid no money of the row has left, and from the claim until it
\* lands the row is sending.
InHand(w, p) == payout[w] = p /\ p \notin overruled
Unborn == {"checking", "settling", "claiming"}
Claimed == {"verifying", "comparing", "paying", "landing"}

CallInv(w) ==
    /\ seen[w] <= peak
    /\ pc[w] # "idle" => payout[w] \in Payouts /\ ~Fresh(payout[w])
    /\ pc[w] = "idle" => payout[w] = None
    /\ pc[w] \in Unborn => status[payout[w]] = "none" /\ payout[w] \notin overruled
    /\ pc[w] = "checking" => kind[payout[w]] = "none"
    /\ pc[w] = "settling" => kind[payout[w]] = "recorded"
    /\ pc[w] = "claiming" => kind[payout[w]] # "none"
    /\ pc[w] \in {"verifying", "comparing"} => kind[payout[w]] = "instant"
    /\ pc[w] = "locking" => payout[w] \in overruled
    /\ pc[w] = "landing" => verdict[w] # "none"

HandInv(w, p) ==
    InHand(w, p) =>
        /\ \A v \in Workers : payout[v] = p => v = w
        /\ pc[w] # "landing" => sends[p] = 0 /\ p \notin gone
        /\ pc[w] \in Claimed => status[p] = "sending" /\ kind[p] = "instant"
        /\ pc[w] = "landing" =>
              /\ verdict[w] = "paid" => p \in gone
              /\ verdict[w] \in {"rejected", "failed"} => p \notin gone \ unclear

RowInv(p) ==
    /\ Fresh(p) => status[p] = "none" /\ p \notin overruled \cup gone /\ sends[p] = 0
    /\ status[p] = "approved" => p \in overruled

\* The withdrawals that passed the comparison: paid, or about to be.
Passed == {p \in Committed \ overruled :
              /\ kind[p] = "instant"
              /\ sends[p] > 0 \/ \E w \in Workers : pc[w] = "paying" /\ payout[w] = p}
BalanceInv == earned <= peak /\ Total(Passed) <= peak

\* The calls that hold a right to send: an approval they consumed, or that of
\* the withdrawal itself.
Entitled(p) == {w \in Workers :
    /\ payout[w] = p
    /\ \/ pc[w] = "paying"
       \/ kind[p] = "instant" /\ pc[w] \in {"claiming", "verifying", "comparing"}}
RightsInv(p) ==
    sends[p] + Cardinality(Entitled(p)) + (IF status[p] = "approved" THEN 1 ELSE 0)
        <= approvals[p] + (IF kind[p] = "instant" THEN 1 ELSE 0)

IInv ==
    /\ TypeOK /\ BalanceInv /\ MoneyAccounted
    /\ \A w \in Workers : CallInv(w)
    /\ \A w \in Workers, p \in Payouts : HandInv(w, p)
    /\ \A p \in Payouts : RowInv(p) /\ RightsInv(p)
=============================================================================
