----------------------------- MODULE Settlement -----------------------------
(* How a payment the gateway took becomes a paid subscription, a ledger row    *)
(* and a billing event: createInvoice (account, admin), the status endpoints,  *)
(* the Blink webhook with PaymentSettlementService, the reconcile cron of      *)
(* AdminService, refunds, and BillingService.recordCaptured that all share.    *)
(* The subscription is one row of the four settlement tables. Requests and     *)
(* crons run concurrently, each split where it awaits.                         *)
EXTENDS Integers, FiniteSets

CONSTANTS
    Rows,        \* subscriptions reserved before payment
    Refs,        \* invoices the gateway can issue: payment hashes, addresses
    Webhooks,    \* calls of the Blink webhook that may run at once
    Crons,       \* runs of reconcilePendingPayments
    Polls,       \* calls of the payment status endpoints
    Invoicers,   \* calls of createInvoice and createSubscriptionInvoice
    ScanLimit,   \* rows the cron reads of a table (200)
    MaxRefunds,  \* bound: refunds of one row
    MaxFaults,   \* bound: calls that fail or are cut short
    None

Workers == Webhooks \cup Crons \cup Polls \cup Invoicers

ASSUME SettlementAssumption ==
    /\ ScanLimit \in Nat /\ MaxRefunds \in Nat /\ MaxFaults \in Nat
    /\ None \notin Rows \cup Refs
    /\ Webhooks \cap (Crons \cup Polls \cup Invoicers) = {}
    /\ Polls \cap (Crons \cup Invoicers) = {} /\ Crons \cap Invoicers = {}

VARIABLES
    gateway,    \* what the gateway knows of an invoice
    invoices,   \* ghost: the invoices issued for a row
    reference,  \* payment_reference
    payment,    \* payment_status
    lifecycle,  \* status, subscription_status of cleaning
    refunds,    \* negative ledger rows of a row
    ledger,     \* payments: the references captured, unique by index
    captures,   \* billing.PaymentCaptured events per reference
    named,      \* the rows such an event named as its subject
    pc,         \* where every worker stands
    work,       \* the <<row, reference>> pairs it has still to go through
    row,        \* the pair in hand
    ref,
    faults      \* ghost: faults so far

rows == <<reference, payment, lifecycle>>
books == <<refunds, ledger, captures, named>>
worker == <<pc, work, row, ref>>
vars == <<gateway, invoices, rows, books, worker, faults>>

Received == {f \in Refs : gateway[f] = "paid"}

TypeOK ==
    /\ gateway \in [Refs -> {"none", "open", "lapsed", "paid"}]
    /\ invoices \in [Rows -> SUBSET Refs]
    /\ reference \in [Rows -> Refs \cup {None}]
    /\ payment \in [Rows -> {"pending", "paid", "expired", "refunded"}]
    /\ lifecycle \in [Rows -> {"pending", "active", "cancelled"}]
    /\ refunds \in [Rows -> Nat]
    /\ ledger \subseteq Refs
    /\ captures \in [Refs -> Nat]
    /\ named \subseteq Rows
    /\ pc \in [Workers -> {"idle", "rows", "expiring", "invoice", "lookup", "persist", "publish"}]
    /\ work \in [Workers -> SUBSET (Rows \X (Refs \cup {None}))]
    /\ row \in [Workers -> Rows \cup {None}]
    /\ ref \in [Workers -> Refs \cup {None}]
    /\ faults \in Nat

Init ==
    /\ gateway = [f \in Refs |-> "none"]
    /\ invoices = [r \in Rows |-> {}]
    /\ reference = [r \in Rows |-> None]
    /\ payment = [r \in Rows |-> "pending"]
    /\ lifecycle = [r \in Rows |-> "pending"]
    /\ refunds = [r \in Rows |-> 0]
    /\ ledger = {}
    /\ captures = [f \in Refs |-> 0]
    /\ named = {}
    /\ pc = [w \in Workers |-> "idle"]
    /\ work = [w \in Workers |-> {}]
    /\ row = [w \in Workers |-> None]
    /\ ref = [w \in Workers |-> None]
    /\ faults = 0

Fault == faults < MaxFaults /\ faults' = faults + 1
-----------------------------------------------------------------------------
\* The customer pays an invoice, or it lapses.
Pay(f) ==
    /\ gateway[f] = "open"
    /\ \E answer \in {"paid", "lapsed"} : gateway' = [gateway EXCEPT ![f] = answer]
    /\ UNCHANGED <<invoices, rows, books, worker, faults>>

\* A step of w that leaves the pair in hand.
Done(w) ==
    /\ pc' = [pc EXCEPT ![w] = "idle"]
    /\ work' = [work EXCEPT ![w] = {}]
    /\ row' = [row EXCEPT ![w] = None]
    /\ ref' = [ref EXCEPT ![w] = None]

\* The PATCH by id every path makes, whatever the row is by now.
SetPaid(r) ==
    /\ payment' = [payment EXCEPT ![r] = "paid"]
    /\ lifecycle' = [lifecycle EXCEPT ![r] = "active"]

\* createInvoice reads the row ...
AskInvoice(w, r) ==
    /\ w \in Invoicers
    /\ pc[w] = "idle"
    /\ payment[r] # "paid"
    /\ pc' = [pc EXCEPT ![w] = "invoice"]
    /\ row' = [row EXCEPT ![w] = r]
    /\ ref' = [ref EXCEPT ![w] = reference[r]]
    /\ UNCHANGED <<gateway, invoices, rows, books, work, faults>>

\* ... settles the row itself if the invoice it already has was paid, without a
\* word to the ledger, or hands that invoice out again ...
ReuseInvoice(w) ==
    /\ pc[w] = "invoice"
    /\ ref[w] # None
    /\ \/ gateway[ref[w]] = "paid" /\ SetPaid(row[w])
       \/ gateway[ref[w]] \in {"open", "lapsed"} /\ UNCHANGED <<payment, lifecycle>>
    /\ Done(w)
    /\ UNCHANGED <<gateway, invoices, reference, books, faults>>

\* ... or issues a new one: there is none, it lapsed, or the lookup failed.
IssueInvoice(w) ==
    /\ pc[w] = "invoice"
    /\ \/ /\ ref[w] = None \/ (ref[w] # None /\ gateway[ref[w]] = "lapsed")
          /\ UNCHANGED faults
       \/ ref[w] # None /\ Fault
    /\ \E f \in Refs :
          /\ gateway[f] = "none"
          /\ gateway' = [gateway EXCEPT ![f] = "open"]
          /\ invoices' = [invoices EXCEPT ![row[w]] = @ \cup {f}]
          /\ reference' = [reference EXCEPT ![row[w]] = f]
    /\ Done(w)
    /\ UNCHANGED <<payment, lifecycle, books>>

\* A full refund of a Bitcoin payment: a negative ledger row and the end of it.
Refund(r) ==
    /\ payment[r] = "paid"
    /\ refunds[r] < MaxRefunds
    /\ refunds' = [refunds EXCEPT ![r] = @ + 1]
    /\ payment' = [payment EXCEPT ![r] = "refunded"]
    /\ lifecycle' = [lifecycle EXCEPT ![r] = "cancelled"]
    /\ UNCHANGED <<gateway, invoices, reference, ledger, captures, named, worker, faults>>
-----------------------------------------------------------------------------
\* markPaidByReference, for a hint or a swept reference the gateway says is paid:
\* the rows holding it that are not paid.
Settle(w, f) ==
    /\ w \in Webhooks
    /\ pc[w] = "idle"
    /\ f \in Received
    /\ work' = [work EXCEPT ![w] = {r \in Rows : reference[r] = f /\ payment[r] # "paid"} \X {f}]
    /\ work'[w] # {}
    /\ pc' = [pc EXCEPT ![w] = "rows"]
    /\ UNCHANGED <<gateway, invoices, rows, books, row, ref, faults>>

\* reconcilePendingPayments reads a page, in no order, of the rows to check.
ScanRows(w, candidates) ==
    /\ w \in Crons
    /\ pc[w] = "idle"
    /\ pc' = [pc EXCEPT ![w] = "rows"]
    /\ \E page \in SUBSET candidates :
          /\ page = candidates \/ Cardinality(page) = ScanLimit
          /\ Cardinality(page) <= ScanLimit
          /\ work' = [work EXCEPT ![w] = {<<r, reference[r]>> : r \in page}]
    /\ UNCHANGED <<gateway, invoices, rows, books, row, ref, faults>>

Open == {r \in Rows : payment[r] # "paid" /\ lifecycle[r] # "cancelled"}

\* Mutant: only active rows are scanned.
StartScan_Active(w) ==
    ScanRows(w, {r \in Open : reference[r] # None /\ lifecycle[r] = "active"})

StartScan(w) == ScanRows(w, {r \in Open : reference[r] # None})

\* The cron asks the gateway for each row; it skips what is not paid, and what
\* it cannot ask about.
SkipUnpaid(w) ==
    /\ w \in Crons
    /\ pc[w] = "rows"
    /\ \E p \in work[w] :
          /\ \/ p[2] \notin Received /\ UNCHANGED faults
             \/ p[2] \in Received /\ Fault
          /\ work' = [work EXCEPT ![w] = @ \ {p}]
    /\ UNCHANGED <<gateway, invoices, rows, books, pc, row, ref>>

\* The webhook writes the reference back as well; the cron leaves it.
PatchIf(w, paid) ==
    /\ pc[w] = "rows"
    /\ \E p \in work[w] :
          /\ w \in Crons => p[2] \in paid
          /\ SetPaid(p[1])
          /\ reference' = IF w \in Webhooks THEN [reference EXCEPT ![p[1]] = p[2]] ELSE reference
          /\ work' = [work EXCEPT ![w] = @ \ {p}]
          /\ row' = [row EXCEPT ![w] = p[1]]
          /\ ref' = [ref EXCEPT ![w] = p[2]]
    /\ pc' = [pc EXCEPT ![w] = "lookup"]
    /\ UNCHANGED <<gateway, invoices, books, faults>>

\* Mutant: the cron does not ask the gateway.
Patch_Unasked(w) == PatchIf(w, Refs)

Patch(w) == PatchIf(w, Received)

EndWebhook(w) ==
    /\ w \in Webhooks
    /\ pc[w] = "rows"
    /\ work[w] = {}
    /\ Done(w)
    /\ UNCHANGED <<gateway, invoices, rows, books, faults>>

\* expireUnverifiablePending reads the open rows without a reference; which of
\* them are more than a day old is left open.
StartExpire(w) ==
    /\ w \in Crons
    /\ pc[w] = "rows"
    /\ work[w] = {}
    /\ pc' = [pc EXCEPT ![w] = "expiring"]
    /\ \E old \in SUBSET {r \in Open : reference[r] = None} :
          work' = [work EXCEPT ![w] = old \X {None}]
    /\ UNCHANGED <<gateway, invoices, rows, books, row, ref, faults>>

ExpireRow(w) ==
    /\ pc[w] = "expiring"
    /\ \E p \in work[w] :
          /\ payment' = [payment EXCEPT ![p[1]] = "expired"]
          /\ lifecycle' = [lifecycle EXCEPT ![p[1]] = "cancelled"]
          /\ work' = [work EXCEPT ![w] = @ \ {p}]
    /\ UNCHANGED <<gateway, invoices, reference, books, pc, row, ref, faults>>

EndExpire(w) ==
    /\ pc[w] = "expiring"
    /\ work[w] = {}
    /\ Done(w)
    /\ UNCHANGED <<gateway, invoices, rows, books, faults>>
-----------------------------------------------------------------------------
\* A status endpoint records the payment under the reference it was asked about
\* and names no subscription.
Poll(w, f) ==
    /\ w \in Polls
    /\ pc[w] = "idle"
    /\ f \in Received
    /\ pc' = [pc EXCEPT ![w] = "lookup"]
    /\ ref' = [ref EXCEPT ![w] = f]
    /\ UNCHANGED <<gateway, invoices, rows, books, work, row, faults>>

\* Back to the rows still to settle; a poll has none and ends.
Recorded(w) == pc' = [pc EXCEPT ![w] = IF w \in Polls THEN "idle" ELSE "rows"]

\* recordCaptured: findFirst in the ledger; captured already, and it is over.
Lookup(w) ==
    /\ pc[w] = "lookup"
    /\ \/ ref[w] \in ledger /\ Recorded(w)
       \/ ref[w] \notin ledger /\ pc' = [pc EXCEPT ![w] = "persist"]
    /\ UNCHANGED <<gateway, invoices, rows, books, work, row, ref, faults>>

\* The insert; if the unique index refuses it, or it fails, the event is
\* emitted all the same.
PersistThen(w, place) ==
    /\ pc[w] = "persist"
    /\ \/ ledger' = ledger \cup {ref[w]} /\ UNCHANGED faults
       \/ Fault /\ UNCHANGED ledger
    /\ pc' = [pc EXCEPT ![w] = place]
    /\ UNCHANGED <<gateway, invoices, rows, refunds, captures, named, work, row, ref>>

\* Mutant: the insert reports the payment as captured before.
Persist_Silent(w) == PersistThen(w, "rows")

Persist(w) == PersistThen(w, "publish")

\* publish, which swallows a failed insert of the event.
Publish(w) ==
    /\ pc[w] = "publish"
    /\ \/ /\ captures' = [captures EXCEPT ![ref[w]] = @ + 1]
          /\ named' = IF row[w] = None THEN named ELSE named \cup {row[w]}
          /\ UNCHANGED faults
       \/ Fault /\ UNCHANGED <<captures, named>>
    /\ Recorded(w)
    /\ UNCHANGED <<gateway, invoices, rows, refunds, ledger, work, row, ref>>

\* The instance is killed or a call outside a catch fails.
CutShort(w) ==
    /\ pc[w] # "idle"
    /\ Fault
    /\ Done(w)
    /\ UNCHANGED <<gateway, invoices, rows, books>>

Record(w) == Lookup(w) \/ Persist(w) \/ Publish(w)
CronStep(w) ==
    \/ StartScan(w) \/ SkipUnpaid(w) \/ StartExpire(w) \/ ExpireRow(w) \/ EndExpire(w)
WorkerStep(w) == CronStep(w) \/ Patch(w) \/ EndWebhook(w) \/ Record(w)

Next ==
    \/ \E f \in Refs : Pay(f)
    \/ \E r \in Rows : Refund(r)
    \/ \E w \in Workers :
          \/ WorkerStep(w) \/ ReuseInvoice(w) \/ IssueInvoice(w) \/ CutShort(w)
          \/ \E r \in Rows : AskInvoice(w, r)
          \/ \E f \in Refs : Settle(w, f) \/ Poll(w, f)

Spec == Init /\ [][Next]_vars

\* Vercel runs the cron every ten minutes, and what is not cut short runs on.
FairSpec == Spec /\ \A w \in Workers : WF_vars(WorkerStep(w))
-----------------------------------------------------------------------------
\* Nobody gets for nothing: the ledger holds received payments only, and a row
\* is paid, or was refunded, only if an invoice issued for it was paid, although
\* the webhook, the cron and createInvoice all patch rows they read long before
\* and a row's reference may have been replaced since.
MoneyIsReal ==
    /\ ledger \subseteq Received
    /\ \A r \in Rows : payment[r] \in {"paid", "refunded"} => invoices[r] \cap Received # {}

\* A payment in the ledger was announced by billing.PaymentCaptured, unless its
\* recorder is still at it or something failed: whoever finds the ledger row and
\* skips the event may rely on another to emit it.
CapturesAnnounced ==
    \A f \in ledger : captures[f] = 0 =>
        faults > 0 \/ \E w \in Workers : pc[w] = "publish" /\ ref[w] = f

\* Why they hold: every pair in a worker's hands is an invoice of its row, and
\* paid where the worker has checked it.
WorkerInv(w) ==
    /\ \A p \in work[w] : p[2] # None =>
          p[2] \in invoices[p[1]] /\ (w \in Webhooks => p[2] \in Received)
    /\ pc[w] # "expiring" => \A p \in work[w] : p[2] # None
    /\ pc[w] = "rows" => w \in Webhooks \cup Crons
    /\ (pc[w] = "invoice" /\ ref[w] # None) => ref[w] \in invoices[row[w]]
    /\ pc[w] = "invoice" => row[w] \in Rows
    /\ pc[w] \in {"lookup", "persist", "publish"} => ref[w] \in Received /\ w \notin Invoicers

ReferencesIssued == \A r \in Rows : reference[r] # None => reference[r] \in invoices[r]

IInv ==
    /\ TypeOK /\ MoneyIsReal /\ CapturesAnnounced /\ ReferencesIssued
    /\ \A w \in Workers : WorkerInv(w)

\* The cron finds the money when no webhook comes and runs are cut short: a row
\* whose invoice was paid does not stay pending while it carries that invoice.
MoneyFound ==
    \A r \in Rows, f \in Refs :
        (reference[r] = f /\ f \in Received) ~> (payment[r] # "pending" \/ reference[r] # f)
=============================================================================
