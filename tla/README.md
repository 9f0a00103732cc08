# A formal model of the ProsperaSub back end

ProsperaSub sells subscriptions (cleaning, gym, beach club, food), rentals and
bookings. Its back end is one NestJS application (`src/src`) that runs as
serverless functions on Vercel over one Postgres database (Prisma, and
PostgREST for the older tables), with a set of Supabase edge functions
(`src/supabase/functions`) that serve some of the same tables. There is no lock,
no queue and hardly a transaction: **every request, webhook and cron run is a
process of its own, and two of them meet only in the rows they both read and
write.** Nearly every hazard of this code is of one kind: a row is read, something
is awaited (Blink, PayPal, a mail server, the next query), and then a row is
written by id, whatever it has become meanwhile.

The modules here model the parts of this back end where such a meeting costs
money, seats or messages. TLC checks them on small instances; TLAPS proves the
main safety properties for every value of the constants.

Contents: [1 Inventory](#1-inventory) · [2 Modules](#2-the-modules-and-the-code) ·
[3 Runs](#3-the-runs) · [4 Proofs](#4-what-is-proved) ·
[5 Disagreements](#5-where-code-and-documentation-disagree) ·
[6 Not modelled](#6-what-is-not-modelled-and-why) · [7 Plan](#7-plan) ·
[8 Running it](#8-running-it)

## 1 Inventory

Paths are relative to `src/src` unless they begin with `supabase`.

| Component | State it keeps | Operations | Talks to |
|---|---|---|---|
| **Event outbox** `events/` | `domain_events` (`occurred_at`, `published_at`), `domain_event_deliveries` (status, attempts) | `publish`, `drain`, cron `dispatch-events` | called by every component that publishes; calls the registered handlers |
| **Booking engine** `booking/` | `bookings` (status, slot key, `expires_at`), `booking_waitlist`, policies | `hold`, `bookForCustomer`, `confirm`, `cancel`, `joinWaitlist`, cron `expireHolds` | publishes `booking.*`; a handler of `order.OrderConfirmed` confirms the order's holds |
| **Payment settlement** `payments/`, `account/account-payment` | the four subscription tables' `payment_reference`, `payment_status`, lifecycle | `createInvoice`, status endpoints, Blink webhook, `markPaidByReference`, PayPal capture | Blink and PayPal; `BillingService` |
| **Reconciliation cron** `admin/admin.service` | the same rows | `reconcilePendingPayments`, `expireUnverifiablePending`, `createSubscriptionInvoice` | the gateway, `BillingService` |
| **Billing ledger** `billing/` | `payments`, unique by provider reference | `recordCaptured` | publishes `billing.PaymentCaptured` |
| **Refunds** `admin/refunds.service` | negative rows of `payments`, the order's status | `refund` | PayPal |
| **Provider payouts** `account/provider-payouts`, `supabase/functions/api/routes/payouts.ts` | `provider_payouts` | `request`, `send`, `decide`, `settle`, `create`, `remove` | Blink (`sendPayout`), `ProviderEarningsService` |
| **Provider earnings** `account/provider-earnings` | none: computed from orders and payouts | `summarize` | read by payouts |
| **Renewals** `payments/subscription-renewal`, `account/account-renewals`, `food/` | `subscription_renewals` (a row a key), the subscription's dates and status | renew of cleaning, beach, universal and food plans | gateway, `BillingService` |
| **PayPal auto-renewal** `supabase/functions/api/routes/paypal-subscriptions.ts` | PayPal's subscription id, `auto_renew`, the audit key of a sale | create, activate, webhook, cancel | PayPal, the same rows |
| **Cancellation** `account/account-cancellation`, `…/routes/cancellation.ts` | `cancel_at_period_end`, `cancel_requested_at` | cancel, resume | PayPal (suspend, activate) |
| **Expiration, reminders** `account/subscription-expiration`, `account/cleaning-reminder` | lifecycle, a claim per reminder stage, a job row per visit | the daily sweep; claim / deliver / release; look / deliver / mark | mail, in-app notices |
| **Provider alerts** `…/routes/provider-alerts.ts` | a claim per order | tell the business of a new order | mail |
| **Credits, promo codes, referrals** SQL triggers, `account/referrals`, `admin/customer-credits`, `admin/promo-codes` | `customer_credits` (a ledger), `referrals`, redemptions | place, pay, close an order; claim; adjust; switch a code | the order tables, by triggers |
| **Cleaning slots and visits** `schedule_cleaning_subscription` (SQL), `account/account-cleaning`, `admin/admin.service`, `integrations/` | `cleaning_bookings`, a counter per slot | schedule, book, move, reserve, cancel, delete, edit, sweep | each other, by the counter only |
| **Calendar sync** `google-calendar/` | event ids and sync status on the visits; Google's events | sync, cron, remove, reconcile, restore, provision | Google Calendar |
| **Booking policy, allowance** `booking/allowance.ts`, `assertPolicyAllows` | none: counted from bookings | asked by `hold` | plans held, bookings |
| **Service occurrences** `account/occurrences`, SQL mirrors | `service_occurrences`, `food_delivery_logs` | mark, move, remove, generate, mirror | bookings, by a trigger |
| **Orders and saga** `order/` | `orders` and their items | place, saga steps on events | `booking`, the outbox |
| **Others** (slot engine, memberships, analytics, catalogue, auth, administration, mail, support, integrations, health, configuration) | see `PROJECT.json` | | |

What makes the hard ones hard, and what correct means for them:

* **Outbox.** `publish` writes the event, then starts a drain it does not wait
  for; a cron starts another. Drains overlap, an instance may be killed at any
  await, handlers throw. *Correct*: an event leaves the outbox only when every
  subscriber was served or tried to the limit; the attempts ledger never
  overstates; a poison handler cannot wedge the queue.
* **Booking.** Two customers after one seat, a payment arriving as the hold runs
  out, a sweep working on rows it read earlier, promotions of the waitlist
  racing. *Correct*: one claim a seat, capacity respected, a customer who paid in
  time keeps the slot, the waitlist is first come first served, every hold ends.
* **Settlement, reconciliation, ledger, refunds.** The same invoice is confirmed
  by a webhook (lost, late, repeated), a poll and a cron, while another request
  may replace the invoice or refund the order. *Correct*: nothing is paid that
  was not received; what was received is found, recorded and announced.
* **Payouts.** Two withdrawals pass the same balance check; two admins press the
  same button; Blink answers late, with PENDING, or not at all. *Correct*: no
  more is sent than was earned, an approval pays once, money that left is
  accounted for.
* **Renewals, auto-renewal.** An audit row, then a patch; PayPal charges by
  itself and says so late, twice or in another order than the browser. *Correct*:
  a key extends once, nothing is extended that was not paid, PayPal's first charge
  is not taken for a renewal, and nobody is expired early.
* **Cancellation.** PayPal and the row are told one after the other by calls that
  die or meet. *Correct*: who cancelled is not charged.
* **Reminders and alerts.** Runs overlap, mail fails, customers cancel while a run
  sends. *Correct*: once, to those who should hear, and in the end.
* **Credits.** Triggers of transactions that do not see each other's rows.
  *Correct*: a referral pays each side once, an order that dies returns what it
  took, a code is used up once, no overdraft but by a race.
* **Visits.** Ten handlers keep one counter by hand. *Correct*: it is the number of
  visits booked; a customer has one schedule.
* **Calendar sync.** A dozen awaits between a row and Google's event. *Correct*: no
  event for two visits, no visit twice, "synced" is true.
* **Allowance, occurrences.** Counts taken before the insert they admit; two
  tables that mirror one another. *Correct*: hours and limits are kept; the list
  shows what is booked; occurrence and log agree.

`PROJECT.json` lists every hazard at its line with the properties that cover it,
or the reason why none does yet.

## 2 The modules and the code

```
 EventLog <- refined by - Outbox        <- MCOutbox         OutboxProofs
 Seats    <- refined by - Booking       <- MCBooking        BookingProofs
                          Settlement    <- MCSettlement     SettlementProofs
                          Payouts       <- MCPayouts        PayoutsProofs
                          Subscriptions <- MCSubscriptions  SubscriptionsProofs
                          AutoRenewal   <- MCAutoRenewal    SubscriptionsProofs
                          Credits       <- MCCredits        CreditsProofs
                          Reminders     <- MCReminders      RemindersProofs
                          Visits        <- MCVisits         VisitsProofs
                          CalendarSync  <- MCCalendarSync   BookingProofs
                          Allowance     <- MCAllowance      SettlementProofs
                          Deliveries    <- MCDeliveries     PayoutsProofs
```

Four proof modules prove about two protocols each, in two parts that use nothing of
each other. `AutoRenewal`, `CalendarSync`, `Allowance` and `Deliveries` therefore give
their specification, its parts and the value for *nothing* names of their own
(`BillingSpec`, `CalendarSpec`, `AllowanceSpec`, `DeliveriesSpec`; `Blank`, `Nil`,
`Absent`).

A module is not one source file but one *protocol*: everything that writes the
same rows. So `Settlement` holds a webhook, a poll, a cron and the ledger,
`Subscriptions` four files that move one date, `Credits` the triggers with the
services that meet them, and `Visits` ten handlers of four services and a stored
procedure, which share a counter.

The convention is the same everywhere. A call in progress is a *worker* with a
program counter; a step is what the code does from one await to the next, so
that other workers may act in between exactly where the code lets them. What a
call read and still holds is a variable of the worker (`seen`, `batch`,
`expired`, `work`, `verdict`): stale reads are states, not special cases. A write
"by id" carries no guard on the row's status; a conditional `updateMany` does.
Where calls are many and alike
the worker's counter and what it knows are one record, `job[w]`.
`CutShort`, `RequestDies` and `Abort` are a killed instance or a failed database call: local
state is gone, rows stay. Variables marked *ghost* exist for the properties only.
The operators marked *Mutant* in the modules are plausible bugs of the code; no
specification uses them, and each shows that some property would notice.

### Outbox, EventLog

| TLA+ | Code (`events/`) |
|---|---|
| `Publish` | `event-bus.service.ts` `publish`: insert, or swallow the error |
| `StartDrain` (`IsBatch`) | `outbox-dispatcher.service.ts` `drain`: the oldest unpublished rows up to the limit |
| `NextRow`, `ReadDelivery` | the two loops, skipping a delivered or dead handler |
| `CallHandler` | `handler.handle(envelope)` returns or throws |
| `RecordSuccess`, `SuccessNotRecorded`, `RecordFailure` | the try and the catch around it with `recordDelivery` |
| `FinishRow`, `EndDrain` | `published_at` is set unless a handler is left to retry |
| `Abort` | the instance dies or a call outside the try throws |

`EventLog` is the promise to a publisher, in three variables: events are
appended, subscribers are settled (served, or tried `MaxAttempts` times), and an
event is retired when all its subscribers are. `Outbox!Log` maps `stored`,
`settled` and `retired` to the rows and the ghosts.

### Booking, Seats

| TLA+ | Code (`booking/booking.service.ts`, `supabase/migrations/20260705120150_phase4b_…`) |
|---|---|
| `AskHold`, `PolicyAllows` | `hold` up to the moment it takes `now`; `assertPolicyAllows`, bypassed by `bookForCustomer` |
| `FreeExpired` | the conditional `updateMany` that releases the slot's stale holds |
| `ClaimSeat`, `SeatFree` | inserts on seat 1, 2, … until one is not refused by the partial unique index `bookings_active_slot_uidx` |
| `Confirm` | `confirm`: conditional on `held`, blind to `expires_at` |
| `Cancel` | `cancel` by id, then the waitlist |
| `StartSweep`, `ReleaseExpired`, `EndSweep` | `expireHolds`: `findMany`, then an update by id per row |
| `ReadWaitlist`, `Promote` | `promoteWaitlist`: `findFirst`, then an update by id |
| `JoinWaitlist`, `Tick`, `CutShort` | `joinWaitlist`; the clock; a failing call |

`Seats` is a register with one claim per seat of a slot; the active rows of
`bookings` are that register. A policy rule is a set of slots and a limit, the
two things its variants (per day, per resource, per kind) tell apart.

### Settlement

A row stands for a row of any of the four settlement tables: they share columns
and code. A reference is an invoice (payment hash or address), and the gateway
is an environment that knows for each whether it is open, lapsed or paid.

| TLA+ | Code |
|---|---|
| `AskInvoice`, `ReuseInvoice`, `IssueInvoice` | `account-payment.service.ts` `createInvoice`; `admin.service.ts` `createSubscriptionInvoice` |
| `Settle`, `Patch`, `EndWebhook` | `blink-webhook.controller.ts`, `payment-settlement.service.ts` `markPaidByReference` |
| `StartScan`, `SkipUnpaid`, `Patch` | `admin.service.ts` `reconcilePendingPayments` |
| `StartExpire`, `ExpireRow`, `EndExpire` | `expireUnverifiablePending` |
| `Poll` | the status endpoints of `payments.controller.ts` |
| `Lookup`, `Persist`, `Publish` | `billing.service.ts` `recordCaptured`, shared by all of them |
| `Refund` | `refunds.service.ts`, a full refund of a Bitcoin payment |
| `Pay`, `CutShort` | the customer; a killed instance |

Four components meet in this module because they are one protocol: what the
webhook does makes sense only against what the cron, the poll and `createInvoice`
may do to the same row between its read and its write.

### Payouts

| TLA+ | Code (`account/provider-payouts.service.ts`) |
|---|---|
| `Request`, `Check`, `Claim` | `request`: the balance (`summarize`: earnings, then commitments), the claim |
| `Reread`, `Compare` | verify after claiming, and void when overdrawn |
| `Pay`, `Land` | `dispatch` and `finish`: Blink says SUCCESS, PENDING, a refusal, or throws |
| `ReadApproved`, `Lock` | `send`: read, conditional update, `dispatch` |
| `Decide`, `Remove`, `Create` | the admin's writes by id |
| `Settle`, `Outstanding`, `Claim` | `settle`: all that is outstanding, recorded by `create` |
| `Recognize`, `Switch` | revenue recognized or refunded; payouts switched on or off |

The edge function `supabase/functions/api/routes/payouts.ts` is a port of
`request` over the same table; it also queues a withdrawal when the wallets are
short, which `Check` allows.

### Subscriptions

The four tables with a term are one here: a row has a kind, and kinds differ in
the date that ends them and in the length of a term.

| TLA+ | Code |
|---|---|
| `RenewRead`, `Confirm`, `RenewRecord`, `Extend` | `account-renewals.service.ts`, `food.service.ts` and the engine both call, `subscription-renewal.service.ts`: verify the payment, insert the audit row under its key, patch the row |
| `NextStart`, `Length` | `nextPeriod` and the term's length; a renewal ahead of the end prolongs, one after it starts today |
| `SaleRead`, `IsFirstCharge`, `SaleFirst`, `SaleRecord`, `Activate`, `Approve`, `Charge`, `Switch` | `paypal-subscriptions.ts`: the sale webhook, the browser's activate, and PayPal |
| `Sweep`, `SweepTo`, `Overdue` | `subscription-expiration.service.ts`, table by table, any of which may fail |
| `AccessRead`, `AccessExpire` | food access, which expires what it looked at |
| `Schedule`, `AdminCancel`, `NewDay`, `CutShort` | the first visit; an admin; the date; a killed call |

### AutoRenewal

| TLA+ | Code |
|---|---|
| `FlagRead`, `FlagAsk`, `FlagTell`, `FlagRefused`, `FlagWrite` | `cancellation.ts` cancel and resume: read, ask PayPal for the state, tell it, write the flag; a refusal undoes it |
| `OffRead`, `OffTell`, `OffWrite` | `paypal-subscriptions.ts`, auto-renewal off |
| `PayRead`, `PayAsk`, `MarkFirstPaid`, `Create`, `Approve` | create, activate |
| `Webhook`, `PayPalMoves`, `PayPalStops` | PayPal's events, and what it does by itself |

### Credits

| TLA+ | Code |
|---|---|
| `PlaceCheck`, `PlaceCommit` | an order is inserted: the code and the credit are checked by triggers (`20260914120100`, `20260929120100`), then it commits |
| `PayRead`, `PayCommit`, `Rewards`, `Cashback`, `Redeem` | the triggers on *became paid*: the referral qualifies (`20260907232527`), the code is redeemed (`20260914120200`), cashback is earned |
| `Close`, `Returned` | *became dead*: credit comes back, cashback is taken back; the insert may fail, which the trigger swallows |
| `AdjustGrant`, `DebitCheck`, `DebitCommit` | `customer-credits.service.ts` |
| `ClaimRead`, `ClaimInsert` | `referrals.service.ts` |
| `Toggle`, `RemoveRead`, `RemoveDelete` | `promo-codes.service.ts` |

A transaction in flight is invisible to the others (READ COMMITTED), so it is two
steps, what it read and its commit; row locks and unique indexes are guards.

### Visits

| TLA+ | Code |
|---|---|
| `ScheduleRead`, `ScheduleCommit` | `schedule_cleaning_subscription` (`20260812060018`), with its row lock |
| `BookRead`, `BookInsert`, `BookBump`, `BookActivate` | a partner's booking, `integrations.service.ts` |
| `MoveRead`, `MoveVisit`, `FreeRead`, `FreeWrite`, `Take` | `account-cleaning.service.ts` and the shared seat-keeping |
| `ReserveRead`, `ReserveInsert`, `RemoveRead`, `RemoveRow`, `CancelSub`…, `DeleteFind`…, `Edit` | `admin.service.ts` |
| `Expire`, `SweepFind`, `SweepVisits` | the daily sweep cancels the visits of what expired |

Statuses are `BOOKED` and `booked`: an admin's edit may save the one, SQL writes and
looks for the other only. That is in the model because it is in the counters.

### Reminders

| TLA+ | Code |
|---|---|
| `Sweep`, `Collect`, `Claim`, `PassOver`, `Mail`, `Release` | `subscription-expiration.service.ts`: the daily run |
| `MailFails` | `mail.service.ts` `sendMail` throws: the mail was refused, or accepted and the answer lost |
| `Notice` | the notice in the app, which `deliver` makes before the mail and again with every retry |
| `NewOrder`, then `Claim`, `Mail` | `provider-alerts.ts` `notifyNewOrder`; never releases |
| `CollectVisits`, `LookUp`, `Upsert`, `Mail`, `Mark` | `cleaning-reminder.service.ts` |
| `SetFlag`, `Renew`, `Schedule`, `CancelVisit` | what changes under the run |

### CalendarSync

| TLA+ | Code (`google-calendar/`) |
|---|---|
| `Load`, `Resolve`, `Evict`, `Own`, `Update`, `Find`, `Match`, `Adopt`, `Create`, `Store`, `Fail` | `cleaning-calendar-sync.service.ts`, one action per call to Google or to the database |
| `CancelRemoves`, `DeleteVisit`, `Remove`, `DropRow` | removing the event of a visit |
| `ReconcileList`, `ReconcileEvent`, `RestoreWipe`, `RestoreVisit` | the two repairs |
| `Provision`, `Requeue`, `OutOfDate` | `provider-calendar.service.ts`: a provider gets a calendar, its visits move |
| `Reschedule`, `CancelVisit`, `Reopen` | a visit is moved, cancelled, and set back to booked (`admin.service.ts:2493-2512`) |
| `GoogleFails`, `Restart` | a call that throws; an instance ends, and with it its cache of calendar ids |

Any number of syncs and repairs run beside each other: a request starts all of a
customer's at once (`Promise.all`, `account-cleaning.service.ts:77-87`), and the cron
does not ask who else is at it.

### Allowance

| TLA+ | Code |
|---|---|
| `Ask`, `CountHours`, `CountActive`, `CountDay`, `Insert` | `booking.service.ts` `hold` with `assertPolicyAllows`, query by query |
| `MissPlans`, `Opens` | `rest` (897-914): a read that fails answers null, which is no plan, hence no limit |
| `AllowanceOf`, `HourLines`, `Covers`, `SpentIn` | `allowance.ts` `hourAllowanceFor`, and the usage query |
| `Confirm`, `Cancel`, `Release` | `confirm`, `cancel`, the sweep |
| `Mark`, `RemoveCancels`, `RemoveRead`, `RemoveRow` | `occurrences.service.ts` on a court's hour |
| `MoveRead`, `MoveWrite` | its `reschedule` (251-267), which moves the list's row and not the booking |
| `Mirrors`, `Writes` | the trigger that mirrors a booking into `service_occurrences` |

### Deliveries

| TLA+ | Code |
|---|---|
| `MarkRead`, `MarkWrite`, `RemoveRead`…, `MoveRead`, `MoveRow`, `MoveLog` | `occurrences.service.ts` on food |
| `Filed` | what the log calls a mark: "rescheduled" is filed as pending (310), which the list shows as scheduled |
| `Mirror`, `FindOccurrence`, `WriteLog` | the log's trigger and `mirror_find_occurrence` |
| `Generate` | `generate_food_occurrences`, `20260817232238` |

## 3 The runs

All runs pass; there is one per question, and each has a mutant per property.

| Run | Instance | Properties | States |
|---|---|---|---|
| `Outbox` | 2 events of one type, 1 handler, batches of 1 or 2, 2 drains, 2 attempts, 1 fault, fair | `NoSilentLoss`, `HonestLedger`, `LogSpec` (refinement), `EventuallyPublished` | 399,000 |
| `Booking` | 2 requests (one from the desk), a court, 2 waiters, a policy, 1 sweep, 1 cancellation, 1 fault, fair | `WaitlistFIFO`, `SeatsSpec` (refinement), `TimelyConfirmKept`, `HoldsEnd` | 626,000 |
| `Settlement` | 1 row, 2 invoices, a webhook, a cron, a poll, an invoicer, 1 refund, 1 fault, fair | `MoneyIsReal`, `CapturesAnnounced`, `MoneyFound` | 215,000 |
| `Payouts` | 2 payouts of 1 or 2 cents, 2 workers, at most 2 cents earned, 1 decision | `NeverOverdrawn`, `OneSendPerApproval`, `MoneyAccounted` | 444,000 (symmetry) |
| `Subscriptions` | 1 row of any kind, 1 key and 1 payment of the customer, 2 charges, 2 calls, 4 days, fair sweep | `RenewedOnce`, `FirstChargeIncluded`, `ExpiredIsOver`, `LapsedEnds` | 289,000 |
| `AutoRenewal` | 1 row, any 3 calls at once, PayPal's events at will | `CancelledIsNotCharged`, `RenewsOnlyPaid` | 29,000 (symmetry) |
| `Credits` | 2 customers, 2 orders, 2 transactions at once, 3 edges or adjustments | `RewardOnce`, `SpendFollowsOrder`, `RedeemedOnce`, `OverdrawnByRaceOnly` | 3.4 million (symmetry) |
| `Visits` | 1 subscription, 2 visits, 2 slots of one seat, 2 requests at once, 4 in all | `TypeOK`, `OneSchedule`, `CountHonest` | 4.6 million (symmetry) |
| `Reminders` | 1 subscription, 2 runs or requests at once, 4 days, 4 kinds of message, 1 failure or kill, fair | `MailedOnce`, `RemindedOnce`, `NoNagging`, `NudgedInTheEnd` | 1.8 million |
| `CalendarSync` | 2 syncs or repairs at once, 4 syncs in all, 2 visits of one customer, 2 days, 2 calendars, 3 events, 1 change, 1 failure or kill, both repairs | `NeverShared`, `Shown`, `ShownOnce` | 2.6 million (symmetry) |
| `Allowance` | 1 customer, 2 requests and 1 by the desk, 1 court, slots on two days of a week and a clock from the week before, two plans, 1 mark, move, failed read or failed trigger | `HoursKept`, `LimitsKept`, `ListIsTrue` | 5.0 million (symmetry) |
| `Deliveries` | 1 meal, 2 days, 3 rows a day, marks done, failed and rescheduled, 2 calls at once, 3 in all, 2 failures | `MirrorAgrees`, `AdoptedNotDuplicated`, `MarkLands` | 473,000 (symmetry) |

`Visits` also checks `TypeOK`, which bounds its counters. The type invariants of all
modules are theorems (4).

**Why these bounds are enough to be interesting.** Every hazard above is a race
of two, so every instance has two of what races: two drains, two requests for one
seat, a cron and a webhook on one row, two withdrawals. `MaxAttempts` 2 is the
smallest with a failure that is retried and one that is the last. Batches of one
and two over two events let a batch be full of an event that keeps failing. A TTL
of one tick with requests at two instants lets a hold be live, run out and be
replaced. Amounts of 1 and 2 against earnings of at most 2 let two withdrawals
fit singly and not together. One fault is one killed call or failed insert,
anywhere; more than one is a longer path to states one already reaches. The
proofs remove the bounds for the safety properties they cover.

The same holds of the later modules. A key used by two calls, two charges of
which one is the first, two triggers about one referee, two requests at one
counter, two runs at one claim, two requests of one customer. Two days suffice for
what moves from one to the other, four for a term with a last day, the day
after and the nudge of the third. `AutoRenewal` needs three calls: two cancels and
a resume is the shortest way to a charge nobody wants. `CalendarSync` has two
workers, so that a sync meets another of its visit, of another visit whose event it
looks at, or a repair; four syncs in all are two of each visit, before and after the one
change. In `Allowance` two different hours of a week compete for one, asked for in that
week and in the one before. `Visits` bounds requests at four, the least for a seat taken,
moved, given up and taken again.

**Ghosts that say how far a property goes.** Where the code lets a race win, a
property that forbade it would be false and one that ignored it worth little.
`OverdrawnByRaceOnly` (`raced`), `SpendFollowsOrder` (`unreturned`), `HoursKept` and
`LimitsKept` (`raced`, `freely`, `marked`), `ListIsTrue` (`unmirrored`, `overtaken`,
`marked`), `MailedOnce` (`refused`, `unanswered`), `RemindedOnce` (`loose`, `unanswered`),
`NudgedInTheEnd` (`loose`), `CancelledIsNotCharged` (`lifted`), `OneSchedule` (`late`),
`CountHonest` (`drift`), `NeverShared`, `Shown` and `ShownOnce` (`stale`, `astray`,
`crossed`, `reopened`, with `met` behind them), `MirrorAgrees`
(`torn`, `overtaken`), `AdoptedNotDuplicated` (`again`), `NeverOverdrawn`
(`unclear`) name each way the code has to go wrong, at the step where it does,
and say that there is no other. Section 5 lists these ways.

**What bounds mean in the model.** Bounds on faults, changes, refunds, decisions,
edits and requests (`MaxFaults`, `Strikes`, `Changes`, `Loads`, `MaxRefunds`,
`MaxDecisions`, `MaxEdits`, `MaxRequests`, `MaxOddities`) stop the environment, never the program.
`LastRequest`, `LastDay`, `Horizon` and `LastTime` end the clock, `MaxEarned`,
`MaxEvents` and `MaxBorn` cap a number. `ScanLimit` is the code's page of 200 rows,
`MaxAttempts` the code's 5.

**Fairness.** Of the program's own steps and nothing about customers, admins,
gateways, webhooks or polls. It is justified by `src/vercel.json`:
`reconcile-payments` runs every ten minutes, `dispatch-events` daily at 06:30 (and
each publish starts a drain of its own), `expire-holds` daily at 06:45, the
reminders and the sweep daily. A call that is not killed runs on; faults are
bounded, which is to say that calls are not killed for ever.

* `Outbox`, `Settlement`: weak fairness of each worker's own steps. In `Settlement`
  the webhook and the poll need not ever be called (`Settle` and `Poll` are outside
  the fair action), so `MoneyFound` says that the cron is enough. It also needs the
  cron's page to hold every row: see *starvation* in 5.
* `Booking`: the same and a fair clock.
* `Subscriptions`: strong fairness of a sweep in which no table's update fails. A
  sweep that fails comes back the next day, and a row may stop and start to be
  overdue meanwhile, hence strong.
* `Reminders`: weak fairness of the steps of each run, strong fairness of *some* run being
  started, for a run starts only on an instance that is free.

The runs without a fairness condition have no liveness property, and nothing in
them must happen: requests are people's. Deadlock is checked where a cron can
always start again (`Outbox`, `Booking`, `Settlement`, `Payouts`, `AutoRenewal`); elsewhere
the days or the requests run out.

## 4 What is proved

All proofs are checked by TLAPS to the last leaf, from the assumption each module
names (`OutboxAssumption`, `BookingAssumption`, …: types of the constants, finiteness
where sums need it — of visits, of a customer's requests, of the plans he holds — and
the value for *nothing* kept apart from the others; `AutoRenewal` needs none) and nothing
else. In each, an
invariant (model-checked on the passing instance before it was proved) is inductive:
`Init => IInv` and `IInv /\ [Next]_vars => IInv'`. It is called `IInv`, and in the modules
that share a proof module `BillingInv`, `CalendarInv`, `AllowanceInv`,
`DeliveriesInv`. That it holds of the specification (`Invariance`) is the base of
the other theorems. Every safety property a run checks is the statement of a theorem.

* **OutboxProofs** — `TypeCorrect`, `LedgerIsHonest`, `NothingLost`,
  `ImplementsEventLog`. Neither property is inductive: a row is published on a
  drain's own view of its handlers, and that view is local and stale. `DrainInv`
  says what it is worth: until a drain has met a failure, *every handler it is
  through with is settled*, and being settled is monotone, so staleness does no
  harm; and the attempts a drain read, plus the call it made, never exceed the
  calls really made, so a late upsert can only undercount.
* **BookingProofs** — `TypeCorrect`, `SeatsAreExclusive` (`NoDoubleBooking`), `NeverOversold` (`WithinCapacity`),
  `FirstComeFirstServed`, `TimelyIsKept`, `ImplementsSeats`. `RowsInv` (a seat is
  one the slot has) turns exclusive seats into capacity, by an injection into
  `1..Capacity`; `SweepInv` says that what a sweep still holds had run out when it
  looked, so it was not confirmed in time whatever has happened since;
  `WaitlistInv` that an entry in a worker's hand has nobody waiting before it and
  that whoever joins later is numbered later.
* **BookingProofs, CalendarSync** — `CalendarTyped`, `OneEventOneVisit`
  (`NeverShared`), `SyncedIsShown` (`Shown`), `VisitShownOnce` (`ShownOnce`), for any
  visits, days, events, syncs and repairs at once, failures and kills. No property is
  inductive, for a sync writes its row several calls after it chose the event.
  `TagsTrue` and `OneEach` join rows to events from both ends. `MetTrue` says that jobs
  which concern the same visit (`Together`; a repair concerns all) have met, and that
  their visit is marked. `RowHand` and `HandHand` speak of the event in a sync's hand
  (`Carries`): it is no other booked visit's and in no other visit's sync's hand, or that is
  marked (`crossed`). `Hands` says of each job what it may rely on between two calls: what a
  sync knows of its row (`Knows`) and of Google (`Holds`) holds unless its visit is
  marked; a reconciliation has kept an event of whatever it counts as kept, and what it listed
  is still what it was or gone (`Lists`); a restoration has wiped the shared calendar of what
  it has yet to write. A step either `Shrinks` (events only go) or `Writes` (one event, one
  row), and one lemma for each says that what the *other* workers rely on survives it.
* **SettlementProofs** — `TypeCorrect`, `NothingForNothing`,
  `EveryCaptureAnnounced`. A worker patches pairs it read long before; `WorkerInv`
  says that each is an invoice *of its row*, and paid where the worker has asked,
  and `ReferencesIssued` that a row refers to invoices of its own.
* **SettlementProofs, Allowance** — `AllowanceTyped`, `HoursOfAPlan` (`HoursKept`), `PolicyHolds`
  (`LimitsKept`), `DayListIsTrue` (`ListIsTrue`). The policy counts in one call and
  inserts in another. `HasRoom` says that a call let through by a count may rely
  on it until its insert: what is counted only shrinks while it is on its way, for it is not
  `raced`, so nobody else inserts, and time only takes bookings out of the count. A call whose read
  of the plans failed relies on nothing (`freely`). `Going` and `Moving` say what a removal and
  a move under way know of their booking.
  `Limits` restates the two properties with the policy's own sets, and the hours are the
  cardinality of a set of cells, one an hour of a booking. Requests, courts, plans,
  lines, calendars and lengths of slots are arbitrary.
* **PayoutsProofs** — `TypeCorrect`, `BalanceHolds`, `ApprovalsSpentOnce`,
  `EveryCentAccounted`. `BalanceInv` counts withdrawals that passed their
  comparison, not those sent; `Compare` reads all claims at once, and a passed
  withdrawal is among them, so the last to pass sees all that passed before.
  `HandInv` says that a row no admin touched is in one call's hands; `RightsInv`
  counts the rights to send a row (approvals left, calls entitled to one) along
  with the sends. Sums are cardinalities of sets of cents, so that they can be
  reasoned about without induction over data. The number of payouts, workers and
  the amounts are arbitrary.
* **PayoutsProofs, Deliveries** — `DeliveriesTyped`, `LogAndListAgree` (`MirrorAgrees`),
  `LogsAdopt` (`AdoptedNotDuplicated`), and of every step `MarksLand` (`MarkLands`).
  `Tables` is what the two tables are to each other between two calls: a log has one owner,
  a meal one log a day, a day one unmarked row, unless generated again; a row and its log
  agree unless `torn` by a failure or `overtaken` by a move that had the row loaded unmarked. `Carries` says that a
  request which read its row long before holds a log that is still its row's, for a row may
  go, but never gets another.
* **SubscriptionsProofs** — `TypeCorrect`, `KeysExtendOnce`, `FirstTermIncluded`,
  `NobodyExpiredEarly`. `KeysOnce` says that between its audit row and the
  extension a key is in one call's hands, which has not extended yet: that is what
  the unique index buys, and why a retry cannot add a second term. `FirstChargeKnown`
  says that a charge PayPal made soon after the start is never on record as a
  renewal, so of any charges at least one added no term; the count is a fact about
  finite sets, for any number of charges.
* **SubscriptionsProofs, AutoRenewal** — `BillingTyped`, `CancelledStaysUncharged`
  (`CancelledIsNotCharged`), `PaidBeforeRenewing` (`RenewsOnlyPaid`). `AskedIsNotCharged`
  counts a row as cancelled from the moment a call has done its part at PayPal, not from the
  write of the flag: between the two the row is wrong and PayPal right. `PaidFirst` is
  what `cancel` relies on.
* **CreditsProofs** — `TypeCorrect`, `ReferralsPayOnce` (`RewardOnce`), `CodesRedeemOnce`
  (`RedeemedOnce`), `CreditFollowsOrders` (`SpendFollowsOrder`), `RacesOverdraw`
  (`OverdrawnByRaceOnly`). Two inductive invariants, one on the other. `IInv`: an order is in one
  transaction's hands (`OneTransaction`, the row lock), and the three parts of
  `RewardOnce` are inductive with it although each of two transactions finds the
  referral pending: the second one's rows are refused by the index. `Accounts` is about
  sums. What a fold returns cannot be proved here, so `Sum` counts cents:
  those of the rows that give less those of the rows that take, and what a new row does to it
  is the cardinality of a union. `Books` says that a new row is never an old one, `SpentRight`
  that an order took all of its credit or nothing, and `Funded` that without a race the one debit in
  flight is still covered, because nothing but a debit makes a balance smaller. Amounts,
  orders and customers are arbitrary.
* **VisitsProofs** — `TypeCorrect`, `ScheduledOnce` (`OneSchedule`), `CountersHonest`
  (`CountHonest`). `OneSchedule` rests on one row lock: what a transaction that holds it has
  read of a subscription is all that subscription has to come of its schedule, since
  every other writer only takes away from it. `CountHonest` is a balance: a seat
  counter equals the visits booked, corrected by what the request under way has written of
  the one and not yet of the other (`Balance`), and each of the requests, a chain of up to
  four calls, brings it back to zero. Visits are any finite set.
* **RemindersProofs** — `TypeCorrect`, `ClaimedIsMailedOnce`, `VisitsRemindedOnce`,
  `CancelledAreLeftInPeace`. `ClaimsHold`: a claimed message is in at most one
  run's hands, and released by that run alone; it was not mailed yet, unless the answer to
  its mail was lost (`unanswered`). `NoticesHold` says the same of its notice, which is
  repeated where the mail was refused, too. `VisitsHold`: of a visit over which no
  runs met, at most one run holds it, and once mailed it is marked or about to be;
  the row is upserted as *pending* on the way, so the mark is not monotone and the
  invariant has to say whose hands it is in. `AskedInTime`: who is on a run's list and
  has cancelled did so on the run's day or later.

**Only model-checked.** Liveness (`EventuallyPublished`, `HoldsEnd`, `MoneyFound`,
`LapsedEnds`, `NudgedInTheEnd`) rests on fairness and is beyond the prover.
`EventLog` promises steps (`Spec`, which `ImplementsEventLog` proves of the outbox)
and an outcome (`EventuallyRetired`, which under the mapping reads
`EventuallyPublished` and is model-checked).

**What the proofs found.**

* *Hours nobody counts.* `HoursKept` as first stated is false where one plan's hour line
  names no court and another plan names some: once anything is named, the usage query counts
  bookings of *named* courts only (`booking.service.ts:487-500`), so those of the other courts are held
  against the allowance when asked for and never counted in it; two hours are booked of
  an allowance of one. The comment says "Counts every hold and confirmed booking … on the
  calendars the allowance covers" (468-470). The property now speaks of the courts that are
  counted (`Counted`), where it is a theorem. The instance has no such pair of plans.
* *Assumptions.* `AllowanceAssumption` had to say that a customer's requests and plans are
  finitely many and that the clock has a first hour; `VisitsAssumption` that visits are finitely many.
* *One invariant, not three.* The properties of `CalendarSync` need each other: that a sync
  which gives up its event does so for a row that does not read as synced is `NeverShared`,
  without it `Shown` does not hold; and both need to know whose events are in whose hands.
* *When a sync no longer knows its visit.* With several syncs at once the proof fails exactly
  where another job of the visit, another visit's sync with the same event in hand, or the edit
  that brings a cancelled visit back comes in between. These became the ghosts `met`,
  `crossed` and `reopened`.

## 5 Where code and documentation disagree

The models contain these behaviours, and the properties are stated so as to hold
beside them: each names the exception at the step where it arises.

Against what a comment says:

| The repository says | The code does |
|---|---|
| the dispatcher "dedupes per (event, consumer name)" (`events/domain-event.ts:27-28`) | two drains read no delivery row and both call the handler |
| "Cron sweep: release expired holds" (`booking.service.ts:785`) | it updates by id (789-791): a hold paid late, after the sweep read it, is released though confirmed |
| the cron finds paid rows that are not marked paid (`admin.service.ts:1506-1508`) | one failed lookup makes `createInvoice` replace the reference of a paid invoice (1761, `account-payment.service.ts:104`); nothing looks at it again |
| the allowance counts every booking "on the calendars the allowance covers" (`booking.service.ts:468-470`) | once any plan names a calendar only named ones are counted (487-500), although a line that names none still covers all |
| every rail funnels through `recordCaptured` (`billing.service.ts:20-22`) | `createInvoice` settles a paid row itself and tells nobody (`account-payment.service.ts:95`, `admin.service.ts:1719`) |
| "Only a full one ends the thing" (`refunds.service.ts:140-141`) | a repeated webhook finds a refunded row "not paid", its invoice paid, and activates it (`payment-settlement.service.ts:64,84`) |
| "It cannot double-send" (`provider-payouts.service.ts:252-255`) | a second admin may approve a row already sending or paid (235), and it is sent again |
| a renewal moves the date (`account-cancellation.service.ts:16`) | the sweep goes by `service_end_date` (`subscription-expiration.service.ts:139`), which a customer's own renewal of a scheduled plan leaves |
| a retry is told of the renewal made (`account-renewals.service.ts:113-132`) | it is told so although the call that made the audit row died before it extended (`subscription-renewal.service.ts:56-57`) |
| "Two checkouts racing for one balance leave the loser's insert refused" (`20260929120100:54`) | neither transaction sees the other's row; both are accepted and the balance is negative |
| "Using the full title … plus a DB guard prevents two different bookings from ever being mapped onto the same calendar event id" (`cleaning-calendar-sync.service.ts:295-300`) | the guard is read before the row is stored; two syncs at once (`Promise.all` at `account-cleaning.service.ts:77-87`, or the cron beside a customer) both pass and keep one event |
| of the reminders "each one is delivered at most once" (`subscription-expiration.service.ts:11-13`) | `sendMail` is a fetch that can throw after the mail was accepted (`mail.service.ts:117-137`): the claim is released (108-111) and the next run mails again; the notice in the app, made before the mail (400-427), is repeated with every retry |
| "One writer per fact, so the two cannot drift" (`occurrences.service.ts:14`) | a move writes back the status it loaded (263): a mark made in between is overwritten in the list, while its log keeps it on the old day, and the move ends well |
| "rescheduled" is a status a provider may set (`occurrences.service.ts:55`, 121) | for food it is filed as pending (310), and the list shows the delivery as scheduled |
| "Idempotent" (`20260817232238`, the generator) | the unique index knows unmarked rows only: a day marked, moved or removed is generated again at the next sale of any plan |

Met while modelling, and allowed by the models:

* *Outbox.* `recordDelivery` is an unconditional upsert: a stale drain turns a
  `delivered` row back into `failed` and the handler is called again
  (`outbox-dispatcher.service.ts:90-96`).
* *Waitlist.* Two cancellations may both read the same first entry and promote it
  twice; one freed seat is then offered to nobody (`booking.service.ts:802-808`).
* *Policy.* The policy counts before the insert that adds one (line 393 against
  216): two requests of one customer both pass it. Hours are counted in the
  period of today (487), not of the day booked, and the plans held are read twice. A read of
  the plans that fails means no limit, or any court, though plans are held (897-914).
* *A court moved in the list.* A court's hour has no `slot_id`, so `reschedule`
  (`occurrences.service.ts:251-267`) accepts it: the list shows another time than the one
  booked, and a booking cancelled or marked while the move had it loaded is listed as it was
  before, with no trigger failing.
* *One event per capture.* Two confirmations both find no ledger row and both
  emit `PaymentCaptured`; the unique index stops the second row, not the second
  event (`billing.service.ts:87`).
* *An event with no subject.* A status poll records the payment first and names no
  subscription; the settlement that follows finds it recorded and emits nothing,
  so the membership handler never hears of that subscription
  (`payments.controller.ts:244`).
* *Starvation.* The cron reads 200 rows in no order (`admin.service.ts:1563`), and
  rows nobody pays stay in its filter.
* *Closing by id.* `expireUnverifiablePending` closes by id rows it read without a
  reference; one invoiced and paid in between is cancelled
  (`admin.service.ts:1675`).
* *A send that throws.* The row becomes `failed`, which frees the amount at once,
  though the money may have left (`provider-payouts.service.ts:332-336`). This is
  why `NeverOverdrawn` and `MoneyAccounted` set such rows apart (`unclear`).
* *In flight for ever.* A withdrawal killed after its claim, or answered PENDING,
  stays `sending`; nothing resolves it but an admin's decision.
* *Two settlements at once* both record all that is outstanding.
* *The order saga* waits for payment events about an order; nothing publishes one.
* *Ledger keys.* The PayPal endpoint keys the ledger by capture id, the cron by the
  row's reference (`paypal-payments.controller.ts:105`): one payment, two rows.
* *Renewals.* One confirmed payment renews once per key, not once
  (`account-renewals.service.ts:98`); two calls with two keys compute their dates from the
  same end and the second patch overwrites the first's (123); food access expires what a
  renewal has just extended (`food.service.ts:142`).
* *Credits.* An order paid, un-paid and paid again earns cashback again
  (`20260929120100:98`); the limit of a code counts redemptions, which only come with the
  payment, so orders placed before any is paid all pass (`20260914120100:51`); a code's
  removal looks for redemptions and then deletes, and takes along one made in between
  (`promo-codes.service.ts:158`); an order table that does not answer counts as one without an
  order (`referrals.service.ts:181`); credit whose return cannot be inserted is lost with a
  warning (`20260929120100:132-137`).
* *Visits.* A partner's booking writes back a counter it read several calls earlier ("no
  other writer holds it", `integrations.service.ts:367-369`) and activates a subscription by
  a status read as early (384); deleting a subscription gives back the seats of its
  cancelled visits once more (`admin.service.ts:2839`); the sweep and the cancellation look
  for `booked` and do not see the visits an edit wrote as `BOOKED`
  (`subscription-expiration.service.ts:170`, `admin.service.ts:1383`); a visit that is over
  and is then moved keeps its mark of the recurring schedule
  (`account-cleaning.service.ts:133-136`) and so stands beside a newer schedule.
* *Alerts.* The claim is not released: the mail of a new order that fails is not
  tried again (`provider-alerts.ts:80-106`).
* *Expiry notices* are kept one a stage for a subscription's life, not for its term
  (`20260617224819:13`): after a renewal the ladder is silent.
* *Calendar* (`cleaning-calendar-sync.service.ts`). A visit's calendar is cached for the life of
  an instance (70), which goes on writing to the old one; a visit moved while it is
  synced is marked synced with the old day (145); taking the old event away on a move of
  calendars is best effort (236); reconcile and restore work from lists read before their
  many calls (402, 462). A run killed after a provider got its calendar and before its
  visits were flagged is not made up for: a calendar that exists ends the call
  (`provider-calendar.service.ts:110`). A visit cancelled and set back to booked
  (`admin.service.ts:2493-2512`) is patched without a status
  (`google-calendar.service.ts:183-186`), so the event cancelled before (282-288) stays
  cancelled under a row that says "synced". Two overlapping syncs of one new visit both search,
  find nothing and insert a tagged event each.
* *Deliveries.* Marking or removing the second row of a day writes the first one's log.
  The log's day is a UTC day, so a dinner at 19:00 in Honduras is logged on the next.
  Errors of the mirror are swallowed.

## 6 What is not modelled, and why

Within the modelled components: amounts of payments, wording and layout of
notices and mail, ownership and role checks (they only refuse), the shape of
destinations and the wallet's own balance, checkout sessions, partial refunds
(they change no order) and PayPal's own refund call. A fault is not told apart by
kind. In `Payouts` there is one provider, since nothing relates the rows of two.
In `Booking` the times of a slot are its identity; which slots exist is the
slot engine's affair.

In `Subscriptions` prices, plans and what a term contains are left out, in `Reminders`
a customer's preferences (they choose when and where), in `Credits` a code's window
and its business, in `Visits` the seeding of slots and the admin's custom plans, in
`CalendarSync` the text of events, sharing and OAuth, in `Allowance` the length of a slot
and the calendar, in `Deliveries` cleaning visits and rental halves marked from the
same list.

Whole components left out are listed with their reason in `PROJECT.json`. They keep
no state across steps (catalogue, health, bootstrap, the slot engine's
arithmetic, unit-tested), are single writes of one person (most of administration,
roles, support, accounts), are output only (mail, messages, analytics), repeat a
modelled protocol with another table (rentals, beach courts' calendars, the crypto
rail), wait for an event nobody publishes (the order saga), or are matters of
cryptography and access control (authentication). These are most of the lines of
the back end: the map covers about a sixth of it, which is nearly all of what two
calls can meet in. What remains would add transcriptions of forms and queries, and no
property that could fail. The client applications are outside the scope.

## 7 Plan

What the first plan named is built: outbox, booking, settlement, payouts, renewals,
auto-renewal and cancellation, expiration and reminders, credits, visits, calendar,
allowance, occurrences. What would add most from here:

1. **Refinements** for `Settlement` (an account that pays out what came in), `Payouts` (a
   purse) and `Credits` (a balance that is debited one at a time). The safety properties of all
   modules are proved.
2. **Larger instances** where time allows: two subscriptions in `Reminders`, three syncs in
   `CalendarSync`, two meals in `Deliveries`.
3. **What is left of the partly modelled parts**: partial refunds and PayPal's refund
   call, checkout sessions, the seeding of slots, the pull of beach calendars.

## 8 Running it

```
tlc -workers 2 -config Payouts.cfg MCPayouts.tla     # any row of section 3
tlapm PayoutsProofs.tla                              # any *Proofs module
```

`PROJECT.json` holds the runs with their modules, the mutants with the property
each one breaks, the map from definitions to lines of code, the
hazards and the theorems.
