------------------------- MODULE SubscriptionsProofs -------------------------
(* Proofs about Subscriptions, for any rows, keys, charges, calls and days; and,*)
(* at the end, about AutoRenewal.                                              *)
EXTENDS Subscriptions, AutoRenewal, FiniteSetTheorems, TLAPS

Extending(w, s, k) == job[w].at = "extending" /\ job[w].sub = s /\ job[w].key = k

\* Between the audit row and the extension a key is in one worker's hands, and has
\* not extended the row yet.
KeysOnce ==
    /\ \A s \in Subs, k \in Keys \cup Sales :
          /\ extended[<<s, k>>] <= 1
          /\ extended[<<s, k>>] = 1 => Audited(s, k)
          /\ \A w \in Workers : Extending(w, s, k) => Audited(s, k) /\ extended[<<s, k>>] = 0
          /\ \A v, w \in Workers : Extending(v, s, k) /\ Extending(w, s, k) => v = w

\* Nothing is on record that was not paid or charged.
OnRecord ==
    /\ \A s \in Subs, k \in Keys \cup Sales :
          Audited(s, k) => IF k \in Keys THEN confirmed # {} ELSE k \in ChargesOf(s)
    /\ \A w \in Workers : job[w].at = "asking" => job[w].key \in ChargesOf(job[w].sub)

\* PayPal charges what started, the first time soon after it started; that charge
\* is never on record as a renewal.
FirstChargeKnown ==
    \A s \in Subs :
        /\ s \in billed \/ ChargesOf(s) # {} => since[s] # None
        /\ IsFiniteSet(ChargesOf(s))
        /\ ChargesOf(s) # {} => \E x \in ChargesOf(s) : IsFirstCharge(s, x)
        /\ \A x \in Sales : Audited(s, x) => ~IsFirstCharge(s, x)

\* What is expired is over, but for meal plans, and only these are looked at.
OverWhenExpired ==
    /\ ExpiredIsOver
    /\ \A w \in Workers : job[w].at = "persisting" => kind[job[w].sub] = "food"

\* The inductive invariant.
IInv == TypeOK /\ KeysOnce /\ OnRecord /\ FirstChargeKnown /\ OverWhenExpired

USE DEF Do, Starts, Ends

\* The initial state satisfies the invariant.
LEMMA InitInv == ASSUME Init PROVE IInv
<1>1. TypeOK
  BY SubscriptionsAssumption DEF Init, TypeOK, Days, Jobs, Idle
<1>2. KeysOnce /\ OnRecord /\ OverWhenExpired
  BY DEF Init, KeysOnce, OnRecord, OverWhenExpired, ExpiredIsOver, Extending, Audited, Idle
<1>3. FirstChargeKnown
  <2>1. \A s \in Subs : ChargesOf(s) = {} /\ ~ \E k \in Sales : Audited(s, k)
    BY DEF Init, ChargesOf, Audited
  <2>2. QED
    BY <2>1, FS_EmptySet DEF Init, FirstChargeKnown
<1>4. QED
  BY <1>1, <1>2, <1>3 DEF IInv

\* What a job at work holds.
LEMMA Hands ==
    ASSUME TypeOK, NEW w \in Workers, job[w].at # "idle"
    PROVE  /\ job[w].sub \in Subs
           /\ job[w].at = "verifying" => job[w].key \in Keys /\ job[w].end \in Days
           /\ job[w].at = "asking" => job[w].key \in Sales /\ job[w].end \in Days
           /\ job[w].at = "extending" => job[w].key \in Keys \cup Sales /\ job[w].until \in Days
<1>1. job[w] \in Jobs
  BY DEF TypeOK
<1>2. CASE job[w] \in {Idle}
  BY <1>2 DEF Idle
<1>3. CASE job[w] \in [at: {"verifying"}, sub: Subs, key: Keys, payment: Payments, end: Days]
  BY <1>3
<1>4. CASE job[w] \in [at: {"asking"}, sub: Subs, key: Sales, paid: BOOLEAN, end: Days]
  BY <1>4
<1>5. CASE job[w] \in [at: {"extending"}, sub: Subs, key: Keys \cup Sales, until: Days]
  BY <1>5
<1>6. CASE job[w] \in [at: {"persisting"}, sub: Subs]
  BY <1>6
<1>7. QED
  BY <1>1, <1>2, <1>3, <1>4, <1>5, <1>6 DEF Jobs

\* A renewal's dates are dates.
LEMMA Dates ==
    ASSUME TypeOK, NEW s \in Subs, NEW k \in Keys \cup Sales, NEW previous \in Days
    PROVE  NextStart(previous) \in Days /\ Length(s, k) \in Days
BY SubscriptionsAssumption DEF TypeOK, Days, NextStart, Length

\* The audit row and the job that extends, or a conflict that changes nothing.
LEMMA RecordTyped ==
    ASSUME TypeOK, NEW w \in Workers, NEW s \in Subs, NEW k \in Keys \cup Sales,
           NEW previous \in Days, Record(w, s, k, previous)
    PROVE  audit' \subseteq Renewal /\ job' \in [Workers -> Jobs]
<1> DEFINE from == NextStart(previous)
           until == from + Length(s, k)
<1>1. from \in Days /\ until \in Days
  BY Dates DEF Days
<1>2. CASE Audited(s, k)
  <2>1. audit' = audit /\ job' = [job EXCEPT ![w] = Idle]
    BY <1>2 DEF Record, RecordUnless
  <2>2. QED
    BY <2>1 DEF TypeOK, Jobs
<1>3. CASE ~Audited(s, k)
  <2>1. /\ audit' = audit \cup {[sub |-> s, key |-> k, from |-> from, until |-> until]}
        /\ job' = [job EXCEPT ![w] = [at |-> "extending", sub |-> s, key |-> k, until |-> until]]
    BY <1>3 DEF Record, RecordUnless
  <2>2. [sub |-> s, key |-> k, from |-> from, until |-> until] \in Renewal
    BY <1>1 DEF Renewal
  <2>3. [at |-> "extending", sub |-> s, key |-> k, until |-> until] \in Jobs
    BY <1>1 DEF Jobs
  <2>4. QED
    BY <2>1, <2>2, <2>3 DEF TypeOK
<1>4. QED
  BY <1>2, <1>3

\* A key that is recorded is new, and a worker has it in hand.
LEMMA RecordOnce ==
    ASSUME IInv, NEW w \in Workers, NEW s \in Subs, NEW k \in Keys \cup Sales,
           NEW previous \in Days, Record(w, s, k, previous), UNCHANGED extended,
           job[w].at # "extending"
    PROVE  KeysOnce'
<1>1. CASE Audited(s, k)
  <2>1. audit' = audit /\ \A v \in Workers : job'[v] = job[v] \/ job'[v] = Idle
    BY <1>1 DEF Record, RecordUnless, IInv, TypeOK
  <2>2. QED
    BY <2>1 DEF IInv, KeysOnce, Extending, Audited, Idle
<1>2. CASE ~Audited(s, k)
  <2>1. PICK r, j : /\ r.sub = s /\ r.key = k /\ audit' = audit \cup {r}
                    /\ j.sub = s /\ j.key = k /\ job' = [job EXCEPT ![w] = j]
    BY <1>2 DEF Record, RecordUnless
  <2>2. extended[<<s, k>>] = 0
    <3>1. extended[<<s, k>>] \in Nat /\ extended[<<s, k>>] <= 1 /\ extended[<<s, k>>] # 1
      BY <1>2 DEF IInv, TypeOK, KeysOnce
    <3>2. QED
      BY <3>1
  <2>3. \A v \in Workers : ~Extending(v, s, k)
    BY <1>2 DEF IInv, KeysOnce
  <2>4. \A t \in Subs, l \in Keys \cup Sales : Audited(t, l)' <=> Audited(t, l) \/ (t = s /\ l = k)
    BY <2>1 DEF Audited
  <2>5. \A v \in Workers : v # w => job'[v] = job[v]
    BY <2>1 DEF IInv, TypeOK
  <2>6. job'[w] = j
    BY <2>1 DEF IInv, TypeOK
  <2>7. \A t \in Subs, l \in Keys \cup Sales, v \in Workers :
            Extending(v, t, l)' => Extending(v, t, l) \/ (v = w /\ t = s /\ l = k)
    BY <2>1, <2>5, <2>6 DEF Extending
  <2>8. ASSUME NEW t \in Subs, NEW l \in Keys \cup Sales
        PROVE  /\ extended'[<<t, l>>] <= 1
               /\ extended'[<<t, l>>] = 1 => Audited(t, l)'
               /\ \A v \in Workers : Extending(v, t, l)' => Audited(t, l)' /\ extended'[<<t, l>>] = 0
               /\ \A u, v \in Workers : Extending(u, t, l)' /\ Extending(v, t, l)' => u = v
    BY <2>2, <2>3, <2>4, <2>7 DEF IInv, KeysOnce
  <2>9. QED
    BY <2>8 DEF KeysOnce, Extending, Audited
<1>3. QED
  BY <1>1, <1>2

\* A step that records and extends nothing.
Quiet ==
    /\ UNCHANGED <<audit, extended>>
    /\ \A w \in Workers :
          job'[w] = job[w] \/ job'[w].at \in {"idle", "verifying", "asking", "persisting"}

\* Such a step changes no key's story.
LEMMA QuietOnce == ASSUME IInv, Quiet PROVE KeysOnce'
BY DEF IInv, KeysOnce, Quiet, Extending, Audited


\* Recording adds at most its own key to the record, and leaves the others' jobs.
LEMMA RecordAdds ==
    ASSUME TypeOK, NEW w \in Workers, NEW s \in Subs, NEW k \in Keys \cup Sales,
           NEW previous \in Days, Record(w, s, k, previous)
    PROVE  /\ \A t \in Subs, l \in Keys \cup Sales :
                 Audited(t, l)' => Audited(t, l) \/ (t = s /\ l = k)
           /\ \A v \in Workers : job'[v] = job[v] \/ job'[v].at \in {"idle", "extending"}
<1>1. CASE Audited(s, k)
  <2>1. audit' = audit /\ job' = [job EXCEPT ![w] = Idle]
    BY <1>1 DEF Record, RecordUnless
  <2>2. QED
    BY <2>1 DEF TypeOK, Audited, Idle
<1>2. CASE ~Audited(s, k)
  <2>1. PICK r, j : /\ r.sub = s /\ r.key = k /\ audit' = audit \cup {r}
                    /\ j.at = "extending" /\ job' = [job EXCEPT ![w] = j]
    BY <1>2 DEF Record, RecordUnless
  <2>2. QED
    BY <2>1 DEF TypeOK, Audited
<1>3. QED
  BY <1>1, <1>2

\* What is said of charges depends on PayPal and the record alone.
LEMMA ChargesStay ==
    ASSUME IInv, UNCHANGED <<paypal, audit>>
    PROVE  FirstChargeKnown'
<1>1. \A s \in Subs : ChargesOf(s)' = ChargesOf(s)
  BY DEF ChargesOf, paypal
<1>2. \A s \in Subs, x \in Sales :
          IsFirstCharge(s, x)' = IsFirstCharge(s, x) /\ Audited(s, x)' = Audited(s, x)
  BY DEF IsFirstCharge, Audited, paypal
<1>3. QED
  BY <1>1, <1>2 DEF IInv, FirstChargeKnown, ChargesOf, paypal

\* A renewal that is recorded is not the first charge.
LEMMA RecordedLater ==
    ASSUME IInv, UNCHANGED paypal, NEW w \in Workers, NEW s \in Subs, NEW k \in Keys \cup Sales,
           NEW previous \in Days, Record(w, s, k, previous),
           k \in Sales => ~IsFirstCharge(s, k)
    PROVE  FirstChargeKnown'
<1>1. \A t \in Subs : ChargesOf(t)' = ChargesOf(t)
  BY DEF ChargesOf, paypal
<1>2. \A t \in Subs, x \in Sales : IsFirstCharge(t, x)' = IsFirstCharge(t, x)
  BY DEF IsFirstCharge, paypal
<1>3. \A t \in Subs, x \in Sales : Audited(t, x)' => Audited(t, x) \/ (t = s /\ x = k)
  BY RecordAdds DEF IInv
<1>4. QED
  BY <1>1, <1>2, <1>3 DEF IInv, FirstChargeKnown, ChargesOf, paypal

\* Types are kept.
LEMMA NextType == ASSUME IInv, [Next]_vars PROVE TypeOK'
<1>1. CASE NewDay
  BY <1>1, SubscriptionsAssumption DEF IInv, TypeOK, Days, row, paypal, NewDay
<1>2. ASSUME NEW p \in Payments, Confirm(p)
      PROVE  TypeOK'
  BY <1>2, SubscriptionsAssumption DEF IInv, TypeOK, Days, row, paypal, Confirm
<1>3. ASSUME NEW failing \in SUBSET Kinds, Sweep(failing)
      PROVE  TypeOK'
  BY <1>3, SubscriptionsAssumption DEF IInv, TypeOK, Days, row, paypal, Sweep, SweepRows, SweepTo
<1>4. ASSUME NEW s \in Subs, Approve(s)
      PROVE  TypeOK'
  BY <1>4, SubscriptionsAssumption DEF IInv, TypeOK, Days, row, paypal, Approve
<1>5. ASSUME NEW s \in Subs, Switch(s)
      PROVE  TypeOK'
  BY <1>5, SubscriptionsAssumption DEF IInv, TypeOK, Days, row, paypal, Switch
<1>6. ASSUME NEW s \in Subs, Activate(s)
      PROVE  TypeOK'
  BY <1>6, SubscriptionsAssumption DEF IInv, TypeOK, Days, row, paypal, Activate, FirstPaid
<1>7. ASSUME NEW s \in Subs, AdminCancel(s)
      PROVE  TypeOK'
  BY <1>7, SubscriptionsAssumption DEF IInv, TypeOK, Days, row, paypal, AdminCancel
<1>8. ASSUME NEW s \in Subs, NEW first \in 0..(Horizon - Term), Schedule(s, first)
      PROVE  TypeOK'
  BY <1>8, SubscriptionsAssumption DEF IInv, TypeOK, Days, row, paypal, Schedule
<1>9. ASSUME NEW s \in Subs, NEW x \in Sales, Charge(s, x)
      PROVE  TypeOK'
  BY <1>9, SubscriptionsAssumption DEF IInv, TypeOK, Days, row, paypal, Charge
<1>10. ASSUME NEW w \in Workers, RenewRecord(w)
      PROVE  TypeOK'
  <2>1. /\ job[w].sub \in Subs /\ job[w].end \in Days
        /\ job[w].key \in Keys \cup Sales
    BY <1>10, Hands DEF IInv, RenewRecord
  <2>2. audit' \subseteq Renewal /\ job' \in [Workers -> Jobs]
    BY <1>10, <2>1, RecordTyped DEF IInv, RenewRecord
  <2>3. QED
    BY <1>10, <2>2 DEF IInv, TypeOK, row, paypal, RenewRecord
<1>11. ASSUME NEW w \in Workers, Extend(w)
      PROVE  TypeOK'
  <2>1. /\ job[w].sub \in Subs /\ job[w].until \in Days
        /\ job[w].key \in Keys \cup Sales
    BY <1>11, Hands DEF IInv, Extend
  <2>2. job' \in [Workers -> Jobs]
    BY <1>11 DEF IInv, TypeOK, Jobs, Extend
  <2>3. extended' \in [Subs \X (Keys \cup Sales) -> Nat]
    BY <1>11, <2>1 DEF IInv, TypeOK, Extend
  <2>4. QED
    BY <1>11, <2>1, <2>2, <2>3 DEF IInv, TypeOK, row, paypal, Extend
<1>12. ASSUME NEW w \in Workers, SaleFirst(w)
      PROVE  TypeOK'
  <2>1. job[w].sub \in Subs
    BY <1>12, Hands DEF IInv, TypeOK, SaleFirst, Idle
  <2>2. job' \in [Workers -> Jobs]
    BY <1>12 DEF IInv, TypeOK, Jobs, SaleFirst
  <2>3. QED
    BY <1>12, <2>1, <2>2 DEF IInv, TypeOK, row, paypal, SaleFirst, FirstPaid
<1>13. ASSUME NEW w \in Workers, SaleRecord(w)
      PROVE  TypeOK'
  <2>1. /\ job[w].sub \in Subs /\ job[w].end \in Days
        /\ job[w].key \in Keys \cup Sales
    BY <1>13, Hands DEF IInv, SaleRecord
  <2>2. audit' \subseteq Renewal /\ job' \in [Workers -> Jobs]
    BY <1>13, <2>1, RecordTyped DEF IInv, SaleRecord
  <2>3. QED
    BY <1>13, <2>2 DEF IInv, TypeOK, row, paypal, SaleRecord
<1>14. ASSUME NEW w \in Workers, AccessExpire(w)
      PROVE  TypeOK'
  <2>1. job[w].sub \in Subs
    BY <1>14, Hands DEF IInv, TypeOK, AccessExpire, Idle
  <2>2. job' \in [Workers -> Jobs]
    BY <1>14 DEF IInv, TypeOK, Jobs, AccessExpire
  <2>3. QED
    BY <1>14, <2>1, <2>2 DEF IInv, TypeOK, row, paypal, AccessExpire
<1>15. ASSUME NEW w \in Workers, CutShort(w)
      PROVE  TypeOK'
  <2>1. job' \in [Workers -> Jobs]
    BY <1>15 DEF IInv, TypeOK, Jobs, CutShort
  <2>2. QED
    BY <1>15, <2>1 DEF IInv, TypeOK, row, paypal, CutShort
<1>16. ASSUME NEW w \in Workers, NEW x \in Sales, SaleRead(w, x)
      PROVE  TypeOK'
  <2> DEFINE j == [at |-> "asking", sub |-> sales[x][1], key |-> x,
               paid |-> paid[sales[x][1]], end |-> end[sales[x][1]]]
  <2>1. j \in Jobs
    BY <1>16 DEF IInv, TypeOK, Jobs, SaleRead
  <2>2. job' = [job EXCEPT ![w] = j]
    BY <1>16 DEF SaleRead
  <2>3. job' \in [Workers -> Jobs]
    BY <2>1, <2>2 DEF IInv, TypeOK
  <2>4. QED
    BY <1>16, <2>3 DEF IInv, TypeOK, row, paypal, SaleRead
<1>17. ASSUME NEW w \in Workers, NEW s \in Subs, AccessRead(w, s)
      PROVE  TypeOK'
  <2> DEFINE j == [at |-> "persisting", sub |-> s]
  <2>1. j \in Jobs
    BY <1>17 DEF IInv, TypeOK, Jobs, AccessRead
  <2>2. job' = [job EXCEPT ![w] = j]
    BY <1>17 DEF AccessRead
  <2>3. job' \in [Workers -> Jobs]
    BY <2>1, <2>2 DEF IInv, TypeOK
  <2>4. QED
    BY <1>17, <2>3 DEF IInv, TypeOK, row, paypal, AccessRead
<1>18. ASSUME NEW w \in Workers, NEW s \in Subs, NEW k \in Keys, NEW p \in Payments,
              RenewRead(w, s, k, p)
      PROVE  TypeOK'
  <2> DEFINE j == [at |-> "verifying", sub |-> s, key |-> k, payment |-> p, end |-> end[s]]
  <2>1. j \in Jobs
    BY <1>18 DEF IInv, TypeOK, Jobs, RenewRead
  <2>2. job' = [job EXCEPT ![w] = j]
    BY <1>18 DEF RenewRead
  <2>3. job' \in [Workers -> Jobs]
    BY <2>1, <2>2 DEF IInv, TypeOK
  <2>4. QED
    BY <1>18, <2>3 DEF IInv, TypeOK, row, paypal, RenewRead
<1>19. CASE UNCHANGED vars
  BY <1>19 DEF IInv, TypeOK, Days, vars, row, paypal
<1>20. QED
  BY <1>1, <1>2, <1>3, <1>4, <1>5, <1>6, <1>7, <1>8, <1>9,
     <1>10, <1>11, <1>12, <1>13, <1>14, <1>15, <1>16, <1>17, <1>18, <1>19 DEF Next, Step

\* A key extends its row once.
LEMMA NextOnce == ASSUME IInv, [Next]_vars PROVE KeysOnce'
<1>1. CASE NewDay
  BY <1>1, QuietOnce DEF Quiet, IInv, TypeOK, Idle, row, paypal, NewDay
<1>2. ASSUME NEW p \in Payments, Confirm(p)
      PROVE  KeysOnce'
  BY <1>2, QuietOnce DEF Quiet, IInv, TypeOK, Idle, row, paypal, Confirm
<1>3. ASSUME NEW failing \in SUBSET Kinds, Sweep(failing)
      PROVE  KeysOnce'
  BY <1>3, QuietOnce DEF Quiet, IInv, TypeOK, Idle, row, paypal, Sweep
<1>4. ASSUME NEW s \in Subs, Approve(s)
      PROVE  KeysOnce'
  BY <1>4, QuietOnce DEF Quiet, IInv, TypeOK, Idle, row, paypal, Approve
<1>5. ASSUME NEW s \in Subs, Switch(s)
      PROVE  KeysOnce'
  BY <1>5, QuietOnce DEF Quiet, IInv, TypeOK, Idle, row, paypal, Switch
<1>6. ASSUME NEW s \in Subs, Activate(s)
      PROVE  KeysOnce'
  BY <1>6, QuietOnce DEF Quiet, IInv, TypeOK, Idle, row, paypal, Activate
<1>7. ASSUME NEW s \in Subs, AdminCancel(s)
      PROVE  KeysOnce'
  BY <1>7, QuietOnce DEF Quiet, IInv, TypeOK, Idle, row, paypal, AdminCancel
<1>8. ASSUME NEW s \in Subs, NEW first \in 0..(Horizon - Term), Schedule(s, first)
      PROVE  KeysOnce'
  BY <1>8, QuietOnce DEF Quiet, IInv, TypeOK, Idle, row, paypal, Schedule
<1>9. ASSUME NEW s \in Subs, NEW x \in Sales, Charge(s, x)
      PROVE  KeysOnce'
  BY <1>9, QuietOnce DEF Quiet, IInv, TypeOK, Idle, row, paypal, Charge
<1>10. ASSUME NEW w \in Workers, RenewRecord(w)
      PROVE  KeysOnce'
  <2>1. /\ job[w].sub \in Subs /\ job[w].end \in Days
        /\ job[w].key \in Keys \cup Sales
    BY <1>10, Hands DEF IInv, RenewRecord
  <2>2. QED
    BY <1>10, <2>1, RecordOnce DEF RenewRecord
<1>11. ASSUME NEW w \in Workers, Extend(w)
      PROVE  KeysOnce'
  <2> DEFINE t == job[w].sub
             l == job[w].key
  <2>1. t \in Subs /\ l \in Keys \cup Sales /\ Extending(w, t, l)
    BY <1>11, Hands DEF IInv, Extend, Extending
  <2>2. extended[<<t, l>>] = 0 /\ Audited(t, l)
    BY <2>1 DEF IInv, KeysOnce
  <2>3. extended' = [extended EXCEPT ![<<t, l>>] = 1]
    BY <1>11, <2>1, <2>2 DEF IInv, TypeOK, Extend
  <2>4. \A v \in Workers : (job'[v] = job[v] /\ v # w) \/ job'[v] = Idle
    BY <1>11 DEF IInv, TypeOK, Extend
  <2>5. \A s \in Subs, k \in Keys \cup Sales, v \in Workers :
            Extending(v, s, k)' => Extending(v, s, k) /\ <<s, k>> # <<t, l>>
    <3>1. ASSUME NEW s \in Subs, NEW k \in Keys \cup Sales, NEW v \in Workers, Extending(v, s, k)'
          PROVE  Extending(v, s, k) /\ v # w
      BY <2>4, <3>1 DEF Extending, Idle
    <3>2. ASSUME NEW s \in Subs, NEW k \in Keys \cup Sales, NEW v \in Workers, Extending(v, s, k), v # w
          PROVE  ~(s = t /\ k = l)
      BY <2>1, <3>2 DEF IInv, KeysOnce
    <3>3. QED
      BY <3>1, <3>2
  <2>6. \A s \in Subs, k \in Keys \cup Sales :
            /\ extended'[<<s, k>>] = IF <<s, k>> = <<t, l>> THEN 1 ELSE extended[<<s, k>>]
            /\ Audited(s, k)' = Audited(s, k)
    BY <1>11, <2>1, <2>3 DEF IInv, TypeOK, Extend, Audited
  <2>7. ASSUME NEW s \in Subs, NEW k \in Keys \cup Sales
        PROVE  /\ extended'[<<s, k>>] <= 1
               /\ extended'[<<s, k>>] = 1 => Audited(s, k)'
               /\ \A v \in Workers : Extending(v, s, k)' => Audited(s, k)' /\ extended'[<<s, k>>] = 0
               /\ \A u, v \in Workers : Extending(u, s, k)' /\ Extending(v, s, k)' => u = v
    BY <2>2, <2>5, <2>6 DEF IInv, KeysOnce
  <2>8. QED
    BY <2>7 DEF KeysOnce
<1>12. ASSUME NEW w \in Workers, SaleFirst(w)
      PROVE  KeysOnce'
  BY <1>12, QuietOnce DEF Quiet, IInv, TypeOK, Idle, row, paypal, SaleFirst
<1>13. ASSUME NEW w \in Workers, SaleRecord(w)
      PROVE  KeysOnce'
  <2>1. /\ job[w].sub \in Subs /\ job[w].end \in Days
        /\ job[w].key \in Keys \cup Sales
    BY <1>13, Hands DEF IInv, SaleRecord
  <2>2. QED
    BY <1>13, <2>1, RecordOnce DEF SaleRecord
<1>14. ASSUME NEW w \in Workers, AccessExpire(w)
      PROVE  KeysOnce'
  BY <1>14, QuietOnce DEF Quiet, IInv, TypeOK, Idle, row, paypal, AccessExpire
<1>15. ASSUME NEW w \in Workers, CutShort(w)
      PROVE  KeysOnce'
  BY <1>15, QuietOnce DEF Quiet, IInv, TypeOK, Idle, row, paypal, CutShort
<1>16. ASSUME NEW w \in Workers, NEW x \in Sales, SaleRead(w, x)
      PROVE  KeysOnce'
  BY <1>16, QuietOnce DEF Quiet, IInv, TypeOK, Idle, row, paypal, SaleRead
<1>17. ASSUME NEW w \in Workers, NEW s \in Subs, AccessRead(w, s)
      PROVE  KeysOnce'
  BY <1>17, QuietOnce DEF Quiet, IInv, TypeOK, Idle, row, paypal, AccessRead
<1>18. ASSUME NEW w \in Workers, NEW s \in Subs, NEW k \in Keys, NEW p \in Payments,
              RenewRead(w, s, k, p)
      PROVE  KeysOnce'
  BY <1>18, QuietOnce DEF Quiet, IInv, TypeOK, Idle, row, paypal, RenewRead
<1>19. CASE UNCHANGED vars
  BY <1>19, QuietOnce DEF Quiet, vars, row, paypal
<1>20. QED
  BY <1>1, <1>2, <1>3, <1>4, <1>5, <1>6, <1>7, <1>8, <1>9,
     <1>10, <1>11, <1>12, <1>13, <1>14, <1>15, <1>16, <1>17, <1>18, <1>19 DEF Next, Step

\* Charges and confirmations stay, and what is recorded has one.
LEMMA NextRecord == ASSUME IInv, [Next]_vars PROVE OnRecord'
<1>1. CASE NewDay
  BY <1>1 DEF IInv, TypeOK, OnRecord, Audited, ChargesOf, Idle, row, paypal, NewDay
<1>2. ASSUME NEW p \in Payments, Confirm(p)
      PROVE  OnRecord'
  BY <1>2 DEF IInv, TypeOK, OnRecord, Audited, ChargesOf, Idle, row, paypal, Confirm
<1>3. ASSUME NEW failing \in SUBSET Kinds, Sweep(failing)
      PROVE  OnRecord'
  BY <1>3 DEF IInv, TypeOK, OnRecord, Audited, ChargesOf, Idle, row, paypal, Sweep, SweepRows,
     SweepTo
<1>4. ASSUME NEW s \in Subs, Approve(s)
      PROVE  OnRecord'
  BY <1>4 DEF IInv, TypeOK, OnRecord, Audited, ChargesOf, Idle, row, paypal, Approve
<1>5. ASSUME NEW s \in Subs, Switch(s)
      PROVE  OnRecord'
  BY <1>5 DEF IInv, TypeOK, OnRecord, Audited, ChargesOf, Idle, row, paypal, Switch
<1>6. ASSUME NEW s \in Subs, Activate(s)
      PROVE  OnRecord'
  BY <1>6 DEF IInv, TypeOK, OnRecord, Audited, ChargesOf, Idle, row, paypal, Activate, FirstPaid
<1>7. ASSUME NEW s \in Subs, AdminCancel(s)
      PROVE  OnRecord'
  BY <1>7 DEF IInv, TypeOK, OnRecord, Audited, ChargesOf, Idle, row, paypal, AdminCancel
<1>8. ASSUME NEW s \in Subs, NEW first \in 0..(Horizon - Term), Schedule(s, first)
      PROVE  OnRecord'
  BY <1>8 DEF IInv, TypeOK, OnRecord, Audited, ChargesOf, Idle, row, paypal, Schedule
<1>9. ASSUME NEW s \in Subs, NEW x \in Sales, Charge(s, x)
      PROVE  OnRecord'
  BY <1>9 DEF IInv, TypeOK, OnRecord, Audited, ChargesOf, Idle, row, paypal, Charge
<1>10. ASSUME NEW w \in Workers, RenewRecord(w)
      PROVE  OnRecord'
  <2>1. /\ job[w].sub \in Subs /\ job[w].end \in Days
        /\ job[w].key \in Keys
    BY <1>10, Hands DEF IInv, RenewRecord
  <2>2. \A t \in Subs, l \in Keys \cup Sales :
            Audited(t, l)' => Audited(t, l) \/ l = job[w].key
    BY <1>10, <2>1, RecordAdds DEF IInv, RenewRecord
  <2>3. \A v \in Workers : job'[v] = job[v] \/ job'[v].at \in {"idle", "extending"}
    BY <1>10, <2>1, RecordAdds DEF IInv, RenewRecord
  <2>4. sales' = sales
    BY <1>10 DEF RenewRecord, paypal
  <2>5. confirmed # {} /\ confirmed' = confirmed
    BY <1>10 DEF RenewRecord
  <2>6. QED
    BY <2>1, <2>2, <2>3, <2>4, <2>5 DEF IInv, OnRecord, ChargesOf
<1>11. ASSUME NEW w \in Workers, Extend(w)
      PROVE  OnRecord'
  BY <1>11 DEF IInv, TypeOK, OnRecord, Audited, ChargesOf, Idle, row, paypal, Extend
<1>12. ASSUME NEW w \in Workers, SaleFirst(w)
      PROVE  OnRecord'
  BY <1>12 DEF IInv, TypeOK, OnRecord, Audited, ChargesOf, Idle, row, paypal, SaleFirst, FirstPaid
<1>13. ASSUME NEW w \in Workers, SaleRecord(w)
      PROVE  OnRecord'
  <2>1. /\ job[w].sub \in Subs /\ job[w].end \in Days
        /\ job[w].key \in Sales
    BY <1>13, Hands DEF IInv, SaleRecord
  <2>2. \A t \in Subs, l \in Keys \cup Sales :
            Audited(t, l)' => Audited(t, l) \/ (t = job[w].sub /\ l = job[w].key)
    BY <1>13, <2>1, RecordAdds DEF IInv, SaleRecord
  <2>3. \A v \in Workers : job'[v] = job[v] \/ job'[v].at \in {"idle", "extending"}
    BY <1>13, <2>1, RecordAdds DEF IInv, SaleRecord
  <2>4. sales' = sales
    BY <1>13 DEF SaleRecord, paypal
  <2>5. job[w].key \in ChargesOf(job[w].sub) /\ job[w].key \notin Keys
    BY <1>13, <2>1, SubscriptionsAssumption DEF IInv, OnRecord, SaleRecord
  <2>6. confirmed' = confirmed
    BY <1>13 DEF SaleRecord
  <2>7. QED
    BY <2>2, <2>3, <2>4, <2>5, <2>6 DEF IInv, OnRecord, ChargesOf
<1>14. ASSUME NEW w \in Workers, AccessExpire(w)
      PROVE  OnRecord'
  BY <1>14 DEF IInv, TypeOK, OnRecord, Audited, ChargesOf, Idle, row, paypal, AccessExpire
<1>15. ASSUME NEW w \in Workers, CutShort(w)
      PROVE  OnRecord'
  BY <1>15 DEF IInv, TypeOK, OnRecord, Audited, ChargesOf, Idle, row, paypal, CutShort
<1>16. ASSUME NEW w \in Workers, NEW x \in Sales, SaleRead(w, x)
      PROVE  OnRecord'
  BY <1>16 DEF IInv, TypeOK, OnRecord, Audited, ChargesOf, Idle, row, paypal, SaleRead
<1>17. ASSUME NEW w \in Workers, NEW s \in Subs, AccessRead(w, s)
      PROVE  OnRecord'
  BY <1>17 DEF IInv, TypeOK, OnRecord, Audited, ChargesOf, Idle, row, paypal, AccessRead
<1>18. ASSUME NEW w \in Workers, NEW s \in Subs, NEW k \in Keys, NEW p \in Payments,
              RenewRead(w, s, k, p)
      PROVE  OnRecord'
  BY <1>18 DEF IInv, TypeOK, OnRecord, Audited, ChargesOf, Idle, row, paypal, RenewRead
<1>19. CASE UNCHANGED vars
  BY <1>19 DEF IInv, TypeOK, OnRecord, Audited, ChargesOf, Idle, vars, row, paypal
<1>20. QED
  BY <1>1, <1>2, <1>3, <1>4, <1>5, <1>6, <1>7, <1>8, <1>9,
     <1>10, <1>11, <1>12, <1>13, <1>14, <1>15, <1>16, <1>17, <1>18, <1>19 DEF Next, Step

\* The first charge stays the first, and off the record.
LEMMA NextFirst == ASSUME IInv, [Next]_vars PROVE FirstChargeKnown'
<1>1. CASE NewDay
  BY <1>1, ChargesStay DEF paypal, row, NewDay
<1>2. ASSUME NEW p \in Payments, Confirm(p)
      PROVE  FirstChargeKnown'
  BY <1>2, ChargesStay DEF paypal, row, Confirm
<1>3. ASSUME NEW failing \in SUBSET Kinds, Sweep(failing)
      PROVE  FirstChargeKnown'
  BY <1>3, ChargesStay DEF paypal, row, Sweep
<1>4. ASSUME NEW s \in Subs, Approve(s)
      PROVE  FirstChargeKnown'
  <2>1. \A t \in Subs : ChargesOf(t)' = ChargesOf(t)
    BY <1>4 DEF Approve, ChargesOf
  <2>2. ChargesOf(s) = {} /\ \A x \in Sales : ~Audited(s, x)
    BY <1>4, SubscriptionsAssumption DEF IInv, FirstChargeKnown, OnRecord, Approve
  <2>3. \A t \in Subs : t # s => since'[t] = since[t] /\ (t \in billed' => t \in billed)
    BY <1>4 DEF IInv, TypeOK, Approve
  <2>4. since'[s] # None
    BY <1>4, SubscriptionsAssumption DEF IInv, TypeOK, Days, Approve
  <2>5. \A t \in Subs, x \in Sales : Audited(t, x)' = Audited(t, x)
    BY <1>4 DEF Approve, Audited
  <2>6. \A t \in Subs, x \in Sales : t # s => IsFirstCharge(t, x)' = IsFirstCharge(t, x)
    BY <1>4, <2>3 DEF Approve, IsFirstCharge
  <2>7. ASSUME NEW t \in Subs, t # s
        PROVE  /\ t \in billed' \/ ChargesOf(t)' # {} => since'[t] # None
               /\ IsFiniteSet(ChargesOf(t)')
               /\ ChargesOf(t)' # {} => \E x \in ChargesOf(t)' : IsFirstCharge(t, x)'
               /\ \A x \in Sales : Audited(t, x)' => ~IsFirstCharge(t, x)'
    BY <2>1, <2>3, <2>5, <2>6, <2>7 DEF IInv, FirstChargeKnown, ChargesOf
  <2>8. QED
    BY <2>1, <2>2, <2>4, <2>5, <2>7 DEF IInv, FirstChargeKnown
<1>5. ASSUME NEW s \in Subs, Switch(s)
      PROVE  FirstChargeKnown'
  <2>1. \A t \in Subs : ChargesOf(t)' = ChargesOf(t)
    BY <1>5 DEF Switch, ChargesOf
  <2>2. \A t \in Subs, x \in Sales :
            IsFirstCharge(t, x)' = IsFirstCharge(t, x) /\ Audited(t, x)' = Audited(t, x)
    BY <1>5 DEF IsFirstCharge, Audited, Switch
  <2>3. since' = since /\ \A t \in Subs : t \in billed' => t \in billed \/ since[t] # None
    BY <1>5 DEF Switch
  <2>4. QED
    BY <2>1, <2>2, <2>3 DEF IInv, FirstChargeKnown, ChargesOf
<1>6. ASSUME NEW s \in Subs, Activate(s)
      PROVE  FirstChargeKnown'
  BY <1>6, ChargesStay DEF paypal, row, Activate
<1>7. ASSUME NEW s \in Subs, AdminCancel(s)
      PROVE  FirstChargeKnown'
  BY <1>7, ChargesStay DEF paypal, row, AdminCancel
<1>8. ASSUME NEW s \in Subs, NEW first \in 0..(Horizon - Term), Schedule(s, first)
      PROVE  FirstChargeKnown'
  BY <1>8, ChargesStay DEF paypal, row, Schedule
<1>9. ASSUME NEW s \in Subs, NEW x \in Sales, Charge(s, x)
      PROVE  FirstChargeKnown'
  <2>1. ChargesOf(s)' = ChargesOf(s) \cup {x} /\ x \notin ChargesOf(s)
    <3>1. <<s, today>> # None
      BY SubscriptionsAssumption DEF IInv, TypeOK, Days
    <3>2. sales'[x] = <<s, today>> /\ \A y \in Sales : y # x => sales'[y] = sales[y]
      BY <1>9 DEF IInv, TypeOK, Charge
    <3>3. sales[x] = None
      BY <1>9 DEF Charge
    <3>4. QED
      BY <3>1, <3>2, <3>3 DEF ChargesOf
  <2>2. \A t \in Subs : t # s => ChargesOf(t)' = ChargesOf(t)
    BY <1>9 DEF IInv, TypeOK, Charge, ChargesOf
  <2>3. \A t \in Subs : ~Audited(t, x)
    BY <1>9, SubscriptionsAssumption DEF IInv, OnRecord, Charge, ChargesOf
  <2>4. \A t \in Subs, y \in Sales :
            /\ Audited(t, y)' = Audited(t, y)
            /\ y # x => IsFirstCharge(t, y)' = IsFirstCharge(t, y)
    BY <1>9 DEF IInv, TypeOK, Charge, Audited, IsFirstCharge
  <2>5. since' = since /\ billed' = billed /\ since[s] # None
    BY <1>9 DEF IInv, FirstChargeKnown, Charge
  <2>6. ChargesOf(s) = {} => IsFirstCharge(s, x)'
    BY <1>9, FS_EmptySet DEF IInv, TypeOK, Charge, IsFirstCharge
  <2>7. \A t \in Subs : IsFiniteSet(ChargesOf(t)')
    BY <2>1, <2>2, FS_AddElement DEF IInv, FirstChargeKnown
  <2>8. \A t \in Subs : ChargesOf(t)' # {} => \E y \in ChargesOf(t)' : IsFirstCharge(t, y)'
    <3>1. ASSUME NEW t \in Subs, ChargesOf(t) # {}
          PROVE  \E y \in ChargesOf(t)' : IsFirstCharge(t, y)'
      <4>1. PICK y \in ChargesOf(t) : IsFirstCharge(t, y)
        BY <3>1 DEF IInv, FirstChargeKnown
      <4>2. y \in Sales /\ y # x /\ y \in ChargesOf(t)'
        BY <1>9, <2>1, <2>2, <4>1 DEF ChargesOf, Charge
      <4>3. QED
        BY <2>4, <4>1, <4>2
    <3>2. QED
      BY <2>1, <2>2, <2>6, <3>1
  <2>9. \A t \in Subs, y \in Sales : Audited(t, y)' => ~IsFirstCharge(t, y)'
    BY <2>3, <2>4 DEF IInv, FirstChargeKnown
  <2>10. \A t \in Subs : t \in billed' \/ ChargesOf(t)' # {} => since'[t] # None
    BY <2>1, <2>2, <2>5 DEF IInv, FirstChargeKnown
  <2>11. QED
    BY <2>7, <2>8, <2>9, <2>10 DEF FirstChargeKnown
<1>10. ASSUME NEW w \in Workers, RenewRecord(w)
      PROVE  FirstChargeKnown'
  <2>1. /\ job[w].sub \in Subs /\ job[w].end \in Days
        /\ job[w].key \in Keys
    BY <1>10, Hands DEF IInv, RenewRecord
  <2>2. job[w].key \notin Sales
    BY <2>1, SubscriptionsAssumption
  <2>3. QED
    BY <1>10, <2>1, <2>2, RecordedLater DEF RenewRecord
<1>11. ASSUME NEW w \in Workers, Extend(w)
      PROVE  FirstChargeKnown'
  BY <1>11, ChargesStay DEF paypal, row, Extend
<1>12. ASSUME NEW w \in Workers, SaleFirst(w)
      PROVE  FirstChargeKnown'
  BY <1>12, ChargesStay DEF paypal, row, SaleFirst
<1>13. ASSUME NEW w \in Workers, SaleRecord(w)
      PROVE  FirstChargeKnown'
  <2>1. /\ job[w].sub \in Subs /\ job[w].end \in Days
        /\ job[w].key \in Sales
    BY <1>13, Hands DEF IInv, SaleRecord
  <2>2. ~IsFirstCharge(job[w].sub, job[w].key)
    BY <1>13 DEF SaleRecord, FirstTerm
  <2>3. QED
    BY <1>13, <2>1, <2>2, RecordedLater DEF SaleRecord
<1>14. ASSUME NEW w \in Workers, AccessExpire(w)
      PROVE  FirstChargeKnown'
  BY <1>14, ChargesStay DEF paypal, row, AccessExpire
<1>15. ASSUME NEW w \in Workers, CutShort(w)
      PROVE  FirstChargeKnown'
  BY <1>15, ChargesStay DEF paypal, row, CutShort
<1>16. ASSUME NEW w \in Workers, NEW x \in Sales, SaleRead(w, x)
      PROVE  FirstChargeKnown'
  BY <1>16, ChargesStay DEF paypal, row, SaleRead
<1>17. ASSUME NEW w \in Workers, NEW s \in Subs, AccessRead(w, s)
      PROVE  FirstChargeKnown'
  BY <1>17, ChargesStay DEF paypal, row, AccessRead
<1>18. ASSUME NEW w \in Workers, NEW s \in Subs, NEW k \in Keys, NEW p \in Payments,
              RenewRead(w, s, k, p)
      PROVE  FirstChargeKnown'
  BY <1>18, ChargesStay DEF paypal, row, RenewRead
<1>19. CASE UNCHANGED vars
  BY <1>19, ChargesStay DEF vars, row, paypal
<1>20. QED
  BY <1>1, <1>2, <1>3, <1>4, <1>5, <1>6, <1>7, <1>8, <1>9,
     <1>10, <1>11, <1>12, <1>13, <1>14, <1>15, <1>16, <1>17, <1>18, <1>19 DEF Next, Step

\* The sweep expires what is over, and time does not go back.
LEMMA NextExpired == ASSUME IInv, [Next]_vars PROVE OverWhenExpired'
<1>1. CASE NewDay
  BY <1>1 DEF IInv, TypeOK, Days, OverWhenExpired, ExpiredIsOver, Lapse, Idle, row, paypal, NewDay
<1>2. ASSUME NEW p \in Payments, Confirm(p)
      PROVE  OverWhenExpired'
  BY <1>2 DEF IInv, TypeOK, Days, OverWhenExpired, ExpiredIsOver, Lapse, Idle, row, paypal, Confirm
<1>3. ASSUME NEW failing \in SUBSET Kinds, Sweep(failing)
      PROVE  OverWhenExpired'
  <2>1. \A s \in Subs : status'[s] = "expired" => status[s] = "expired" \/ Lapse(s) < today
    BY <1>3 DEF IInv, TypeOK, Sweep, SweepRows, SweepTo, Overdue
  <2>2. QED
    BY <1>3, <2>1 DEF IInv, OverWhenExpired, ExpiredIsOver, Lapse, Sweep
<1>4. ASSUME NEW s \in Subs, Approve(s)
      PROVE  OverWhenExpired'
  BY <1>4 DEF IInv, TypeOK, Days, OverWhenExpired, ExpiredIsOver, Lapse, Idle, row, paypal, Approve
<1>5. ASSUME NEW s \in Subs, Switch(s)
      PROVE  OverWhenExpired'
  BY <1>5 DEF IInv, TypeOK, Days, OverWhenExpired, ExpiredIsOver, Lapse, Idle, row, paypal, Switch
<1>6. ASSUME NEW s \in Subs, Activate(s)
      PROVE  OverWhenExpired'
  BY <1>6 DEF IInv, TypeOK, Days, OverWhenExpired, ExpiredIsOver, Lapse, Idle, row, paypal,
     Activate, FirstPaid
<1>7. ASSUME NEW s \in Subs, AdminCancel(s)
      PROVE  OverWhenExpired'
  BY <1>7 DEF IInv, TypeOK, Days, OverWhenExpired, ExpiredIsOver, Lapse, Idle, row, paypal,
     AdminCancel
<1>8. ASSUME NEW s \in Subs, NEW first \in 0..(Horizon - Term), Schedule(s, first)
      PROVE  OverWhenExpired'
  BY <1>8 DEF IInv, TypeOK, Days, OverWhenExpired, ExpiredIsOver, Lapse, Idle, row, paypal, Schedule
<1>9. ASSUME NEW s \in Subs, NEW x \in Sales, Charge(s, x)
      PROVE  OverWhenExpired'
  BY <1>9 DEF IInv, TypeOK, Days, OverWhenExpired, ExpiredIsOver, Lapse, Idle, row, paypal, Charge
<1>10. ASSUME NEW w \in Workers, RenewRecord(w)
      PROVE  OverWhenExpired'
  <2>1. /\ job[w].sub \in Subs /\ job[w].end \in Days
        /\ job[w].key \in Keys \cup Sales
    BY <1>10, Hands DEF IInv, RenewRecord
  <2>2. \A v \in Workers : job'[v] = job[v] \/ job'[v].at \in {"idle", "extending"}
    BY <1>10, <2>1, RecordAdds DEF IInv, RenewRecord
  <2>3. QED
    BY <1>10, <2>2 DEF IInv, OverWhenExpired, ExpiredIsOver, Lapse, row, RenewRecord
<1>11. ASSUME NEW w \in Workers, Extend(w)
      PROVE  OverWhenExpired'
  BY <1>11 DEF IInv, TypeOK, Days, OverWhenExpired, ExpiredIsOver, Lapse, Idle, row, paypal, Extend
<1>12. ASSUME NEW w \in Workers, SaleFirst(w)
      PROVE  OverWhenExpired'
  BY <1>12 DEF IInv, TypeOK, Days, OverWhenExpired, ExpiredIsOver, Lapse, Idle, row, paypal,
     SaleFirst, FirstPaid
<1>13. ASSUME NEW w \in Workers, SaleRecord(w)
      PROVE  OverWhenExpired'
  <2>1. /\ job[w].sub \in Subs /\ job[w].end \in Days
        /\ job[w].key \in Keys \cup Sales
    BY <1>13, Hands DEF IInv, SaleRecord
  <2>2. \A v \in Workers : job'[v] = job[v] \/ job'[v].at \in {"idle", "extending"}
    BY <1>13, <2>1, RecordAdds DEF IInv, SaleRecord
  <2>3. QED
    BY <1>13, <2>2 DEF IInv, OverWhenExpired, ExpiredIsOver, Lapse, row, SaleRecord
<1>14. ASSUME NEW w \in Workers, AccessExpire(w)
      PROVE  OverWhenExpired'
  BY <1>14 DEF IInv, TypeOK, Days, OverWhenExpired, ExpiredIsOver, Lapse, Idle, row, paypal,
     AccessExpire
<1>15. ASSUME NEW w \in Workers, CutShort(w)
      PROVE  OverWhenExpired'
  BY <1>15 DEF IInv, TypeOK, Days, OverWhenExpired, ExpiredIsOver, Lapse, Idle, row, paypal,
     CutShort
<1>16. ASSUME NEW w \in Workers, NEW x \in Sales, SaleRead(w, x)
      PROVE  OverWhenExpired'
  BY <1>16 DEF IInv, TypeOK, Days, OverWhenExpired, ExpiredIsOver, Lapse, Idle, row, paypal,
     SaleRead
<1>17. ASSUME NEW w \in Workers, NEW s \in Subs, AccessRead(w, s)
      PROVE  OverWhenExpired'
  BY <1>17 DEF IInv, TypeOK, Days, OverWhenExpired, ExpiredIsOver, Lapse, Idle, row, paypal,
     AccessRead
<1>18. ASSUME NEW w \in Workers, NEW s \in Subs, NEW k \in Keys, NEW p \in Payments,
              RenewRead(w, s, k, p)
      PROVE  OverWhenExpired'
  BY <1>18 DEF IInv, TypeOK, Days, OverWhenExpired, ExpiredIsOver, Lapse, Idle, row, paypal,
     RenewRead
<1>19. CASE UNCHANGED vars
  BY <1>19 DEF IInv, TypeOK, Days, OverWhenExpired, ExpiredIsOver, Lapse, Idle, vars, row, paypal
<1>20. QED
  BY <1>1, <1>2, <1>3, <1>4, <1>5, <1>6, <1>7, <1>8, <1>9,
     <1>10, <1>11, <1>12, <1>13, <1>14, <1>15, <1>16, <1>17, <1>18, <1>19 DEF Next, Step

\* The invariant holds in every reachable state.
THEOREM Invariance == Spec => []IInv
<1>1. IInv /\ [Next]_vars => IInv'
  BY NextType, NextOnce, NextRecord, NextFirst, NextExpired DEF IInv
<1>2. QED
  BY <1>1, InitInv, PTL DEF Spec

\* Every variable keeps its type.
THEOREM TypeCorrect == Spec => []TypeOK
BY Invariance, PTL DEF IInv

\* A key extends its row once, and only what was confirmed or charged, however
\* often clients retry, PayPal repeats itself and calls die.
THEOREM KeysExtendOnce == Spec => []RenewedOnce
<1>1. IInv => RenewedOnce
  BY DEF IInv, KeysOnce, OnRecord, RenewedOnce
<1>2. QED
  BY <1>1, Invariance, PTL

\* PayPal's first charge buys the term the row has: it never extends it.
THEOREM FirstTermIncluded == Spec => []FirstChargeIncluded
<1>1. ASSUME IInv PROVE FirstChargeIncluded
  <2>1. SUFFICES ASSUME NEW s \in Subs, {x \in Sales : extended[<<s, x>>] > 0} # {}
                 PROVE  Cardinality({x \in Sales : extended[<<s, x>>] > 0}) < Cardinality(ChargesOf(s))
    BY DEF FirstChargeIncluded
  <2> DEFINE gained == {x \in Sales : extended[<<s, x>>] > 0}
  <2>2. \A x \in gained : Audited(s, x)
    BY <1>1 DEF IInv, TypeOK, KeysOnce
  <2>3. gained \subseteq ChargesOf(s)
    BY <1>1, <2>2, SubscriptionsAssumption DEF IInv, OnRecord
  <2>4. PICK y \in ChargesOf(s) : IsFirstCharge(s, y)
    BY <1>1, <2>1, <2>3 DEF IInv, FirstChargeKnown
  <2>5. y \notin gained
    BY <1>1, <2>2, <2>4 DEF IInv, FirstChargeKnown, ChargesOf
  <2>6. IsFiniteSet(ChargesOf(s))
    BY <1>1 DEF IInv, FirstChargeKnown
  <2>7. Cardinality(gained) < Cardinality(ChargesOf(s))
    <3>1. gained # ChargesOf(s)
      BY <2>4, <2>5
    <3>2. /\ IsFiniteSet(gained) /\ Cardinality(gained) <= Cardinality(ChargesOf(s))
          /\ Cardinality(ChargesOf(s)) # Cardinality(gained)
      BY <2>3, <2>6, <3>1, FS_Subset
    <3>3. Cardinality(gained) \in Nat /\ Cardinality(ChargesOf(s)) \in Nat
      BY <2>6, <3>2, FS_CardinalityType
    <3>4. QED
      BY <3>2, <3>3
  <2>8. QED
    BY <2>7
<1>2. QED
  BY <1>1, Invariance, PTL

\* Nobody but a meal plan that is looked at is expired before the day it lapses.
THEOREM NobodyExpiredEarly == Spec => []ExpiredIsOver
BY Invariance, PTL DEF IInv, OverWhenExpired
-----------------------------------------------------------------------------
(* Who is billed, for the rows that PayPal charges: proofs about AutoRenewal,  *)
(* for any rows and any number of calls at once.                               *)

\* What was ever to be cancelled has been paid: a row that renews or is marked, and
\* the row of a call that cancels or resumes.
PaidFirst ==
    /\ \A s \in Rows : auto[s] \/ flag[s] => Paid(s)
    /\ \A w \in Callers : call[w].at \in {"asking", "telling", "writing"} => Paid(call[w].sub)

\* A row is as good as marked from the moment a call has done its part at PayPal.
AskedIsNotCharged ==
    \A s \in Rows : CancelAsked(s) /\ remote[s] = "ACTIVE" => s \in lifted

\* The inductive invariant.
BillingInv == BillingTypeOK /\ PaidFirst /\ AskedIsNotCharged

USE DEF Goes, Begins, Returns

\* The initial state satisfies the invariant.
LEMMA BillingInvHolds == ASSUME BillingInit PROVE BillingInv
BY DEF BillingInit, BillingInv, BillingTypeOK, PaidFirst, AskedIsNotCharged, CancelAsked,
       Remotes, Paid, Calls, NoCall

\* What a call at work holds.
LEMMA BillingHands ==
    ASSUME BillingTypeOK, NEW w \in Callers, call[w].at # "idle"
    PROVE  /\ call[w].sub \in Rows
           /\ call[w].at \in {"asking", "telling", "writing"} => call[w].cancel \in BOOLEAN
           /\ call[w].at = "writing" => call[w].told \in BOOLEAN
<1>1. call[w] \in Calls
  BY DEF BillingTypeOK
<1>2. CASE call[w] \in {NoCall}
  BY <1>2 DEF NoCall
<1>3. CASE call[w] \in [at: {"asking", "telling"}, sub: Rows, cancel: BOOLEAN]
  BY <1>3
<1>4. CASE call[w] \in [at: {"writing"}, sub: Rows, cancel: BOOLEAN, told: BOOLEAN]
  BY <1>4
<1>5. CASE call[w] \in [at: {"asking first payment", "paying"}, sub: Rows]
  BY <1>5
<1>6. CASE call[w] \in [at: {"stopping", "stopped"}, sub: Rows]
  BY <1>6
<1>7. QED
  BY <1>1, <1>2, <1>3, <1>4, <1>5, <1>6 DEF Calls

\* PayPal's side of a row keeps its type.
LEMMA MovesTyped ==
    ASSUME BillingTypeOK, NEW s \in Rows, NEW from, NEW to \in Remotes, PayPalMoves(s, from, to)
    PROVE  /\ remote' \in [Rows -> Remotes]
           /\ events' \in [Rows -> SUBSET {"ACTIVATED", "STOPPED"}]
BY DEF BillingTypeOK, PayPalMoves

\* A step that takes no payment back and neither marks a row nor begins a call
\* about it leaves what was paid first so.
LEMMA StaysPaid ==
    ASSUME BillingInv,
           \A s \in Rows : Paid(s) => Paid(s)',
           UNCHANGED flag,
           \A s \in Rows : auto'[s] => auto[s] \/ Paid(s)',
           \A w \in Callers : call'[w] = call[w] \/ call'[w].at \in {"idle", "paying"}
    PROVE  PaidFirst'
<1>1. \A s \in Rows : auto'[s] \/ flag'[s] => Paid(s)'
  BY DEF BillingInv, PaidFirst
<1>2. ASSUME NEW w \in Callers, call'[w].at \in {"asking", "telling", "writing"}
      PROVE  Paid(call[w].sub)' /\ call'[w] = call[w]
  <2>1. call'[w] = call[w] /\ Paid(call[w].sub)
    BY <1>2 DEF BillingInv, PaidFirst
  <2>2. call[w].sub \in Rows
    BY <1>2, <2>1, BillingHands DEF BillingInv
  <2>3. QED
    BY <2>1, <2>2 DEF Paid
<1>3. QED
  BY <1>1, <1>2 DEF PaidFirst, Paid

\* Types are kept.
LEMMA BillingTypes == ASSUME BillingInv, [BillingNext]_billingVars PROVE BillingTypeOK'
<1>1. ASSUME NEW s \in Rows, Create(s) PROVE BillingTypeOK'
  BY <1>1 DEF BillingInv, BillingTypeOK, Remotes, Calls, NoCall, rowVars, Create
<1>2. ASSUME NEW s \in Rows, Approved(s) PROVE BillingTypeOK'
  BY <1>2 DEF BillingInv, BillingTypeOK, Remotes, Calls, NoCall, rowVars, Approved, PayPalMoves
<1>3. ASSUME NEW s \in Rows, PaidOtherwise(s) PROVE BillingTypeOK'
  BY <1>3 DEF BillingInv, BillingTypeOK, Remotes, Calls, NoCall, rowVars, PaidOtherwise
<1>4. ASSUME NEW s \in Rows, PayPalStops(s) PROVE BillingTypeOK'
  <2>1. PICK to \in {"SUSPENDED", "CANCELLED"} : PayPalMoves(s, {"ACTIVE", "SUSPENDED"} \ {to}, to)
    BY <1>4 DEF PayPalStops
  <2>2. QED
    BY <1>4, <2>1, MovesTyped DEF BillingInv, BillingTypeOK, Remotes, rowVars, PayPalStops
<1>5. ASSUME NEW s \in Rows, TermEnds(s) PROVE BillingTypeOK'
  BY <1>5 DEF BillingInv, BillingTypeOK, Remotes, Calls, NoCall, rowVars, TermEnds
<1>6. ASSUME NEW s \in Rows, Renew(s) PROVE BillingTypeOK'
  BY <1>6 DEF BillingInv, BillingTypeOK, Remotes, Calls, NoCall, rowVars, Renew
<1>7. ASSUME NEW s \in Rows, NEW e \in events[s], Webhook(s, e) PROVE BillingTypeOK'
  BY <1>7 DEF BillingInv, BillingTypeOK, Remotes, Calls, NoCall, rowVars, Webhook, Reactivated
<1>8. ASSUME NEW w \in Callers, PayAsk(w) PROVE BillingTypeOK'
  <2>1. \/ call' = [call EXCEPT ![w] = NoCall]
        \/ call' = [call EXCEPT ![w] = [at |-> "paying", sub |-> call[w].sub]]
    BY <1>8 DEF PayAsk
  <2>2. call[w].sub \in Rows
    BY <1>8, BillingHands DEF BillingInv, PayAsk
  <2>3. NoCall \in Calls /\ [at |-> "paying", sub |-> call[w].sub] \in Calls
    BY <2>2 DEF Calls
  <2>4. call' \in [Callers -> Calls]
    BY <2>1, <2>3 DEF BillingInv, BillingTypeOK
  <2>5. QED
    BY <1>8, <2>4 DEF BillingInv, BillingTypeOK, rowVars, PayAsk
<1>9. ASSUME NEW w \in Callers, MarkFirstPaid(w) PROVE BillingTypeOK'
  BY <1>9 DEF BillingInv, BillingTypeOK, Remotes, Calls, NoCall, rowVars, MarkFirstPaid,
         FirstPaidStatus
<1>10. ASSUME NEW w \in Callers, FlagAsk(w) PROVE BillingTypeOK'
  <2>1. call' \in [Callers -> Calls]
    BY <1>10, BillingHands DEF BillingInv, BillingTypeOK, Calls, NoCall, FlagAsk
  <2>2. QED
    BY <1>10, <2>1, BillingHands DEF BillingInv, BillingTypeOK, Remotes, rowVars, FlagAsk
<1>11. ASSUME NEW w \in Callers, FlagTell(w) PROVE BillingTypeOK'
  <2>1. call[w].sub \in Rows /\ call[w].cancel \in BOOLEAN
    BY <1>11, BillingHands DEF BillingInv, FlagTell
  <2>2. call' \in [Callers -> Calls]
    BY <1>11, <2>1 DEF BillingInv, BillingTypeOK, Calls, FlagTell
  <2>3. \E to \in {"SUSPENDED", "ACTIVE"}, from \in SUBSET Remotes :
           PayPalMoves(call[w].sub, from, to)
    BY <1>11 DEF FlagTell, Remotes
  <2>4. /\ remote' \in [Rows -> Remotes]
        /\ events' \in [Rows -> SUBSET {"ACTIVATED", "STOPPED"}]
    BY <2>1, <2>3, MovesTyped DEF BillingInv, Remotes
  <2>5. lifted' \subseteq Rows
    BY <1>11, <2>1 DEF BillingInv, BillingTypeOK, FlagTell
  <2>6. QED
    BY <1>11, <2>2, <2>4, <2>5 DEF BillingInv, BillingTypeOK, rowVars, FlagTell
<1>12. ASSUME NEW w \in Callers, FlagRefused(w) PROVE BillingTypeOK'
  BY <1>12 DEF BillingInv, BillingTypeOK, Remotes, Calls, NoCall, rowVars, FlagRefused, Refused
<1>13. ASSUME NEW w \in Callers, FlagWrite(w) PROVE BillingTypeOK'
  <2>1. call' \in [Callers -> Calls]
    BY <1>13, BillingHands DEF BillingInv, BillingTypeOK, Calls, NoCall, FlagWrite
  <2>2. QED
    BY <1>13, <2>1, BillingHands DEF BillingInv, BillingTypeOK, Remotes, rowVars, FlagWrite
<1>14. ASSUME NEW w \in Callers, OffTell(w) PROVE BillingTypeOK'
  <2>1. call' \in [Callers -> Calls]
    BY <1>14, BillingHands DEF BillingInv, BillingTypeOK, Calls, NoCall, OffTell, PayPalMoves
  <2>2. QED
    BY <1>14, <2>1, BillingHands DEF BillingInv, BillingTypeOK, Remotes, rowVars, OffTell,
           PayPalMoves
<1>15. ASSUME NEW w \in Callers, OffWrite(w) PROVE BillingTypeOK'
  BY <1>15 DEF BillingInv, BillingTypeOK, Remotes, Calls, NoCall, rowVars, OffWrite
<1>16. ASSUME NEW w \in Callers, CallDies(w) PROVE BillingTypeOK'
  BY <1>16 DEF BillingInv, BillingTypeOK, Remotes, Calls, NoCall, rowVars, CallDies
<1>17. ASSUME NEW w \in Callers, NEW s \in Rows, PayRead(w, s) PROVE BillingTypeOK'
  BY <1>17 DEF BillingInv, BillingTypeOK, Remotes, Calls, NoCall, rowVars, PayRead
<1>18. ASSUME NEW w \in Callers, NEW s \in Rows, OffRead(w, s) PROVE BillingTypeOK'
  BY <1>18 DEF BillingInv, BillingTypeOK, Remotes, Calls, NoCall, rowVars, OffRead
<1>19. ASSUME NEW w \in Callers, NEW s \in Rows, NEW cancel \in BOOLEAN, FlagRead(w, s, cancel)
       PROVE  BillingTypeOK'
  BY <1>19 DEF BillingInv, BillingTypeOK, Remotes, Calls, NoCall, rowVars, FlagRead
<1>20. CASE UNCHANGED billingVars
  BY <1>20 DEF BillingInv, BillingTypeOK, Remotes, Calls, NoCall, billingVars, rowVars
<1>21. QED
  BY <1>1, <1>2, <1>3, <1>4, <1>5, <1>6, <1>7, <1>8, <1>9, <1>10,
     <1>11, <1>12, <1>13, <1>14, <1>15, <1>16, <1>17, <1>18, <1>19, <1>20 DEF BillingNext

\* No step takes a payment back, or cancels what is not paid.
LEMMA NextPaid == ASSUME BillingInv, [BillingNext]_billingVars PROVE PaidFirst'
<1>1. ASSUME NEW s \in Rows, Create(s) PROVE PaidFirst'
  BY <1>1 DEF BillingInv, BillingTypeOK, PaidFirst, Paid, NoCall, rowVars, Create
<1>2. ASSUME NEW s \in Rows, Approved(s) PROVE PaidFirst'
  BY <1>2 DEF BillingInv, BillingTypeOK, PaidFirst, Paid, NoCall, rowVars, Approved, PayPalMoves
<1>3. ASSUME NEW s \in Rows, PaidOtherwise(s) PROVE PaidFirst'
  <2>1. /\ \A t \in Rows : Paid(t) => Paid(t)'
        /\ UNCHANGED flag
        /\ \A t \in Rows : auto'[t] => auto[t] \/ Paid(t)'
    BY <1>3 DEF BillingInv, BillingTypeOK, Paid, rowVars, PaidOtherwise
  <2>2. \A v \in Callers : call'[v] = call[v] \/ call'[v].at \in {"idle", "paying"}
    BY <1>3 DEF BillingInv, BillingTypeOK, NoCall, PaidOtherwise
  <2>3. QED
    BY <2>1, <2>2, StaysPaid
<1>4. ASSUME NEW s \in Rows, PayPalStops(s) PROVE PaidFirst'
  BY <1>4 DEF BillingInv, BillingTypeOK, PaidFirst, Paid, NoCall, rowVars, PayPalStops,
         PayPalMoves
<1>5. ASSUME NEW s \in Rows, TermEnds(s) PROVE PaidFirst'
  <2>1. /\ \A t \in Rows : Paid(t) => Paid(t)'
        /\ UNCHANGED flag
        /\ \A t \in Rows : auto'[t] => auto[t] \/ Paid(t)'
    BY <1>5 DEF BillingInv, BillingTypeOK, Paid, rowVars, TermEnds
  <2>2. \A v \in Callers : call'[v] = call[v] \/ call'[v].at \in {"idle", "paying"}
    BY <1>5 DEF BillingInv, BillingTypeOK, NoCall, TermEnds
  <2>3. QED
    BY <2>1, <2>2, StaysPaid
<1>6. ASSUME NEW s \in Rows, Renew(s) PROVE PaidFirst'
  <2>1. /\ \A t \in Rows : Paid(t) => Paid(t)'
        /\ UNCHANGED flag
        /\ \A t \in Rows : auto'[t] => auto[t] \/ Paid(t)'
    BY <1>6 DEF BillingInv, BillingTypeOK, Paid, rowVars, Renew
  <2>2. \A v \in Callers : call'[v] = call[v] \/ call'[v].at \in {"idle", "paying"}
    BY <1>6 DEF BillingInv, BillingTypeOK, NoCall, Renew
  <2>3. QED
    BY <2>1, <2>2, StaysPaid
<1>7. ASSUME NEW s \in Rows, NEW e \in events[s], Webhook(s, e) PROVE PaidFirst'
  BY <1>7 DEF BillingInv, BillingTypeOK, PaidFirst, Paid, NoCall, rowVars, Webhook, Reactivated
<1>8. ASSUME NEW w \in Callers, PayAsk(w) PROVE PaidFirst'
  <2>1. /\ \A s \in Rows : Paid(s) => Paid(s)'
        /\ UNCHANGED flag
        /\ \A s \in Rows : auto'[s] => auto[s] \/ Paid(s)'
    BY <1>8 DEF BillingInv, BillingTypeOK, Paid, rowVars, PayAsk
  <2>2. \/ call' = [call EXCEPT ![w] = NoCall]
        \/ call' = [call EXCEPT ![w] = [at |-> "paying", sub |-> call[w].sub]]
    BY <1>8 DEF PayAsk
  <2>3. \A v \in Callers : call'[v] = call[v] \/ call'[v].at \in {"idle", "paying"}
    BY <2>2 DEF BillingInv, BillingTypeOK, NoCall
  <2>4. QED
    BY <2>1, <2>3, StaysPaid
<1>9. ASSUME NEW w \in Callers, MarkFirstPaid(w) PROVE PaidFirst'
  <2>1. /\ \A s \in Rows : Paid(s) => Paid(s)'
        /\ UNCHANGED flag
        /\ \A s \in Rows : auto'[s] => auto[s] \/ Paid(s)'
    BY <1>9 DEF BillingInv, BillingTypeOK, Paid, rowVars, MarkFirstPaid, FirstPaidStatus
  <2>2. \A v \in Callers : call'[v] = call[v] \/ call'[v].at \in {"idle", "paying"}
    BY <1>9 DEF BillingInv, BillingTypeOK, NoCall, MarkFirstPaid, FirstPaidStatus
  <2>3. QED
    BY <2>1, <2>2, StaysPaid
<1>10. ASSUME NEW w \in Callers, FlagAsk(w) PROVE PaidFirst'
  BY <1>10 DEF BillingInv, BillingTypeOK, PaidFirst, Paid, NoCall, rowVars, FlagAsk
<1>11. ASSUME NEW w \in Callers, FlagTell(w) PROVE PaidFirst'
  BY <1>11 DEF BillingInv, BillingTypeOK, PaidFirst, Paid, NoCall, rowVars, FlagTell,
         PayPalMoves
<1>12. ASSUME NEW w \in Callers, FlagRefused(w) PROVE PaidFirst'
  BY <1>12 DEF BillingInv, BillingTypeOK, PaidFirst, Paid, NoCall, rowVars, FlagRefused, Refused
<1>13. ASSUME NEW w \in Callers, FlagWrite(w) PROVE PaidFirst'
  BY <1>13 DEF BillingInv, BillingTypeOK, PaidFirst, Paid, NoCall, rowVars, FlagWrite
<1>14. ASSUME NEW w \in Callers, OffTell(w) PROVE PaidFirst'
  BY <1>14 DEF BillingInv, BillingTypeOK, PaidFirst, Paid, NoCall, rowVars, OffTell, PayPalMoves
<1>15. ASSUME NEW w \in Callers, OffWrite(w) PROVE PaidFirst'
  BY <1>15 DEF BillingInv, BillingTypeOK, PaidFirst, Paid, NoCall, rowVars, OffWrite
<1>16. ASSUME NEW w \in Callers, CallDies(w) PROVE PaidFirst'
  BY <1>16 DEF BillingInv, BillingTypeOK, PaidFirst, Paid, NoCall, rowVars, CallDies
<1>17. ASSUME NEW w \in Callers, NEW s \in Rows, PayRead(w, s) PROVE PaidFirst'
  BY <1>17 DEF BillingInv, BillingTypeOK, PaidFirst, Paid, NoCall, rowVars, PayRead
<1>18. ASSUME NEW w \in Callers, NEW s \in Rows, OffRead(w, s) PROVE PaidFirst'
  BY <1>18 DEF BillingInv, BillingTypeOK, PaidFirst, Paid, NoCall, rowVars, OffRead
<1>19. ASSUME NEW w \in Callers, NEW s \in Rows, NEW cancel \in BOOLEAN, FlagRead(w, s, cancel)
       PROVE  PaidFirst'
  BY <1>19 DEF BillingInv, BillingTypeOK, PaidFirst, Paid, NoCall, rowVars, FlagRead
<1>20. CASE UNCHANGED billingVars
  BY <1>20 DEF BillingInv, BillingTypeOK, PaidFirst, Paid, NoCall, billingVars, rowVars
<1>21. QED
  BY <1>1, <1>2, <1>3, <1>4, <1>5, <1>6, <1>7, <1>8, <1>9, <1>10,
     <1>11, <1>12, <1>13, <1>14, <1>15, <1>16, <1>17, <1>18, <1>19, <1>20 DEF BillingNext

\* Only a resume or a late approval charges what is to be cancelled.
LEMMA NextCharge == ASSUME BillingInv, [BillingNext]_billingVars PROVE AskedIsNotCharged'
<1>1. ASSUME NEW s \in Rows, Create(s) PROVE AskedIsNotCharged'
  BY <1>1 DEF BillingInv, BillingTypeOK, Remotes, AskedIsNotCharged, CancelAsked, NoCall,
         rowVars, Create
<1>2. ASSUME NEW s \in Rows, Approved(s) PROVE AskedIsNotCharged'
  BY <1>2 DEF BillingInv, BillingTypeOK, Remotes, AskedIsNotCharged, CancelAsked, NoCall,
         rowVars, Approved, PayPalMoves
<1>3. ASSUME NEW s \in Rows, PaidOtherwise(s) PROVE AskedIsNotCharged'
  BY <1>3 DEF BillingInv, BillingTypeOK, Remotes, AskedIsNotCharged, CancelAsked, NoCall,
         rowVars, PaidOtherwise
<1>4. ASSUME NEW s \in Rows, PayPalStops(s) PROVE AskedIsNotCharged'
  BY <1>4 DEF BillingInv, BillingTypeOK, Remotes, AskedIsNotCharged, CancelAsked, NoCall,
         rowVars, PayPalStops,
     PayPalMoves
<1>5. ASSUME NEW s \in Rows, TermEnds(s) PROVE AskedIsNotCharged'
  BY <1>5 DEF BillingInv, BillingTypeOK, Remotes, AskedIsNotCharged, CancelAsked, NoCall,
         rowVars, TermEnds
<1>6. ASSUME NEW s \in Rows, Renew(s) PROVE AskedIsNotCharged'
  BY <1>6 DEF BillingInv, BillingTypeOK, Remotes, AskedIsNotCharged, CancelAsked, NoCall,
         rowVars, Renew
<1>7. ASSUME NEW s \in Rows, NEW e \in events[s], Webhook(s, e) PROVE AskedIsNotCharged'
  BY <1>7 DEF BillingInv, BillingTypeOK, Remotes, AskedIsNotCharged, CancelAsked, NoCall,
         rowVars, Webhook, Reactivated
<1>8. ASSUME NEW w \in Callers, PayAsk(w) PROVE AskedIsNotCharged'
  <2>1. UNCHANGED <<flag, remote, lifted>>
    BY <1>8 DEF PayAsk, rowVars
  <2>2. \/ call' = [call EXCEPT ![w] = NoCall]
        \/ call' = [call EXCEPT ![w] = [at |-> "paying", sub |-> call[w].sub]]
    BY <1>8 DEF PayAsk
  <2>3. \A v \in Callers : call'[v] = call[v] \/ call'[v].at \in {"idle", "paying"}
    BY <2>2 DEF BillingInv, BillingTypeOK, NoCall
  <2>4. QED
    BY <2>1, <2>3 DEF BillingInv, AskedIsNotCharged, CancelAsked
<1>9. ASSUME NEW w \in Callers, MarkFirstPaid(w) PROVE AskedIsNotCharged'
  BY <1>9 DEF BillingInv, BillingTypeOK, Remotes, AskedIsNotCharged, CancelAsked, NoCall,
         rowVars, MarkFirstPaid,
     FirstPaidStatus
<1>10. ASSUME NEW w \in Callers, FlagAsk(w) PROVE AskedIsNotCharged'
  BY <1>10 DEF BillingInv, BillingTypeOK, Remotes, AskedIsNotCharged, CancelAsked, NoCall,
         rowVars, FlagAsk
<1>11. ASSUME NEW w \in Callers, FlagTell(w) PROVE AskedIsNotCharged'
  BY <1>11 DEF BillingInv, BillingTypeOK, Remotes, AskedIsNotCharged, CancelAsked, NoCall,
         rowVars, FlagTell,
     PayPalMoves
<1>12. ASSUME NEW w \in Callers, FlagRefused(w) PROVE AskedIsNotCharged'
  BY <1>12 DEF BillingInv, BillingTypeOK, Remotes, AskedIsNotCharged, CancelAsked, NoCall,
         rowVars, FlagRefused,
     Refused
<1>13. ASSUME NEW w \in Callers, FlagWrite(w) PROVE AskedIsNotCharged'
  BY <1>13 DEF BillingInv, BillingTypeOK, Remotes, AskedIsNotCharged, CancelAsked, NoCall,
         rowVars, FlagWrite
<1>14. ASSUME NEW w \in Callers, OffTell(w) PROVE AskedIsNotCharged'
  BY <1>14 DEF BillingInv, BillingTypeOK, Remotes, AskedIsNotCharged, CancelAsked, NoCall,
         rowVars, OffTell,
     PayPalMoves
<1>15. ASSUME NEW w \in Callers, OffWrite(w) PROVE AskedIsNotCharged'
  BY <1>15 DEF BillingInv, BillingTypeOK, Remotes, AskedIsNotCharged, CancelAsked, NoCall,
         rowVars, OffWrite
<1>16. ASSUME NEW w \in Callers, CallDies(w) PROVE AskedIsNotCharged'
  BY <1>16 DEF BillingInv, BillingTypeOK, Remotes, AskedIsNotCharged, CancelAsked, NoCall,
         rowVars, CallDies
<1>17. ASSUME NEW w \in Callers, NEW s \in Rows, PayRead(w, s) PROVE AskedIsNotCharged'
  BY <1>17 DEF BillingInv, BillingTypeOK, Remotes, AskedIsNotCharged, CancelAsked, NoCall,
         rowVars, PayRead
<1>18. ASSUME NEW w \in Callers, NEW s \in Rows, OffRead(w, s) PROVE AskedIsNotCharged'
  BY <1>18 DEF BillingInv, BillingTypeOK, Remotes, AskedIsNotCharged, CancelAsked, NoCall,
         rowVars, OffRead
<1>19. ASSUME NEW w \in Callers, NEW s \in Rows, NEW cancel \in BOOLEAN, FlagRead(w, s, cancel)
       PROVE  AskedIsNotCharged'
  BY <1>19 DEF BillingInv, BillingTypeOK, Remotes, AskedIsNotCharged, CancelAsked, NoCall,
         rowVars, FlagRead
<1>20. CASE UNCHANGED billingVars
  BY <1>20 DEF BillingInv, BillingTypeOK, Remotes, AskedIsNotCharged, CancelAsked, NoCall,
         billingVars, rowVars
<1>21. QED
  BY <1>1, <1>2, <1>3, <1>4, <1>5, <1>6, <1>7, <1>8, <1>9, <1>10,
     <1>11, <1>12, <1>13, <1>14, <1>15, <1>16, <1>17, <1>18, <1>19, <1>20 DEF BillingNext

\* The invariant holds in every reachable state.
THEOREM BillingInvariance == BillingSpec => []BillingInv
<1>1. BillingInv /\ [BillingNext]_billingVars => BillingInv'
  BY BillingTypes, NextPaid, NextCharge DEF BillingInv
<1>2. QED
  BY <1>1, BillingInvHolds, PTL DEF BillingSpec

\* Every variable keeps its type.
THEOREM BillingTyped == BillingSpec => []BillingTypeOK
BY BillingInvariance, PTL DEF BillingInv

\* PayPal charges a row marked as cancelled only if the customer had billing
\* switched on again, whatever calls and events of PayPal meet.
THEOREM CancelledStaysUncharged == BillingSpec => []CancelledIsNotCharged
<1>1. BillingInv => CancelledIsNotCharged
  BY DEF BillingInv, AskedIsNotCharged, CancelAsked, CancelledIsNotCharged
<1>2. QED
  BY <1>1, BillingInvariance, PTL

\* No row says it renews by itself before its first term is paid.
THEOREM PaidBeforeRenewing == BillingSpec => []RenewsOnlyPaid
<1>1. BillingInv => RenewsOnlyPaid
  BY DEF BillingInv, PaidFirst, RenewsOnlyPaid
<1>2. QED
  BY <1>1, BillingInvariance, PTL
=============================================================================
