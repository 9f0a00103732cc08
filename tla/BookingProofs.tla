--------------------------- MODULE BookingProofs ---------------------------
(* Proofs about Booking: no seat is sold twice, a slot is never over its       *)
(* capacity, a booking confirmed in time is kept, the waitlist is first come   *)
(* first served, and the table implements a register of seats; and about       *)
(* CalendarSync, however many syncs run beside each other: where no event      *)
(* shows two visits, what says "synced" is in the calendar, and no calendar    *)
(* shows a visit twice.                                                        *)
EXTENDS Booking, CalendarSync, Functions, FiniteSetTheorems, TLAPS

\* Every variable keeps its type.
LEMMA TypeStep == IInv /\ [Next]_vars => TypeOK'
<1> SUFFICES ASSUME IInv, [Next]_vars PROVE TypeOK'
  OBVIOUS
<1> USE BookingAssumption
    DEF IInv, TypeOK, ActiveStatus, request, rows, waitlist, worker
<1>1. CASE Tick
  BY <1>1 DEF Tick
<1>2. ASSUME NEW r \in Requests, AskHold(r) PROVE TypeOK'
  BY <1>2 DEF AskHold
<1>3. ASSUME NEW r \in Requests, FreeExpired(r) PROVE TypeOK'
  BY <1>3 DEF FreeExpired
<1>4. ASSUME NEW r \in Requests, ClaimSeat(r) PROVE TypeOK'
  BY <1>4 DEF ClaimSeat, ClaimOneOf
<1>5. ASSUME NEW b \in Requests, Confirm(b) PROVE TypeOK'
  BY <1>5 DEF Confirm
<1>6. ASSUME NEW w \in Waiters, JoinWaitlist(w) PROVE TypeOK'
  <2>1. Cardinality({v \in Waiters : waitStatus[v] # "none"}) \in Nat
    BY FS_Subset, FS_CardinalityType
  <2> QED
    BY <1>6, <2>1 DEF JoinWaitlist
<1>7. ASSUME NEW a \in Workers, StartSweep(a) PROVE TypeOK'
  BY <1>7 DEF StartSweep, SweepRows
<1>8. ASSUME NEW a \in Workers, ReleaseExpired(a) PROVE TypeOK'
  BY <1>8 DEF ReleaseExpired, ReleaseAs, SetStatus
<1>9. ASSUME NEW a \in Workers, EndSweep(a) PROVE TypeOK'
  BY <1>9 DEF EndSweep
<1>10. ASSUME NEW a \in Workers, ReadWaitlist(a) PROVE TypeOK'
  BY <1>10 DEF ReadWaitlist, ReadFrom, AfterPromotion, Waiting
<1>11. ASSUME NEW a \in Workers, Promote(a) PROVE TypeOK'
  BY <1>11 DEF Promote, AfterPromotion, WaitlistInv, Joined
<1>12. ASSUME NEW a \in Workers, CutShort(a) PROVE TypeOK'
  BY <1>12 DEF CutShort
<1>13. ASSUME NEW a \in Workers, NEW b \in Requests, Cancel(a, b) PROVE TypeOK'
  BY <1>13 DEF Cancel, SetStatus
<1>14. CASE UNCHANGED vars
  BY <1>14 DEF vars
<1> QED
  BY <1>1, <1>2, <1>3, <1>4, <1>5, <1>6, <1>7, <1>8, <1>9, <1>10, <1>11, <1>12, <1>13, <1>14
     DEF Next, WorkerStep

\* What a step may do to the rows: claim a free seat, confirm a hold, or take
\* rows out of the active set; it never moves a row to another seat.
LEMMA RowsStep ==
    IInv /\ [Next]_vars =>
        \/ UNCHANGED rows
        \/ \E r \in Requests : ClaimSeat(r) /\ asked'[r] = "held"
        \/ \E b \in Requests : Confirm(b)
        \/ UNCHANGED <<seat, expiresAt>> /\ \A b \in Requests :
              status'[b] = status[b] \/ (status[b] # "none" /\ status'[b] \in {"cancelled", "released"})
<1> SUFFICES ASSUME IInv, [Next]_vars
             PROVE  \/ UNCHANGED rows
                    \/ \E r \in Requests : ClaimSeat(r) /\ asked'[r] = "held"
                    \/ \E b \in Requests : Confirm(b)
                    \/ UNCHANGED <<seat, expiresAt>> /\ \A b \in Requests :
                          status'[b] = status[b]
                          \/ (status[b] # "none" /\ status'[b] \in {"cancelled", "released"})
  OBVIOUS
<1> USE BookingAssumption DEF rows
<1>t. TypeOK
  BY DEF IInv
<1>1. ASSUME NEW r \in Requests, FreeExpired(r)
      PROVE  UNCHANGED <<seat, expiresAt>> /\ \A b \in Requests :
                status'[b] = status[b] \/ (status[b] # "none" /\ status'[b] \in {"cancelled", "released"})
  BY <1>1 DEF FreeExpired, HasExpired
<1>2. ASSUME NEW r \in Requests, ClaimSeat(r)
      PROVE  UNCHANGED rows \/ (ClaimSeat(r) /\ asked'[r] = "held")
  BY <1>2, <1>t DEF ClaimSeat, ClaimOneOf, TypeOK
<1>3. ASSUME NEW a \in Workers, ReleaseExpired(a)
      PROVE  UNCHANGED <<seat, expiresAt>> /\ \A b \in Requests :
                status'[b] = status[b] \/ (status[b] # "none" /\ status'[b] \in {"cancelled", "released"})
  BY <1>3, <1>t DEF ReleaseExpired, ReleaseAs, SetStatus, IInv, SweepInv, TypeOK
<1>4. ASSUME NEW a \in Workers, NEW c \in Requests, Cancel(a, c)
      PROVE  UNCHANGED <<seat, expiresAt>> /\ \A b \in Requests :
                status'[b] = status[b] \/ (status[b] # "none" /\ status'[b] \in {"cancelled", "released"})
  BY <1>4, <1>t DEF Cancel, SetStatus, TypeOK
<1> QED
  BY <1>1, <1>2, <1>3, <1>4
     DEF Next, WorkerStep, Tick, AskHold, JoinWaitlist, StartSweep, SweepRows, EndSweep,
         ReadWaitlist, ReadFrom, Promote, CutShort, vars, request

\* A claimed seat was free and is one of the slot's seats; the row is new.
LEMMA ClaimFacts ==
    ASSUME IInv, NEW r \in Requests, ClaimSeat(r), asked'[r] = "held"
    PROVE  /\ asked[r] = "claiming" /\ status[r] = "none"
           /\ trying[r] \in 1 .. Capacity[SlotOf[r]]
           /\ SeatFree(SlotOf[r], trying[r])
           /\ status' = [status EXCEPT ![r] = "held"]
           /\ seat' = [seat EXCEPT ![r] = trying[r]]
           /\ Active' = Active \cup {r}
           /\ UNCHANGED <<now, timely, expired>>
<1>1. asked[r] = "claiming" /\ status[r] = "none"
  BY DEF ClaimSeat, ClaimOneOf, IInv, RowsInv
<1>2. /\ trying[r] \in 1 .. Capacity[SlotOf[r]]
      /\ SeatFree(SlotOf[r], trying[r])
      /\ status' = [status EXCEPT ![r] = "held"]
      /\ seat' = [seat EXCEPT ![r] = trying[r]]
  BY <1>1, BookingAssumption DEF ClaimSeat, ClaimOneOf, IInv, TypeOK, SeatNumbers
<1>3. Active' = Active \cup {r}
  BY <1>2 DEF Active, ActiveStatus, IInv, TypeOK
<1> QED
  BY <1>1, <1>2, <1>3 DEF ClaimSeat, ClaimOneOf, worker

\* A row is confirmed without moving.
LEMMA ConfirmFacts ==
    ASSUME IInv, NEW b \in Requests, Confirm(b)
    PROVE  Active' = Active /\ seat' = seat /\ b \in Active
BY DEF Confirm, Active, ActiveStatus, IInv, TypeOK

\* Neither a claim, nor a confirmation, nor a release puts two rows on a seat.
LEMMA NoDoubleStep == IInv /\ [Next]_vars => NoDoubleBooking'
<1> SUFFICES ASSUME IInv, [Next]_vars PROVE NoDoubleBooking'
  OBVIOUS
<1>1. CASE UNCHANGED rows
  BY <1>1 DEF IInv, NoDoubleBooking, Active, rows
<1>2. ASSUME NEW r \in Requests, ClaimSeat(r), asked'[r] = "held" PROVE NoDoubleBooking'
  BY <1>2, ClaimFacts DEF IInv, NoDoubleBooking, SeatFree, TypeOK, Active
<1>3. ASSUME NEW b \in Requests, Confirm(b) PROVE NoDoubleBooking'
  BY <1>3, ConfirmFacts DEF IInv, NoDoubleBooking
<1>4. CASE UNCHANGED <<seat, expiresAt>> /\ \A b \in Requests :
              status'[b] = status[b] \/ (status[b] # "none" /\ status'[b] \in {"cancelled", "released"})
  <2>1. Active' \subseteq Active
    BY <1>4 DEF Active, ActiveStatus
  <2> QED
    BY <1>4, <2>1 DEF IInv, NoDoubleBooking
<1> QED
  BY <1>1, <1>2, <1>3, <1>4, RowsStep

\* Rows come from requests only, and an active row keeps its seat.
LEMMA RowsInvStep == IInv /\ [Next]_vars => RowsInv'
<1> SUFFICES ASSUME IInv, [Next]_vars PROVE RowsInv'
  OBVIOUS
<1> USE BookingAssumption DEF rows, request
<1>t. TypeOK /\ RowsInv
  BY DEF IInv
<1>1. \A r \in Requests : asked'[r] = "held" \/ asked[r] # "held"
  BY <1>t DEF Next, WorkerStep, Tick, AskHold, FreeExpired, ClaimSeat, ClaimOneOf, Confirm,
     JoinWaitlist, StartSweep, SweepRows, ReleaseExpired, ReleaseAs, SetStatus, EndSweep,
     ReadWaitlist, ReadFrom, Promote, CutShort, Cancel, vars, TypeOK
<1>2. \A r \in Requests : asked'[r] # "held" => status'[r] = "none"
  <2>1. ASSUME NEW c \in Requests, ClaimSeat(c), asked'[c] = "held", NEW r \in Requests,
               asked'[r] # "held"
        PROVE  status'[r] = "none"
    BY <2>1, <1>1, <1>t, ClaimFacts DEF RowsInv, TypeOK
  <2>2. ASSUME NEW b \in Requests, Confirm(b), NEW r \in Requests, asked'[r] # "held"
        PROVE  status'[r] = "none"
    BY <2>2, <1>1, <1>t DEF RowsInv, Confirm, TypeOK
  <2> QED
    BY <1>1, <1>t, <2>1, <2>2, RowsStep DEF RowsInv
<1>3. \A b \in Active' : seat'[b] \in 1 .. Capacity[SlotOf[b]]
  <2>1. ASSUME NEW c \in Requests, ClaimSeat(c), asked'[c] = "held", NEW b \in Active'
        PROVE  seat'[b] \in 1 .. Capacity[SlotOf[b]]
    BY <2>1, <1>t, ClaimFacts DEF RowsInv, TypeOK, Active
  <2>2. ASSUME NEW c \in Requests, Confirm(c), NEW b \in Active'
        PROVE  seat'[b] \in 1 .. Capacity[SlotOf[b]]
    BY <2>2, <1>t, ConfirmFacts DEF RowsInv
  <2>3. ASSUME UNCHANGED <<seat, expiresAt>>,
               \A b \in Requests : status'[b] = status[b]
                   \/ (status[b] # "none" /\ status'[b] \in {"cancelled", "released"}),
               NEW b \in Active'
        PROVE  seat'[b] \in 1 .. Capacity[SlotOf[b]]
    BY <2>3, <1>t DEF RowsInv, Active, ActiveStatus
  <2> QED
    BY <2>1, <2>2, <2>3, <1>t, RowsStep DEF RowsInv, Active
<1> QED
  BY <1>2, <1>3 DEF RowsInv

\* A row confirmed in time is in no sweep's snapshot, and what is in one had run
\* out: a hold is only ever created from no row, so it cannot come back to life.
LEMMA SweepInvStep == IInv /\ [Next]_vars => SweepInv'
<1> SUFFICES ASSUME IInv, [Next]_vars PROVE SweepInv'
  OBVIOUS
<1> USE BookingAssumption DEF rows, worker
<1>t. TypeOK /\ TypeOK' /\ RowsInv /\ SweepInv
  BY TypeStep DEF IInv
<1>1. CASE Tick
  BY <1>1, <1>t DEF Tick, SweepInv, TypeOK
<1>2. ASSUME NEW r \in Requests, FreeExpired(r) PROVE SweepInv'
  BY <1>2, <1>t DEF FreeExpired, SweepInv, HasExpired, TypeOK
<1>3. ASSUME NEW r \in Requests, ClaimSeat(r) PROVE SweepInv'
  <2>1. CASE asked'[r] = "held"
    <3>1. /\ status[r] = "none" /\ r \notin timely /\ \A a \in Workers : r \notin expired[a]
          /\ status' = [status EXCEPT ![r] = "held"]
          /\ UNCHANGED <<now, timely, expired>>
      BY <1>3, <2>1, <1>t, ClaimFacts DEF SweepInv
    <3>2. \A b \in Requests \ {r} : expiresAt'[b] = expiresAt[b] /\ status'[b] = status[b]
      BY <1>3, <1>t DEF ClaimSeat, ClaimOneOf, TypeOK
    <3> QED
      BY <3>1, <3>2, <1>t DEF SweepInv, TypeOK
  <2>2. CASE asked'[r] # "held"
    <3>1. UNCHANGED <<now, status, expiresAt, timely, expired>>
      BY <1>3, <2>2, <1>t DEF ClaimSeat, ClaimOneOf, TypeOK
    <3> QED
      BY <3>1, <1>t DEF SweepInv
  <2> QED
    BY <2>1, <2>2
<1>4. ASSUME NEW b \in Requests, Confirm(b) PROVE SweepInv'
  BY <1>4, <1>t DEF Confirm, SweepInv, TypeOK
<1>5. ASSUME NEW a \in Workers, StartSweep(a) PROVE SweepInv'
  BY <1>5, <1>t DEF StartSweep, SweepRows, SweepInv, HasExpired, TypeOK
<1>6. ASSUME NEW a \in Workers, ReleaseExpired(a) PROVE SweepInv'
  <2>1. PICK b \in expired[a] : /\ status' = [status EXCEPT ![b] = "released"]
                                /\ expired' = [expired EXCEPT ![a] = @ \ {b}]
                                /\ UNCHANGED <<now, expiresAt, timely>>
    BY <1>6 DEF ReleaseExpired, ReleaseAs, SetStatus
  <2>2. b \in Requests /\ b \notin timely
    BY <1>6, <2>1, <1>t DEF SweepInv, TypeOK
  <2> QED
    BY <1>6, <2>1, <2>2, <1>t DEF SweepInv, TypeOK
<1>7. ASSUME NEW a \in Workers, NEW b \in Requests, Cancel(a, b) PROVE SweepInv'
  BY <1>7, <1>t DEF Cancel, SetStatus, SweepInv, TypeOK
<1>8. ASSUME NEW a \in Workers, CutShort(a) PROVE SweepInv'
  BY <1>8, <1>t DEF CutShort, SweepInv, TypeOK
<1>9. ASSUME UNCHANGED <<now, status, expiresAt, timely, expired>> PROVE SweepInv'
  BY <1>9, <1>t DEF SweepInv
<1> QED
  BY <1>1, <1>2, <1>3, <1>4, <1>5, <1>6, <1>7, <1>8, <1>9
     DEF Next, WorkerStep, AskHold, JoinWaitlist, EndSweep, ReadWaitlist, ReadFrom, Promote, vars

\* An entry is first in line when findFirst returns it, and stays so: nobody can
\* come in before it, and a promotion only helps.
LEMMA WaitlistStep == IInv /\ [Next]_vars => (WaitlistFIFO /\ WaitlistInv)'
<1> SUFFICES ASSUME IInv, [Next]_vars PROVE (WaitlistFIFO /\ WaitlistInv)'
  OBVIOUS
<1> USE BookingAssumption DEF waitlist, worker
<1>t. TypeOK /\ TypeOK' /\ WaitlistFIFO /\ WaitlistInv
  BY TypeStep DEF IInv
<1>f. IsFiniteSet(Joined) /\ Cardinality(Joined) \in Nat
  BY FS_Subset, FS_CardinalityType DEF Joined
<1>1. ASSUME NEW w \in Waiters, JoinWaitlist(w) PROVE (WaitlistFIFO /\ WaitlistInv)'
  <2>1. /\ Joined' = Joined \cup {w} /\ w \notin Joined
        /\ waitStatus' = [waitStatus EXCEPT ![w] = "waiting"]
        /\ joinedAt' = [joinedAt EXCEPT ![w] = Cardinality(Joined) + 1]
        /\ UNCHANGED <<doing, next>>
    BY <1>1, <1>t DEF JoinWaitlist, Joined, TypeOK
  <2>2. Cardinality(Joined') = Cardinality(Joined) + 1
    BY <2>1, <1>f, FS_AddElement
  <2>3. \A v \in Joined : joinedAt'[v] < joinedAt'[w] /\ joinedAt'[v] = joinedAt[v]
    BY <2>1, <1>f, <1>t DEF WaitlistInv, TypeOK, Joined
  <2>4. \A v \in Joined' : joinedAt'[v] <= Cardinality(Joined')
    <3>1. joinedAt'[w] = Cardinality(Joined) + 1
      BY <2>1, <1>t DEF TypeOK
    <3>2. \A v \in Joined : joinedAt[v] \in Nat /\ joinedAt[v] <= Cardinality(Joined)
      BY <1>t DEF TypeOK, WaitlistInv, Joined
    <3> QED
      BY <3>1, <3>2, <2>1, <2>2, <2>3, <1>f
  <2>5. ASSUME NEW x \in Joined, FirstInLine(x) PROVE FirstInLine(x)'
    <3>1. \A v \in Joined' : joinedAt'[v] < joinedAt'[x] => v \in Joined /\ v # w
      BY <2>1, <2>3, <2>5, <1>t DEF TypeOK, Joined
    <3> QED
      BY <3>1, <2>1, <2>3, <2>5, <1>t DEF FirstInLine, TypeOK, Joined
  <2>6. WaitlistInv'
    BY <2>1, <2>4, <2>5, <1>t DEF WaitlistInv
  <2>7. ASSUME NEW u \in Waiters, waitStatus'[u] = "promoted" PROVE u \in Joined /\ FirstInLine(u)'
    <3>1. u \in Joined /\ waitStatus[u] = "promoted"
      BY <2>1, <2>7, <1>t DEF Joined, TypeOK
    <3>2. FirstInLine(u)
      BY <3>1, <1>t DEF WaitlistFIFO, FirstInLine, Joined
    <3> QED
      BY <3>1, <3>2, <2>5
  <2>8. WaitlistFIFO'
    BY <2>7 DEF WaitlistFIFO, FirstInLine, Joined
  <2> QED
    BY <2>6, <2>8
<1>2. ASSUME NEW a \in Workers, Promote(a) PROVE (WaitlistFIFO /\ WaitlistInv)'
  <2>1. next[a] \in Joined /\ FirstInLine(next[a]) /\ next[a] \in Waiters
    BY <1>2, <1>t DEF Promote, WaitlistInv, Joined
  <2>2. /\ waitStatus' = [waitStatus EXCEPT ![next[a]] = "promoted"]
        /\ joinedAt' = joinedAt
        /\ \A x \in Workers : doing'[x] = "promoting" => doing[x] = "promoting" /\ next'[x] = next[x]
    BY <1>2, <1>t DEF Promote, AfterPromotion, TypeOK
  <2>3. Joined' = Joined
    BY <2>1, <2>2, <1>t DEF Joined, TypeOK
  <2>4. \A x : FirstInLine(x) => FirstInLine(x)'
    BY <2>1, <2>2, <2>3, <1>t DEF FirstInLine, TypeOK
  <2>5. \A u \in Waiters : waitStatus'[u] = "promoted" => FirstInLine(u)
    BY <2>1, <2>2, <1>t DEF WaitlistFIFO, FirstInLine, Joined, TypeOK
  <2>6. WaitlistFIFO'
    BY <2>4, <2>5 DEF WaitlistFIFO, FirstInLine, Joined
  <2> QED
    BY <2>2, <2>3, <2>4, <2>6, <1>t DEF WaitlistInv
<1>3. ASSUME NEW a \in Workers, ReadWaitlist(a) PROVE (WaitlistFIFO /\ WaitlistInv)'
  <2>1. UNCHANGED <<waitStatus, joinedAt>>
    BY <1>3 DEF ReadWaitlist, ReadFrom
  <2>2. ASSUME NEW w \in Waiting(freed[a]), \A v \in Waiting(freed[a]) : joinedAt[w] <= joinedAt[v]
        PROVE  w \in Joined /\ FirstInLine(w)
    BY <2>2, <1>t DEF Waiting, Joined, FirstInLine, TypeOK
  <2>3. \A x \in Workers : doing'[x] = "promoting" => next'[x] \in Joined /\ FirstInLine(next'[x])
    BY <1>3, <2>2, <1>t DEF ReadWaitlist, ReadFrom, AfterPromotion, WaitlistInv, TypeOK
  <2> QED
    BY <2>1, <2>3, <1>t DEF WaitlistFIFO, WaitlistInv, Joined, FirstInLine
<1>4. ASSUME UNCHANGED <<waitStatus, joinedAt>>,
             \A x \in Workers : doing'[x] = "promoting" => doing[x] = "promoting" /\ next'[x] = next[x]
      PROVE  (WaitlistFIFO /\ WaitlistInv)'
  BY <1>4, <1>t DEF WaitlistFIFO, WaitlistInv, Joined, FirstInLine
<1>5. ASSUME NEW a \in Workers, \/ StartSweep(a) \/ ReleaseExpired(a) \/ EndSweep(a) \/ CutShort(a)
                                \/ \E b \in Requests : Cancel(a, b)
      PROVE  (WaitlistFIFO /\ WaitlistInv)'
  BY <1>5, <1>4, <1>t DEF StartSweep, SweepRows, ReleaseExpired, ReleaseAs, SetStatus, EndSweep,
     CutShort, Cancel, TypeOK
<1> QED
  BY <1>1, <1>2, <1>3, <1>4, <1>5
     DEF Next, WorkerStep, Tick, AskHold, FreeExpired, ClaimSeat, ClaimOneOf, Confirm, vars

\* IInv holds initially and every step keeps it.
THEOREM Invariance == Spec => []IInv
<1>1. Init => IInv
  <2> SUFFICES ASSUME Init PROVE IInv
    OBVIOUS
  <2>1. TypeOK /\ NoDoubleBooking /\ RowsInv /\ SweepInv /\ WaitlistFIFO
    BY BookingAssumption DEF Init, TypeOK, ActiveStatus, NoDoubleBooking, RowsInv, SweepInv,
       WaitlistFIFO, Active
  <2>2. WaitlistInv
    BY DEF Init, WaitlistInv, Joined
  <2> QED
    BY <2>1, <2>2 DEF IInv
<1>2. IInv /\ [Next]_vars => IInv'
  BY TypeStep, NoDoubleStep, RowsInvStep, SweepInvStep, WaitlistStep DEF IInv
<1> QED
  BY <1>1, <1>2, PTL DEF Spec

\* Type correctness, for any number of requests, slots and workers.
THEOREM TypeCorrect == Spec => []TypeOK
BY Invariance, PTL DEF IInv

\* No seat of a slot is ever held or confirmed twice.
THEOREM SeatsAreExclusive == Spec => []NoDoubleBooking
BY Invariance, PTL DEF IInv

\* The waitlist of a slot is served in order of arrival.
THEOREM FirstComeFirstServed == Spec => []WaitlistFIFO
BY Invariance, PTL DEF IInv

\* Exclusive seats, each one of the slot's, bound the bookings of a slot: the
\* seat numbers inject the active bookings into 1 .. Capacity[s].
LEMMA SeatsBound == IInv => WithinCapacity
<1> SUFFICES ASSUME IInv, NEW s \in Slots
             PROVE  Cardinality({b \in Active : SlotOf[b] = s}) <= Capacity[s]
  BY DEF WithinCapacity
<1> DEFINE Sold == {b \in Active : SlotOf[b] = s}
           f == [b \in Sold |-> seat[b]]
<1>1. Capacity[s] \in Nat
  BY BookingAssumption DEF SeatNumbers
<1>2. f \in Injection(Sold, 1 .. Capacity[s])
  <2>1. \A b \in Sold : seat[b] \in 1 .. Capacity[s]
    BY DEF IInv, RowsInv
  <2>2. \A b, c \in Sold : seat[b] = seat[c] => b = c
    BY DEF IInv, NoDoubleBooking
  <2>3. f \in [Sold -> 1 .. Capacity[s]] /\ \A b, c \in Sold : f[b] = f[c] => b = c
    BY <2>1, <2>2
  <2> HIDE DEF f, Sold
  <2> QED
    BY <2>3 DEF Injection, IsInjective
<1>3. IsFiniteSet(1 .. Capacity[s]) /\ Cardinality(1 .. Capacity[s]) = Capacity[s]
  BY <1>1, FS_Interval
<1> HIDE DEF Sold, f
<1>4. Cardinality(Sold) <= Capacity[s]
  BY <1>2, <1>3, FS_Injection
<1> QED
  BY <1>4 DEF Sold

\* A slot is never sold to more customers than it has seats.
THEOREM NeverOversold == Spec => []WithinCapacity
BY Invariance, SeatsBound, PTL

\* A booking confirmed before its hold ran out is only ever cancelled: the sweep's
\* unconditional update never names it.
THEOREM TimelyIsKept == Spec => TimelyConfirmKept
<1> DEFINE Kept == \A b \in timely :
                      status[b] = "confirmed" => status'[b] \in {"confirmed", "cancelled"}
<1>1. IInv /\ [Next]_vars => Kept
  <2> SUFFICES ASSUME IInv, [Next]_vars, NEW b \in timely, status[b] = "confirmed"
               PROVE  status'[b] \in {"confirmed", "cancelled"}
    OBVIOUS
  <2> USE BookingAssumption DEF rows
  <2>t. TypeOK /\ b \in Requests /\ \A a \in Workers : b \notin expired[a]
    BY DEF IInv, SweepInv, TypeOK
  <2>1. ASSUME NEW r \in Requests, FreeExpired(r) PROVE status'[b] = "confirmed"
    BY <2>1, <2>t DEF FreeExpired, HasExpired
  <2>2. ASSUME NEW r \in Requests, ClaimSeat(r) PROVE status'[b] = "confirmed"
    <3>1. CASE asked'[r] = "held"
      <4>1. status[r] = "none" /\ status' = [status EXCEPT ![r] = "held"]
        BY <2>2, <3>1, ClaimFacts
      <4> QED
        BY <4>1, <2>t DEF TypeOK
    <3> QED
      BY <2>2, <3>1, <2>t DEF ClaimSeat, ClaimOneOf, TypeOK
  <2>3. ASSUME NEW r \in Requests, Confirm(r) PROVE status'[b] = "confirmed"
    BY <2>3, <2>t DEF Confirm, TypeOK
  <2>4. ASSUME NEW a \in Workers, ReleaseExpired(a) PROVE status'[b] = "confirmed"
    BY <2>4, <2>t DEF ReleaseExpired, ReleaseAs, SetStatus, TypeOK
  <2>5. ASSUME NEW a \in Workers, NEW c \in Requests, Cancel(a, c)
        PROVE  status'[b] \in {"confirmed", "cancelled"}
    BY <2>5, <2>t DEF Cancel, SetStatus, TypeOK
  <2> QED
    BY <2>1, <2>2, <2>3, <2>4, <2>5
       DEF Next, WorkerStep, Tick, AskHold, JoinWaitlist, StartSweep, SweepRows, EndSweep,
           ReadWaitlist, ReadFrom, Promote, CutShort, vars
<1>2. IInv /\ [Next]_vars => [Kept]_vars
  BY <1>1
<1> QED
  BY <1>2, Invariance, PTL DEF Spec, TimelyConfirmKept

\* The table with its index implements the register of seats: a hold claims a
\* free seat, cancellations and releases free seats, everything else stutters.
THEOREM ImplementsSeats == Spec => SeatsSpec
<1> DEFINE claims == {<<SlotOf[b], seat[b], b>> : b \in Active}
<1>1. Init => Claims!Init
  BY DEF Init, Claims!Init, Active, ActiveStatus
<1>2. IInv /\ [Next]_vars => [Claims!Next]_claims
  <2> SUFFICES ASSUME IInv, [Next]_vars PROVE [Claims!Next]_claims
    OBVIOUS
  <2> USE BookingAssumption
  <2>1. CASE UNCHANGED rows
    BY <2>1 DEF rows, Active
  <2>2. ASSUME NEW r \in Requests, ClaimSeat(r), asked'[r] = "held"
        PROVE  [Claims!Next]_claims
    <3>1. /\ SeatFree(SlotOf[r], trying[r]) /\ trying[r] \in SeatNumbers
          /\ Active' = Active \cup {r} /\ r \notin Active
          /\ seat'[r] = trying[r] /\ \A b \in Active : seat'[b] = seat[b]
      BY <2>2, ClaimFacts DEF IInv, TypeOK, SeatNumbers, Active, ActiveStatus
    <3>2. claims' = claims \cup {<<SlotOf[r], trying[r], r>>}
      BY <3>1
    <3>3. \A k \in Requests : <<SlotOf[r], trying[r], k>> \notin claims
      BY <3>1 DEF SeatFree
    <3>4. Claims!Claim(SlotOf[r], trying[r], r)
      BY <3>2, <3>3 DEF Claims!Claim
    <3> QED
      BY <3>1, <3>4 DEF Claims!Next
  <2>3. ASSUME NEW b \in Requests, Confirm(b) PROVE UNCHANGED claims
    BY <2>3, ConfirmFacts
  <2>4. CASE UNCHANGED <<seat, expiresAt>> /\ \A b \in Requests :
              status'[b] = status[b]
              \/ (status[b] # "none" /\ status'[b] \in {"cancelled", "released"})
    <3> DEFINE F == {<<SlotOf[b], seat[b], b>> : b \in Active \ Active'}
    <3>1. Active' \subseteq Active
      BY <2>4 DEF Active, ActiveStatus
    <3>c. claims' = {<<SlotOf[b], seat[b], b>> : b \in Active'}
      BY <2>4
    <3>d. \A b, c : <<SlotOf[b], seat[b], b>> = <<SlotOf[c], seat[c], c>> => b = c
      OBVIOUS
    <3>2. claims' = claims \ F /\ F \in SUBSET claims
      <4>1. \A x \in claims' : x \in claims \ F
        BY <3>1, <3>c, <3>d
      <4>2. \A x \in claims \ F : x \in claims'
        BY <3>1, <3>c
      <4> QED
        BY <4>1, <4>2
    <3> HIDE DEF F
    <3>3. \E G \in SUBSET claims : claims' = claims \ G
      BY <3>2
    <3> QED
      BY <3>3 DEF Claims!Next, Claims!Free
  <2> QED
    BY <2>1, <2>2, <2>3, <2>4, RowsStep
<1> QED
  BY <1>1, <1>2, Invariance, PTL DEF Spec, SeatsSpec, Claims!Spec
-----------------------------------------------------------------------------
\* The kinds of job.
SyncJobs == [at: {"resolving"}, visit: Visits, seen: Known]
WritingJobs ==
    [at: Writing, visit: Visits, seen: Known, to: Calendars, event: Events \cup {Blank}]
EndingJobs == [at: {"failing", "removed"}, visit: Visits]
RemovalJobs == [at: {"cancelling", "removing"}, visit: Visits, event: Events \cup {Blank}]
ReconcileJobs ==
    [at: {"reconciling"}, todo: SUBSET (Events \X Visits \X Calendars),
     kept: SUBSET (Visits \X Calendars)]
RestoreJobs ==
    [at: {"restoring"}, todo: SUBSET Visits, seen: [Visits -> Known \cup {Blank}]]

\* What a job holds is told by where it stands.
LEMMA JobKinds ==
    ASSUME NEW j \in Jobs
    PROVE  /\ j.at = "idle" <=> j = Idle
           /\ j.at = "resolving" => j \in SyncJobs
           /\ j.at \in Writing => j \in WritingJobs
           /\ j.at \in {"failing", "removed"} => j \in EndingJobs
           /\ j.at \in {"cancelling", "removing"} => j \in RemovalJobs
           /\ j.at = "reconciling" => j \in ReconcileJobs
           /\ j.at = "restoring" => j \in RestoreJobs
           /\ j.at \in {"idle", "resolving", "failing", "removed", "cancelling", "removing",
                        "reconciling", "restoring"} \cup Writing
           /\ j.at \notin {"idle", "reconciling", "restoring"} => j.visit \in Visits
BY DEF Jobs, Idle, SyncJobs, WritingJobs, EndingJobs, RemovalJobs, ReconcileJobs, RestoreJobs,
       Writing, Carrying

\* And the other way round.
LEMMA JobsOf ==
    {Idle} \cup SyncJobs \cup WritingJobs \cup EndingJobs \cup RemovalJobs \cup ReconcileJobs
        \cup RestoreJobs \subseteq Jobs
BY DEF Jobs, SyncJobs, WritingJobs, EndingJobs, RemovalJobs, ReconcileJobs, RestoreJobs

\* A restoring job has a copy of every row it is to restore.
Copied(j) == j.at = "restoring" => \A v \in j.todo : j.seen[v] # Blank
Remembered == \A w \in Syncs : Copied(job[w])
Typed == CalendarTypeOK /\ Remembered

\* One worker takes another job.
LEMMA OneJob ==
    ASSUME CalendarTypeOK, NEW w \in Syncs, NEW j \in Jobs, Do(w, j)
    PROVE  /\ job' \in [Syncs -> Jobs] /\ job'[w] = j
           /\ \A x \in Syncs : job'[x] = IF x = w THEN j ELSE job[x]
BY DEF Do, CalendarTypeOK

\* A step of one worker keeps the types, if it keeps those of rows, events and ghosts.
LEMMA TypedDo ==
    ASSUME Typed, NEW w \in Syncs, NEW j \in Jobs, Do(w, j), Copied(j),
           row' \in [Visits -> Row \cup {Blank}], home' \in Calendars, requeue' \in BOOLEAN,
           cache' \in [Visits -> Calendars \cup {Blank}],
           event' \in [Events -> Event \cup {Blank}], created' \in 0..MaxEvents,
           stale' \subseteq Visits, astray' \subseteq Visits, crossed' \subseteq Visits,
           reopened' \subseteq Visits, met' \subseteq Syncs,
           changes' \in 0..Changes, strikes' \in 0..Strikes, loads' \in 0..Loads
    PROVE  Typed'
<1>1. CalendarTypeOK /\ Remembered
  BY DEF Typed
<1>2. job' \in [Syncs -> Jobs] /\ \A x \in Syncs : job'[x] = IF x = w THEN j ELSE job[x]
  BY <1>1, OneJob
<1>3. CalendarTypeOK'
  BY <1>2 DEF CalendarTypeOK
<1>4. Remembered'
  <2>1. ASSUME NEW x \in Syncs PROVE Copied(job'[x])
    BY <1>1, <1>2 DEF Remembered
  <2>2. QED BY <2>1 DEF Remembered, Copied
<1>5. QED BY <1>3, <1>4 DEF Typed

\* The ghosts of a step name visits and workers.
LEMMA GhostTypes ==
    ASSUME CalendarTypeOK, NEW w \in Syncs
    PROVE  /\ Serves(w) \subseteq Visits /\ Engaged(w) \subseteq Visits
           /\ \A vs : Beside(w, vs) \subseteq Syncs
           /\ \A e : Rivals(w, e) \subseteq Syncs /\ Visiting(Rivals(w, e)) \subseteq Visits
           /\ \A es : Keeping(es) \subseteq Visits
<1>1. \A x \in Syncs : job[x] \in Jobs
  BY DEF CalendarTypeOK
<1>2. \A x \in Syncs : Serves(x) \subseteq Visits
  <2>1. SUFFICES ASSUME NEW x \in Syncs, job[x] # Idle, ~Repairing(x) PROVE job[x].visit \in Visits
    BY DEF Serves
  <2>2. QED BY <1>1, <2>1, JobKinds DEF Repairing
<1>3. \A x \in Syncs : job[x].at \in Carrying => job[x].visit \in Visits
  BY <1>1, JobKinds DEF Carrying
<1>4. ASSUME NEW e PROVE Rivals(w, e) \subseteq Syncs /\ Visiting(Rivals(w, e)) \subseteq Visits
  BY <1>3 DEF Rivals, Visiting
<1>5. Engaged(w) \subseteq Visits
  BY <1>2 DEF Engaged
<1>6. \A vs : Beside(w, vs) \subseteq Syncs
  BY DEF Beside
<1>7. \A es : Keeping(es) \subseteq Visits
  BY DEF Keeping
<1>8. QED BY <1>2, <1>4, <1>5, <1>6, <1>7

\* What a sync loads.
LEMMA SeenTyped == ASSUME CalendarTypeOK, NEW v \in Visits, row[v] # Blank PROVE Seen(v) \in Known
<1>1. row[v] \in Row
  BY DEF CalendarTypeOK
<1>2. QED BY <1>1 DEF Seen, Row, Known

\* The world.
LEMMA WorldTyped ==
    ASSUME Typed,
           \/ Provision \/ Requeue \/ Restart
           \/ \E v \in Visits : CancelVisit(v) \/ Reopen(v) \/ \E d \in Days : Reschedule(v, d)
    PROVE  Typed'
<1> USE CalendarSyncAssumption DEF Typed, CalendarTypeOK, ghosts, google
<1>1. CASE Provision
  BY <1>1 DEF Provision, Change, Calendars, Remembered, Copied
<1>2. CASE Requeue
  <2>1. \A v \in Visits : row'[v] \in Row \cup {Blank}
    BY <1>2 DEF Requeue, Row
  <2>2. row' \in [Visits -> Row \cup {Blank}]
    BY <1>2, <2>1 DEF Requeue
  <2>3. QED BY <1>2, <2>2 DEF Requeue, Remembered, Copied
<1>3. CASE Restart
  <2>1. Idle \in Jobs
    BY JobsOf
  <2>2. Remembered'
    BY <1>3 DEF Restart, Remembered, Copied, Idle
  <2>3. QED BY <1>3, <2>1, <2>2 DEF Restart, Strike
<1>4. ASSUME NEW v \in Visits, CancelVisit(v) \/ Reopen(v) \/ \E d \in Days : Reschedule(v, d)
      PROVE  Typed'
  <2>1. row[v] \in Row
    BY <1>4 DEF CancelVisit, Reopen, Reschedule
  <2>4. row' \in [Visits -> Row \cup {Blank}]
    <3>1. CASE CancelVisit(v)
      BY <2>1, <3>1 DEF CancelVisit, Row
    <3>2. CASE Reopen(v)
      BY <2>1, <3>2 DEF Reopen, Row
    <3>3. CASE \E d \in Days : Reschedule(v, d)
      BY <2>1, <3>3 DEF Reschedule, Row
    <3>4. QED BY <1>4, <3>1, <3>2, <3>3
  <2>5. UNCHANGED <<home, requeue, cache, event, created, job, stale, astray, crossed, met,
                    strikes, loads>>
    BY <1>4 DEF CancelVisit, Reopen, Reschedule
  <2>6. reopened' \subseteq Visits
    BY <1>4 DEF CancelVisit, Reopen, Reschedule
  <2>7. changes' = changes \/ Change
    BY <1>4 DEF CancelVisit, Reopen, Reschedule
  <2>8. changes' \in 0..Changes
    BY <2>7 DEF Change
  <2>9. Remembered'
    BY <2>5 DEF Remembered, Copied
  <2>10. QED BY <2>4, <2>5, <2>6, <2>8, <2>9
<1>5. QED BY <1>1, <1>2, <1>3, <1>4

\* Jobs begin.
LEMMA BeginsTyped ==
    ASSUME Typed, NEW w \in Syncs, NEW v \in Visits,
           Load(w, v) \/ CancelRemoves(w, v) \/ DeleteVisit(w, v)
    PROVE  Typed'
<1>0. CalendarTypeOK
  BY DEF Typed
<1>1. row[v] # Blank /\ row[v] \in Row
  BY <1>0 DEF Load, CancelRemoves, DeleteVisit, CalendarTypeOK
<1>2. PICK j : /\ Begins(w, v, j)
               /\ \/ j = [at |-> "resolving", visit |-> v, seen |-> Seen(v)]
                  \/ j = [at |-> "cancelling", visit |-> v, event |-> row[v].event]
                  \/ j = [at |-> "removing", visit |-> v, event |-> row[v].event]
  BY DEF Load, CancelRemoves, DeleteVisit
<1>3. j \in Jobs /\ Copied(j)
  <2>1. j \in SyncJobs \cup RemovalJobs
    BY <1>0, <1>1, <1>2, SeenTyped DEF SyncJobs, RemovalJobs, Row
  <2>2. QED BY <1>2, <2>1, JobsOf DEF Copied
<1>4. Do(w, j) /\ astray' \subseteq Visits /\ met' \subseteq Syncs
      /\ UNCHANGED <<stale, crossed, reopened>>
  <2>1. Beside(w, {v}) \subseteq Syncs
    BY <1>0, GhostTypes
  <2>2. QED BY <1>0, <1>2, <2>1 DEF Begins, Starts, Meets, CalendarTypeOK
<1>5. row' \in [Visits -> Row \cup {Blank}]
  BY <1>0, <1>1 DEF Load, CancelRemoves, DeleteVisit, CalendarTypeOK, Row
<1>6. /\ UNCHANGED <<home, requeue, cache, event, created, strikes>>
      /\ changes' \in 0..Changes /\ loads' \in 0..Loads
  BY <1>0, CalendarSyncAssumption
     DEF Load, CancelRemoves, DeleteVisit, CalendarTypeOK, google, Change
<1>7. /\ home' \in Calendars /\ requeue' \in BOOLEAN /\ cache' \in [Visits -> Calendars \cup {Blank}]
      /\ event' \in [Events -> Event \cup {Blank}] /\ created' \in 0..MaxEvents
      /\ stale' \subseteq Visits /\ crossed' \subseteq Visits /\ reopened' \subseteq Visits
      /\ strikes' \in 0..Strikes
  BY <1>0, <1>4, <1>6 DEF CalendarTypeOK
<1>8. QED BY <1>3, <1>4, <1>5, <1>6, <1>7, TypedDo

\* What a worker that is at writing has in hand.
LEMMA WritingTyped ==
    ASSUME CalendarTypeOK, NEW w \in Syncs, job[w].at \in Writing
    PROVE  /\ job[w] \in WritingJobs /\ job[w].visit \in Visits /\ job[w].seen \in Known
           /\ job[w].to \in Calendars /\ job[w].event \in Events \cup {Blank}
           /\ \A at \in Writing :
                 /\ [job[w] EXCEPT !.at = at] \in WritingJobs
                 /\ \A e \in Events \cup {Blank} :
                       [job[w] EXCEPT !.at = at, !.event = e] \in WritingJobs
<1>1. job[w] \in WritingJobs
  <2>1. job[w] \in Jobs
    BY DEF CalendarTypeOK
  <2>2. QED BY <2>1, JobKinds
<1>2. QED BY <1>1 DEF WritingJobs

\* Those jobs are jobs, and have nothing to restore.
LEMMA PlainJobs ==
    ASSUME NEW j \in {Idle} \cup SyncJobs \cup WritingJobs \cup EndingJobs \cup RemovalJobs
                       \cup ReconcileJobs
    PROVE  j \in Jobs /\ Copied(j)
<1>1. j \in Jobs
  BY JobsOf
<1>2. j.at # "restoring"
  BY DEF Idle, SyncJobs, WritingJobs, EndingJobs, RemovalJobs, ReconcileJobs, Writing, Carrying
<1>3. QED BY <1>1, <1>2 DEF Copied

\* What a sync does with Google and the row.
LEMMA SyncTyped ==
    ASSUME Typed, NEW w \in Syncs, SyncStep(w) \/ GoogleFails(w)
    PROVE  Typed'
<1> USE CalendarSyncAssumption DEF google, ghosts
<1>0. CalendarTypeOK
  BY DEF Typed
<1>r. /\ row \in [Visits -> Row \cup {Blank}] /\ home \in Calendars /\ requeue \in BOOLEAN
      /\ cache \in [Visits -> Calendars \cup {Blank}] /\ event \in [Events -> Event \cup {Blank}]
      /\ created \in 0..MaxEvents /\ stale \subseteq Visits /\ astray \subseteq Visits
      /\ crossed \subseteq Visits /\ reopened \subseteq Visits /\ met \subseteq Syncs
      /\ changes \in 0..Changes /\ strikes \in 0..Strikes /\ loads \in 0..Loads
      /\ job[w] \in Jobs
  BY <1>0 DEF CalendarTypeOK
<1>s. Strike => strikes' \in 0..Strikes
  BY <1>r DEF Strike
<1>g. /\ \A e : Rivals(w, e) \subseteq Syncs /\ Visiting(Rivals(w, e)) \subseteq Visits
      /\ \A es : Keeping(es) \subseteq Visits
  BY <1>0, GhostTypes
<1>w. \A es : Without(es) \in [Events -> Event \cup {Blank}]
  BY <1>r DEF Without
<1>1. ASSUME Resolve(w) PROVE Typed'
  <2>1. job[w] \in SyncJobs /\ job[w].visit \in Visits /\ job[w].seen \in Known
    BY <1>1, <1>r, JobKinds DEF Resolve, SyncJobs
  <2>2. PICK cal \in Calendars : ResolveTo(w, cal) /\ strikes' \in 0..Strikes
    BY <1>1, <1>r, <1>s, <2>1 DEF Resolve, Calendars
  <2>3. PICK j : Do(w, j) /\ j = [at |-> IF MovedTo(job[w], cal) THEN "evicting"
                                        ELSE Onward(job[w].seen.event),
                   visit |-> job[w].visit, seen |-> job[w].seen, to |-> cal,
                   event |-> job[w].seen.event]
    BY <2>2 DEF ResolveTo
  <2>4. j \in WritingJobs
    BY <2>1, <2>3 DEF WritingJobs, Onward, Writing, Carrying, Known
  <2>5. j \in Jobs /\ Copied(j)
    BY <2>4, PlainJobs
  <2>6. cache' \in [Visits -> Calendars \cup {Blank}]
    BY <1>r, <2>1, <2>2 DEF ResolveTo
  <2>7. UNCHANGED <<row, home, requeue, event, created, stale, astray, crossed, reopened, met,
                    changes, loads>>
    BY <2>2 DEF ResolveTo
  <2>8. QED BY <1>r, <2>2, <2>3, <2>5, <2>6, <2>7, TypedDo
<1>2. ASSUME Evict(w) PROVE Typed'
  <2>1. job[w].at \in Writing /\ job[w].visit \in Visits
    BY <1>0, <1>2, WritingTyped DEF Evict, Writing
  <2>2. PICK j : j = [job[w] EXCEPT !.at = "finding", !.event = Blank] /\ Do(w, j)
    BY <1>2 DEF Evict, GoesWith
  <2>3. j \in Jobs /\ Copied(j)
    BY <1>0, <2>1, <2>2, WritingTyped, PlainJobs DEF Writing, Carrying
  <2>4. PICK e : /\ astray' = astray \cup {job[w].visit} \cup Keeping({e}) \cup Visiting(Rivals(w, e))
                 /\ met' = met \cup Rivals(w, e)
    BY <1>2 DEF Evict
  <2>5. astray' \subseteq Visits /\ met' \subseteq Syncs
    BY <1>r, <1>g, <2>1, <2>4
  <2>6. event' \in [Events -> Event \cup {Blank}] /\ strikes' \in 0..Strikes
    BY <1>2, <1>r, <1>s, <1>w DEF Evict
  <2>7. UNCHANGED <<row, home, requeue, cache, created, stale, crossed, reopened, changes, loads>>
    BY <1>2 DEF Evict
  <2>8. QED BY <1>r, <2>2, <2>3, <2>5, <2>6, <2>7, TypedDo
<1>t. ASSUME NEW at \in Writing, NEW e \in Events \cup {Blank}, Takes(w, at, e), job[w].at \in Writing
      PROVE  /\ crossed' \subseteq Visits /\ met' \subseteq Syncs
             /\ \E j \in Jobs : Do(w, j) /\ Copied(j)
  <2>1. job[w].visit \in Visits /\ [job[w] EXCEPT !.at = at, !.event = e] \in WritingJobs
    BY <1>0, <1>t, WritingTyped
  <2>2. PICK all : /\ all \subseteq {w} \cup Rivals(w, e)
                   /\ crossed' = crossed \cup Visiting(all) /\ met' = met \cup all
    BY <1>t DEF Takes
  <2>3. Visiting(all) \subseteq Visits /\ all \subseteq Syncs
    BY <1>g, <2>1, <2>2 DEF Visiting
  <2>4. QED BY <1>r, <1>t, <2>1, <2>2, <2>3, PlainJobs DEF Takes, GoesWith
<1>n. ASSUME job[w].at \in Writing, NEW at \in Writing
      PROVE  /\ [job[w] EXCEPT !.at = at] \in Jobs /\ Copied([job[w] EXCEPT !.at = at])
             /\ \A e \in Events \cup {Blank} :
                   /\ [job[w] EXCEPT !.at = at, !.event = e] \in Jobs
                   /\ Copied([job[w] EXCEPT !.at = at, !.event = e])
  BY <1>0, <1>n, WritingTyped, PlainJobs
<1>3. ASSUME Own(w) PROVE Typed'
  <2>1. job[w].at \in Writing /\ job[w].visit \in Visits /\ job[w].event \in Events \cup {Blank}
    BY <1>0, <1>3, WritingTyped DEF Own, Writing
  <2>2. UNCHANGED <<row, home, requeue, cache, event, created, stale, reopened, changes, loads>>
    BY <1>3 DEF Own
  <2>3. CASE Takes(w, "updating", job[w].event) /\ UNCHANGED <<astray, strikes>>
    <3>1. /\ crossed' \subseteq Visits /\ met' \subseteq Syncs
          /\ \E j \in Jobs : Do(w, j) /\ Copied(j)
      BY <1>t, <2>1, <2>3 DEF Writing, Carrying
    <3>2. QED BY <1>r, <2>2, <2>3, <3>1, TypedDo
  <2>4. CASE /\ GoesWith(w, "finding", Blank) /\ strikes' \in 0..Strikes
             /\ astray' \subseteq Visits /\ UNCHANGED <<crossed, met>>
    <3>1. \E j \in Jobs : Do(w, j) /\ Copied(j)
      BY <1>n, <2>1, <2>4 DEF GoesWith, Writing, Carrying
    <3>2. QED BY <1>r, <2>2, <2>4, <3>1, TypedDo
  <2>5. QED BY <1>3, <1>r, <1>s, <2>1, <2>3, <2>4 DEF Own
<1>p. ASSUME job[w].at \in Writing, NEW e \in Events, Patch(w, e) PROVE Typed'
  <2>1. job[w].visit \in Visits /\ job[w].seen \in Known /\ job[w].to \in Calendars
    BY <1>0, <1>p, WritingTyped
  <2>2. PICK b : b = [Patched(w) EXCEPT !.live = @ /\ event[e].live]
    OBVIOUS
  <2>3. b \in Event
    BY <2>1, <2>2 DEF Patched, Event, Known
  <2>4. event' \in [Events -> Event \cup {Blank}]
    BY <1>p, <1>r, <2>2, <2>3 DEF Patch
  <2>5. \E j \in Jobs : Do(w, j) /\ Copied(j)
    BY <1>n, <1>p DEF Patch, GoesWith, Writing, Carrying
  <2>6. UNCHANGED <<row, home, requeue, cache, created, stale, astray, crossed, reopened, met,
                    changes, strikes, loads>>
    BY <1>p DEF Patch
  <2>7. QED BY <1>r, <2>4, <2>5, <2>6, TypedDo
<1>th. ASSUME Throws(w), job[w].visit \in Visits PROVE \E j \in Jobs : Do(w, j) /\ Copied(j)
  <2>1. [at |-> "failing", visit |-> job[w].visit] \in EndingJobs
    BY <1>th DEF EndingJobs
  <2>2. QED BY <1>th, <2>1, PlainJobs DEF Throws
<1>4. ASSUME Update(w) PROVE Typed'
  <2>1. job[w].at \in Writing
    BY <1>4 DEF Update, Writing, Carrying
  <2>2. CASE job[w].event \in On(job[w].to)
    BY <1>4, <1>p, <2>1, <2>2 DEF Update, On
  <2>3. CASE job[w].event \notin On(job[w].to)
    <3>1. \E j \in Jobs : Do(w, j) /\ Copied(j)
      BY <1>4, <1>n, <2>1, <2>3 DEF Update, Goes, Writing, Carrying
    <3>2. UNCHANGED <<row, home, requeue, cache, event, created, stale, astray, crossed, reopened,
                      met, changes, strikes, loads>>
      BY <1>4, <2>3 DEF Update
    <3>3. QED BY <1>r, <3>1, <3>2, TypedDo
  <2>4. QED BY <2>2, <2>3
<1>5. ASSUME Find(w) PROVE Typed'
  <2>1. job[w].at \in Writing /\ job[w].visit \in Visits
    BY <1>0, <1>5, WritingTyped DEF Find, Writing, Carrying
  <2>2. UNCHANGED <<row, home, requeue, cache, created, stale, reopened, changes, loads>>
    BY <1>5 DEF Find
  <2>3. CASE /\ Goes(w, "matching") /\ strikes' \in 0..Strikes /\ astray' \subseteq Visits
             /\ UNCHANGED <<event, crossed, met>>
    <3>1. \E j \in Jobs : Do(w, j) /\ Copied(j)
      BY <1>n, <2>1, <2>3 DEF Goes, Writing, Carrying
    <3>2. QED BY <1>r, <2>2, <2>3, <3>1, TypedDo
  <2>4. CASE \E keep \in Found(w) : /\ Takes(w, "adopting", keep)
                                    /\ event' = Without(Found(w) \ {keep})
                                    /\ UNCHANGED <<astray, strikes>>
    <3>1. PICK keep \in Found(w) : Takes(w, "adopting", keep)
      BY <2>4
    <3>2. keep \in Events
      BY DEF Found, Tagged, Live, On
    <3>3. /\ crossed' \subseteq Visits /\ met' \subseteq Syncs
          /\ \E j \in Jobs : Do(w, j) /\ Copied(j)
      BY <1>t, <2>1, <3>1, <3>2 DEF Writing, Carrying
    <3>4. event' \in [Events -> Event \cup {Blank}] /\ UNCHANGED <<astray, strikes>>
      BY <1>w, <2>4
    <3>5. QED BY <1>r, <2>2, <3>3, <3>4, TypedDo
  <2>5. QED BY <1>5, <1>r, <1>s, <2>1, <2>3, <2>4 DEF Find
<1>6. ASSUME Match(w) PROVE Typed'
  <2>1. job[w].at \in Writing /\ job[w].visit \in Visits
    BY <1>0, <1>6, WritingTyped DEF Match, Writing, Carrying
  <2>2. UNCHANGED <<row, home, requeue, cache, event, created, stale, astray, reopened, changes, loads>>
    BY <1>6 DEF Match
  <2>3. CASE \E e \in Live(job[w].to) : Takes(w, "adopting", e) /\ UNCHANGED strikes
    <3>1. PICK e \in Events : Takes(w, "adopting", e)
      BY <2>3 DEF Live, On
    <3>2. /\ crossed' \subseteq Visits /\ met' \subseteq Syncs
          /\ \E j \in Jobs : Do(w, j) /\ Copied(j)
      BY <1>t, <2>1, <3>1 DEF Writing, Carrying
    <3>3. QED BY <1>r, <2>2, <2>3, <3>2, TypedDo
  <2>4. CASE \E at \in {"storing", "creating"} :
                Goes(w, at) /\ UNCHANGED <<crossed, met>> /\ strikes' \in 0..Strikes
    <3>1. \E j \in Jobs : Do(w, j) /\ Copied(j)
      BY <1>n, <2>1, <2>4 DEF Goes, Writing, Carrying
    <3>2. QED BY <1>r, <2>2, <2>4, <3>1, TypedDo
  <2>5. QED BY <1>6, <1>r, <1>s, <2>3, <2>4 DEF Match
<1>7. ASSUME Adopt(w) PROVE Typed'
  <2>1. job[w].at \in Writing /\ job[w].visit \in Visits
    BY <1>0, <1>7, WritingTyped DEF Adopt, Writing, Carrying
  <2>2. CASE job[w].event \in On(job[w].to)
    BY <1>7, <1>p, <2>1, <2>2 DEF Adopt, On
  <2>3. CASE job[w].event \notin On(job[w].to)
    <3>1. \E j \in Jobs : Do(w, j) /\ Copied(j)
      BY <1>7, <1>th, <2>1, <2>3 DEF Adopt
    <3>2. UNCHANGED <<row, home, requeue, cache, event, created, stale, astray, crossed, reopened,
                      met, changes, strikes, loads>>
      BY <1>7, <2>3 DEF Adopt
    <3>3. QED BY <1>r, <3>1, <3>2, TypedDo
  <2>4. QED BY <2>2, <2>3
<1>8. ASSUME Create(w) PROVE Typed'
  <2>1. /\ job[w].at \in Writing /\ job[w].visit \in Visits /\ job[w].seen \in Known
        /\ job[w].to \in Calendars
    BY <1>0, <1>8, WritingTyped DEF Create, Writing, Carrying
  <2>2. created' \in Events /\ created' \in 0..MaxEvents
    BY <1>8, <1>r DEF Create, Events
  <2>3. Patched(w) \in Event
    BY <2>1 DEF Patched, Event, Known
  <2>4. event' \in [Events -> Event \cup {Blank}]
    BY <1>8, <1>r, <2>2, <2>3 DEF Create
  <2>5. \E j \in Jobs : Do(w, j) /\ Copied(j)
    BY <1>8, <1>n, <2>1, <2>2 DEF Create, GoesWith, Writing, Carrying
  <2>6. UNCHANGED <<row, home, requeue, cache, stale, astray, crossed, reopened, met,
                    changes, strikes, loads>>
    BY <1>8 DEF Create
  <2>7. QED BY <1>r, <2>2, <2>4, <2>5, <2>6, TypedDo
<1>i. Idle \in Jobs /\ Copied(Idle)
  BY PlainJobs
<1>9. ASSUME Store(w) PROVE Typed'
  <2>1. /\ job[w].visit \in Visits /\ job[w].to \in Calendars
        /\ job[w].event \in Events \cup {Blank}
    BY <1>0, <1>9, WritingTyped DEF Store, Writing, Carrying
  <2>2. row' \in [Visits -> Row \cup {Blank}]
    BY <1>9, <1>r, <2>1 DEF Store, Row, StoredAt
  <2>3. /\ stale' \subseteq Visits /\ astray' \subseteq Visits /\ crossed' \subseteq Visits
        /\ reopened' \subseteq Visits /\ met' \subseteq Syncs /\ Do(w, Idle)
    BY <1>9, <1>r, <2>1 DEF Store, Ends
  <2>4. UNCHANGED <<home, requeue, cache, event, created, changes, strikes, loads>>
    BY <1>9 DEF Store
  <2>5. QED BY <1>r, <1>i, <2>2, <2>3, <2>4, TypedDo
<1>10. ASSUME Fail(w) PROVE Typed'
  <2>1. job[w].visit \in Visits
    BY <1>10, <1>r, JobKinds DEF Fail
  <2>2. row' \in [Visits -> Row \cup {Blank}]
    BY <1>10, <1>r, <2>1 DEF Fail, Row
  <2>3. /\ met' \subseteq Syncs /\ Do(w, Idle)
        /\ UNCHANGED <<home, requeue, cache, event, created, stale, astray, crossed, reopened,
                       changes, strikes, loads>>
    BY <1>10, <1>r DEF Fail, Ends
  <2>4. QED BY <1>r, <1>i, <2>2, <2>3, TypedDo
<1>11. ASSUME GoogleFails(w) PROVE Typed'
  <2>1. job[w].visit \in Visits
    BY <1>11, <1>r, JobKinds DEF GoogleFails
  <2>2. \E j \in Jobs : Do(w, j) /\ Copied(j)
    BY <1>11, <1>th, <2>1 DEF GoogleFails
  <2>3. strikes' \in 0..Strikes
        /\ UNCHANGED <<row, home, requeue, cache, event, created, stale, astray, crossed, reopened,
                       met, changes, loads>>
    BY <1>11, <1>s DEF GoogleFails
  <2>4. QED BY <1>r, <2>2, <2>3, TypedDo
<1>12. QED
  BY <1>1, <1>2, <1>3, <1>4, <1>5, <1>6, <1>7, <1>8, <1>9, <1>10, <1>11 DEF SyncStep

\* Deletions and repairs.
LEMMA RepairTyped ==
    ASSUME Typed, NEW w \in Syncs, RepairStep(w) \/ ReconcileList(w) \/ RestoreWipe(w)
    PROVE  Typed'
<1> USE CalendarSyncAssumption DEF google, ghosts
<1>0. CalendarTypeOK
  BY DEF Typed
<1>r. /\ row \in [Visits -> Row \cup {Blank}] /\ home \in Calendars /\ requeue \in BOOLEAN
      /\ cache \in [Visits -> Calendars \cup {Blank}] /\ event \in [Events -> Event \cup {Blank}]
      /\ created \in 0..MaxEvents /\ stale \subseteq Visits /\ astray \subseteq Visits
      /\ crossed \subseteq Visits /\ reopened \subseteq Visits /\ met \subseteq Syncs
      /\ changes \in 0..Changes /\ strikes \in 0..Strikes /\ loads \in 0..Loads
      /\ job[w] \in Jobs
  BY <1>0 DEF CalendarTypeOK
<1>s. (Strike => strikes' \in 0..Strikes) /\ (Change => changes' \in 0..Changes)
  BY <1>r DEF Strike, Change
<1>g. /\ \A e : Rivals(w, e) \subseteq Syncs /\ Visiting(Rivals(w, e)) \subseteq Visits
      /\ \A es : Keeping(es) \subseteq Visits
      /\ Engaged(w) \subseteq Visits /\ \A vs : Beside(w, vs) \subseteq Syncs
  BY <1>0, GhostTypes
<1>w. \A es : Without(es) \in [Events -> Event \cup {Blank}]
  BY <1>r DEF Without
<1>i. Idle \in Jobs /\ Copied(Idle)
  BY PlainJobs
<1>1. ASSUME Remove(w) PROVE Typed'
  <2>1. job[w].visit \in Visits
    BY <1>1, <1>r, JobKinds DEF Remove
  <2>2. PICK es : /\ es = Removes(job[w].visit, job[w].event)
                  /\ \/ /\ event' = Without(es) /\ UNCHANGED <<row, strikes>>
                        /\ astray' = astray \cup {job[w].visit} \cup Keeping(es)
                                       \cup Visiting(UNION {Rivals(w, e) : e \in es})
                        /\ met' \subseteq met \cup UNION {Rivals(w, e) : e \in es}
                     \/ /\ Strike /\ UNCHANGED <<event, astray>> /\ met' \subseteq met
                        /\ row' = IF row[job[w].visit] = Blank THEN row
                                  ELSE [row EXCEPT ![job[w].visit].sync = "failed"]
    BY <1>1 DEF Remove
  <2>3. /\ UNION {Rivals(w, e) : e \in es} \subseteq Syncs
        /\ Visiting(UNION {Rivals(w, e) : e \in es}) \subseteq Visits
    BY <1>g DEF Visiting
  <2>a. event' \in [Events -> Event \cup {Blank}]
    BY <1>r, <1>w, <2>2
  <2>b. astray' \subseteq Visits
    <3>1. Keeping(es) \subseteq Visits
      BY <1>g
    <3>2. QED BY <1>r, <2>1, <2>2, <2>3, <3>1
  <2>c. met' \subseteq Syncs
    BY <1>r, <2>2, <2>3
  <2>4. strikes' \in 0..Strikes
    BY <1>r, <1>s, <2>2
  <2>5. row' \in [Visits -> Row \cup {Blank}]
    BY <1>r, <2>1, <2>2 DEF Row
  <2>6. \E j \in Jobs : Do(w, j) /\ Copied(j)
    <3>1. [at |-> "removed", visit |-> job[w].visit] \in EndingJobs
      BY <2>1 DEF EndingJobs
    <3>2. QED BY <1>1, <1>i, <3>1, PlainJobs DEF Remove
  <2>7. UNCHANGED <<home, requeue, cache, created, stale, crossed, reopened, changes, loads>>
    BY <1>1 DEF Remove
  <2>8. QED BY <1>r, <2>a, <2>b, <2>c, <2>4, <2>5, <2>6, <2>7, TypedDo
<1>2. ASSUME DropRow(w) PROVE Typed'
  <2>1. row' \in [Visits -> Row \cup {Blank}]
    BY <1>2, <1>r DEF DropRow
  <2>2. /\ met' \subseteq Syncs /\ Do(w, Idle)
        /\ UNCHANGED <<home, requeue, cache, event, created, stale, astray, crossed, reopened,
                       changes, strikes, loads>>
    BY <1>2, <1>r DEF DropRow, Ends
  <2>3. QED BY <1>r, <1>i, <2>1, <2>2, TypedDo
<1>3. ASSUME RepairEnds(w) PROVE Typed'
  <2>1. /\ met' \subseteq Syncs /\ Do(w, Idle)
        /\ UNCHANGED <<row, home, requeue, cache, event, created, stale, astray, crossed, reopened,
                       changes, strikes, loads>>
    BY <1>3, <1>r DEF RepairEnds, Ends
  <2>2. QED BY <1>r, <1>i, <2>1, TypedDo
<1>4. ASSUME NEW e, NEW v, NEW cal, ReconcileEvent(w, e, v, cal) PROVE Typed'
  <2>1. job[w] \in ReconcileJobs /\ <<e, v, cal>> \in job[w].todo
    BY <1>4, <1>r, JobKinds DEF ReconcileEvent
  <2>2. v \in Visits /\ cal \in Calendars
    BY <2>1 DEF ReconcileJobs
  <2>3. PICK kept : /\ kept \in {job[w].kept, job[w].kept \cup {<<v, cal>>}}
                    /\ Do(w, [job[w] EXCEPT !.todo = @ \ {<<e, v, cal>>}, !.kept = kept])
    BY <1>4 DEF ReconcileEvent
  <2>4. PICK j : j = [job[w] EXCEPT !.todo = @ \ {<<e, v, cal>>}, !.kept = kept]
    OBVIOUS
  <2>5. j \in ReconcileJobs
    <3>1. kept \in SUBSET (Visits \X Calendars)
      BY <2>1, <2>2, <2>3 DEF ReconcileJobs
    <3>2. QED BY <2>1, <2>4, <3>1 DEF ReconcileJobs
  <2>6. j \in Jobs /\ Copied(j)
    BY <2>5, PlainJobs
  <2>7. /\ event' \in [Events -> Event \cup {Blank}]
        /\ UNCHANGED <<row, home, requeue, cache, created, stale, astray, crossed, reopened, met,
                       changes, strikes, loads>>
    BY <1>4, <1>r, <1>w DEF ReconcileEvent
  <2>8. QED BY <1>r, <2>3, <2>4, <2>6, <2>7, TypedDo
<1>5. ASSUME NEW v \in Visits, RestoreVisit(w, v) PROVE Typed'
  <2>1. job[w] \in RestoreJobs /\ v \in job[w].todo /\ job[w].seen \in [Visits -> Known \cup {Blank}]
    BY <1>5, <1>r, JobKinds DEF RestoreVisit, RestoreJobs
  <2>2. job[w].seen[v] \in Known
    BY <2>1, <1>5 DEF Typed, Remembered, Copied, RestoreVisit
  <2>3. PICK j : j = [job[w] EXCEPT !.todo = @ \ {v}] /\ Do(w, j)
    BY <1>5 DEF RestoreVisit
  <2>4. j \in RestoreJobs
    BY <2>1, <2>3 DEF RestoreJobs
  <2>5. j \in Jobs
    BY <2>4, JobsOf
  <2>6. Copied(j)
    BY <1>5, <2>1, <2>3 DEF Typed, Remembered, Copied, RestoreVisit, RestoreJobs
  <2>7. created' \in Events /\ created' \in 0..MaxEvents
    BY <1>5, <1>r DEF RestoreVisit, Events
  <2>8. event' \in [Events -> Event \cup {Blank}]
    <3>1. [cal |-> "shared", tag |-> v, day |-> job[w].seen[v].day, live |-> TRUE] \in Event
      BY <2>2 DEF Event, Known, Calendars
    <3>2. QED BY <1>5, <1>r, <2>7, <3>1 DEF RestoreVisit
  <2>9. row' \in [Visits -> Row \cup {Blank}]
    <3>1. CASE row[v] = Blank
      BY <1>5, <1>r, <3>1 DEF RestoreVisit
    <3>2. CASE row[v] # Blank
      <4>1. PICK n \in Events : n = created'
        BY <2>7
      <4>2. [row[v] EXCEPT !.event = n, !.sync = "synced"] \in Row
        BY <1>r, <3>2 DEF Row
      <4>3. row' = [row EXCEPT ![v] = [row[v] EXCEPT !.event = n, !.sync = "synced"]]
        BY <1>5, <1>r, <3>2, <4>1 DEF RestoreVisit
      <4>4. QED BY <1>r, <4>2, <4>3
    <3>3. QED BY <3>1, <3>2
  <2>10. stale' \subseteq Visits /\ astray' \subseteq Visits /\ crossed' \subseteq Visits
         /\ reopened' \subseteq Visits
    BY <1>5, <1>r DEF RestoreVisit
  <2>11. UNCHANGED <<home, requeue, cache, met, changes, strikes, loads>>
    BY <1>5 DEF RestoreVisit
  <2>12. QED BY <1>r, <2>3, <2>5, <2>6, <2>7, <2>8, <2>9, <2>10, <2>11, TypedDo
<1>6. ASSUME ReconcileList(w) PROVE Typed'
  <2>1. PICK j : /\ Starts(w, j)
                 /\ j = [at |-> "reconciling", kept |-> {},
                         todo |-> {<<e, event[e].tag, event[e].cal>> :
                               e \in {f \in Live("shared") \cup Live(home) : event[f].tag # Blank}}]
    BY <1>6 DEF ReconcileList
  <2>2. j \in ReconcileJobs
    <3>1. \A e \in {f \in Live("shared") \cup Live(home) : event[f].tag # Blank} :
             <<e, event[e].tag, event[e].cal>> \in Events \X Visits \X Calendars
      BY <1>r DEF Live, On, Event
    <3>2. QED BY <2>1, <3>1 DEF ReconcileJobs
  <2>3. j \in Jobs /\ Copied(j)
    BY <2>2, PlainJobs
  <2>4. /\ Do(w, j) /\ met' \subseteq Syncs /\ astray' \subseteq Visits /\ changes' \in 0..Changes
        /\ UNCHANGED <<row, home, requeue, cache, event, created, stale, crossed, reopened,
                       strikes, loads>>
    BY <1>6, <1>r, <1>g, <1>s, <2>1 DEF ReconcileList, Meets, Starts
  <2>5. QED BY <1>r, <2>3, <2>4, TypedDo
<1>7. ASSUME RestoreWipe(w) PROVE Typed'
  <2>1. PICK j : /\ Starts(w, j)
                 /\ j = [at |-> "restoring",
                         seen |-> [v \in Visits |-> IF row[v] = Blank THEN Blank ELSE Seen(v)],
                         todo |-> {v \in Visits : row[v] # Blank}]
    BY <1>7 DEF RestoreWipe
  <2>2. \A v \in Visits : row[v] # Blank => Seen(v) \in Known
    BY <1>0, SeenTyped
  <2>3. j \in RestoreJobs
    BY <2>1, <2>2 DEF RestoreJobs
  <2>4. j \in Jobs
    BY <2>3, JobsOf
  <2>5. Copied(j)
    BY <2>1, <2>2 DEF Copied
  <2>6. {event[e].tag : e \in Live("shared")} \ {Blank} \subseteq Visits
    BY <1>r DEF Live, On, Event
  <2>7. /\ Do(w, j) /\ met' \subseteq Syncs /\ changes' \in 0..Changes
        /\ UNCHANGED <<row, home, requeue, cache, created, stale, crossed, reopened,
                       strikes, loads>>
    BY <1>7, <1>r, <1>g, <1>s, <2>1 DEF RestoreWipe, Meets, Starts
  <2>8. astray' \subseteq Visits /\ event' \in [Events -> Event \cup {Blank}]
    BY <1>7, <1>r, <1>g, <1>w, <2>6 DEF RestoreWipe
  <2>9. QED BY <1>r, <2>4, <2>5, <2>7, <2>8, TypedDo
<1>8. ASSUME job[w].at = "restoring", NEW v \in job[w].todo, RestoreVisit(w, v) PROVE Typed'
  <2>1. v \in Visits
    BY <1>8, <1>r, JobKinds DEF RestoreJobs
  <2>2. QED BY <1>5, <1>8, <2>1
<1>9. QED BY <1>1, <1>2, <1>3, <1>4, <1>6, <1>7, <1>8 DEF RepairStep

\* Every step keeps the types.
LEMMA TypedStep == Typed /\ [CalendarNext]_calendarVars => Typed'
<1> SUFFICES ASSUME Typed, [CalendarNext]_calendarVars PROVE Typed'
  OBVIOUS
<1>1. CASE UNCHANGED calendarVars
  BY <1>1 DEF calendarVars, google, ghosts, Typed, CalendarTypeOK, Remembered, Copied
<1>2. CASE CalendarNext
  BY <1>2, WorldTyped, BeginsTyped, SyncTyped, RepairTyped DEF CalendarNext, CronLoad
<1>3. QED BY <1>1, <1>2

\* It starts typed.
LEMMA TypedStarts == ASSUME CalendarInit PROVE Typed
<1>2. row \in [Visits -> Row \cup {Blank}]
  BY DEF CalendarInit, Row
<1>3. event \in [Events -> Event \cup {Blank}] /\ created \in 0..MaxEvents
  <2>1. PICK d \in Days \cup {Blank} :
           /\ event = [e \in Events |-> IF e = 1 /\ d # Blank
                         THEN [cal |-> "shared", tag |-> Blank, day |-> d, live |-> TRUE]
                         ELSE Blank]
           /\ created = IF d = Blank THEN 0 ELSE 1
    BY DEF CalendarInit
  <2>2. d # Blank => [cal |-> "shared", tag |-> Blank, day |-> d, live |-> TRUE] \in Event
    BY <2>1 DEF Event, Calendars
  <2>3. QED BY <2>1, <2>2, CalendarSyncAssumption
<1>4. job \in [Syncs -> Jobs] /\ Remembered
  BY JobsOf DEF CalendarInit, Remembered, Copied, Idle
<1>5. /\ home \in Calendars /\ requeue \in BOOLEAN /\ cache \in [Visits -> Calendars \cup {Blank}]
      /\ stale \subseteq Visits /\ astray \subseteq Visits /\ crossed \subseteq Visits
      /\ reopened \subseteq Visits /\ met \subseteq Syncs
  BY DEF CalendarInit, Calendars
<1>6. changes \in 0..Changes /\ strikes \in 0..Strikes /\ loads \in 0..Loads
  BY CalendarSyncAssumption DEF CalendarInit
<1>7. QED BY <1>2, <1>3, <1>4, <1>5, <1>6 DEF CalendarTypeOK, Typed

\* cleaning-calendar-sync.service.ts: the rows, the events and what a sync has in
\* hand keep their types, however many syncs run beside each other.
THEOREM CalendarTyped == CalendarSpec => []CalendarTypeOK
<1>1. CalendarInit => Typed
  BY TypedStarts
<1>2. Typed => CalendarTypeOK
  BY DEF Typed
<1>3. QED BY <1>1, <1>2, TypedStep, PTL DEF CalendarSpec

-----------------------------------------------------------------------------
\* A visit that is not cancelled; visits whose event may be another's too, and visits
\* that may have another event than their row says.
Standing(v) == row[v] # Blank /\ row[v].status = "booked"
Lost == crossed \cup reopened
Adrift == astray \cup Lost

\* No event, and no row that names one, is ahead of the count.
EventsIssued ==
    /\ \A e \in Events : event[e] # Blank => e <= created
    /\ \A v \in Visits : row[v] # Blank /\ row[v].event # Blank => row[v].event <= created

\* A booked visit's event bears its tag, and is not cancelled.
TagsTrue ==
    \A v \in Visits :
        Standing(v) /\ row[v].event # Blank /\ event[row[v].event] # Blank =>
            /\ v \notin Lost => event[row[v].event].tag = v
            /\ v \notin Adrift => event[row[v].event].live

\* A calendar has at most one live event of a visit.
OneEach ==
    \A v \in Visits, cal \in Calendars :
        v \notin Adrift => \A e, f \in Tagged(v, cal) : e = f

\* A repair's job, and a sync's or a removal's; two jobs that should know of each other.
IsRepair(j) == j.at \in {"reconciling", "restoring"}
IsVisits(j) == j.at \notin {"idle", "reconciling", "restoring"}
Together(j, k) ==
    \/ IsRepair(j) /\ k.at # "idle"
    \/ IsRepair(k) /\ j.at # "idle"
    \/ IsVisits(j) /\ IsVisits(k) /\ j.visit = k.visit

\* Such jobs have met; and a visit whose job has met another is marked.
MetTrue ==
    /\ \A w, x \in Syncs : w # x /\ Together(job[w], job[x]) => w \in met
    /\ \A w \in met : /\ job[w] # Idle
                      /\ IsVisits(job[w]) => job[w].visit \in astray \cup crossed

\* The event a sync has in hand is no booked visit's but its own, and no other sync's.
Carries(j, e) == e # Blank /\ j.at \in Carrying /\ j.event = e
RowHand ==
    \A v \in Visits, w \in Syncs :
        Standing(v) /\ Carries(job[w], row[v].event) /\ job[w].visit # v => v \in Lost
HandHand ==
    \A w, x \in Syncs, e \in Events :
        Carries(job[w], e) /\ Carries(job[x], e) /\ job[w].visit # job[x].visit
        => w \in met /\ job[w].visit \in crossed

\* What a sync knows of its visit's row still holds.
Knows(j) ==
    LET v == j.visit seen == j.seen
    IN  /\ Standing(v) /\ seen.status = "cancelled" => v \in reopened
        /\ seen.event # Blank => seen.event <= created
        /\ v \notin Adrift =>
              /\ row[v] # Blank /\ row[v].event = seen.event
              /\ row[v].sync = "synced" => row[v].day = seen.day
              /\ j.at \in {"resolving", "owning", "updating"} /\ seen.status = "booked" =>
                    \A cal \in Calendars :
                        seen.event \in On(cal) => Tagged(v, cal) \subseteq {seen.event}

\* So does what its searches told it, and the event it wrote is as it wrote it.
Holds(w, j) ==
    LET v == j.visit e == j.event
    IN  /\ e # Blank => e <= created
        /\ j.at \in {"evicting", "owning", "updating"} => e # Blank /\ e = j.seen.event
        /\ j.at = "adopting" => e # Blank
        /\ j.at = "creating" => j.seen.status = "booked"
        /\ v \notin Adrift =>
              /\ j.at \in {"matching", "creating"} => Tagged(v, j.to) = {}
              /\ j.at = "adopting" => Tagged(v, j.to) \subseteq {e} /\ (event[e] # Blank => event[e].live)
        /\ j.at = "storing" /\ j.seen.status = "booked" =>
              /\ e # Blank
              /\ event[e] # Blank /\ event[e].tag # v => v \in crossed
              /\ w \notin met => /\ event[e] # Blank /\ event[e].cal = j.to
                                 /\ event[e].tag = v /\ event[e].day = j.seen.day
              /\ v \notin Adrift /\ Standing(v) /\ event[e] # Blank => event[e].live

\* What a reconciliation has listed is one event of a visit on a calendar.
Lists(j) ==
    \A t \in j.todo :
        /\ t[1] <= created
        /\ event[t[1]] # Blank => event[t[1]].cal = t[3]
        /\ event[t[1]] # Blank /\ event[t[1]].tag \in Visits \ Adrift => t[2] = event[t[1]].tag
        /\ t[2] \notin Adrift =>
              /\ <<t[2], t[3]>> \notin j.kept
              /\ \A s \in j.todo : s[2] = t[2] /\ s[3] = t[3] => s = t

Hand(w, j) ==
    /\ j.at \in {"resolving"} \cup Writing => Knows(j)
    /\ j.at \in Writing => Holds(w, j)
    /\ j.at = "reconciling" => Lists(j)
    /\ j.at = "restoring" /\ w \notin met => \A v \in j.todo : Tagged(v, "shared") = {}

Hands == \A w \in Syncs : Hand(w, job[w])

\* The inductive invariant.
CalendarInv ==
    /\ Typed /\ EventsIssued /\ TagsTrue /\ OneEach /\ MetTrue /\ RowHand /\ HandHand
    /\ Hands /\ NeverShared /\ Shown

\* A step in which events at most go, rows keep theirs, and no settled visit loses its
\* event.
Shrinks ==
    /\ UNCHANGED created
    /\ \A e \in Events : event'[e] = event[e] \/ event'[e] = Blank
    /\ stale \subseteq stale' /\ astray \subseteq astray'
    /\ crossed \subseteq crossed' /\ reopened \subseteq reopened'
    /\ \A v \in Visits : row'[v] # Blank =>
          /\ row[v] # Blank /\ row'[v].event = row[v].event /\ row'[v].cal = row[v].cal
          /\ row'[v].status = "booked" => row[v].status = "booked" \/ v \in reopened'
          /\ row'[v].sync = "synced" => row[v].sync = "synced" /\ row'[v].day = row[v].day
    /\ \A v \in Visits :
          Standing(v) /\ row[v].sync = "synced" /\ v \notin stale \cup Adrift
          /\ v \notin Adrift' /\ row[v].event # Blank => event'[row[v].event] = event[row[v].event]

\* What such a step leaves of the types.
LEMMA Fields ==
    ASSUME CalendarTypeOK
    PROVE  /\ \A v \in Visits : row[v] # Blank =>
                 /\ row[v] \in Row /\ row[v].event \in Events \cup {Blank}
                 /\ row[v].status \in {"booked", "cancelled"}
           /\ \A e \in Events : event[e] # Blank => event[e] \in Event /\ event[e].cal \in Calendars
           /\ created \in Nat /\ Events \subseteq Nat /\ \A w \in Syncs : job[w] \in Jobs
BY CalendarSyncAssumption DEF CalendarTypeOK, Row, Event, Events

\* Everything that does not speak of a job outlives it.
LEMMA ShrinkKeeps ==
    ASSUME CalendarInv, Shrinks
    PROVE  EventsIssued' /\ TagsTrue' /\ OneEach' /\ NeverShared' /\ Shown'
<1>0. /\ EventsIssued /\ TagsTrue /\ OneEach /\ NeverShared /\ Shown
      /\ \A v \in Visits : row[v] # Blank => row[v].event \in Events \cup {Blank}
  BY Fields DEF CalendarInv, Typed
<1>1. \A v \in Visits : Standing(v)' /\ v \notin reopened' => Standing(v) /\ row'[v].event = row[v].event
  BY DEF Shrinks, Standing
<1>a. Adrift \subseteq Adrift' /\ Lost \subseteq Lost' /\ reopened' \subseteq Lost' /\ Lost' \subseteq Adrift'
  BY DEF Shrinks, Adrift, Lost
<1>2. EventsIssued'
  BY <1>0 DEF EventsIssued, Shrinks
<1>3. TagsTrue'
  <2>1. SUFFICES ASSUME NEW v \in Visits, Standing(v)', row'[v].event # Blank,
                        event'[row'[v].event] # Blank
                 PROVE  /\ v \notin Lost' => event'[row'[v].event].tag = v
                        /\ v \notin Adrift' => event'[row'[v].event].live
    BY DEF TagsTrue
  <2>2. CASE v \in Lost'
    BY <1>a, <2>2
  <2>3. CASE v \notin Lost'
    <3>1. Standing(v) /\ row'[v].event = row[v].event
      BY <1>1, <1>a, <2>1, <2>3
    <3>2. row[v].event \in Events
      BY <1>0, <2>1, <3>1 DEF Standing
    <3>3. event'[row[v].event] = event[row[v].event]
      BY <2>1, <3>1, <3>2 DEF Shrinks
    <3>4. QED BY <1>0, <1>a, <2>1, <2>3, <3>1, <3>3 DEF TagsTrue
  <2>4. QED BY <2>2, <2>3
<1>4. OneEach'
  <2>1. \A v \in Visits, cal \in Calendars : Tagged(v, cal)' \subseteq Tagged(v, cal)
    BY DEF Shrinks, Tagged, Live, On
  <2>2. QED BY <1>0, <1>a, <2>1 DEF OneEach
<1>5. NeverShared'
  <2>1. SUFFICES ASSUME NEW u \in Visits, NEW v \in Visits, u # v, Standing(u)', Standing(v)',
                        row'[u].event # Blank, row'[u].event = row'[v].event,
                        u \notin Lost', v \notin Lost'
                 PROVE  FALSE
    BY DEF NeverShared, Standing, Lost
  <2>2. QED BY <1>0, <1>1, <1>a, <2>1 DEF NeverShared, Standing, Lost
<1>6. Shown'
  <2>1. SUFFICES ASSUME NEW v \in Visits, Standing(v)', row'[v].sync = "synced",
                        v \notin stale' \cup Adrift'
                 PROVE  /\ row'[v].event # Blank
                        /\ event'[row'[v].event] =
                              [cal |-> row'[v].cal, tag |-> v, day |-> row'[v].day, live |-> TRUE]
    BY DEF Shown, Adrift, Lost, Standing
  <2>2. Standing(v) /\ row'[v].event = row[v].event /\ v \notin stale \cup Adrift
    BY <1>1, <1>a, <2>1 DEF Shrinks
  <2>3. row'[v].cal = row[v].cal /\ row'[v].day = row[v].day /\ row[v].sync = "synced"
    BY <2>1 DEF Shrinks, Standing
  <2>4. /\ row[v].event # Blank
        /\ event[row[v].event] =
              [cal |-> row[v].cal, tag |-> v, day |-> row[v].day, live |-> TRUE]
    BY <1>0, <2>2, <2>3 DEF Shown, Standing, Adrift, Lost
  <2>5. event'[row[v].event] = event[row[v].event]
    BY <2>1, <2>2, <2>3, <2>4 DEF Shrinks
  <2>6. QED BY <2>2, <2>3, <2>4, <2>5
<1>7. QED BY <1>2, <1>3, <1>4, <1>5, <1>6

\* So does what a job relies on, if its worker knows of the event it has written going.
LEMMA ShrinkHand ==
    ASSUME CalendarInv, Shrinks, NEW x \in Syncs, NEW j \in Jobs, Hand(x, j),
           x \notin met' => x \notin met,
           j.at \in {"resolving"} \cup Writing /\ j.visit \notin Adrift' => row'[j.visit] # Blank,
           j.at = "storing" /\ j.seen.status = "booked" /\ j.event # Blank
              /\ event'[j.event] # event[j.event] => x \in met'
    PROVE  Hand(x, j)'
<1>a. Adrift \subseteq Adrift' /\ Lost \subseteq Lost' /\ reopened' \subseteq Lost' /\ Lost' \subseteq Adrift'
      /\ crossed' \subseteq Adrift' /\ reopened' \subseteq Adrift'
  BY DEF Shrinks, Adrift, Lost
<1>1. \A v \in Visits : Standing(v)' => Standing(v) \/ v \in reopened'
  BY DEF Shrinks, Standing
<1>2. \A v \in Visits, cal \in Calendars : Tagged(v, cal)' \subseteq Tagged(v, cal)
  BY DEF Shrinks, Tagged, Live, On
<1>e. \A e \in Events : event'[e] # Blank => event'[e] = event[e] /\ event[e].cal \in Calendars
  BY Fields DEF Shrinks, CalendarInv, Typed
<1>3. ASSUME j.at \in {"resolving"} \cup Writing PROVE Knows(j)'
  <2>1. Knows(j) /\ j.visit \in Visits /\ j.seen \in Known /\ j.seen.event \in Events \cup {Blank}
    BY <1>3, JobKinds DEF Hand, SyncJobs, WritingJobs, Known
  <2>2. PICK v \in Visits : v = j.visit
    BY <2>1
  <2>3. PICK seen \in Known : seen = j.seen
    BY <2>1
  <2>4. Standing(v)' /\ seen.status = "cancelled" => v \in reopened'
    BY <1>1, <2>1, <2>2, <2>3 DEF Knows, Shrinks
  <2>5. seen.event # Blank => seen.event <= created'
    BY <2>1, <2>3 DEF Knows, Shrinks
  <2>6. ASSUME v \notin Adrift'
        PROVE  /\ row'[v] # Blank /\ row'[v].event = seen.event
               /\ row'[v].sync = "synced" => row'[v].day = seen.day
    <3>1. row[v] # Blank /\ row[v].event = seen.event /\ (row[v].sync = "synced" => row[v].day = seen.day)
      BY <1>a, <2>1, <2>2, <2>3, <2>6 DEF Knows
    <3>2. row'[v] # Blank
      BY <1>3, <2>2, <2>6
    <3>3. QED BY <3>1, <3>2 DEF Shrinks
  <2>7. ASSUME v \notin Adrift', j.at \in {"resolving", "owning", "updating"},
               seen.status = "booked", NEW cal \in Calendars, seen.event \in On(cal)'
        PROVE  Tagged(v, cal)' \subseteq {seen.event}
    <3>1. seen.event \in On(cal)
      BY <1>e, <2>7 DEF On
    <3>2. Tagged(v, cal) \subseteq {seen.event}
      BY <1>a, <2>1, <2>2, <2>3, <2>7, <3>1 DEF Knows
    <3>3. QED BY <1>2, <3>2
  <2>8. QED BY <2>2, <2>3, <2>4, <2>5, <2>6, <2>7 DEF Knows
<1>4. ASSUME j.at \in Writing PROVE Holds(x, j)'
  <2>1. /\ Holds(x, j) /\ j.visit \in Visits /\ j.to \in Calendars /\ j.event \in Events \cup {Blank}
    BY <1>4, JobKinds DEF Hand, WritingJobs
  <2>2. PICK v \in Visits, e \in Events \cup {Blank}, to \in Calendars :
            v = j.visit /\ e = j.event /\ to = j.to
    BY <2>1
  <2>3. e # Blank => e <= created'
    BY <2>1, <2>2 DEF Holds, Shrinks
  <2>4. /\ j.at \in {"evicting", "owning", "updating"} => e # Blank /\ e = j.seen.event
        /\ j.at = "adopting" => e # Blank
        /\ j.at = "creating" => j.seen.status = "booked"
    BY <2>1, <2>2 DEF Holds
  <2>5. ASSUME v \notin Adrift'
        PROVE  /\ j.at \in {"matching", "creating"} => Tagged(v, to)' = {}
               /\ j.at = "adopting" =>
                     Tagged(v, to)' \subseteq {e} /\ (event'[e] # Blank => event'[e].live)
    <3>1. v \notin Adrift /\ Tagged(v, to)' \subseteq Tagged(v, to)
      BY <1>2, <1>a, <2>5
    <3>2. j.at \in {"matching", "creating"} => Tagged(v, to) = {}
      BY <2>1, <2>2, <3>1 DEF Holds
    <3>3. j.at = "adopting" => Tagged(v, to) \subseteq {e} /\ (event[e] # Blank => event[e].live)
      BY <2>1, <2>2, <3>1 DEF Holds
    <3>4. j.at = "adopting" => e \in Events
      BY <2>4
    <3>5. QED BY <1>e, <3>1, <3>2, <3>3, <3>4
  <2>6. ASSUME j.at = "storing", j.seen.status = "booked"
        PROVE  /\ e # Blank
               /\ event'[e] # Blank /\ event'[e].tag # v => v \in crossed'
               /\ x \notin met' => /\ event'[e] # Blank /\ event'[e].cal = to
                                   /\ event'[e].tag = v /\ event'[e].day = j.seen.day
               /\ v \notin Adrift' /\ Standing(v)' /\ event'[e] # Blank => event'[e].live
    <3>1. /\ e # Blank
          /\ event[e] # Blank /\ event[e].tag # v => v \in crossed
          /\ x \notin met => /\ event[e] # Blank /\ event[e].cal = to
                             /\ event[e].tag = v /\ event[e].day = j.seen.day
          /\ v \notin Adrift /\ Standing(v) /\ event[e] # Blank => event[e].live
      BY <2>1, <2>2, <2>6 DEF Holds
    <3>2. e \in Events /\ crossed \subseteq crossed'
      BY <3>1 DEF Shrinks
    <3>3. event'[e] # Blank => event'[e] = event[e]
      BY <1>e, <3>2
    <3>4. x \notin met' => x \notin met /\ event'[e] = event[e]
      BY <2>2, <2>6, <3>1
    <3>5. v \notin Adrift' /\ Standing(v)' => v \notin Adrift /\ Standing(v)
      BY <1>1, <1>a
    <3>6. QED BY <3>1, <3>2, <3>3, <3>4, <3>5
  <2>7. QED BY <2>2, <2>3, <2>4, <2>5, <2>6 DEF Holds
<1>5. ASSUME j.at = "reconciling" PROVE Lists(j)'
  <2>1. Lists(j) /\ j.todo \subseteq Events \X Visits \X Calendars
    BY <1>5, JobKinds DEF Hand, ReconcileJobs
  <2>2. SUFFICES ASSUME NEW t \in j.todo
                 PROVE  /\ t[1] <= created'
                        /\ event'[t[1]] # Blank => event'[t[1]].cal = t[3]
                        /\ event'[t[1]] # Blank /\ event'[t[1]].tag \in Visits \ Adrift'
                              => t[2] = event'[t[1]].tag
                        /\ t[2] \notin Adrift' =>
                              /\ <<t[2], t[3]>> \notin j.kept
                              /\ \A s \in j.todo : s[2] = t[2] /\ s[3] = t[3] => s = t
    BY DEF Lists
  <2>3. t[1] \in Events
    BY <2>1, <2>2
  <2>4. /\ t[1] <= created
        /\ event[t[1]] # Blank => event[t[1]].cal = t[3]
        /\ event[t[1]] # Blank /\ event[t[1]].tag \in Visits \ Adrift => t[2] = event[t[1]].tag
        /\ t[2] \notin Adrift =>
              /\ <<t[2], t[3]>> \notin j.kept
              /\ \A s \in j.todo : s[2] = t[2] /\ s[3] = t[3] => s = t
    BY <2>1, <2>2 DEF Lists
  <2>5. event'[t[1]] # Blank => event'[t[1]] = event[t[1]]
    BY <1>e, <2>3
  <2>6. created' = created
    BY DEF Shrinks
  <2>7. QED BY <1>a, <2>4, <2>5, <2>6
<1>6. ASSUME j.at = "restoring", x \notin met' PROVE \A v \in j.todo : Tagged(v, "shared")' = {}
  <2>1. j.todo \subseteq Visits /\ "shared" \in Calendars
    BY <1>6, JobKinds DEF RestoreJobs, Calendars
  <2>2. \A v \in j.todo : Tagged(v, "shared") = {}
    BY <1>6 DEF Hand
  <2>3. QED BY <1>2, <2>1, <2>2
<1>7. QED BY <1>3, <1>4, <1>5, <1>6 DEF Hand

\* A worker that goes on with its job, or ends it, meets nobody by that.
LEMMA MetKeeps ==
    ASSUME CalendarInv, Typed', NEW w \in Syncs, NEW j \in Jobs, Do(w, j),
           \/ j = Idle
           \/ IsVisits(j) /\ IsVisits(job[w]) /\ j.visit = job[w].visit
           \/ IsRepair(j) /\ IsRepair(job[w]),
           met \ {w} \subseteq met', j = Idle \/ met \subseteq met',
           \A x \in Syncs \ {w} : x \in met' =>
              /\ x \in met \/ IsVisits(job[x])
              /\ IsVisits(job[x]) => job[x].visit \in astray' \cup crossed',
           w \in met' => j # Idle,
           w \in met' /\ IsVisits(j) => j.visit \in astray' \cup crossed'
    PROVE  MetTrue'
<1>1. MetTrue /\ \A x \in Syncs : job'[x] = IF x = w THEN j ELSE job[x]
  BY OneJob DEF CalendarInv, Typed
<1>2. ASSUME NEW x \in Syncs, NEW y \in Syncs, x # y, Together(job'[x], job'[y])
      PROVE  x \in met'
  <2>1. job'[x] # Idle /\ job'[y] # Idle
    BY <1>2 DEF Together, IsRepair, IsVisits, Idle
  <2>2. Together(job[x], job[y])
    BY <1>1, <1>2, <2>1 DEF Together, IsRepair, IsVisits
  <2>3. QED BY <1>1, <1>2, <2>1, <2>2 DEF MetTrue
<1>3. ASSUME NEW x \in Syncs, x \in met'
      PROVE  job'[x] # Idle /\ (IsVisits(job'[x]) => job'[x].visit \in astray' \cup crossed')
  <2>1. x # w /\ x \notin met => job'[x] # Idle
    BY <1>1, <1>3 DEF IsVisits, Idle
  <2>2. QED BY <1>1, <1>3, <2>1 DEF MetTrue
<1>4. met' \subseteq Syncs
  BY DEF Typed, CalendarTypeOK
<1>5. QED BY <1>2, <1>3, <1>4 DEF MetTrue, Together, IsVisits, IsRepair

\* A worker that begins a job meets those it should know of.
LEMMA MetStarts ==
    ASSUME CalendarInv, Typed', NEW w \in Syncs, NEW j \in Jobs, NEW vs \in SUBSET Visits,
           Starts(w, j), Meets(w, vs), IsVisits(j) \/ IsRepair(j),
           IsVisits(j) => vs = {j.visit}, IsRepair(j) => vs = Visits,
           astray \subseteq astray', crossed \subseteq crossed',
           Beside(w, vs) # {} /\ IsVisits(j) => j.visit \in astray',
           IsRepair(j) => Engaged(w) \subseteq astray'
    PROVE  MetTrue'
<1>1. MetTrue /\ \A x \in Syncs : job[x] \in Jobs /\ job'[x] = IF x = w THEN j ELSE job[x]
  BY OneJob, Fields DEF CalendarInv, Typed, Starts
<1>2. \A x \in Syncs : IsRepair(job[x]) <=> Repairing(x)
  BY DEF IsRepair, Repairing
<1>3. \A x \in Syncs : IsVisits(job[x]) => Serves(x) = {job[x].visit} /\ job[x].visit \in Visits
  <2>1. SUFFICES ASSUME NEW x \in Syncs, IsVisits(job[x])
                 PROVE  Serves(x) = {job[x].visit} /\ job[x].visit \in Visits
    OBVIOUS
  <2>2. job[x] # Idle /\ ~Repairing(x)
    BY <2>1 DEF IsVisits, Repairing, Idle
  <2>3. QED BY <1>1, <2>1, <2>2, JobKinds DEF Serves, IsVisits
<1>4. \A x \in Syncs : job[x].at # "idle" => IsRepair(job[x]) \/ IsVisits(job[x])
  BY DEF IsRepair, IsVisits
<1>5. ASSUME NEW x \in Syncs \ {w}, Together(j, job[x]) \/ Together(job[x], j)
      PROVE  x \in Beside(w, vs)
  <2>1. CASE IsRepair(job[x])
    BY <1>2, <2>1 DEF Beside
  <2>2. CASE ~IsRepair(job[x])
    <3>1. IsVisits(job[x]) /\ job[x].visit \in vs
      BY <1>3, <1>4, <1>5, <2>2 DEF Together
    <3>2. QED BY <1>3, <3>1 DEF Beside
  <2>3. QED BY <2>1, <2>2
<1>6. ASSUME NEW x \in Syncs, NEW y \in Syncs, x # y, Together(job'[x], job'[y])
      PROVE  x \in met'
  <2>1. CASE x # w /\ y # w
    BY <1>1, <1>6, <2>1 DEF MetTrue, Meets
  <2>2. CASE x = w
    BY <1>1, <1>5, <1>6, <2>2 DEF Meets
  <2>3. CASE y = w
    BY <1>1, <1>5, <1>6, <2>3 DEF Meets
  <2>4. QED BY <2>1, <2>2, <2>3
<1>7. ASSUME NEW x \in Syncs, x \in met', IsVisits(job'[x])
      PROVE  job'[x].visit \in astray' \cup crossed'
  <2>1. CASE x = w
    <3>1. CASE Beside(w, vs) # {}
      BY <1>1, <1>7, <2>1, <3>1
    <3>2. CASE Beside(w, vs) = {}
      <4>1. w \in met
        BY <1>7, <2>1, <3>2 DEF Meets
      <4>2. QED BY <1>1, <4>1 DEF MetTrue, Starts
    <3>3. QED BY <3>1, <3>2
  <2>2. CASE x # w /\ x \in met
    BY <1>1, <1>7, <2>2 DEF MetTrue
  <2>3. CASE x # w /\ x \notin met
    <3>1. x \in Beside(w, vs)
      BY <1>7, <2>3 DEF Meets
    <3>2. IsVisits(job[x]) /\ job'[x] = job[x]
      BY <1>1, <1>7, <2>3
    <3>3. Serves(x) = {job[x].visit} /\ job[x].visit \in Visits /\ ~Repairing(x)
      BY <1>2, <1>3, <3>2 DEF IsVisits, IsRepair
    <3>4. CASE IsVisits(j)
      BY <3>1, <3>2, <3>3, <3>4 DEF Beside
    <3>5. CASE IsRepair(j)
      BY <2>3, <3>2, <3>3, <3>5 DEF Engaged
    <3>6. QED BY <3>4, <3>5
  <2>4. QED BY <2>1, <2>2, <2>3
<1>8. ASSUME NEW x \in Syncs, x \in met' PROVE job'[x] # Idle
  <2>1. \A y \in Beside(w, vs) : job[y] # Idle
    BY DEF Beside, Repairing, Serves, Idle
  <2>2. j # Idle
    BY DEF IsVisits, IsRepair, Idle
  <2>3. QED BY <1>1, <1>8, <2>1, <2>2 DEF MetTrue, Meets
<1>9. met' \subseteq Syncs
  BY DEF Typed, CalendarTypeOK
<1>10. QED BY <1>6, <1>7, <1>8, <1>9 DEF MetTrue, Together, IsVisits, IsRepair

\* A worker that takes no event in hand crosses nobody.
LEMMA CarryKeeps ==
    ASSUME CalendarInv, NEW w \in Syncs, NEW j \in Jobs, Do(w, j),
           \A e \in Events : Carries(j, e) => Carries(job[w], e) /\ j.visit = job[w].visit,
           \A v \in Visits : Standing(v)' =>
              v \in reopened' \/ (Standing(v) /\ row'[v].event = row[v].event),
           crossed \subseteq crossed', reopened \subseteq reopened',
           met \ {w} \subseteq met', j = Idle \/ met \subseteq met'
    PROVE  RowHand' /\ HandHand'
<1>1. /\ RowHand /\ HandHand
      /\ \A x \in Syncs : job'[x] = IF x = w THEN j ELSE job[x]
      /\ \A v \in Visits : row[v] # Blank => row[v].event \in Events \cup {Blank}
  BY OneJob, Fields DEF CalendarInv, Typed
<1>2. \A x \in Syncs, e \in Events :
         Carries(job'[x], e) => Carries(job[x], e) /\ job'[x].visit = job[x].visit
  BY <1>1
<1>3. \A x \in Syncs : \A e : Carries(job'[x], e) => job'[x] # Idle
  BY DEF Carries, Carrying, Idle
<1>4. ASSUME NEW v \in Visits, NEW x \in Syncs, Standing(v)', Carries(job'[x], row'[v].event),
             job'[x].visit # v
      PROVE  v \in Lost'
  <2>1. CASE v \in reopened'
    BY <2>1 DEF Lost
  <2>2. CASE Standing(v) /\ row'[v].event = row[v].event
    <3>1. row[v].event \in Events
      BY <1>1, <1>4, <2>2 DEF Standing, Carries
    <3>2. Carries(job[x], row[v].event) /\ job[x].visit # v
      BY <1>2, <1>4, <2>2, <3>1
    <3>3. v \in Lost
      BY <1>1, <2>2, <3>2 DEF RowHand
    <3>4. QED BY <3>3 DEF Lost
  <2>3. QED BY <1>4, <2>1, <2>2
<1>5. ASSUME NEW x \in Syncs, NEW y \in Syncs, NEW e \in Events,
             Carries(job'[x], e), Carries(job'[y], e), job'[x].visit # job'[y].visit
      PROVE  x \in met' /\ job'[x].visit \in crossed'
  <2>1. x \in met /\ job[x].visit \in crossed /\ job'[x].visit = job[x].visit
    BY <1>1, <1>2, <1>5 DEF HandHand
  <2>2. job'[x] # Idle
    BY <1>3, <1>5
  <2>3. QED BY <1>1, <2>1, <2>2
<1>6. QED BY <1>4, <1>5 DEF RowHand, HandHand, Carries

\* A worker that takes an event in hand knows whom it crosses by that, if no row of
\* another booked visit names it.
LEMMA TakeKeeps ==
    ASSUME CalendarInv, Typed', NEW w \in Syncs, NEW at \in Carrying, NEW e \in Events,
           Takes(w, at, e), job[w].at \in Writing, UNCHANGED <<row, reopened>>,
           astray \subseteq astray',
           \A v \in Visits : Standing(v) /\ row[v].event = e /\ v # job[w].visit => v \in Lost
    PROVE  RowHand' /\ HandHand' /\ MetTrue'
<1>1. /\ RowHand /\ HandHand /\ MetTrue /\ job[w] \in WritingJobs
      /\ \A v \in Visits : row[v] # Blank => row[v].event \in Events \cup {Blank}
  BY WritingTyped, Fields DEF CalendarInv, Typed
<1>2. PICK j : j = [job[w] EXCEPT !.at = at, !.event = e]
  OBVIOUS
<1>3. j.at = at /\ j.visit = job[w].visit /\ j.event = e /\ at \in Writing
  BY <1>1, <1>2 DEF WritingJobs, Writing
<1>4. j \in Jobs /\ Do(w, j)
  <2>1. j \in WritingJobs
    BY <1>1, <1>2, <1>3 DEF WritingJobs
  <2>2. QED BY <1>2, <2>1, PlainJobs DEF Takes, GoesWith
<1>5. \A x \in Syncs : job'[x] = IF x = w THEN j ELSE job[x]
  BY <1>4, OneJob DEF CalendarInv, Typed
<1>6. PICK all : /\ all = IF Rivals(w, e) = {} THEN {} ELSE {w} \cup Rivals(w, e)
                 /\ crossed' = crossed \cup Visiting(all) /\ met' = met \cup all
  BY DEF Takes
<1>7. \A x \in all : job[x].visit \in crossed' /\ x \in met'
  BY <1>6 DEF Visiting
<1>8. \A x \in Syncs : Carries(job[x], e) /\ job[x].visit # job[w].visit => x \in all /\ w \in all
  BY <1>6 DEF Rivals, Carries
<1>9. crossed \subseteq crossed' /\ met \subseteq met' /\ Lost \subseteq Lost'
  BY <1>6 DEF Lost
<1>10. ASSUME NEW v \in Visits, NEW x \in Syncs, Standing(v)', Carries(job'[x], row'[v].event),
              job'[x].visit # v
       PROVE  v \in Lost'
  <2>1. CASE x = w
    BY <1>3, <1>5, <1>9, <1>10, <2>1 DEF Carries, Standing
  <2>2. CASE x # w
    BY <1>1, <1>5, <1>9, <1>10, <2>2 DEF RowHand, Standing
  <2>3. QED BY <2>1, <2>2
<1>11. ASSUME NEW x \in Syncs, NEW y \in Syncs, NEW f \in Events,
              Carries(job'[x], f), Carries(job'[y], f), job'[x].visit # job'[y].visit
       PROVE  x \in met' /\ job'[x].visit \in crossed'
  <2>1. CASE x = w
    <3>1. y # w /\ f = e /\ Carries(job[y], e) /\ job[y].visit # job[w].visit
      BY <1>3, <1>5, <1>11, <2>1 DEF Carries
    <3>2. QED BY <1>3, <1>5, <1>7, <1>8, <2>1, <3>1
  <2>2. CASE y = w
    <3>1. x # w /\ f = e /\ Carries(job[x], e) /\ job[x].visit # job[w].visit
      BY <1>3, <1>5, <1>11, <2>2 DEF Carries
    <3>2. QED BY <1>3, <1>5, <1>7, <1>8, <2>2, <3>1
  <2>3. CASE x # w /\ y # w
    BY <1>1, <1>5, <1>9, <1>11, <2>3 DEF HandHand
  <2>4. QED BY <2>1, <2>2, <2>3
<1>12. MetTrue'
  <2>1. IsVisits(j) /\ IsVisits(job[w])
    BY <1>3 DEF IsVisits, Writing, Carrying
  <2>2. \A x \in Rivals(w, e) : IsVisits(job[x])
    BY DEF Rivals, IsVisits, Carrying
  <2>3. \A x \in Syncs : x \in met' => x \in met \/ x \in all
    BY <1>6
  <2>4. \A x \in Syncs \ {w} : x \in met' =>
           /\ x \in met \/ IsVisits(job[x])
           /\ IsVisits(job[x]) => job[x].visit \in astray' \cup crossed'
    BY <1>1, <1>6, <1>7, <1>9, <2>2, <2>3 DEF MetTrue
  <2>5. w \in met' => job[w].visit \in astray' \cup crossed'
    BY <1>1, <1>7, <1>9, <2>1, <2>3 DEF MetTrue
  <2>6. j # Idle
    BY <2>1 DEF IsVisits, Idle
  <2>7. met \subseteq met' /\ met \ {w} \subseteq met'
    BY <1>9
  <2>8. QED BY <1>3, <1>4, <2>1, <2>4, <2>5, <2>6, <2>7, MetKeeps
<1>13. QED BY <1>10, <1>11, <1>12 DEF RowHand, HandHand, Carries

\* What the invariant says of the jobs, worker by worker.
LEMMA HandsOf ==
    ASSUME \A x \in Syncs : \E k \in Jobs : job'[x] = k /\ Hand(x, k)'
    PROVE  Hands'
BY DEF Hands, Hand, Knows, Holds, Lists

\* A step of one worker in which events at most go keeps the invariant.
LEMMA ShrinkStep ==
    ASSUME CalendarInv, Typed', Shrinks, NEW w \in Syncs, NEW j \in Jobs, Do(w, j),
           MetTrue', RowHand', HandHand', Hand(w, j)',
           \A x \in Syncs \ {w} :
              /\ x \in met => x \in met'
              /\ \A e \in Events : job[x].at = "storing" /\ job[x].seen.status = "booked"
                    /\ job[x].event = e /\ event'[e] # event[e] => x \in met',
           \A v \in Visits : row[v] # Blank /\ row'[v] = Blank => IsVisits(job[w]) /\ job[w].visit = v
    PROVE  CalendarInv'
<1>1. EventsIssued' /\ TagsTrue' /\ OneEach' /\ NeverShared' /\ Shown'
  BY ShrinkKeeps
<1>2. \A x \in Syncs : job[x] \in Jobs /\ job'[x] = IF x = w THEN j ELSE job[x]
  BY OneJob, Fields DEF CalendarInv, Typed
<1>3. ASSUME NEW x \in Syncs, x # w PROVE \E k \in Jobs : job'[x] = k /\ Hand(x, k)'
  <2>1. PICK k \in Jobs : k = job[x] /\ job'[x] = k /\ Hand(x, k)
    BY <1>2, <1>3 DEF CalendarInv, Hands
  <2>2. ASSUME k.at \in {"resolving"} \cup Writing, k.visit \notin Adrift'
        PROVE  row'[k.visit] # Blank
    <3>1. Knows(k) /\ k.visit \in Visits
      BY <2>1, <2>2, JobKinds DEF Hand, SyncJobs, WritingJobs
    <3>2. k.visit \notin Adrift
      BY <2>2 DEF Shrinks, Adrift, Lost
    <3>3. row[k.visit] # Blank
      BY <3>1, <3>2 DEF Knows
    <3>4. ASSUME row'[k.visit] = Blank PROVE FALSE
      <4>1. IsVisits(job[w]) /\ job[w].visit = k.visit
        BY <3>1, <3>3, <3>4
      <4>2. Together(job[x], job[w]) /\ IsVisits(k)
        BY <2>1, <2>2, <4>1 DEF Together, IsVisits, Writing, Carrying
      <4>3. x \in met
        BY <1>3, <4>2 DEF CalendarInv, MetTrue
      <4>4. k.visit \in astray \cup crossed
        BY <2>1, <4>2, <4>3 DEF CalendarInv, MetTrue
      <4>5. QED BY <3>2, <4>4 DEF Adrift, Lost
    <3>5. QED BY <3>4
  <2>3. ASSUME k.at = "storing", k.seen.status = "booked", k.event # Blank,
               event'[k.event] # event[k.event]
        PROVE  x \in met'
    <3>1. k.event \in Events
      BY <2>3, JobKinds DEF WritingJobs, Writing, Carrying
    <3>2. QED BY <1>3, <2>1, <2>3, <3>1
  <2>4. x \notin met' => x \notin met
    BY <1>3
  <2>5. Hand(x, k)'
    BY <2>1, <2>2, <2>3, <2>4, ShrinkHand
  <2>6. QED BY <2>1, <2>5
<1>4. ASSUME NEW x \in Syncs PROVE \E k \in Jobs : job'[x] = k /\ Hand(x, k)'
  BY <1>2, <1>3
<1>5. Hands'
  BY <1>4, HandsOf
<1>6. QED BY <1>1, <1>5 DEF CalendarInv

\* So does a step that leaves the events alone, in which the worker takes none in hand.
LEMMA QuietStep ==
    ASSUME CalendarInv, Typed', Shrinks, UNCHANGED event, NEW w \in Syncs, NEW j \in Jobs, Do(w, j),
           \A e \in Events : Carries(j, e) => Carries(job[w], e) /\ j.visit = job[w].visit,
           MetTrue', Hand(w, j)', met \ {w} \subseteq met', j = Idle \/ met \subseteq met',
           \A v \in Visits : row[v] # Blank /\ row'[v] = Blank => IsVisits(job[w]) /\ job[w].visit = v
    PROVE  CalendarInv'
<1>1. \A v \in Visits : Standing(v)' =>
         v \in reopened' \/ (Standing(v) /\ row'[v].event = row[v].event)
  BY DEF Shrinks, Standing
<1>2. crossed \subseteq crossed' /\ reopened \subseteq reopened'
  BY DEF Shrinks
<1>3. RowHand' /\ HandHand'
  BY <1>1, <1>2, CarryKeeps
<1>4. \A x \in Syncs \ {w} : x \in met => x \in met'
  OBVIOUS
<1>5. QED BY <1>3, <1>4, ShrinkStep

\* Some jobs rely on nothing.
LEMMA FreeHand ==
    ASSUME NEW w, NEW j,
           j.at \in {"idle", "failing", "removed", "cancelling", "removing"}
    PROVE  Hand(w, j)'
BY DEF Hand, Writing, Carrying

\* A sync goes on, or ends, and leaves the events alone.
LEMMA GoOn ==
    ASSUME CalendarInv, Typed', Shrinks, UNCHANGED event, NEW w \in Syncs, NEW j \in Jobs, Do(w, j),
           IsVisits(job[w]), j = Idle \/ (IsVisits(j) /\ j.visit = job[w].visit),
           \A e \in Events : Carries(j, e) => Carries(job[w], e),
           Hand(w, j)', met' = IF j = Idle THEN met \ {w} ELSE met,
           \A v \in Visits : row[v] # Blank /\ row'[v] = Blank => job[w].visit = v
    PROVE  CalendarInv'
<1>1. MetTrue /\ astray \subseteq astray' /\ crossed \subseteq crossed'
  BY DEF CalendarInv, Shrinks
<1>2. \A x \in Syncs \ {w} : x \in met' =>
              /\ x \in met \/ IsVisits(job[x])
              /\ IsVisits(job[x]) => job[x].visit \in astray' \cup crossed'
  BY <1>1 DEF MetTrue
<1>3. (w \in met' => j # Idle) /\ (w \in met' /\ IsVisits(j) => j.visit \in astray' \cup crossed')
  <2>1. j = Idle => ~IsVisits(j)
    BY DEF IsVisits, Idle
  <2>2. QED BY <1>1, <2>1 DEF MetTrue
<1>4. met \ {w} \subseteq met' /\ (j = Idle \/ met \subseteq met')
  OBVIOUS
<1>5. \/ j = Idle
      \/ IsVisits(j) /\ IsVisits(job[w]) /\ j.visit = job[w].visit
  OBVIOUS
<1>6. MetTrue'
  BY <1>2, <1>3, <1>4, <1>5, MetKeeps
<1>7. \A e \in Events : Carries(j, e) => Carries(job[w], e) /\ j.visit = job[w].visit
  BY DEF Carries, Carrying, Idle
<1>8. QED BY <1>4, <1>6, <1>7, QuietStep

\* Rows, events and ghosts that stay are no loss.
LEMMA SameShrinks ==
    ASSUME UNCHANGED <<row, event, created>>, stale \subseteq stale', astray \subseteq astray',
           crossed \subseteq crossed', reopened \subseteq reopened'
    PROVE  Shrinks
BY DEF Shrinks

\* Jobs that begin: a sync knows what it loads.
LEMMA BeginsStep ==
    ASSUME CalendarInv, Typed', NEW w \in Syncs, NEW v \in Visits,
           Load(w, v) \/ CancelRemoves(w, v) \/ DeleteVisit(w, v)
    PROVE  CalendarInv'
<1>0. CalendarTypeOK /\ EventsIssued /\ TagsTrue /\ OneEach
  BY DEF CalendarInv, Typed
<1>1. row[v] # Blank /\ row[v] \in Row
  BY <1>0, Fields DEF Load, CancelRemoves, DeleteVisit
<1>2. PICK j : /\ Begins(w, v, j)
               /\ \/ j = [at |-> "resolving", visit |-> v, seen |-> Seen(v)]
                  \/ j = [at |-> "cancelling", visit |-> v, event |-> row[v].event]
                  \/ j = [at |-> "removing", visit |-> v, event |-> row[v].event]
  BY DEF Load, CancelRemoves, DeleteVisit
<1>3. j \in Jobs
  <2>1. j \in SyncJobs \cup RemovalJobs
    BY <1>0, <1>1, <1>2, SeenTyped DEF SyncJobs, RemovalJobs, Row
  <2>2. QED BY <2>1, JobsOf
<1>4. IsVisits(j) /\ ~IsRepair(j) /\ j.visit = v /\ j # Idle /\ \A e : ~Carries(j, e)
  BY <1>2 DEF IsVisits, IsRepair, Idle, Carries, Carrying
<1>5. /\ Starts(w, j) /\ Do(w, j) /\ Meets(w, {v}) /\ UNCHANGED <<stale, crossed, reopened, event, created>>
      /\ astray' = IF Beside(w, {v}) = {} THEN astray ELSE astray \cup {v}
  BY <1>2 DEF Begins, Starts, Load, CancelRemoves, DeleteVisit, google
<1>6. row' = row \/ row' = [row EXCEPT ![v].status = "cancelled"]
  BY DEF Load, CancelRemoves, DeleteVisit
<1>7. \A u \in Visits :
         /\ row'[u] = Blank <=> row[u] = Blank
         /\ row[u] # Blank => /\ row'[u].event = row[u].event /\ row'[u].cal = row[u].cal
                              /\ row'[u].day = row[u].day /\ row'[u].sync = row[u].sync
                              /\ row'[u].status \in {row[u].status, "cancelled"}
  <2>1. row \in [Visits -> Row \cup {Blank}] /\ Blank \notin Row
    BY <1>0, CalendarSyncAssumption DEF CalendarTypeOK
  <2>2. [row[v] EXCEPT !.status = "cancelled"] \in Row
    BY <1>1 DEF Row
  <2>3. QED BY <1>1, <1>6, <2>1, <2>2 DEF Row
<1>8. Shrinks
  BY <1>5, <1>7 DEF Shrinks
<1>9. MetTrue'
  BY <1>3, <1>4, <1>5, MetStarts
<1>10. met \subseteq met'
  BY <1>5 DEF Meets
<1>11. Hand(w, j)'
  <2>1. CASE j.at # "resolving"
    BY <1>2, <2>1, FreeHand
  <2>2. CASE j.at = "resolving"
    <3>1. j.seen = Seen(v) /\ j.visit = v
      BY <1>2, <2>2
    <3>2. PICK seen : seen = Seen(v)
      OBVIOUS
    <3>3. /\ seen.status = row[v].status /\ seen.day = row[v].day /\ seen.event = row[v].event
          /\ seen.event \in Events \cup {Blank}
      BY <1>1, <3>2 DEF Seen, Row
    <3>4. ASSUME v \notin Adrift, seen.status = "booked", NEW cal \in Calendars, seen.event \in On(cal)
          PROVE  Tagged(v, cal) \subseteq {seen.event}
      <4>1. Standing(v) /\ row[v].event # Blank /\ event[row[v].event] # Blank
            /\ row[v].event \in Events
        BY <1>1, <3>3, <3>4, CalendarSyncAssumption DEF Standing, On
      <4>2. event[row[v].event].tag = v /\ event[row[v].event].live
        BY <1>0, <3>4, <4>1 DEF TagsTrue, Adrift
      <4>3. seen.event \in Tagged(v, cal)
        BY <3>3, <3>4, <4>1, <4>2 DEF Tagged, Live
      <4>4. QED BY <1>0, <3>4, <4>3 DEF OneEach
    <3>5. Knows(j)
      BY <1>0, <1>1, <3>1, <3>2, <3>3, <3>4 DEF Knows, Standing, EventsIssued
    <3>6. Hand(w, j)
      BY <2>2, <3>5 DEF Hand, Writing, Carrying
    <3>7. w \notin met' => w \notin met
      BY <1>10
    <3>8. row'[j.visit] # Blank
      BY <1>1, <1>7, <3>1
    <3>9. QED BY <1>3, <1>8, <2>2, <3>6, <3>7, <3>8, ShrinkHand
  <2>3. QED BY <2>1, <2>2
<1>12. \A u \in Visits : ~(row[u] # Blank /\ row'[u] = Blank)
  BY <1>7
<1>13. met \ {w} \subseteq met'
  BY <1>10
<1>14. QED BY <1>3, <1>4, <1>5, <1>8, <1>9, <1>10, <1>11, <1>12, <1>13, QuietStep

\* What a worker at writing has, and relies on.
LEMMA InHand ==
    ASSUME CalendarInv, NEW w \in Syncs, job[w].at \in Writing
    PROVE  /\ job[w] \in WritingJobs /\ job[w] \in Jobs /\ IsVisits(job[w])
           /\ job[w].visit \in Visits /\ job[w].seen \in Known /\ job[w].to \in Calendars
           /\ job[w].event \in Events \cup {Blank} /\ Knows(job[w]) /\ Holds(w, job[w])
           /\ job[w].seen.status \in {"booked", "cancelled"}
<1>1. job[w] \in WritingJobs /\ job[w] \in Jobs /\ Hand(w, job[w])
  BY WritingTyped, Fields DEF CalendarInv, Typed, Hands
<1>2. QED BY <1>1 DEF WritingJobs, Hand, IsVisits, Writing, Carrying, Known

\* Where a sync may stand.
LEMMA Stages ==
    /\ Writing = {"evicting", "owning", "updating", "finding", "matching", "adopting", "creating", "storing"}
    /\ Carrying = {"updating", "finding", "matching", "adopting", "creating", "storing"}
    /\ "evicting" \in Writing /\ "owning" \in Writing /\ "updating" \in Writing
    /\ "finding" \in Writing /\ "matching" \in Writing /\ "adopting" \in Writing
    /\ "creating" \in Writing /\ "storing" \in Writing
BY DEF Writing, Carrying

\* The job that comes of it.
Then(k, at, e) == [k EXCEPT !.at = at, !.event = e]

LEMMA NextJob ==
    ASSUME NEW k \in WritingJobs, NEW at \in Writing, NEW e \in Events \cup {Blank}
    PROVE  /\ Then(k, at, e) \in WritingJobs /\ Then(k, at, e) \in Jobs
           /\ IsVisits(Then(k, at, e)) /\ Then(k, at, e) # Idle
           /\ Then(k, at, e).at = at /\ Then(k, at, e).visit = k.visit
           /\ Then(k, at, e).seen = k.seen /\ Then(k, at, e).to = k.to /\ Then(k, at, e).event = e
<1>0. PICK j : j = Then(k, at, e)
  OBVIOUS
<1>1. /\ j \in WritingJobs
      /\ j.at = at /\ j.visit = k.visit /\ j.seen = k.seen /\ j.to = k.to /\ j.event = e
  BY <1>0 DEF WritingJobs, Then
<1>2. j.at \notin {"idle", "reconciling", "restoring"}
  BY <1>1 DEF Writing, Carrying
<1>3. QED BY <1>0, <1>1, <1>2, JobsOf DEF IsVisits, Idle

\* To go on with the same event is to take it again.
LEMMA GoesJob ==
    ASSUME NEW k \in WritingJobs, NEW at \in Writing
    PROVE  [k EXCEPT !.at = at] = Then(k, at, k.event)
BY DEF WritingJobs, Then

\* What a job knew, the next of the same sync knows.
LEMMA KnowsOn ==
    ASSUME NEW k, NEW j, Knows(k), j.visit = k.visit, j.seen = k.seen,
           j.at \in {"resolving", "owning", "updating"} => k.at \in {"resolving", "owning", "updating"}
    PROVE  Knows(j)
BY DEF Knows

\* What a sync relies on after a step in which nothing was written, or it left its
\* visit astray.
LEMMA QuietHand ==
    ASSUME CalendarInv, Shrinks, UNCHANGED row, NEW w \in Syncs, NEW j \in WritingJobs,
           Knows(j), w \notin met' => w \notin met,
           \/ Holds(w, j) /\ UNCHANGED event
           \/ /\ j.at \in {"finding", "matching"} /\ j.visit \in astray'
              /\ j.event # Blank => j.event <= created
    PROVE  Hand(w, j)'
<1>1. j \in Jobs /\ j.at \in Writing /\ j.visit \in Visits
  BY JobsOf DEF WritingJobs
<1>2. CASE Holds(w, j) /\ UNCHANGED event
  <2>1. Hand(w, j)
    BY <1>1, <1>2 DEF Hand, Writing, Carrying
  <2>2. j.visit \notin Adrift' => row'[j.visit] # Blank
    BY <1>1 DEF Knows, Shrinks, Adrift, Lost
  <2>3. QED BY <1>1, <1>2, <2>1, <2>2, ShrinkHand
<1>3. CASE /\ j.at \in {"finding", "matching"} /\ j.visit \in astray'
           /\ j.event # Blank => j.event <= created
  <2>1. /\ Standing(j.visit)' /\ j.seen.status = "cancelled" => j.visit \in reopened'
        /\ j.seen.event # Blank => j.seen.event <= created'
        /\ j.event # Blank => j.event <= created'
        /\ j.visit \in Adrift'
    BY <1>1, <1>3 DEF Knows, Shrinks, Standing, Adrift
  <2>2. Knows(j)' /\ Holds(w, j)'
    BY <1>3, <2>1 DEF Knows, Holds
  <2>3. QED BY <1>3, <2>2 DEF Hand, Writing, Carrying
<1>4. QED BY <1>2, <1>3

\* The calendar is settled.
LEMMA ResolveStep == ASSUME CalendarInv, Typed', NEW w \in Syncs, Resolve(w) PROVE CalendarInv'
<1>1. job[w] \in SyncJobs /\ job[w] \in Jobs /\ Knows(job[w]) /\ IsVisits(job[w])
  <2>1. job[w] \in Jobs /\ Hand(w, job[w]) /\ job[w].at = "resolving"
    BY Fields DEF CalendarInv, Typed, Hands, Resolve
  <2>2. QED BY <2>1, JobKinds DEF Hand, IsVisits
<1>2. job[w].visit \in Visits /\ job[w].seen \in Known /\ job[w].seen.event \in Events \cup {Blank}
  BY <1>1 DEF SyncJobs, Known
<1>3. PICK cal \in Calendars : ResolveTo(w, cal)
  <2>1. cache[job[w].visit] \in Calendars \cup {Blank} /\ home \in Calendars /\ "shared" \in Calendars
    BY <1>2 DEF CalendarInv, Typed, CalendarTypeOK, Calendars
  <2>2. QED BY <2>1 DEF Resolve
<1>4. PICK j : Do(w, j) /\ j = [at |-> IF MovedTo(job[w], cal) THEN "evicting"
                                      ELSE Onward(job[w].seen.event),
                 visit |-> job[w].visit, seen |-> job[w].seen, to |-> cal,
                 event |-> job[w].seen.event]
  BY <1>3 DEF ResolveTo
<1>5. /\ j \in WritingJobs /\ j \in Jobs /\ IsVisits(j) /\ j # Idle
      /\ j.at \in {"evicting", "owning", "finding"} /\ j.visit = job[w].visit /\ j.seen = job[w].seen
      /\ j.event = j.seen.event /\ (j.at # "finding" => j.event # Blank)
      /\ j.at = "finding" => j.event = Blank
  <2>1. j \in WritingJobs
    BY <1>2, <1>4 DEF WritingJobs, Onward, Writing, Carrying
  <2>2. QED BY <1>4, <2>1, JobsOf DEF MovedTo, Onward, IsVisits, Idle
<1>6. UNCHANGED <<row, event, created, stale, astray, crossed, reopened, met>>
  BY <1>3 DEF ResolveTo, google, ghosts
<1>7. Shrinks
  BY <1>6, SameShrinks
<1>8. Knows(j)
  BY <1>1, <1>5, KnowsOn DEF Resolve
<1>9. Holds(w, j)
  BY <1>5, <1>8 DEF Holds, Knows
<1>10. Hand(w, j)'
  BY <1>5, <1>6, <1>7, <1>8, <1>9, QuietHand
<1>11. \A e \in Events : Carries(j, e) => Carries(job[w], e)
  BY <1>5 DEF Carries, Carrying
<1>12. QED BY <1>1, <1>4, <1>5, <1>6, <1>7, <1>10, <1>11, GoOn

\* A sync takes an event in hand and writes nothing.
LEMMA TakesStep ==
    ASSUME CalendarInv, Typed', NEW w \in Syncs, NEW at \in Carrying, NEW e \in Events,
           Takes(w, at, e), job[w].at \in Writing,
           UNCHANGED <<row, event, created, stale, astray, reopened>>,
           \A v \in Visits : Standing(v) /\ row[v].event = e /\ v # job[w].visit => v \in Lost,
           Knows(Then(job[w], at, e)),
           Holds(w, Then(job[w], at, e))
    PROVE  CalendarInv'
<1>1. PICK j : j = Then(job[w], at, e)
  OBVIOUS
<1>2. at \in Writing /\ job[w] \in WritingJobs
  BY InHand DEF Writing
<1>3. j \in WritingJobs /\ j \in Jobs
  BY <1>1, <1>2, NextJob
<1>4. Do(w, j) /\ crossed \subseteq crossed' /\ met \subseteq met'
  BY <1>1 DEF Takes, GoesWith, Then
<1>5. Shrinks
  BY <1>4, SameShrinks
<1>6. RowHand' /\ HandHand' /\ MetTrue'
  BY TakeKeeps
<1>7. Hand(w, j)'
  BY <1>1, <1>3, <1>4, <1>5, QuietHand
<1>8. QED BY <1>3, <1>4, <1>5, <1>6, <1>7, ShrinkStep

\* A sync at writing goes on without a write.
LEMMA PassesOn ==
    ASSUME CalendarInv, Typed', NEW w \in Syncs, job[w].at \in Writing,
           NEW at \in Writing \ {"owning", "updating", "evicting"}, NEW e \in {job[w].event, Blank}, NEW j,
           j = Then(job[w], at, e),
           Do(w, j), UNCHANGED <<row, event, created, stale, crossed, reopened, met>>,
           astray \subseteq astray',
           Holds(w, j) \/ (j.at \in {"finding", "matching"} /\ j.visit \in astray'),
           e = Blank \/ job[w].at \in Carrying
    PROVE  CalendarInv'
<1>1. /\ job[w] \in WritingJobs /\ IsVisits(job[w]) /\ job[w].event \in Events \cup {Blank}
      /\ Knows(job[w]) /\ Holds(w, job[w])
  BY InHand
<1>2. /\ j \in WritingJobs /\ j \in Jobs /\ IsVisits(j) /\ j # Idle
      /\ j.at = at /\ j.visit = job[w].visit /\ j.seen = job[w].seen /\ j.to = job[w].to /\ j.event = e
  <2>1. e \in Events \cup {Blank} /\ at \in Writing
    BY <1>1
  <2>2. QED BY <1>1, <2>1, NextJob
<1>3. Shrinks
  BY SameShrinks
<1>4. Knows(j)
  <2>1. at \notin {"resolving", "owning", "updating"}
    BY DEF Writing, Carrying
  <2>2. QED BY <1>1, <1>2, <2>1, KnowsOn
<1>5. j.event # Blank => j.event <= created
  BY <1>1, <1>2 DEF Holds
<1>6. Hand(w, j)'
  BY <1>2, <1>3, <1>4, <1>5, QuietHand
<1>7. \A f \in Events : Carries(j, f) => Carries(job[w], f)
  BY <1>1, <1>2 DEF Carries
<1>8. QED BY <1>1, <1>2, <1>3, <1>6, <1>7, GoOn

\* An event that no booked visit's row names.
LEMMA NotTaken ==
    ASSUME NEW e, NEW v \in Visits, ~Taken(e, v)
    PROVE  \A u \in Visits : Standing(u) /\ row[u].event = e /\ u # v => u \in Lost
BY DEF Taken, Standing

\* The stored event is kept or dropped.
LEMMA OwnStep == ASSUME CalendarInv, Typed', NEW w \in Syncs, Own(w) PROVE CalendarInv'
<1>1. /\ job[w].at = "owning" /\ job[w].at \in Writing
  BY DEF Own, Writing
<1>2. /\ job[w] \in WritingJobs /\ Knows(job[w]) /\ Holds(w, job[w]) /\ job[w].visit \in Visits
      /\ job[w].event \in Events /\ job[w].event = job[w].seen.event
  BY <1>1, InHand DEF Holds
<1>3. UNCHANGED <<row, event, created, stale, reopened>>
  BY DEF Own, google
<1>4. CASE ~Taken(job[w].event, job[w].visit) /\ Takes(w, "updating", job[w].event) /\ UNCHANGED astray
  <2>1. PICK e \in Events : e = job[w].event
    BY <1>2
  <2>2. PICK j : j = Then(job[w], "updating", e)
    OBVIOUS
  <2>a. "updating" \in Writing /\ e \in Events \cup {Blank}
    BY Stages
  <2>3. /\ j.at = "updating" /\ j.visit = job[w].visit /\ j.seen = job[w].seen /\ j.to = job[w].to
        /\ j.event = e
    BY <1>2, <2>2, <2>a, NextJob
  <2>4. Knows(j)
    BY <1>1, <1>2, <2>3, KnowsOn
  <2>5. Holds(w, j)
    BY <1>1, <1>2, <2>1, <2>3, CalendarSyncAssumption DEF Holds
  <2>6. \A v \in Visits : Standing(v) /\ row[v].event = e /\ v # job[w].visit => v \in Lost
    BY <1>2, <1>4, <2>1, NotTaken
  <2>7. "updating" \in Carrying /\ Takes(w, "updating", e)
    BY <1>4, <2>1 DEF Carrying
  <2>8. QED BY <1>1, <1>3, <1>4, <2>2, <2>4, <2>5, <2>6, <2>7, TakesStep
<1>5. CASE GoesWith(w, "finding", Blank) /\ astray \subseteq astray' /\ UNCHANGED <<crossed, met>>
  <2>1. PICK j : j = Then(job[w], "finding", Blank) /\ Do(w, j)
    BY <1>5 DEF GoesWith, Then
  <2>a. "finding" \in Writing /\ Blank \in Events \cup {Blank}
    BY Stages
  <2>2. j.at = "finding" /\ j.event = Blank
    BY <1>2, <2>1, <2>a, NextJob
  <2>3. Holds(w, j)
    BY <2>2 DEF Holds
  <2>4. "finding" \in Writing \ {"owning", "updating", "evicting"}
    BY DEF Writing, Carrying
  <2>5. QED BY <1>1, <1>3, <1>5, <2>1, <2>3, <2>4, PassesOn
<1>6. QED BY <1>4, <1>5 DEF Own

\* A search by title and day.
LEMMA MatchStep == ASSUME CalendarInv, Typed', NEW w \in Syncs, Match(w) PROVE CalendarInv'
<1>1. job[w].at = "matching" /\ job[w].at \in Writing /\ job[w].at \in Carrying
  BY DEF Match, Writing, Carrying
<1>2. /\ job[w] \in WritingJobs /\ Knows(job[w]) /\ Holds(w, job[w]) /\ job[w].visit \in Visits
      /\ job[w].seen.status \in {"booked", "cancelled"} /\ job[w].event \in Events \cup {Blank}
  BY <1>1, InHand
<1>3. UNCHANGED <<row, event, created, stale, astray, reopened>>
  BY DEF Match, google
<1>4. ASSUME NEW e \in Live(job[w].to), ~Taken(e, job[w].visit), Takes(w, "adopting", e)
      PROVE  CalendarInv'
  <2>1. e \in Events /\ event[e] # Blank /\ event[e].live /\ e # Blank
    BY <1>4, CalendarSyncAssumption DEF Live, On
  <2>2. PICK j : j = Then(job[w], "adopting", e)
    OBVIOUS
  <2>a. "adopting" \in Writing /\ e \in Events \cup {Blank}
    BY <2>1, Stages
  <2>3. /\ j.at = "adopting" /\ j.visit = job[w].visit /\ j.seen = job[w].seen /\ j.to = job[w].to
        /\ j.event = e
    BY <1>2, <2>2, <2>a, NextJob
  <2>4. Knows(j)
    BY <1>2, <2>3, KnowsOn
  <2>5. Holds(w, j)
    <3>1. e <= created
      BY <2>1 DEF CalendarInv, EventsIssued
    <3>2. job[w].visit \notin Adrift => Tagged(job[w].visit, job[w].to) = {}
      BY <1>1, <1>2 DEF Holds
    <3>3. QED BY <2>1, <2>3, <3>1, <3>2 DEF Holds
  <2>6. \A v \in Visits : Standing(v) /\ row[v].event = e /\ v # job[w].visit => v \in Lost
    BY <1>2, <1>4, NotTaken
  <2>7. "adopting" \in Carrying
    BY DEF Carrying
  <2>8. QED BY <1>1, <1>3, <1>4, <2>1, <2>2, <2>4, <2>5, <2>6, <2>7, TakesStep
<1>5. ASSUME Goes(w, IF job[w].seen.status = "cancelled" THEN "storing" ELSE "creating"),
             UNCHANGED <<crossed, met>>
      PROVE  CalendarInv'
  <2>1. PICK at \in {"storing", "creating"} :
            /\ Goes(w, at) /\ (at = "storing" => job[w].seen.status = "cancelled")
            /\ at = "creating" => job[w].seen.status = "booked"
    BY <1>2, <1>5
  <2>3. at \in Writing \ {"owning", "updating", "evicting"}
    BY <2>1 DEF Writing, Carrying
  <2>2. PICK j : j = Then(job[w], at, job[w].event) /\ Do(w, j)
    BY <1>2, <2>1, <2>3, GoesJob DEF Goes
  <2>4. /\ j.at = at /\ j.visit = job[w].visit /\ j.seen = job[w].seen /\ j.to = job[w].to
        /\ j.event = job[w].event
    BY <1>2, <2>2, <2>3, NextJob
  <2>5. Holds(w, j)
    <3>1. job[w].visit \notin Adrift => Tagged(job[w].visit, job[w].to) = {}
      BY <1>1, <1>2 DEF Holds
    <3>2. job[w].event # Blank => job[w].event <= created
      BY <1>2 DEF Holds
    <3>3. QED BY <2>1, <2>4, <3>1, <3>2 DEF Holds
  <2>6. QED BY <1>1, <1>3, <1>5, <2>2, <2>3, <2>5, PassesOn
<1>6. QED BY <1>4, <1>5 DEF Match

\* The event of a visit that says "synced", where nothing excuses it.
LEMMA SettledEvent ==
    ASSUME CalendarInv, NEW u \in Visits, Standing(u), row[u].sync = "synced",
           u \notin stale \cup Adrift
    PROVE  /\ row[u].event \in Events
           /\ event[row[u].event].cal = row[u].cal /\ event[row[u].event].tag = u
           /\ event[row[u].event].day = row[u].day /\ event[row[u].event].live
<1>1. /\ row[u].event # Blank
      /\ event[row[u].event] = [cal |-> row[u].cal, tag |-> u, day |-> row[u].day, live |-> TRUE]
  BY DEF CalendarInv, Shown, Standing, Adrift, Lost
<1>2. row[u].event \in Events
  BY <1>1, Fields DEF CalendarInv, Typed, Standing
<1>3. QED BY <1>1, <1>2

\* Events of the visit are looked for; one is kept.
LEMMA FindStep == ASSUME CalendarInv, Typed', NEW w \in Syncs, Find(w) PROVE CalendarInv'
<1>1. job[w].at = "finding" /\ job[w].at \in Writing /\ job[w].at \in Carrying
  BY DEF Find, Writing, Carrying
<1>2. /\ job[w] \in WritingJobs /\ Knows(job[w]) /\ Holds(w, job[w]) /\ job[w].visit \in Visits
      /\ job[w].event \in Events \cup {Blank} /\ job[w].to \in Calendars /\ IsVisits(job[w])
  BY <1>1, InHand
<1>3. UNCHANGED <<row, created, stale, reopened>> /\ astray \subseteq astray'
  BY DEF Find
<1>4. ASSUME Goes(w, "matching"), UNCHANGED <<event, crossed, met>>,
             Found(w) = {} \/ job[w].visit \in astray'
      PROVE  CalendarInv'
  <2>1. "matching" \in Writing /\ "matching" \in Writing \ {"owning", "updating", "evicting"}
    BY DEF Writing, Carrying
  <2>2. PICK j : j = Then(job[w], "matching", job[w].event) /\ Do(w, j)
    BY <1>2, <1>4, <2>1, GoesJob DEF Goes
  <2>3. /\ j.at = "matching" /\ j.visit = job[w].visit /\ j.seen = job[w].seen /\ j.to = job[w].to
        /\ j.event = job[w].event
    BY <1>2, <2>1, <2>2, NextJob
  <2>4. Found(w) = {} => Holds(w, j)
    <3>1. Found(w) = Tagged(j.visit, j.to)
      BY <2>3 DEF Found
    <3>2. j.event # Blank => j.event <= created
      BY <1>2, <2>3 DEF Holds
    <3>3. QED BY <2>3, <3>1, <3>2 DEF Holds
  <2>5. QED BY <1>1, <1>3, <1>4, <2>1, <2>2, <2>3, <2>4, PassesOn
<1>5. ASSUME NEW keep \in Found(w), Takes(w, "adopting", keep),
             event' = Without(Found(w) \ {keep}), UNCHANGED astray
      PROVE  CalendarInv'
  <2>1. PICK v \in Visits, to \in Calendars : v = job[w].visit /\ to = job[w].to
    BY <1>2
  <2>2. PICK found : found = Found(w) /\ found = Tagged(v, to)
    BY <2>1 DEF Found
  <2>3. \A f \in found : f \in Events /\ event[f] # Blank /\ event[f].live /\ event[f].tag = v
    BY <2>2 DEF Tagged, Live, On
  <2>4. keep \in found /\ keep \in Events /\ keep # Blank
    BY <1>5, <2>2, <2>3, CalendarSyncAssumption
  <2>5. v \notin Adrift => found = {keep}
    BY <2>2, <2>4 DEF CalendarInv, OneEach
  <2>6. \A e \in Events : event'[e] = IF e \in found \ {keep} THEN Blank ELSE event[e]
    BY <1>5, <2>2 DEF Without
  <2>7. crossed \subseteq crossed' /\ met \subseteq met' /\ Adrift \subseteq Adrift'
    BY <1>3, <1>5 DEF Takes, Adrift, Lost
  <2>8. Shrinks
    <3>1. ASSUME NEW u \in Visits, Standing(u), row[u].sync = "synced", u \notin stale \cup Adrift,
                 row[u].event # Blank
          PROVE  event'[row[u].event] = event[row[u].event]
      <4>1. row[u].event \in Events /\ event[row[u].event].tag = u
        BY <3>1, SettledEvent
      <4>2. row[u].event \in found => u = v
        BY <2>3, <4>1
      <4>3. QED BY <2>5, <2>6, <3>1, <4>1, <4>2
    <3>2. QED BY <1>3, <1>5, <2>6, <2>7, <3>1 DEF Shrinks
  <2>9. \A u \in Visits : Standing(u) /\ row[u].event = keep /\ u # job[w].visit => u \in Lost
    BY <2>1, <2>3, <2>4 DEF CalendarInv, TagsTrue
  <2>10. RowHand' /\ HandHand' /\ MetTrue'
    BY <1>1, <1>3, <1>5, <2>4, <2>9, TakeKeeps DEF Carrying
  <2>a. "adopting" \in Writing /\ keep \in Events \cup {Blank}
    BY <2>4, Stages
  <2>11. PICK j \in Jobs : /\ j = Then(job[w], "adopting", keep) /\ Do(w, j)
    BY <1>2, <1>5, <2>a, NextJob DEF Takes, GoesWith, Then
  <2>12. /\ j.at = "adopting" /\ j.visit = job[w].visit /\ j.seen = job[w].seen /\ j.to = job[w].to
         /\ j.event = keep
    BY <1>2, <2>11, <2>a, NextJob
  <2>13. Hand(w, j)'
    <3>1. Knows(j)
      BY <1>2, <2>12, KnowsOn
    <3>2. keep <= created
      BY <2>3, <2>4 DEF CalendarInv, EventsIssued
    <3>3. Holds(w, j)
      <4>1. PICK c \in Calendars : c = j.to
        BY <1>2, <2>12
      <4>2. v \notin Adrift => Tagged(v, j.to) \subseteq {keep} /\ event[keep].live
        BY <2>1, <2>2, <2>3, <2>4, <2>5, <2>12
      <4>3. QED BY <2>1, <2>4, <2>12, <3>2, <4>2 DEF Holds
    <3>4. Hand(w, j)
      BY <2>12, <3>1, <3>3 DEF Hand, Writing, Carrying
    <3>5. j.visit \notin Adrift' => row'[j.visit] # Blank
      BY <1>2, <1>3, <2>7, <2>12, <3>1 DEF Knows
    <3>6. w \notin met' => w \notin met
      BY <2>7
    <3>7. QED BY <2>8, <2>12, <3>4, <3>5, <3>6, ShrinkHand
  <2>14. ASSUME NEW x \in Syncs \ {w}, NEW e \in Events, job[x].at = "storing",
                job[x].seen.status = "booked", job[x].event = e, event'[e] # event[e]
         PROVE  x \in met'
    <3>1. e \in found
      BY <2>6, <2>14
    <3>2. IsVisits(job[x]) /\ Holds(x, job[x])
      BY <2>14, InHand, Stages
    <3>3. CASE job[x].visit = v
      BY <1>2, <2>1, <2>7, <3>2, <3>3 DEF CalendarInv, MetTrue, Together
    <3>4. CASE job[x].visit # v
      BY <2>3, <2>7, <2>14, <3>1, <3>2, <3>4 DEF Holds
    <3>5. QED BY <3>3, <3>4
  <2>15. \A u \in Visits : ~(row[u] # Blank /\ row'[u] = Blank)
    BY <1>3
  <2>16. \A x \in Syncs \ {w} : x \in met => x \in met'
    BY <2>7
  <2>17. QED BY <2>8, <2>10, <2>11, <2>13, <2>14, <2>15, <2>16, ShrinkStep
<1>6. QED BY <1>4, <1>5 DEF Find

\* A sync fails, or ends.
LEMMA FailSteps ==
    ASSUME CalendarInv, Typed', NEW w \in Syncs, NEW j \in Jobs, Do(w, j),
           IsVisits(job[w]), j = Idle \/ (j.at \in {"failing", "removed"} /\ j.visit = job[w].visit),
           Shrinks, UNCHANGED event, met' = IF j = Idle THEN met \ {w} ELSE met,
           \A v \in Visits : row[v] # Blank /\ row'[v] = Blank => job[w].visit = v
    PROVE  CalendarInv'
<1>1. j = Idle \/ (IsVisits(j) /\ j.visit = job[w].visit)
  BY DEF IsVisits
<1>2. \A e \in Events : Carries(j, e) => Carries(job[w], e)
  BY DEF Carries, Carrying, Idle
<1>3. Hand(w, j)'
  BY FreeHand DEF Idle
<1>4. QED BY <1>1, <1>2, <1>3, GoOn

\* Updates and adoptions that miss their event, failed calls, and ends of jobs.
LEMMA EndSteps ==
    ASSUME CalendarInv, Typed', NEW w \in Syncs,
           \/ Update(w) /\ job[w].event \notin On(job[w].to)
           \/ Adopt(w) /\ job[w].event \notin On(job[w].to)
           \/ GoogleFails(w) \/ Fail(w) \/ DropRow(w)
    PROVE  CalendarInv'
<1>0. job[w] \in Jobs /\ row \in [Visits -> Row \cup {Blank}] /\ Blank \notin Row
  BY Fields, CalendarSyncAssumption DEF CalendarInv, Typed, CalendarTypeOK
<1>1. ASSUME Update(w), job[w].event \notin On(job[w].to) PROVE CalendarInv'
  <2>1. job[w].at \in Writing /\ job[w].at \in Carrying
    BY <1>1 DEF Update, Writing, Carrying
  <2>2. job[w] \in WritingJobs /\ Holds(w, job[w]) /\ job[w].event \in Events \cup {Blank}
    BY <2>1, InHand
  <2>3. "finding" \in Writing /\ "finding" \in Writing \ {"owning", "updating", "evicting"}
    BY DEF Writing, Carrying
  <2>4. PICK j : j = Then(job[w], "finding", job[w].event) /\ Do(w, j)
    BY <1>1, <2>2, <2>3, GoesJob DEF Goes, Update
  <2>5. j.at = "finding" /\ j.event = job[w].event
    BY <2>2, <2>3, <2>4, NextJob
  <2>6. Holds(w, j)
    BY <2>2, <2>5 DEF Holds
  <2>7. UNCHANGED <<row, event, created, stale, astray, crossed, reopened, met>>
    BY <1>1 DEF Update, google, ghosts
  <2>8. QED BY <2>1, <2>3, <2>4, <2>6, <2>7, PassesOn
<1>2. ASSUME (Adopt(w) /\ job[w].event \notin On(job[w].to)) \/ GoogleFails(w) PROVE CalendarInv'
  <2>1. job[w].visit \in Visits /\ IsVisits(job[w])
    BY <1>0, <1>2, JobKinds DEF Adopt, GoogleFails, IsVisits
  <2>2. PICK j : j = [at |-> "failing", visit |-> job[w].visit] /\ Do(w, j)
    BY <1>2 DEF Adopt, GoogleFails, Throws
  <2>3. j \in Jobs /\ j.at \in {"failing", "removed"} /\ j.visit = job[w].visit /\ j # Idle
    BY <2>1, <2>2, JobsOf DEF EndingJobs, Idle
  <2>4. UNCHANGED <<row, event, created, stale, astray, crossed, reopened, met>>
    BY <1>2 DEF Adopt, GoogleFails, google, ghosts
  <2>5. Shrinks
    BY <2>4, SameShrinks
  <2>6. \A v \in Visits : row[v] # Blank /\ row'[v] = Blank => job[w].visit = v
    BY <2>4
  <2>7. QED BY <2>1, <2>2, <2>3, <2>4, <2>5, <2>6, FailSteps
<1>3. ASSUME Fail(w) \/ DropRow(w) PROVE CalendarInv'
  <2>1. job[w].visit \in Visits /\ IsVisits(job[w])
    BY <1>0, <1>3, JobKinds DEF Fail, DropRow, IsVisits
  <2>2. Do(w, Idle) /\ met' = met \ {w}
        /\ UNCHANGED <<event, created, stale, astray, crossed, reopened>>
    BY <1>3 DEF Fail, DropRow, Ends, google
  <2>3. \A u \in Visits :
           /\ row'[u] # Blank => /\ row[u] # Blank /\ row'[u].event = row[u].event
                                 /\ row'[u].cal = row[u].cal /\ row'[u].status = row[u].status
                                 /\ row'[u].day = row[u].day
                                 /\ row'[u].sync = "synced" => row[u].sync = "synced"
           /\ row[u] # Blank /\ row'[u] = Blank => job[w].visit = u
    <3>1. CASE Fail(w)
      <4>1. row[job[w].visit] # Blank => [row[job[w].visit] EXCEPT !.sync = "failed"] \in Row
        BY <1>0, <2>1 DEF Row
      <4>2. \A u \in Visits : row'[u] = IF u = job[w].visit /\ row[u] # Blank
                                        THEN [row[u] EXCEPT !.sync = "failed"] ELSE row[u]
        BY <1>0, <2>1, <3>1 DEF Fail
      <4>3. QED BY <1>0, <4>1, <4>2 DEF Row
    <3>2. CASE DropRow(w)
      BY <1>0, <2>1, <3>2 DEF DropRow
    <3>3. QED BY <1>3, <3>1, <3>2
  <2>4. Shrinks
    BY <2>2, <2>3 DEF Shrinks
  <2>5. Idle \in Jobs
    BY JobsOf
  <2>6. QED BY <2>1, <2>2, <2>3, <2>4, <2>5, FailSteps
<1>4. QED BY <1>1, <1>2, <1>3

\* Events that go: the visits that keep them, and those whose sync has one in hand, are
\* left astray.
LEMMA DeletedShrinks ==
    ASSUME CalendarInv, NEW es, event' = Without(es), UNCHANGED <<row, created>>,
           stale \subseteq stale', astray \subseteq astray', crossed \subseteq crossed',
           reopened \subseteq reopened', Keeping(es) \subseteq astray'
    PROVE  Shrinks
<1>1. \A e \in Events : event'[e] = IF e \in es THEN Blank ELSE event[e]
  BY DEF Without
<1>2. ASSUME NEW u \in Visits, Standing(u), row[u].sync = "synced", u \notin stale \cup Adrift,
             u \notin Adrift', row[u].event # Blank
      PROVE  event'[row[u].event] = event[row[u].event]
  <2>1. row[u].event \in Events
    BY <1>2, SettledEvent
  <2>2. row[u].event \notin es
    BY <1>2 DEF Keeping, Standing, Adrift
  <2>3. QED BY <1>1, <2>1, <2>2
<1>3. QED BY <1>1, <1>2 DEF Shrinks

\* A sync leaves the event that is on another calendar.
LEMMA EvictStep == ASSUME CalendarInv, Typed', NEW w \in Syncs, Evict(w) PROVE CalendarInv'
<1>1. job[w].at = "evicting" /\ job[w].at \in Writing /\ job[w].at \notin Carrying
  BY DEF Evict, Writing, Carrying
<1>2. /\ job[w] \in WritingJobs /\ IsVisits(job[w]) /\ Knows(job[w]) /\ Holds(w, job[w])
      /\ job[w].visit \in Visits
  BY <1>1, InHand
<1>3. PICK e : /\ e = job[w].event
               /\ astray' = astray \cup {job[w].visit} \cup Keeping({e}) \cup Visiting(Rivals(w, e))
               /\ met' = met \cup Rivals(w, e)
               /\ event' = Without({e} \cap On(job[w].seen.cal)) \/ UNCHANGED event
  BY DEF Evict
<1>4. UNCHANGED <<row, created, stale, crossed, reopened>> /\ astray \subseteq astray' /\ met \subseteq met'
  BY <1>3 DEF Evict
<1>5. Shrinks
  <2>1. CASE UNCHANGED event
    BY <1>4, <2>1, SameShrinks
  <2>2. CASE event' = Without({e} \cap On(job[w].seen.cal))
    <3>1. PICK es : es = {e} \cap On(job[w].seen.cal)
      OBVIOUS
    <3>2. Keeping(es) \subseteq astray'
      BY <1>3, <3>1 DEF Keeping
    <3>3. QED BY <1>4, <2>2, <3>1, <3>2, DeletedShrinks
  <2>3. QED BY <1>3, <2>1, <2>2
<1>a. "finding" \in Writing /\ Blank \in Events \cup {Blank}
  BY Stages
<1>6. PICK j : j = Then(job[w], "finding", Blank) /\ Do(w, j)
  BY DEF Evict, GoesWith, Then
<1>7. /\ j \in WritingJobs /\ j \in Jobs /\ IsVisits(j) /\ j # Idle /\ j.at = "finding"
      /\ j.visit = job[w].visit /\ j.seen = job[w].seen /\ j.event = Blank
  BY <1>2, <1>6, <1>a, NextJob
<1>8. Knows(j)
  BY <1>2, <1>7, KnowsOn
<1>9. Hand(w, j)'
  BY <1>3, <1>4, <1>5, <1>7, <1>8, QuietHand
<1>10. \A x \in Rivals(w, e) :
          IsVisits(job[x]) /\ job[x].visit \in astray' /\ job[x].visit # job[w].visit
  BY <1>3 DEF Rivals, Visiting, IsVisits, Carrying
<1>11. \A x \in Syncs \ {w} : x \in met' =>
          /\ x \in met \/ IsVisits(job[x])
          /\ IsVisits(job[x]) => job[x].visit \in astray' \cup crossed'
  BY <1>3, <1>4, <1>10 DEF CalendarInv, MetTrue
<1>12. MetTrue'
  <2>1. w \in met' => j # Idle
    BY <1>7
  <2>2. w \in met' /\ IsVisits(j) => j.visit \in astray' \cup crossed'
    BY <1>3, <1>7
  <2>3. met \ {w} \subseteq met' /\ met \subseteq met'
    BY <1>4
  <2>4. QED BY <1>2, <1>6, <1>7, <1>11, <2>1, <2>2, <2>3, MetKeeps
<1>13. RowHand' /\ HandHand'
  <2>1. \A f \in Events : ~Carries(j, f)
    BY <1>7, CalendarSyncAssumption DEF Carries
  <2>2. \A v \in Visits : Standing(v)' =>
           v \in reopened' \/ (Standing(v) /\ row'[v].event = row[v].event)
    BY <1>4 DEF Standing
  <2>3. crossed \subseteq crossed' /\ reopened \subseteq reopened' /\ met \ {w} \subseteq met' /\ met \subseteq met'
    BY <1>4
  <2>4. QED BY <1>6, <1>7, <2>1, <2>2, <2>3, CarryKeeps
<1>14. ASSUME NEW x \in Syncs \ {w}, NEW f \in Events, job[x].at = "storing",
              job[x].seen.status = "booked", job[x].event = f, event'[f] # event[f]
       PROVE  x \in met'
  <2>1. f = e
    BY <1>3, <1>14 DEF Without
  <2>2. IsVisits(job[x]) /\ job[x].at \in Carrying
    BY <1>14 DEF IsVisits, Carrying
  <2>3. CASE job[x].visit = job[w].visit
    BY <1>2, <1>4, <2>2, <2>3 DEF CalendarInv, MetTrue, Together
  <2>4. CASE job[x].visit # job[w].visit
    BY <1>3, <1>14, <2>1, <2>2, <2>4 DEF Rivals
  <2>5. QED BY <2>3, <2>4
<1>15. \A u \in Visits : ~(row[u] # Blank /\ row'[u] = Blank)
  BY <1>4
<1>16. \A x \in Syncs \ {w} : x \in met => x \in met'
  BY <1>4
<1>17. QED BY <1>5, <1>6, <1>7, <1>9, <1>12, <1>13, <1>14, <1>15, <1>16, ShrinkStep

\* A removal deletes the event of its visit, or fails to.
LEMMA RemoveStep == ASSUME CalendarInv, Typed', NEW w \in Syncs, Remove(w) PROVE CalendarInv'
<1>0. job[w] \in Jobs /\ row \in [Visits -> Row \cup {Blank}] /\ Blank \notin Row
  BY Fields, CalendarSyncAssumption DEF CalendarInv, Typed, CalendarTypeOK
<1>1. IsVisits(job[w]) /\ job[w].visit \in Visits /\ job[w].at \in {"cancelling", "removing"}
  BY <1>0, JobKinds DEF Remove, IsVisits
<1>2. PICK j : /\ Do(w, j)
               /\ \/ job[w].at = "removing" /\ j = [at |-> "removed", visit |-> job[w].visit]
                  \/ job[w].at = "cancelling" /\ j = Idle
  BY <1>1 DEF Remove
<1>3. /\ j \in Jobs /\ (j = Idle \/ (j.at \in {"failing", "removed"} /\ j.visit = job[w].visit))
      /\ j = Idle <=> job[w].at # "removing"
  BY <1>1, <1>2, JobsOf DEF EndingJobs, Idle
<1>4. PICK es, rivals, mets :
         /\ es = Removes(job[w].visit, job[w].event) /\ rivals = UNION {Rivals(w, e) : e \in es}
         /\ mets = IF j = Idle THEN met \ {w} ELSE met
         /\ \/ /\ event' = Without(es) /\ UNCHANGED row
               /\ astray' = astray \cup {job[w].visit} \cup Keeping(es) \cup Visiting(rivals)
               /\ met' = mets \cup rivals
            \/ /\ UNCHANGED <<event, astray>> /\ met' = mets
               /\ row' = IF row[job[w].visit] = Blank THEN row
                         ELSE [row EXCEPT ![job[w].visit].sync = "failed"]
  BY <1>3 DEF Remove
<1>5. UNCHANGED <<created, stale, crossed, reopened>>
  BY DEF Remove
<1>6. CASE /\ UNCHANGED <<event, astray>> /\ met' = mets
           /\ row' = IF row[job[w].visit] = Blank THEN row
                     ELSE [row EXCEPT ![job[w].visit].sync = "failed"]
  <2>1. row[job[w].visit] # Blank => [row[job[w].visit] EXCEPT !.sync = "failed"] \in Row
    BY <1>0, <1>1 DEF Row
  <2>2. \A u \in Visits : row'[u] = IF u = job[w].visit /\ row[u] # Blank
                                    THEN [row[u] EXCEPT !.sync = "failed"] ELSE row[u]
    BY <1>0, <1>1, <1>6
  <2>3. \A u \in Visits :
           /\ row'[u] # Blank => /\ row[u] # Blank /\ row'[u].event = row[u].event
                                 /\ row'[u].cal = row[u].cal /\ row'[u].status = row[u].status
                                 /\ row'[u].day = row[u].day
                                 /\ row'[u].sync = "synced" => row[u].sync = "synced"
           /\ ~(row[u] # Blank /\ row'[u] = Blank)
    BY <1>0, <2>1, <2>2 DEF Row
  <2>4. Shrinks
    BY <1>5, <1>6, <2>3 DEF Shrinks
  <2>5. met' = IF j = Idle THEN met \ {w} ELSE met
    BY <1>4, <1>6
  <2>6. \A v \in Visits : row[v] # Blank /\ row'[v] = Blank => job[w].visit = v
    BY <2>3
  <2>7. QED BY <1>1, <1>2, <1>3, <1>6, <2>4, <2>5, <2>6, FailSteps
<1>7. CASE /\ event' = Without(es) /\ UNCHANGED row
           /\ astray' = astray \cup {job[w].visit} \cup Keeping(es) \cup Visiting(rivals)
           /\ met' = mets \cup rivals
  <2>1. astray \subseteq astray' /\ Keeping(es) \subseteq astray' /\ job[w].visit \in astray'
        /\ \A x \in rivals : job[x].visit \in astray'
    BY <1>7 DEF Visiting
  <2>2. Shrinks
    BY <1>5, <1>7, <2>1, DeletedShrinks
  <2>3. \A x \in rivals : x \in Syncs /\ IsVisits(job[x]) /\ x # w
    BY <1>4 DEF Rivals, IsVisits, Carrying
  <2>4. met \ {w} \subseteq met' /\ (j = Idle \/ met \subseteq met')
    BY <1>4, <1>7
  <2>5. \A x \in Syncs \ {w} : x \in met' =>
           /\ x \in met \/ IsVisits(job[x])
           /\ IsVisits(job[x]) => job[x].visit \in astray' \cup crossed'
    BY <1>4, <1>5, <1>7, <2>1, <2>3 DEF CalendarInv, MetTrue
  <2>6. w \in met' => j # Idle
    BY <1>4, <1>7, <2>3
  <2>7. w \in met' /\ IsVisits(j) => j.visit \in astray' \cup crossed'
    BY <1>3, <2>1, <2>6
  <2>8. \/ j = Idle
        \/ IsVisits(j) /\ IsVisits(job[w]) /\ j.visit = job[w].visit
    BY <1>1, <1>3 DEF IsVisits
  <2>9. MetTrue'
    BY <1>2, <1>3, <2>4, <2>5, <2>6, <2>7, <2>8, MetKeeps
  <2>10. RowHand' /\ HandHand'
    <3>1. \A f \in Events : ~Carries(j, f)
      BY <1>3 DEF Carries, Carrying, Idle
    <3>2. \A v \in Visits : Standing(v)' =>
             v \in reopened' \/ (Standing(v) /\ row'[v].event = row[v].event)
      BY <1>7 DEF Standing
    <3>3. crossed \subseteq crossed' /\ reopened \subseteq reopened'
      BY <1>5
    <3>4. QED BY <1>2, <1>3, <2>4, <3>1, <3>2, <3>3, CarryKeeps
  <2>11. Hand(w, j)'
    BY <1>3, FreeHand DEF Idle
  <2>12. ASSUME NEW x \in Syncs \ {w}, NEW f \in Events, job[x].at = "storing",
                job[x].seen.status = "booked", job[x].event = f, event'[f] # event[f]
         PROVE  x \in met'
    <3>1. f \in es
      BY <1>7, <2>12 DEF Without
    <3>2. IsVisits(job[x]) /\ job[x].at \in Carrying
      BY <2>12 DEF IsVisits, Carrying
    <3>3. CASE job[x].visit = job[w].visit
      <4>1. x \in met
        BY <1>1, <3>2, <3>3 DEF CalendarInv, MetTrue, Together
      <4>2. QED BY <2>4, <4>1
    <3>4. CASE job[x].visit # job[w].visit
      BY <1>4, <1>7, <2>12, <3>1, <3>2, <3>4 DEF Rivals
    <3>5. QED BY <3>3, <3>4
  <2>13. \A u \in Visits : ~(row[u] # Blank /\ row'[u] = Blank)
    BY <1>7
  <2>14. \A x \in Syncs \ {w} : x \in met => x \in met'
    BY <2>4
  <2>15. QED BY <1>2, <1>3, <2>2, <2>9, <2>10, <2>11, <2>12, <2>13, <2>14, ShrinkStep
<1>8. QED BY <1>4, <1>6, <1>7

\* A repair begins, or ends.
LEMMA RepairSteps ==
    ASSUME CalendarInv, Typed', NEW w \in Syncs, ReconcileList(w) \/ RepairEnds(w)
    PROVE  CalendarInv'
<1>1. CASE RepairEnds(w)
  <2>1. /\ Do(w, Idle) /\ met' = met \ {w}
        /\ UNCHANGED <<row, event, created, stale, astray, crossed, reopened>>
    BY <1>1 DEF RepairEnds, Ends, google
  <2>2. Shrinks
    BY <2>1, SameShrinks
  <2>3. Idle \in Jobs /\ Idle.at = "idle" /\ \A f \in Events : ~Carries(Idle, f)
    BY JobsOf DEF Idle, Carries, Carrying
  <2>4. Hand(w, Idle)'
    BY <2>3, FreeHand
  <2>5. MetTrue'
    <3>1. \A x \in Syncs \ {w} : x \in met' =>
             /\ x \in met \/ IsVisits(job[x])
             /\ IsVisits(job[x]) => job[x].visit \in astray' \cup crossed'
      BY <2>1 DEF CalendarInv, MetTrue
    <3>2. w \notin met' /\ met \ {w} \subseteq met'
      BY <2>1
    <3>3. QED BY <2>1, <2>3, <3>1, <3>2, MetKeeps
  <2>6. QED BY <2>1, <2>2, <2>3, <2>4, <2>5, QuietStep
<1>2. CASE ReconcileList(w)
  <2>1. PICK j : /\ Starts(w, j)
                 /\ j = [at |-> "reconciling", kept |-> {},
                         todo |-> {<<e, event[e].tag, event[e].cal>> :
                               e \in {f \in Live("shared") \cup Live(home) : event[f].tag # Blank}}]
    BY <1>2 DEF ReconcileList
  <2>2. /\ Do(w, j) /\ Meets(w, Visits) /\ astray' = astray \cup Engaged(w)
        /\ UNCHANGED <<row, event, created, stale, crossed, reopened>>
    BY <1>2, <2>1 DEF ReconcileList, Starts, google
  <2>3. IsRepair(j) /\ ~IsVisits(j) /\ \A f \in Events : ~Carries(j, f)
    BY <2>1 DEF IsRepair, IsVisits, Carries, Carrying
  <2>4. j \in Jobs
    <3>1. \A e \in {f \in Live("shared") \cup Live(home) : event[f].tag # Blank} :
             <<e, event[e].tag, event[e].cal>> \in Events \X Visits \X Calendars
      BY DEF CalendarInv, Typed, CalendarTypeOK, Live, On, Event
    <3>2. j \in ReconcileJobs
      BY <2>1, <3>1 DEF ReconcileJobs
    <3>3. QED BY <3>2, JobsOf
  <2>5. Shrinks
    BY <2>2, SameShrinks
  <2>6. met \subseteq met' /\ met \ {w} \subseteq met'
    BY <2>2 DEF Meets
  <2>7. MetTrue'
    BY <2>1, <2>2, <2>3, <2>4, MetStarts
  <2>8. Lists(j)
    <3>1. ASSUME NEW t \in j.todo
          PROVE  /\ t[1] \in Events /\ t = <<t[1], event[t[1]].tag, event[t[1]].cal>>
                 /\ event[t[1]] # Blank /\ event[t[1]].live /\ event[t[1]].cal \in Calendars
                 /\ event[t[1]].tag \in Visits
      <4>1. PICK e \in Live("shared") \cup Live(home) :
               t = <<e, event[e].tag, event[e].cal>> /\ event[e].tag # Blank
        BY <2>1
      <4>2. QED BY <4>1 DEF CalendarInv, Typed, CalendarTypeOK, Live, On, Event
    <3>2. ASSUME NEW t \in j.todo, NEW s \in j.todo, s[2] = t[2], s[3] = t[3], t[2] \notin Adrift
          PROVE  s = t
      <4>1. PICK v \in Visits, cal \in Calendars : v = t[2] /\ cal = t[3]
        BY <3>1
      <4>2. t[1] \in Tagged(v, cal) /\ s[1] \in Tagged(v, cal)
        BY <3>1, <3>2, <4>1 DEF Tagged, Live, On
      <4>3. t[1] = s[1]
        BY <3>2, <4>1, <4>2 DEF CalendarInv, OneEach
      <4>4. QED BY <3>1, <4>3
    <3>3. j.kept = {}
      BY <2>1
    <3>4. \A t \in j.todo : t[1] <= created
      BY <3>1 DEF CalendarInv, EventsIssued
    <3>5. \A t \in j.todo : t[2] = event[t[1]].tag /\ t[3] = event[t[1]].cal
      BY <3>1
    <3>6. QED BY <3>2, <3>3, <3>4, <3>5 DEF Lists
  <2>9. Hand(w, j)
    BY <2>1, <2>8 DEF Hand, Writing, Carrying
  <2>10. Hand(w, j)'
    <3>1. j.at \notin {"resolving"} \cup Writing /\ j.at # "storing"
      BY <2>1 DEF Writing, Carrying
    <3>2. w \notin met' => w \notin met
      BY <2>6
    <3>3. QED BY <2>4, <2>5, <2>9, <3>1, <3>2, ShrinkHand
  <2>11. \A u \in Visits : ~(row[u] # Blank /\ row'[u] = Blank)
    BY <2>2
  <2>12. QED BY <2>2, <2>3, <2>4, <2>5, <2>6, <2>7, <2>10, <2>11, QuietStep
<1>3. QED BY <1>1, <1>2

\* A repair that goes on, while it deletes events at most: all others have met it.
LEMMA RepairOn ==
    ASSUME CalendarInv, Typed', Shrinks, UNCHANGED <<row, met>>, NEW w \in Syncs, NEW j \in Jobs,
           Do(w, j), IsRepair(job[w]), IsRepair(j), Hand(w, j)'
    PROVE  CalendarInv'
<1>1. ~IsVisits(j) /\ j # Idle /\ \A f \in Events : ~Carries(j, f)
  BY DEF IsRepair, IsVisits, Carries, Carrying, Idle
<1>2. MetTrue /\ astray \subseteq astray' /\ crossed \subseteq crossed' /\ reopened \subseteq reopened'
  BY DEF CalendarInv, Shrinks
<1>3. MetTrue'
  <2>1. \A x \in Syncs \ {w} : x \in met' =>
           /\ x \in met \/ IsVisits(job[x])
           /\ IsVisits(job[x]) => job[x].visit \in astray' \cup crossed'
    BY <1>2 DEF MetTrue
  <2>2. met \ {w} \subseteq met' /\ met \subseteq met'
    OBVIOUS
  <2>3. QED BY <1>1, <2>1, <2>2, MetKeeps
<1>4. RowHand' /\ HandHand'
  <2>1. \A v \in Visits : Standing(v)' =>
           v \in reopened' \/ (Standing(v) /\ row'[v].event = row[v].event)
    BY DEF Standing
  <2>2. met \ {w} \subseteq met' /\ met \subseteq met'
    OBVIOUS
  <2>3. QED BY <1>1, <1>2, <2>1, <2>2, CarryKeeps
<1>5. ASSUME NEW x \in Syncs \ {w}, NEW f \in Events, job[x].at = "storing",
             job[x].seen.status = "booked", job[x].event = f, event'[f] # event[f]
      PROVE  x \in met'
  <2>1. Together(job[x], job[w])
    BY <1>5 DEF Together
  <2>2. QED BY <1>2, <2>1 DEF MetTrue
<1>6. \A u \in Visits : ~(row[u] # Blank /\ row'[u] = Blank)
  OBVIOUS
<1>7. \A x \in Syncs \ {w} : x \in met => x \in met'
  OBVIOUS
<1>8. QED BY <1>3, <1>4, <1>5, <1>6, <1>7, ShrinkStep

\* One event of a reconciliation: no settled visit's goes.
LEMMA ReconcileStep ==
    ASSUME CalendarInv, Typed', NEW w \in Syncs, NEW e, NEW v, NEW cal, ReconcileEvent(w, e, v, cal)
    PROVE  CalendarInv'
<1>1. job[w].at = "reconciling" /\ job[w] \in ReconcileJobs /\ <<e, v, cal>> \in job[w].todo
  <2>1. job[w] \in Jobs
    BY Fields DEF CalendarInv, Typed
  <2>2. QED BY <2>1, JobKinds DEF ReconcileEvent
<1>2. e \in Events /\ v \in Visits /\ cal \in Calendars /\ Lists(job[w])
  BY <1>1 DEF ReconcileJobs, CalendarInv, Hands, Hand
<1>3. UNCHANGED <<row, created, stale, astray, crossed, reopened, met>>
  BY DEF ReconcileEvent, ghosts
<1>4. PICK gone \in BOOLEAN :
         /\ gone = (row[v] = Blank \/ Moved(v, cal) \/ (row[v].status = "booked" /\ <<v, cal>> \in job[w].kept))
         /\ event' = IF gone THEN Without({e}) ELSE event
         /\ Do(w, [job[w] EXCEPT !.todo = @ \ {<<e, v, cal>>},
                                !.kept = IF gone \/ row[v].status = "cancelled" THEN @
                                         ELSE @ \cup {<<v, cal>>}])
  BY DEF ReconcileEvent
<1>5. \A f \in Events : event'[f] = event[f] \/ (gone /\ f = e /\ event'[f] = Blank)
  BY <1>4 DEF Without
<1>6. Shrinks
  <2>1. ASSUME NEW u \in Visits, Standing(u), row[u].sync = "synced", u \notin stale \cup Adrift
        PROVE  event'[row[u].event] = event[row[u].event]
    <3>1. /\ row[u].event \in Events
          /\ event[row[u].event].cal = row[u].cal /\ event[row[u].event].tag = u
      BY <2>1, SettledEvent
    <3>2. CASE row[u].event # e
      BY <1>5, <3>1, <3>2
    <3>3. CASE event[e] = Blank
      BY <1>5, <3>1, <3>3
    <3>4. CASE row[u].event = e /\ event[e] # Blank
      <4>1. v = u /\ event[e].cal = cal /\ <<v, cal>> \notin job[w].kept
        <5>1. PICK t \in job[w].todo : t = <<e, v, cal>>
          BY <1>1
        <5>2. t[1] = e /\ t[2] = v /\ t[3] = cal
          BY <5>1
        <5>3. event[e].cal = cal /\ v = u
          BY <1>2, <2>1, <3>1, <3>4, <5>2 DEF Lists
        <5>4. <<v, cal>> \notin job[w].kept
          BY <1>2, <2>1, <5>2, <5>3 DEF Lists
        <5>5. QED BY <5>3, <5>4
      <4>2. ~gone
        BY <1>4, <2>1, <3>1, <3>4, <4>1 DEF Moved, Standing
      <4>3. QED BY <1>5, <3>1, <4>2
    <3>5. QED BY <3>2, <3>3, <3>4
  <2>2. QED BY <1>3, <1>5, <2>1 DEF Shrinks
<1>7. PICK kept : /\ kept \in {job[w].kept, job[w].kept \cup {<<v, cal>>}}
                  /\ Do(w, [job[w] EXCEPT !.todo = @ \ {<<e, v, cal>>}, !.kept = kept])
  BY <1>4
<1>8. PICK j : j = [job[w] EXCEPT !.todo = @ \ {<<e, v, cal>>}, !.kept = kept]
  OBVIOUS
<1>9. /\ j \in ReconcileJobs /\ j.at = "reconciling" /\ j.todo = job[w].todo \ {<<e, v, cal>>}
      /\ j.kept = kept
  <2>1. kept \in SUBSET (Visits \X Calendars)
    BY <1>1, <1>2, <1>7 DEF ReconcileJobs
  <2>2. QED BY <1>1, <1>8, <2>1 DEF ReconcileJobs
<1>10. j \in Jobs /\ IsRepair(j) /\ IsRepair(job[w]) /\ Do(w, j)
  BY <1>1, <1>7, <1>8, <1>9, JobsOf DEF IsRepair
<1>11. Lists(j)
  <2>1. SUFFICES ASSUME NEW t \in j.todo
                 PROVE  /\ t[1] <= created
                        /\ event[t[1]] # Blank => event[t[1]].cal = t[3]
                        /\ event[t[1]] # Blank /\ event[t[1]].tag \in Visits \ Adrift => t[2] = event[t[1]].tag
                        /\ t[2] \notin Adrift =>
                              /\ <<t[2], t[3]>> \notin j.kept
                              /\ \A s \in j.todo : s[2] = t[2] /\ s[3] = t[3] => s = t
    BY DEF Lists
  <2>2. t \in job[w].todo /\ t # <<e, v, cal>>
    BY <1>9, <2>1
  <2>3. ASSUME t[2] \notin Adrift PROVE <<t[2], t[3]>> \notin j.kept
    <3>1. <<t[2], t[3]>> \notin job[w].kept
      BY <1>2, <2>2, <2>3 DEF Lists
    <3>2. CASE <<t[2], t[3]>> = <<v, cal>>
      <4>1. PICK s \in job[w].todo : s = <<e, v, cal>>
        BY <1>1
      <4>2. s[2] = t[2] /\ s[3] = t[3]
        BY <3>2, <4>1
      <4>3. s = t
        BY <1>2, <2>2, <2>3, <4>2 DEF Lists
      <4>4. QED BY <2>2, <4>1, <4>3
    <3>3. QED BY <1>7, <1>9, <3>1, <3>2
  <2>4. QED BY <1>2, <1>9, <2>2, <2>3 DEF Lists
<1>12. Hand(w, j)
  BY <1>9, <1>11 DEF Hand, Writing, Carrying
<1>13. Hand(w, j)'
  <2>1. j.at \notin {"resolving"} \cup Writing /\ j.at # "storing"
    BY <1>9 DEF Writing, Carrying
  <2>2. w \notin met' => w \notin met
    BY <1>3
  <2>3. QED BY <1>6, <1>10, <1>12, <2>1, <2>2, ShrinkHand
<1>14. QED BY <1>3, <1>6, <1>10, <1>13, RepairOn

\* Everything on the shared calendar goes; whose it was is left astray.
LEMMA WipeStep == ASSUME CalendarInv, Typed', NEW w \in Syncs, RestoreWipe(w) PROVE CalendarInv'
<1>1. PICK j : /\ Starts(w, j)
               /\ j = [at |-> "restoring",
                       seen |-> [v \in Visits |-> IF row[v] = Blank THEN Blank ELSE Seen(v)],
                       todo |-> {v \in Visits : row[v] # Blank}]
  BY DEF RestoreWipe
<1>2. /\ Do(w, j) /\ Meets(w, Visits) /\ event' = Without(Live("shared"))
      /\ UNCHANGED <<row, created, stale, crossed, reopened>>
      /\ astray' = astray \cup Engaged(w) \cup ({event[e].tag : e \in Live("shared")} \ {Blank})
  BY <1>1 DEF RestoreWipe, Starts
<1>3. j.at = "restoring" /\ IsRepair(j) /\ ~IsVisits(j) /\ \A f \in Events : ~Carries(j, f)
  BY <1>1 DEF IsRepair, IsVisits, Carries, Carrying
<1>4. j \in Jobs
  <2>1. \A v \in Visits : row[v] # Blank => Seen(v) \in Known
    BY SeenTyped DEF CalendarInv, Typed
  <2>2. j \in RestoreJobs
    BY <1>1, <2>1 DEF RestoreJobs
  <2>3. QED BY <2>2, JobsOf
<1>5. \A e \in Events : event'[e] = IF e \in Live("shared") THEN Blank ELSE event[e]
  BY <1>2 DEF Without
<1>6. Shrinks
  <2>1. ASSUME NEW u \in Visits, Standing(u), row[u].sync = "synced", u \notin stale \cup Adrift,
               u \notin Adrift'
        PROVE  event'[row[u].event] = event[row[u].event]
    <3>1. row[u].event \in Events /\ event[row[u].event].tag = u /\ u # Blank
      BY <2>1, SettledEvent, CalendarSyncAssumption
    <3>2. row[u].event \notin Live("shared")
      BY <1>2, <2>1, <3>1 DEF Adrift
    <3>3. QED BY <1>5, <3>1, <3>2
  <2>2. QED BY <1>2, <1>5, <2>1 DEF Shrinks
<1>7. met \subseteq met' /\ met \ {w} \subseteq met'
  BY <1>2 DEF Meets
<1>8. MetTrue'
  BY <1>1, <1>2, <1>3, <1>4, MetStarts
<1>9. RowHand' /\ HandHand'
  <2>1. \A v \in Visits : Standing(v)' =>
           v \in reopened' \/ (Standing(v) /\ row'[v].event = row[v].event)
    BY <1>2 DEF Standing
  <2>2. crossed \subseteq crossed' /\ reopened \subseteq reopened'
    BY <1>2
  <2>3. QED BY <1>2, <1>3, <1>4, <1>7, <2>1, <2>2, CarryKeeps
<1>10. Hand(w, j)'
  <2>1. \A v \in Visits : Tagged(v, "shared")' = {}
    BY <1>5 DEF Tagged, Live, On
  <2>2. j.todo \subseteq Visits
    BY <1>1
  <2>3. QED BY <1>3, <2>1, <2>2 DEF Hand, Writing, Carrying
<1>11. ASSUME NEW x \in Syncs \ {w}, NEW f \in Events, job[x].at = "storing",
              job[x].seen.status = "booked", job[x].event = f, event'[f] # event[f]
       PROVE  x \in met'
  <2>1. job[x].visit \in Visits /\ ~Repairing(x) /\ job[x] # Idle
    BY <1>11, InHand, Stages DEF Repairing, Idle
  <2>2. x \in Beside(w, Visits)
    BY <1>11, <2>1 DEF Beside, Serves
  <2>3. QED BY <1>2, <2>2 DEF Meets
<1>12. \A u \in Visits : ~(row[u] # Blank /\ row'[u] = Blank)
  BY <1>2
<1>13. \A x \in Syncs \ {w} : x \in met => x \in met'
  BY <1>7
<1>14. QED BY <1>2, <1>4, <1>6, <1>8, <1>9, <1>10, <1>11, <1>12, <1>13, ShrinkStep

\* What a worker may do to others: it writes one event, one visit's row and ghosts.
\* An event it writes is new, or it has it in hand; it mends if it met nobody.
Writes(w, v, e) ==
    /\ created' \in Nat /\ created <= created'
    /\ \A u \in Visits \ {v} : /\ row'[u] = row[u]
                               /\ u \in astray' <=> u \in astray
                               /\ u \in crossed' <=> u \in crossed
                               /\ u \in reopened' <=> u \in reopened
    /\ w \in met => astray \subseteq astray' /\ crossed \subseteq crossed' /\ reopened \subseteq reopened'
    /\ \A x \in Syncs \ {w} : x \in met' <=> x \in met
    /\ \A u \in Visits : Standing(u)' => Standing(u)
    /\ \A f \in Events \ {e} : event'[f] = event[f]
    /\ \/ event'[e] = event[e]
       \/ e > created /\ event'[e].tag = v
       \/ /\ Carries(job[w], e) /\ event[e] # Blank /\ IsVisits(job[w])
          /\ event'[e].cal = event[e].cal /\ event'[e].tag = v

\* What other workers rely on survives that.
LEMMA OtherHand ==
    ASSUME CalendarInv, NEW w \in Syncs, NEW x \in Syncs, x # w, NEW v \in Visits, NEW e \in Events,
           Writes(w, v, e), (IsVisits(job[w]) /\ job[w].visit = v) \/ IsRepair(job[w])
    PROVE  \A k \in Jobs : k = job[x] => Hand(x, k)'
<1> SUFFICES ASSUME NEW k \in Jobs, k = job[x] PROVE Hand(x, k)'
  OBVIOUS
<1>0. /\ created \in Nat /\ created' \in Nat /\ created <= created' /\ Hand(x, k) /\ MetTrue /\ HandHand /\ EventsIssued
      /\ Events \subseteq Nat /\ e \in Nat
  BY Fields DEF Writes, CalendarInv, Typed, Hands
<1>1. CASE k.at \in {"idle", "failing", "removed", "cancelling", "removing"}
  BY <1>1, FreeHand
<1>2. CASE IsRepair(k)
  <2>1. x \in met /\ w \in met
    <3>1. job[w].at # "idle"
      BY DEF IsVisits, IsRepair
    <3>2. Together(job[x], job[w]) /\ Together(job[w], job[x])
      BY <1>2, <3>1 DEF Together, IsRepair
    <3>3. QED BY <1>0, <3>2 DEF MetTrue
  <2>2. x \in met' /\ Adrift \subseteq Adrift'
    BY <2>1 DEF Writes, Adrift, Lost
  <2>3. ASSUME k.at = "reconciling" PROVE Lists(k)'
    <3>1. Lists(k) /\ k.todo \subseteq Events \X Visits \X Calendars
      BY <1>0, <2>3, JobKinds DEF Hand, ReconcileJobs
    <3>2. SUFFICES ASSUME NEW t \in k.todo
                   PROVE  /\ t[1] <= created'
                          /\ event'[t[1]] # Blank => event'[t[1]].cal = t[3]
                          /\ event'[t[1]] # Blank /\ event'[t[1]].tag \in Visits \ Adrift'
                                => t[2] = event'[t[1]].tag
                          /\ t[2] \notin Adrift' =>
                                /\ <<t[2], t[3]>> \notin k.kept
                                /\ \A s \in k.todo : s[2] = t[2] /\ s[3] = t[3] => s = t
      BY DEF Lists
    <3>3. PICK f \in Events : f = t[1]
      BY <3>1, <3>2
    <3>4. /\ f <= created /\ (event[f] # Blank => event[f].cal = t[3])
          /\ event[f] # Blank /\ event[f].tag \in Visits \ Adrift => t[2] = event[f].tag
          /\ t[2] \notin Adrift =>
                /\ <<t[2], t[3]>> \notin k.kept
                /\ \A s \in k.todo : s[2] = t[2] /\ s[3] = t[3] => s = t
      BY <3>1, <3>2, <3>3 DEF Lists
    <3>5. f <= created'
      <4>1. f \in Nat /\ created' \in Nat
        BY <1>0, <3>3
      <4>2. QED BY <1>0, <3>4, <4>1
    <3>6. CASE event'[f] = event[f]
      BY <2>2, <3>3, <3>4, <3>5, <3>6
    <3>7. CASE f = e /\ event'[f] # event[f]
      <4>1. ~(e > created)
        BY <1>0, <3>4, <3>7
      <4>2. /\ event[e] # Blank /\ IsVisits(job[w]) /\ event'[e].cal = event[e].cal
            /\ event'[e].tag = v
        BY <3>7, <4>1 DEF Writes
      <4>3. v \in Adrift'
        <5>1. job[w].visit = v
          BY <4>2 DEF IsVisits, IsRepair
        <5>2. v \in astray \cup crossed
          BY <1>0, <2>1, <4>2, <5>1 DEF MetTrue
        <5>3. QED BY <2>2, <5>2 DEF Adrift, Lost
      <4>4. QED BY <2>2, <3>3, <3>4, <3>5, <3>7, <4>2, <4>3
    <3>8. QED BY <3>3, <3>6, <3>7 DEF Writes
  <2>4. QED BY <1>2, <2>2, <2>3 DEF Hand, IsRepair, Writing, Carrying
<1>3. CASE k.at \in {"resolving"} \cup Writing
  <2>0. PICK u \in Visits, g \in Events \cup {Blank}, seen \in Known :
           u = k.visit /\ seen = k.seen /\ seen.event = g
    BY <1>3, JobKinds DEF SyncJobs, WritingJobs, Known
  <2>1. Knows(k) /\ (k.at \in Writing => Holds(x, k)) /\ IsVisits(k)
    BY <1>0, <1>3 DEF Hand, IsVisits, Writing, Carrying
  <2>2. k.at \in Writing => k.event \in Events \cup {Blank} /\ k.to \in Calendars
    BY JobKinds DEF WritingJobs
  <2>n. \A f \in Events : f <= created => f <= created' /\ ~(f > created)
    BY <1>0
  <2>s. \A f \in Events : Carries(k, f) /\ Carries(job[w], f) /\ u # v /\ IsVisits(job[w])
           => x \in met' /\ u \in crossed'
    <3>1. IsVisits(job[w]) => job[w].visit = v
      BY DEF IsVisits, IsRepair
    <3>2. QED BY <1>0, <2>0, <3>1 DEF HandHand, Writes
  <2>3. CASE Together(job[x], job[w])
    <3>1. x \in met /\ w \in met /\ u \in astray \cup crossed
      BY <1>0, <2>0, <2>1, <2>3 DEF MetTrue, Together
    <3>2. x \in met' /\ u \in Adrift' /\ crossed \subseteq crossed' /\ reopened \subseteq reopened'
      BY <3>1 DEF Writes, Adrift, Lost
    <3>3. Knows(k)'
      <4>1. Standing(u)' /\ seen.status = "cancelled" => u \in reopened'
        BY <2>0, <2>1, <3>2 DEF Knows, Writes
      <4>2. seen.event # Blank => seen.event <= created'
        BY <2>0, <2>1, <2>n DEF Knows
      <4>3. QED BY <2>0, <3>2, <4>1, <4>2 DEF Knows
    <3>4. ASSUME k.at \in Writing PROVE Holds(x, k)'
      <4>1. PICK f \in Events \cup {Blank} : f = k.event
        BY <2>2, <3>4
      <4>2. f # Blank => f <= created'
        BY <2>1, <2>n, <3>4, <4>1 DEF Holds
      <4>3. /\ k.at \in {"evicting", "owning", "updating"} => f # Blank /\ f = k.seen.event
            /\ k.at = "adopting" => f # Blank
            /\ k.at = "creating" => k.seen.status = "booked"
        BY <2>1, <3>4, <4>1 DEF Holds
      <4>4. ASSUME k.at = "storing", k.seen.status = "booked"
            PROVE  f # Blank /\ (event'[f] # Blank /\ event'[f].tag # u => u \in crossed')
        <5>1. f # Blank /\ f \in Events /\ f <= created
              /\ (event[f] # Blank /\ event[f].tag # u => u \in crossed)
          BY <2>0, <2>1, <3>4, <4>1, <4>4 DEF Holds
        <5>2. CASE event'[f] = event[f]
          BY <3>2, <5>1, <5>2
        <5>3. CASE event'[f] # event[f]
          <6>1. f = e /\ Carries(job[w], e) /\ IsVisits(job[w]) /\ event'[e].tag = v
            BY <2>n, <5>1, <5>3 DEF Writes
          <6>2. Carries(k, e)
            BY <4>1, <4>4, <5>1, <6>1 DEF Carries, Carrying
          <6>3. QED BY <2>s, <5>1, <6>1, <6>2
        <5>4. QED BY <5>2, <5>3
      <4>5. QED BY <2>0, <3>2, <4>1, <4>2, <4>3, <4>4 DEF Holds
    <3>5. QED BY <1>3, <3>3, <3>4 DEF Hand, Writing, Carrying
  <2>4. CASE ~Together(job[x], job[w])
    <3>1. IsVisits(job[w]) /\ job[w].visit = v /\ u # v
      <4>1. ~IsRepair(job[w])
        BY <2>1, <2>4 DEF Together, IsVisits
      <4>2. QED BY <2>0, <2>1, <2>4, <4>1 DEF Together
    <3>2. /\ row'[u] = row[u] /\ (u \in Adrift' <=> u \in Adrift) /\ (x \in met' <=> x \in met)
          /\ (u \in crossed' <=> u \in crossed) /\ (u \in reopened' <=> u \in reopened)
          /\ Standing(u)' <=> Standing(u)
      BY <3>1 DEF Writes, Adrift, Lost, Standing
    <3>3. \A cal \in Calendars : Tagged(u, cal)' \subseteq Tagged(u, cal)
      <4>1. \A f \in Events : event'[f] = event[f] \/ event'[f].tag = v
        BY DEF Writes
      <4>2. QED BY <3>1, <4>1 DEF Tagged, Live, On
    <3>4. Knows(k)'
      <4>1. ASSUME NEW cal \in Calendars, g \in On(cal)' PROVE g \in On(cal)
        <5>1. g \in Events /\ event'[g] # Blank /\ event'[g].cal = cal
          BY <4>1 DEF On
        <5>2. g <= created
          BY <2>0, <2>1, <5>1, CalendarSyncAssumption DEF Knows
        <5>3. event'[g] = event[g] \/ (event[g] # Blank /\ event[g].cal = cal)
          BY <2>n, <5>1, <5>2 DEF Writes
        <5>4. QED BY <5>1, <5>3 DEF On
      <4>2. seen.event # Blank => seen.event <= created'
        BY <2>0, <2>1, <2>n DEF Knows
      <4>3. Standing(u)' /\ seen.status = "cancelled" => u \in reopened'
        BY <2>0, <2>1, <3>2 DEF Knows
      <4>4. ASSUME u \notin Adrift'
            PROVE  /\ row'[u] # Blank /\ row'[u].event = g
                   /\ row'[u].sync = "synced" => row'[u].day = seen.day
                   /\ k.at \in {"resolving", "owning", "updating"} /\ seen.status = "booked" =>
                         \A cal \in Calendars : g \in On(cal) => Tagged(u, cal) \subseteq {g}
        BY <2>0, <2>1, <3>2, <4>4 DEF Knows
      <4>5. ASSUME u \notin Adrift', k.at \in {"resolving", "owning", "updating"},
                   seen.status = "booked", NEW cal \in Calendars, g \in On(cal)'
            PROVE  Tagged(u, cal)' \subseteq {g}
        BY <3>3, <4>1, <4>4, <4>5
      <4>6. QED BY <2>0, <4>2, <4>3, <4>4, <4>5 DEF Knows
    <3>5. ASSUME k.at \in Writing PROVE Holds(x, k)'
      <4>1. PICK f \in Events \cup {Blank}, to \in Calendars : f = k.event /\ to = k.to
        BY <2>2, <3>5
      <4>2. f # Blank => f <= created'
        BY <2>1, <2>n, <3>5, <4>1 DEF Holds
      <4>3. /\ k.at \in {"evicting", "owning", "updating"} => f # Blank /\ f = k.seen.event
            /\ k.at = "adopting" => f # Blank
            /\ k.at = "creating" => k.seen.status = "booked"
        BY <2>1, <3>5, <4>1 DEF Holds
      <4>4. ASSUME k.at \in {"adopting", "storing"}, f # Blank, event'[f] # event[f]
            PROVE  x \in met' /\ u \in crossed' /\ u \in Adrift'
        <5>1. f = e /\ Carries(job[w], e)
          <6>1. f \in Events /\ f <= created
            BY <2>1, <3>5, <4>1, <4>4 DEF Holds
          <6>2. QED BY <2>n, <4>4, <6>1 DEF Writes
        <5>2. Carries(k, e)
          BY <4>1, <4>4, <5>1 DEF Carries, Carrying
        <5>3. QED BY <2>s, <3>1, <5>1, <5>2 DEF Adrift, Lost
      <4>5. ASSUME u \notin Adrift'
            PROVE  /\ k.at \in {"matching", "creating"} => Tagged(u, to)' = {}
                   /\ k.at = "adopting" =>
                         Tagged(u, to)' \subseteq {f} /\ (event'[f] # Blank => event'[f].live)
        <5>1. Tagged(u, to)' \subseteq Tagged(u, to) /\ u \notin Adrift
          BY <3>2, <3>3, <4>5
        <5>2. k.at \in {"matching", "creating"} => Tagged(u, to) = {}
          BY <2>0, <2>1, <3>5, <4>1, <5>1 DEF Holds
        <5>3. k.at = "adopting" => Tagged(u, to) \subseteq {f} /\ (event[f] # Blank => event[f].live)
          BY <2>0, <2>1, <3>5, <4>1, <5>1 DEF Holds
        <5>4. k.at = "adopting" => event'[f] = event[f]
          BY <4>3, <4>4, <4>5
        <5>5. QED BY <5>1, <5>2, <5>3, <5>4
      <4>6. ASSUME k.at = "storing", k.seen.status = "booked"
            PROVE  /\ f # Blank
                   /\ event'[f] # Blank /\ event'[f].tag # u => u \in crossed'
                   /\ x \notin met' => /\ event'[f] # Blank /\ event'[f].cal = to
                                       /\ event'[f].tag = u /\ event'[f].day = k.seen.day
                   /\ u \notin Adrift' /\ Standing(u)' /\ event'[f] # Blank => event'[f].live
        <5>1. /\ f # Blank
              /\ event[f] # Blank /\ event[f].tag # u => u \in crossed
              /\ x \notin met => /\ event[f] # Blank /\ event[f].cal = to
                                 /\ event[f].tag = u /\ event[f].day = k.seen.day
              /\ u \notin Adrift /\ Standing(u) /\ event[f] # Blank => event[f].live
          BY <2>0, <2>1, <3>5, <4>1, <4>6 DEF Holds
        <5>2. CASE event'[f] = event[f]
          BY <3>2, <5>1, <5>2
        <5>3. CASE event'[f] # event[f]
          BY <4>4, <4>6, <5>1, <5>3
        <5>4. QED BY <5>2, <5>3
      <4>7. QED BY <2>0, <4>1, <4>2, <4>3, <4>5, <4>6 DEF Holds
    <3>6. QED BY <1>3, <3>4, <3>5 DEF Hand, Writing, Carrying
  <2>5. QED BY <2>3, <2>4
<1>4. QED BY <1>1, <1>2, <1>3, JobKinds DEF IsRepair

\* A step that writes keeps the invariant, if it keeps what does not speak of others.
LEMMA WriteStep ==
    ASSUME CalendarInv, Typed', NEW w \in Syncs, NEW j \in Jobs, Do(w, j),
           NEW v \in Visits, NEW e \in Events, Writes(w, v, e),
           \/ IsVisits(job[w]) /\ job[w].visit = v /\ (j = Idle \/ (IsVisits(j) /\ j.visit = v))
           \/ IsRepair(job[w]) /\ IsRepair(j),
           w \in met' <=> w \in met /\ j # Idle,
           EventsIssued', TagsTrue', OneEach', NeverShared', Shown', RowHand', HandHand',
           Hand(w, j)'
    PROVE  CalendarInv'
<1>1. MetTrue /\ \A x \in Syncs : job[x] \in Jobs /\ job'[x] = IF x = w THEN j ELSE job[x]
  BY OneJob, Fields DEF CalendarInv, Typed
<1>2. w \in met => astray \subseteq astray' /\ crossed \subseteq crossed'
  BY DEF Writes
<1>3. \A x \in Syncs \ {w} : x \in met' => x \in met
  BY DEF Writes
<1>4. ASSUME NEW x \in Syncs \ {w}, x \in met, IsVisits(job[x])
      PROVE  job[x].visit \in astray' \cup crossed'
  <2>1. job[x].visit \in astray \cup crossed /\ job[x].visit \in Visits
    BY <1>1, <1>4, JobKinds DEF MetTrue, IsVisits
  <2>2. CASE job[x].visit # v
    BY <2>1, <2>2 DEF Writes
  <2>3. CASE job[x].visit = v
    <3>1. Together(job[w], job[x])
      BY <1>4, <2>3 DEF Together, IsVisits
    <3>2. w \in met
      BY <1>1, <3>1 DEF MetTrue
    <3>3. QED BY <1>2, <2>1, <3>2
  <2>4. QED BY <2>2, <2>3
<1>5. MetTrue'
  <2>1. met \ {w} \subseteq met' /\ (j = Idle \/ met \subseteq met')
    <3>1. met \subseteq Syncs
      BY DEF CalendarInv, Typed, CalendarTypeOK
    <3>2. QED BY <3>1 DEF Writes
  <2>2. \A x \in Syncs \ {w} : x \in met' =>
              /\ x \in met \/ IsVisits(job[x])
              /\ IsVisits(job[x]) => job[x].visit \in astray' \cup crossed'
    BY <1>3, <1>4
  <2>3. w \in met' /\ IsVisits(j) => j.visit \in astray' \cup crossed'
    <3>1. IsRepair(j) => ~IsVisits(j)
      BY DEF IsRepair, IsVisits
    <3>2. QED BY <1>1, <1>2, <3>1 DEF MetTrue
  <2>4. \/ j = Idle
        \/ IsVisits(j) /\ IsVisits(job[w]) /\ j.visit = job[w].visit
        \/ IsRepair(j) /\ IsRepair(job[w])
    OBVIOUS
  <2>5. w \in met' => j # Idle
    OBVIOUS
  <2>6. QED BY <2>1, <2>2, <2>3, <2>4, <2>5, MetKeeps
<1>6. ASSUME NEW x \in Syncs PROVE \E k \in Jobs : job'[x] = k /\ Hand(x, k)'
  <2>1. CASE x = w
    BY <1>1, <2>1
  <2>2. CASE x # w
    <3>1. PICK k \in Jobs : k = job[x]
      BY <1>1
    <3>2. Hand(x, k)'
      BY <2>2, <3>1, OtherHand
    <3>3. QED BY <1>1, <2>2, <3>1, <3>2
  <2>3. QED BY <2>1, <2>2
<1>7. Hands'
  BY <1>6, HandsOf
<1>8. QED BY <1>5, <1>7 DEF CalendarInv

\* An update of the event in hand.
LEMMA PatchStep ==
    ASSUME CalendarInv, Typed', NEW w \in Syncs, job[w].at \in {"updating", "adopting"},
           job[w].event \in On(job[w].to), Patch(w, job[w].event)
    PROVE  CalendarInv'
<1>1. job[w].at \in Writing /\ job[w].at \in Carrying
  BY DEF Writing, Carrying
<1>2. /\ job[w] \in WritingJobs /\ Knows(job[w]) /\ Holds(w, job[w]) /\ IsVisits(job[w])
      /\ job[w].visit \in Visits /\ job[w].seen \in Known /\ job[w].to \in Calendars
      /\ job[w].seen.status \in {"booked", "cancelled"}
  BY <1>1, InHand
<1>3. PICK v \in Visits, e \in Events, to \in Calendars, seen \in Known :
         v = job[w].visit /\ e = job[w].event /\ to = job[w].to /\ seen = job[w].seen
  BY <1>2 DEF On
<1>4. event[e] # Blank /\ event[e].cal = to /\ e # Blank /\ Carries(job[w], e)
  BY <1>1, <1>3, CalendarSyncAssumption DEF On, Carries
<1>c. PICK p : p = [cal |-> to, tag |-> v, day |-> seen.day, live |-> seen.status = "booked"]
  OBVIOUS
<1>d. PICK b : b = [p EXCEPT !.live = p.live /\ event[e].live]
  OBVIOUS
<1>5. /\ event' = [event EXCEPT ![e] = b] /\ b.cal = to /\ b.tag = v /\ b.day = seen.day
      /\ b.live = (seen.status = "booked" /\ event[e].live)
      /\ b = [cal |-> to, tag |-> v, day |-> seen.day,
              live |-> seen.status = "booked" /\ event[e].live]
  <2>1. Patched(w) = p
    BY <1>3, <1>c DEF Patched
  <2>2. event' = [event EXCEPT ![e] = b]
    BY <1>3, <1>d, <2>1 DEF Patch
  <2>3. b = [cal |-> to, tag |-> v, day |-> seen.day,
             live |-> seen.status = "booked" /\ event[e].live]
    BY <1>c, <1>d
  <2>4. QED BY <2>2, <2>3
<1>6. \A f \in Events : event'[f] = IF f = e THEN b ELSE event[f]
  BY <1>5 DEF CalendarInv, Typed, CalendarTypeOK
<1>b. b # Blank
  <2>1. b \in Event
    BY <1>3, <1>5 DEF Event, Known
  <2>2. QED BY <2>1, CalendarSyncAssumption
<1>7. UNCHANGED <<row, created, stale, astray, crossed, reopened, met>>
  BY DEF Patch, ghosts
<1>a. "storing" \in Writing /\ e \in Events \cup {Blank}
  BY Stages
<1>8. PICK j : j = Then(job[w], "storing", e) /\ Do(w, j)
  BY <1>3 DEF Patch, GoesWith, Then
<1>9. /\ j \in WritingJobs /\ j \in Jobs /\ IsVisits(j) /\ j # Idle /\ j.at = "storing"
      /\ j.visit = v /\ j.seen = seen /\ j.to = to /\ j.event = e
  BY <1>2, <1>3, <1>8, <1>a, NextJob
<1>10. Writes(w, v, e)
  <2>1. created \in Nat
    BY Fields DEF CalendarInv, Typed
  <2>2. \A u \in Visits : Standing(u)' => Standing(u)
    BY <1>7 DEF Standing
  <2>3. event'[e].cal = event[e].cal /\ event'[e].tag = v
    BY <1>4, <1>5, <1>6
  <2>4. QED BY <1>2, <1>4, <1>6, <1>7, <2>1, <2>2, <2>3 DEF Writes
<1>11. \A u \in Visits : Standing(u) /\ row[u].event = e /\ u # v => u \in Lost
  BY <1>3, <1>4 DEF CalendarInv, RowHand
<1>12. Standing(v) /\ v \notin Adrift => seen.status = "booked"
  BY <1>2, <1>3 DEF Knows, Adrift, Lost, Known
<1>13. v \notin Adrift /\ seen.status = "booked" => Tagged(v, to) \subseteq {e}
  <2>1. CASE job[w].at = "updating"
    BY <1>2, <1>3, <2>1 DEF Knows, Holds
  <2>2. CASE job[w].at = "adopting"
    BY <1>2, <1>3, <2>2 DEF Holds
  <2>3. QED BY <2>1, <2>2
<1>14. v \notin Adrift /\ Standing(v) => event[e].live
  <2>1. CASE job[w].at = "updating"
    <3>1. ASSUME v \notin Adrift PROVE row[v].event = e
      BY <1>2, <1>3, <2>1, <3>1 DEF Knows, Holds
    <3>2. QED BY <1>4, <3>1 DEF CalendarInv, TagsTrue
  <2>2. CASE job[w].at = "adopting"
    BY <1>2, <1>3, <1>4, <2>2 DEF Holds
  <2>3. QED BY <2>1, <2>2
<1>g. Adrift' = Adrift /\ Lost' = Lost /\ \A u \in Visits : Standing(u)' <=> Standing(u)
  BY <1>7 DEF Adrift, Lost, Standing
<1>15. EventsIssued'
  <2>1. e <= created
    BY <1>4 DEF CalendarInv, EventsIssued
  <2>2. QED BY <1>6, <1>7, <2>1 DEF CalendarInv, EventsIssued
<1>16. TagsTrue'
  <2>1. SUFFICES ASSUME NEW u \in Visits, Standing(u), row[u].event # Blank, event'[row[u].event] # Blank
                 PROVE  /\ u \notin Lost => event'[row[u].event].tag = u
                        /\ u \notin Adrift => event'[row[u].event].live
    BY <1>7, <1>g DEF TagsTrue
  <2>2. row[u].event \in Events
    BY <2>1, Fields DEF CalendarInv, Typed, Standing
  <2>3. CASE row[u].event # e
    BY <1>6, <2>1, <2>2, <2>3 DEF CalendarInv, TagsTrue
  <2>4. CASE row[u].event = e /\ u # v
    BY <1>11, <2>1, <2>4 DEF Adrift
  <2>5. CASE row[u].event = e /\ u = v
    BY <1>5, <1>6, <1>12, <1>14, <2>1, <2>5
  <2>6. QED BY <2>3, <2>4, <2>5
<1>17. OneEach'
  <2>1. SUFFICES ASSUME NEW u \in Visits, NEW cal \in Calendars, u \notin Adrift,
                        NEW f \in Tagged(u, cal)', NEW g \in Tagged(u, cal)'
                 PROVE  f = g
    BY <1>g DEF OneEach
  <2>2. /\ f \in Events /\ event'[f] # Blank /\ event'[f].live /\ event'[f].tag = u /\ event'[f].cal = cal
        /\ g \in Events /\ event'[g] # Blank /\ event'[g].live /\ event'[g].tag = u /\ event'[g].cal = cal
    BY <2>1 DEF Tagged, Live, On
  <2>3. \A h \in Events : h # e /\ event'[h] # Blank /\ event'[h].live /\ event'[h].tag = u
                          /\ event'[h].cal = cal => h \in Tagged(u, cal)
    BY <1>6 DEF Tagged, Live, On
  <2>4. \A h \in Events : h = e /\ event'[h].live /\ event'[h].tag = u /\ event'[h].cal = cal
           => u = v /\ cal = to /\ seen.status = "booked"
    BY <1>5, <1>6
  <2>5. CASE f # e /\ g # e
    BY <2>1, <2>2, <2>3, <2>5 DEF CalendarInv, OneEach
  <2>6. CASE f = e /\ g # e
    BY <1>13, <2>1, <2>2, <2>3, <2>4, <2>6
  <2>7. CASE f # e /\ g = e
    BY <1>13, <2>1, <2>2, <2>3, <2>4, <2>7
  <2>8. QED BY <2>5, <2>6, <2>7
<1>18. NeverShared'
  BY <1>7 DEF CalendarInv, NeverShared
<1>19. Shown'
  <2>1. SUFFICES ASSUME NEW u \in Visits, Standing(u), row[u].sync = "synced", u \notin stale \cup Adrift
                 PROVE  /\ row[u].event # Blank
                        /\ event'[row[u].event] =
                              [cal |-> row[u].cal, tag |-> u, day |-> row[u].day, live |-> TRUE]
    BY <1>7 DEF Shown, Standing, Adrift, Lost
  <2>2. /\ row[u].event # Blank /\ row[u].event \in Events
        /\ event[row[u].event] =
              [cal |-> row[u].cal, tag |-> u, day |-> row[u].day, live |-> TRUE]
    BY <2>1, SettledEvent DEF CalendarInv, Shown, Standing, Adrift, Lost
  <2>3. CASE row[u].event # e
    BY <1>6, <2>2, <2>3
  <2>4. CASE row[u].event = e
    <3>1. u = v
      BY <1>11, <2>1, <2>4 DEF Adrift
    <3>2. row[u].day = seen.day
      BY <1>2, <1>3, <2>1, <3>1 DEF Knows
    <3>3. row[u].cal = to
      BY <1>4, <2>2, <2>4
    <3>4. seen.status = "booked" /\ event[e].live
      BY <1>12, <2>1, <2>2, <2>4, <3>1
    <3>5. QED BY <1>5, <1>6, <2>2, <2>4, <3>1, <3>2, <3>3, <3>4
  <2>5. QED BY <2>3, <2>4
<1>20. RowHand' /\ HandHand'
  <2>1. \A f \in Events : Carries(j, f) => Carries(job[w], f) /\ j.visit = job[w].visit
    BY <1>3, <1>4, <1>9 DEF Carries
  <2>2. \A u \in Visits : Standing(u)' =>
           u \in reopened' \/ (Standing(u) /\ row'[u].event = row[u].event)
    BY <1>7, <1>g
  <2>3. QED BY <1>7, <1>8, <1>9, <2>1, <2>2, CarryKeeps
<1>21. Hand(w, j)'
  <2>1. Knows(j)'
    <3>1. Knows(j)
      BY <1>2, <1>3, <1>9, KnowsOn
    <3>2. QED BY <1>7, <1>9, <1>g, <3>1 DEF Knows
  <2>2. Holds(w, j)'
    <3>1. e <= created'
      BY <1>4, <1>7 DEF CalendarInv, EventsIssued
    <3>2. v \notin Adrift /\ Standing(v) => b.live
      BY <1>5, <1>12, <1>14
    <3>3. event'[e] = b /\ e # Blank /\ b # Blank
      BY <1>4, <1>6, <1>b
    <3>4. QED BY <1>5, <1>9, <1>g, <3>1, <3>2, <3>3 DEF Holds
  <2>3. QED BY <1>9, <2>1, <2>2 DEF Hand, Writing, Carrying
<1>22. (IsVisits(job[w]) /\ job[w].visit = v) /\ IsVisits(j) /\ j.visit = v
       /\ (w \in met' <=> w \in met /\ j # Idle)
  BY <1>2, <1>3, <1>7, <1>9
<1>23. QED
  BY <1>8, <1>9, <1>10, <1>15, <1>16, <1>17, <1>18, <1>19, <1>20, <1>21, <1>22, WriteStep

\* An event found to be there is updated; one that is gone is searched for, or the
\* sync has failed.
LEMMA UpdateStep ==
    ASSUME CalendarInv, Typed', NEW w \in Syncs, Update(w) \/ Adopt(w) PROVE CalendarInv'
<1>1. job[w].at \in {"updating", "adopting"}
  BY DEF Update, Adopt
<1>2. CASE job[w].event \in On(job[w].to)
  <2>1. Patch(w, job[w].event)
    BY <1>2 DEF Update, Adopt
  <2>2. QED BY <1>1, <1>2, <2>1, PatchStep
<1>3. CASE job[w].event \notin On(job[w].to)
  BY <1>3, EndSteps
<1>4. QED BY <1>2, <1>3

\* A new event is nobody else's.
LEMMA CreateStep == ASSUME CalendarInv, Typed', NEW w \in Syncs, Create(w) PROVE CalendarInv'
<1>1. job[w].at = "creating" /\ job[w].at \in Writing /\ job[w].at \in Carrying
  BY DEF Create, Writing, Carrying
<1>2. /\ job[w] \in WritingJobs /\ Knows(job[w]) /\ Holds(w, job[w]) /\ IsVisits(job[w])
      /\ job[w].visit \in Visits /\ job[w].seen \in Known /\ job[w].to \in Calendars
      /\ job[w].seen.status \in {"booked", "cancelled"}
  BY <1>1, InHand
<1>n. created \in Nat /\ created \in 0..MaxEvents /\ created < MaxEvents /\ MaxEvents \in Nat
      /\ created' = created + 1
  BY CalendarSyncAssumption DEF Create, CalendarInv, Typed, CalendarTypeOK
<1>3. PICK v \in Visits, e \in Events, to \in Calendars, seen \in Known :
         v = job[w].visit /\ e = created' /\ to = job[w].to /\ seen = job[w].seen
  <2>1. created' \in Events
    BY <1>n DEF Events
  <2>2. QED BY <1>2, <2>1
<1>4. e > created /\ e \in Nat /\ e # Blank /\ event[e] = Blank /\ e = created'
  <2>1. e > created /\ ~(e <= created) /\ e \in Nat
    BY <1>n, <1>3
  <2>2. event[e] = Blank
    BY <2>1 DEF CalendarInv, EventsIssued
  <2>3. QED BY <1>3, <2>1, <2>2, CalendarSyncAssumption
<1>c. seen.status = "booked"
  BY <1>1, <1>2, <1>3 DEF Holds
<1>d. PICK b : b = [cal |-> to, tag |-> v, day |-> seen.day, live |-> seen.status = "booked"]
  OBVIOUS
<1>5. /\ event' = [event EXCEPT ![e] = b] /\ b.cal = to /\ b.tag = v /\ b.day = seen.day /\ b.live
  <2>1. Patched(w) = b
    BY <1>3, <1>d DEF Patched
  <2>2. event' = [event EXCEPT ![e] = b]
    BY <1>3, <2>1 DEF Create
  <2>3. QED BY <1>c, <1>d, <2>2
<1>6. \A f \in Events : event'[f] = IF f = e THEN b ELSE event[f]
  BY <1>5 DEF CalendarInv, Typed, CalendarTypeOK
<1>b. b # Blank
  <2>1. b \in Event
    BY <1>3, <1>d DEF Event, Known
  <2>2. QED BY <2>1, CalendarSyncAssumption
<1>7. UNCHANGED <<row, stale, astray, crossed, reopened, met>>
  BY DEF Create, ghosts
<1>a. "storing" \in Writing /\ e \in Events \cup {Blank}
  BY Stages
<1>8. PICK j : j = Then(job[w], "storing", e) /\ Do(w, j)
  BY <1>3 DEF Create, GoesWith, Then
<1>9. /\ j \in WritingJobs /\ j \in Jobs /\ IsVisits(j) /\ j # Idle /\ j.at = "storing"
      /\ j.visit = v /\ j.seen = seen /\ j.to = to /\ j.event = e
  BY <1>2, <1>3, <1>8, <1>a, NextJob
<1>10. Writes(w, v, e)
  <2>2. \A u \in Visits : Standing(u)' => Standing(u)
    BY <1>7 DEF Standing
  <2>3. event'[e].tag = v
    BY <1>5, <1>6
  <2>5. created' \in Nat /\ created <= created'
    BY <1>n
  <2>4. QED BY <1>4, <1>6, <1>7, <2>2, <2>3, <2>5 DEF Writes
<1>11. \A u \in Visits : row[u] # Blank => row[u].event # e
  BY <1>n, <1>4 DEF CalendarInv, EventsIssued
<1>g. Adrift' = Adrift /\ Lost' = Lost /\ \A u \in Visits : Standing(u)' <=> Standing(u)
  BY <1>7 DEF Adrift, Lost, Standing
<1>13. v \notin Adrift => Tagged(v, to) = {}
  BY <1>1, <1>2, <1>3 DEF Holds
<1>15. EventsIssued'
  <2>1. \A f \in Events : f <= created => f <= created'
    BY <1>n DEF Events
  <2>2. e <= created'
    BY <1>4
  <2>3. \A u \in Visits : row[u] # Blank => row[u].event \in Events \cup {Blank}
    BY Fields DEF CalendarInv, Typed
  <2>4. QED BY <1>6, <1>7, <2>1, <2>2, <2>3 DEF CalendarInv, EventsIssued
<1>16. TagsTrue'
  <2>1. SUFFICES ASSUME NEW u \in Visits, Standing(u), row[u].event # Blank, event'[row[u].event] # Blank
                 PROVE  /\ u \notin Lost => event'[row[u].event].tag = u
                        /\ u \notin Adrift => event'[row[u].event].live
    BY <1>7, <1>g DEF TagsTrue
  <2>2. row[u].event \in Events /\ row[u].event # e
    BY <1>11, <2>1, Fields DEF CalendarInv, Typed, Standing
  <2>3. QED BY <1>6, <2>1, <2>2 DEF CalendarInv, TagsTrue
<1>17. OneEach'
  <2>1. SUFFICES ASSUME NEW u \in Visits, NEW cal \in Calendars, u \notin Adrift,
                        NEW f \in Tagged(u, cal)', NEW g \in Tagged(u, cal)'
                 PROVE  f = g
    BY <1>g DEF OneEach
  <2>2. /\ f \in Events /\ event'[f] # Blank /\ event'[f].live /\ event'[f].tag = u /\ event'[f].cal = cal
        /\ g \in Events /\ event'[g] # Blank /\ event'[g].live /\ event'[g].tag = u /\ event'[g].cal = cal
    BY <2>1 DEF Tagged, Live, On
  <2>3. \A h \in Events : h # e /\ event'[h] # Blank /\ event'[h].live /\ event'[h].tag = u
                          /\ event'[h].cal = cal => h \in Tagged(u, cal)
    BY <1>6 DEF Tagged, Live, On
  <2>4. \A h \in Events : h = e /\ event'[h].tag = u /\ event'[h].cal = cal => u = v /\ cal = to
    BY <1>5, <1>6
  <2>5. CASE f # e /\ g # e
    BY <2>1, <2>2, <2>3, <2>5 DEF CalendarInv, OneEach
  <2>6. CASE f = e /\ g # e
    BY <1>13, <2>1, <2>2, <2>3, <2>4, <2>6
  <2>7. CASE f # e /\ g = e
    BY <1>13, <2>1, <2>2, <2>3, <2>4, <2>7
  <2>8. QED BY <2>5, <2>6, <2>7
<1>18. NeverShared'
  BY <1>7 DEF CalendarInv, NeverShared
<1>19. Shown'
  <2>1. SUFFICES ASSUME NEW u \in Visits, Standing(u), row[u].sync = "synced", u \notin stale \cup Adrift
                 PROVE  /\ row[u].event # Blank
                        /\ event'[row[u].event] =
                              [cal |-> row[u].cal, tag |-> u, day |-> row[u].day, live |-> TRUE]
    BY <1>7 DEF Shown, Standing, Adrift, Lost
  <2>2. /\ row[u].event # Blank /\ row[u].event \in Events
        /\ event[row[u].event] =
              [cal |-> row[u].cal, tag |-> u, day |-> row[u].day, live |-> TRUE]
    BY <2>1, SettledEvent DEF CalendarInv, Shown, Standing, Adrift, Lost
  <2>3. row[u].event # e
    BY <1>11, <2>1 DEF Standing
  <2>4. QED BY <1>6, <2>2, <2>3
<1>20. RowHand' /\ HandHand'
  <2>0. \A x \in Syncs : job'[x] = IF x = w THEN j ELSE job[x]
    BY <1>8, <1>9, OneJob DEF CalendarInv, Typed
  <2>1. ASSUME NEW x \in Syncs, x # w PROVE ~Carries(job[x], e)
    <3>1. ASSUME Carries(job[x], e) PROVE job[x].event <= created
      <4>1. job[x].at \in Writing
        BY <3>1 DEF Carries, Writing
      <4>2. Holds(x, job[x])
        BY <4>1, InHand
      <4>3. QED BY <1>4, <3>1, <4>2 DEF Holds, Carries
    <3>2. QED BY <1>n, <1>4, <3>1 DEF Carries
  <2>2. RowHand'
    <3>1. SUFFICES ASSUME NEW u \in Visits, NEW x \in Syncs, Standing(u),
                          Carries(job'[x], row[u].event), job'[x].visit # u
                   PROVE  u \in Lost
      BY <1>7, <1>g DEF RowHand, Carries
    <3>2. x # w
      BY <1>9, <1>11, <2>0, <3>1 DEF Carries, Standing
    <3>3. QED BY <2>0, <3>1, <3>2 DEF CalendarInv, RowHand
  <2>3. HandHand'
    <3>1. SUFFICES ASSUME NEW x \in Syncs, NEW y \in Syncs, NEW f \in Events,
                          Carries(job'[x], f), Carries(job'[y], f), job'[x].visit # job'[y].visit
                   PROVE  x \in met /\ job'[x].visit \in crossed
      BY <1>7 DEF HandHand, Carries
    <3>2. x # w /\ y # w
      BY <1>9, <2>0, <2>1, <3>1 DEF Carries
    <3>3. QED BY <2>0, <3>1, <3>2 DEF CalendarInv, HandHand
  <2>4. QED BY <2>2, <2>3
<1>21. Hand(w, j)'
  <2>1. Knows(j)'
    <3>1. Knows(job[w])
      BY <1>2
    <3>2. Standing(v)' /\ seen.status = "cancelled" => v \in reopened'
      BY <1>c
    <3>3. seen.event # Blank => seen.event <= created'
      <4>1. seen.event # Blank => seen.event <= created /\ seen.event \in Nat
        BY <1>3, <3>1, Fields DEF Knows, Known, CalendarInv, Typed
      <4>2. QED BY <1>n, <4>1
    <3>4. v \notin Adrift => /\ row[v] # Blank /\ row[v].event = seen.event
                             /\ row[v].sync = "synced" => row[v].day = seen.day
      BY <1>3, <3>1 DEF Knows
    <3>5. j.at \notin {"resolving", "owning", "updating"}
      BY <1>9
    <3>6. QED BY <1>7, <1>9, <1>g, <3>2, <3>3, <3>4, <3>5 DEF Knows
  <2>2. Holds(w, j)'
    <3>3. event'[e] = b /\ e # Blank /\ b # Blank /\ e <= created'
      BY <1>4, <1>6, <1>b
    <3>4. QED BY <1>5, <1>9, <1>g, <3>3 DEF Holds
  <2>3. QED BY <1>9, <2>1, <2>2 DEF Hand, Writing, Carrying
<1>22. (IsVisits(job[w]) /\ job[w].visit = v) /\ IsVisits(j) /\ j.visit = v
       /\ (w \in met' <=> w \in met /\ j # Idle)
  BY <1>2, <1>3, <1>7, <1>9
<1>23. QED
  BY <1>8, <1>9, <1>10, <1>15, <1>16, <1>17, <1>18, <1>19, <1>20, <1>21, <1>22, WriteStep

\* An event in hand has been created.
LEMMA CarriedIssued ==
    ASSUME CalendarInv, NEW x \in Syncs, NEW e \in Events, Carries(job[x], e)
    PROVE  e <= created
<1>1. job[x].at \in Writing /\ job[x].event = e /\ e # Blank
  BY DEF Carries, Writing
<1>2. Holds(x, job[x])
  BY <1>1, InHand
<1>3. QED BY <1>1, <1>2 DEF Holds

\* The row is written, whatever it has become: what the sync says of it is true, or
\* the visit is marked.
LEMMA StoreStep == ASSUME CalendarInv, Typed', NEW w \in Syncs, Store(w) PROVE CalendarInv'
<1>1. job[w].at = "storing" /\ job[w].at \in Writing /\ job[w].at \in Carrying
  BY DEF Store, Writing, Carrying
<1>2. /\ job[w] \in WritingJobs /\ Knows(job[w]) /\ Holds(w, job[w]) /\ IsVisits(job[w])
      /\ job[w].visit \in Visits /\ job[w].seen \in Known /\ job[w].to \in Calendars
      /\ job[w].event \in Events \cup {Blank} /\ job[w].seen.status \in {"booked", "cancelled"}
  BY <1>1, InHand
<1>3. PICK v \in Visits, e \in Events \cup {Blank}, to \in Calendars, seen \in Known :
         v = job[w].visit /\ e = job[w].event /\ to = job[w].to /\ seen = job[w].seen
  BY <1>2
<1>4. PICK mended \in SUBSET {v} :
         /\ mended # {} => /\ w \notin met
                           /\ \A cal \in Calendars : Tagged(v, cal) \subseteq {e}
                           /\ seen.status = "booked" => e \in Live(to)
         /\ mended = {} => \/ w \in met
                           \/ \E cal \in Calendars : ~(Tagged(v, cal) \subseteq {e})
                           \/ seen.status = "booked" /\ e \notin Live(to)
         /\ astray' = astray \ mended /\ crossed' = crossed \ mended
         /\ reopened' = IF seen.status = "booked" THEN reopened \ mended ELSE reopened
  <2>1. PICK some \in SUBSET {v} :
           /\ some = IF /\ w \notin met
                        /\ \A cal \in Calendars : Tagged(v, cal) \subseteq {e}
                        /\ seen.status = "booked" => e \in Live(to)
                     THEN {v} ELSE {}
           /\ astray' = astray \ some /\ crossed' = crossed \ some
           /\ reopened' = IF seen.status = "booked" THEN reopened \ some ELSE reopened
    BY <1>3 DEF Store
  <2>2. QED BY <2>1
<1>5. /\ row' = IF row[v] = Blank THEN row
                ELSE [row EXCEPT ![v].event = e, ![v].cal = to, ![v].sync = "synced"]
      /\ stale' = IF row[v] # Blank /\ row[v].day = seen.day /\ row[v].status = seen.status
                  THEN stale \ {v} ELSE stale \cup {v}
      /\ UNCHANGED <<event, created>> /\ Do(w, Idle) /\ met' = met \ {w}
  BY <1>3 DEF Store, StoredAt, Ends, google
<1>6. /\ \A u \in Visits \ {v} : row'[u] = row[u]
      /\ row[v] = Blank => row'[v] = Blank
      /\ row[v] # Blank => /\ row'[v].status = row[v].status /\ row'[v].day = row[v].day
                           /\ row'[v].event = e /\ row'[v].cal = to /\ row'[v].sync = "synced"
  <2>1. row \in [Visits -> Row \cup {Blank}]
    BY DEF CalendarInv, Typed, CalendarTypeOK
  <2>2. CASE row[v] = Blank
    BY <1>5, <2>2
  <2>3. CASE row[v] # Blank
    <3>1. row[v] \in Row
      BY <2>1, <2>3
    <3>2. \A u \in Visits : row'[u] = IF u = v THEN [row[v] EXCEPT !.event = e, !.cal = to, !.sync = "synced"]
                                      ELSE row[u]
      BY <1>5, <2>1, <2>3
    <3>3. QED BY <2>3, <3>1, <3>2 DEF Row
  <2>4. QED BY <2>2, <2>3
<1>7. \A u \in Visits \ {v} : /\ u \in astray' <=> u \in astray
                              /\ u \in crossed' <=> u \in crossed
                              /\ u \in reopened' <=> u \in reopened
                              /\ u \in stale' <=> u \in stale
  BY <1>4, <1>5
<1>8. /\ \A u \in Visits : Standing(u)' => Standing(u)
      /\ \A u \in Visits \ {v} : /\ Standing(u)' <=> Standing(u)
                                 /\ u \in Adrift' <=> u \in Adrift
                                 /\ u \in Lost' <=> u \in Lost
  BY <1>6, <1>7 DEF Standing, Adrift, Lost
<1>9. w \in met => astray' = astray /\ crossed' = crossed /\ reopened' = reopened
  BY <1>4
<1>10. v \notin Adrift' => v \notin Adrift \/ mended # {}
  BY <1>4 DEF Adrift, Lost
<1>11. Standing(v) /\ v \notin Adrift' => seen.status = "booked"
  <2>1. Standing(v) /\ seen.status = "cancelled" => v \in reopened
    BY <1>2, <1>3 DEF Knows
  <2>2. seen.status = "cancelled" => reopened' = reopened
    BY <1>4
  <2>3. QED BY <1>2, <1>3, <2>1, <2>2 DEF Adrift, Lost
<1>12. seen.status = "booked" =>
           /\ e # Blank
           /\ event[e] # Blank /\ event[e].tag # v => v \in crossed
           /\ w \notin met => /\ event[e] # Blank /\ event[e].cal = to
                              /\ event[e].tag = v /\ event[e].day = seen.day
           /\ v \notin Adrift /\ Standing(v) /\ event[e] # Blank => event[e].live
  BY <1>1, <1>2, <1>3 DEF Holds
<1>13. ASSUME v \notin Adrift', Standing(v), event[e] # Blank PROVE event[e].live
  <2>1. seen.status = "booked"
    BY <1>11, <1>13
  <2>2. mended # {} => e \in Live(to)
    BY <1>4, <2>1
  <2>3. QED BY <1>10, <1>12, <1>13, <2>1, <2>2 DEF Live
<1>14. EventsIssued'
  <2>1. e # Blank => e <= created
    BY <1>2, <1>3 DEF Holds
  <2>2. QED BY <1>5, <1>6, <2>1 DEF CalendarInv, EventsIssued
<1>15. TagsTrue'
  <2>1. SUFFICES ASSUME NEW u \in Visits, Standing(u)', row'[u].event # Blank,
                        event[row'[u].event] # Blank
                 PROVE  /\ u \notin Lost' => event[row'[u].event].tag = u
                        /\ u \notin Adrift' => event[row'[u].event].live
    BY <1>5 DEF TagsTrue
  <2>2. CASE u # v
    BY <1>6, <1>8, <2>1, <2>2 DEF CalendarInv, TagsTrue
  <2>3. CASE u = v
    <3>1. row'[u].event = e /\ Standing(v) /\ event[e] # Blank /\ e # Blank
      BY <1>6, <1>8, <2>1, <2>3 DEF Standing
    <3>2. ASSUME v \notin Lost' PROVE event[e].tag = v
      <4>1. seen.status = "booked"
        <5>1. Standing(v) /\ seen.status = "cancelled" => v \in reopened
          BY <1>2, <1>3 DEF Knows
        <5>2. seen.status = "cancelled" => reopened' = reopened
          BY <1>4
        <5>3. QED BY <1>2, <1>3, <3>1, <3>2, <5>1, <5>2 DEF Lost
      <4>2. v \in crossed => mended # {}
        BY <1>4, <3>2 DEF Lost
      <4>3. QED BY <1>4, <1>12, <3>1, <4>1, <4>2
    <3>3. QED BY <1>13, <2>3, <3>1, <3>2
  <2>4. QED BY <2>2, <2>3
<1>16. OneEach'
  <2>1. SUFFICES ASSUME NEW u \in Visits, NEW cal \in Calendars, u \notin Adrift',
                        NEW f \in Tagged(u, cal), NEW g \in Tagged(u, cal)
                 PROVE  f = g
    BY <1>5 DEF OneEach, Tagged, Live, On
  <2>2. CASE u \notin Adrift
    BY <2>1, <2>2 DEF CalendarInv, OneEach
  <2>3. CASE u \in Adrift
    <3>1. u = v /\ mended # {}
      BY <1>8, <1>10, <2>1, <2>3
    <3>2. QED BY <1>4, <2>1, <3>1
  <2>4. QED BY <2>2, <2>3
<1>17. ASSUME NEW u \in Visits \ {v}, Standing(u), row[u].event = e, e # Blank PROVE u \in Lost'
  <2>1. Carries(job[w], row[u].event)
    BY <1>1, <1>3, <1>17 DEF Carries
  <2>2. u \in Lost
    BY <1>3, <1>17, <2>1 DEF CalendarInv, RowHand
  <2>3. QED BY <1>8, <2>2
<1>18. NeverShared'
  <2>1. SUFFICES ASSUME NEW u \in Visits, NEW y \in Visits, u # y, Standing(u)', Standing(y)',
                        row'[u].event # Blank, row'[u].event = row'[y].event,
                        u \notin Lost', y \notin Lost'
                 PROVE  FALSE
    BY DEF NeverShared, Standing, Lost
  <2>2. CASE u # v /\ y # v
    <3>1. u \notin Lost /\ y \notin Lost /\ Standing(u) /\ Standing(y)
          /\ row[u].event # Blank /\ row[u].event = row[y].event
      BY <1>6, <1>8, <2>1, <2>2
    <3>2. QED BY <2>1, <3>1 DEF CalendarInv, NeverShared, Standing, Lost
  <2>3. CASE u = v
    <3>1. row[y].event = e /\ e # Blank /\ Standing(y)
      BY <1>6, <1>8, <2>1, <2>3 DEF Standing
    <3>2. QED BY <1>17, <2>1, <2>3, <3>1
  <2>4. CASE y = v
    <3>1. row[u].event = e /\ e # Blank /\ Standing(u)
      BY <1>6, <1>8, <2>1, <2>4 DEF Standing
    <3>2. QED BY <1>17, <2>1, <2>4, <3>1
  <2>5. QED BY <2>2, <2>3, <2>4
<1>19. Shown'
  <2>1. SUFFICES ASSUME NEW u \in Visits, Standing(u)', row'[u].sync = "synced",
                        u \notin stale' \cup Adrift'
                 PROVE  /\ row'[u].event # Blank
                        /\ event[row'[u].event] =
                              [cal |-> row'[u].cal, tag |-> u, day |-> row'[u].day, live |-> TRUE]
    BY <1>5 DEF Shown, Standing, Adrift, Lost
  <2>2. CASE u # v
    BY <1>6, <1>7, <1>8, <2>1, <2>2 DEF CalendarInv, Shown, Standing, Adrift, Lost
  <2>3. CASE u = v
    <3>1. Standing(v) /\ seen.status = "booked" /\ row[v].day = seen.day
      BY <1>5, <1>8, <1>11, <2>1, <2>3
    <3>2. w \notin met
      <4>1. w \in met => v \in astray \cup crossed
        BY <1>2, <1>3 DEF CalendarInv, MetTrue
      <4>2. QED BY <1>9, <2>1, <2>3, <4>1 DEF Adrift, Lost
    <3>3. /\ e # Blank /\ e \in Events /\ event[e] # Blank /\ event[e].cal = to
          /\ event[e].tag = v /\ event[e].day = seen.day
      BY <1>12, <3>1, <3>2
    <3>4. event[e].live
      BY <1>13, <2>1, <2>3, <3>1, <3>3
    <3>5. event[e] \in Event
      BY <3>3, Fields DEF CalendarInv, Typed
    <3>6. row'[v].event = e /\ row'[v].cal = to /\ row'[v].day = row[v].day
      BY <1>6, <3>1 DEF Standing
    <3>7. QED BY <2>3, <3>1, <3>3, <3>4, <3>5, <3>6 DEF Event
  <2>4. QED BY <2>2, <2>3
<1>20. \A x \in Syncs : job'[x] = IF x = w THEN Idle ELSE job[x]
  BY <1>5, OneJob, PlainJobs DEF CalendarInv, Typed
<1>i. \A f : ~Carries(Idle, f)
  BY DEF Carries, Carrying, Idle
<1>21. RowHand'
  <2>1. SUFFICES ASSUME NEW u \in Visits, NEW x \in Syncs, Standing(u)',
                        Carries(job'[x], row'[u].event), job'[x].visit # u
                 PROVE  u \in Lost'
    BY DEF RowHand, Carries
  <2>2. x # w /\ job'[x] = job[x]
    BY <1>20, <1>i, <2>1
  <2>3. CASE u # v
    BY <1>6, <1>8, <2>1, <2>2, <2>3 DEF CalendarInv, RowHand
  <2>4. CASE u = v
    <3>1. row'[u].event = e /\ Carries(job[x], e) /\ job[x].visit # v
      BY <1>6, <1>8, <2>1, <2>2, <2>4 DEF Standing
    <3>2. e \in Events /\ Carries(job[w], e) /\ job[w].visit = v
      BY <1>1, <1>3, <3>1 DEF Carries
    <3>3. w \in met /\ v \in crossed
      BY <3>1, <3>2 DEF CalendarInv, HandHand
    <3>4. QED BY <1>9, <2>4, <3>3 DEF Lost
  <2>5. QED BY <2>3, <2>4
<1>22. HandHand'
  <2>1. SUFFICES ASSUME NEW x \in Syncs, NEW y \in Syncs, NEW f \in Events,
                        Carries(job'[x], f), Carries(job'[y], f), job'[x].visit # job'[y].visit
                 PROVE  x \in met' /\ job'[x].visit \in crossed'
    BY DEF HandHand, Carries
  <2>2. x # w /\ job'[x] = job[x] /\ y # w /\ job'[y] = job[y]
    BY <1>20, <1>i, <2>1
  <2>3. x \in met /\ job[x].visit \in crossed
    BY <2>1, <2>2 DEF CalendarInv, HandHand
  <2>4. IsVisits(job[x]) /\ job[x].visit \in Visits
    <3>1. job[x].at \in Writing
      BY <2>1, <2>2 DEF Carries, Writing
    <3>2. QED BY <3>1, InHand
  <2>5. job[x].visit = v => w \in met
    <3>1. job[x].visit = v => Together(job[w], job[x])
      BY <1>2, <1>3, <2>4 DEF Together
    <3>2. QED BY <2>2, <3>1 DEF CalendarInv, MetTrue
  <2>6. QED BY <1>5, <1>7, <1>9, <2>2, <2>3, <2>4, <2>5
<1>23. PICK e0 \in Events : TRUE
  <2>1. 1 \in Events
    BY CalendarSyncAssumption DEF Events
  <2>2. QED BY <2>1
<1>24. Writes(w, v, e0)
  <2>1. created \in Nat
    BY Fields DEF CalendarInv, Typed
  <2>2. \A x \in Syncs \ {w} : x \in met' <=> x \in met
    BY <1>5
  <2>3. event' = event /\ created' = created
    BY <1>5
  <2>4. /\ created' \in Nat /\ created <= created'
        /\ \A f \in Events \ {e0} : event'[f] = event[f]
        /\ event'[e0] = event[e0]
    BY <2>1, <2>3
  <2>5. w \in met => astray \subseteq astray' /\ crossed \subseteq crossed' /\ reopened \subseteq reopened'
    BY <1>9
  <2>6. \A u \in Visits \ {v} : /\ row'[u] = row[u]
                                /\ u \in astray' <=> u \in astray
                                /\ u \in crossed' <=> u \in crossed
                                /\ u \in reopened' <=> u \in reopened
    BY <1>6, <1>7
  <2>7. \A u \in Visits : Standing(u)' => Standing(u)
    BY <1>8
  <2>8. QED BY <2>2, <2>4, <2>5, <2>6, <2>7 DEF Writes
<1>25. Idle \in Jobs /\ Hand(w, Idle)' /\ (w \in met' <=> w \in met /\ Idle # Idle)
  <2>1. Idle.at = "idle"
    BY DEF Idle
  <2>2. QED BY <1>5, <2>1, FreeHand, PlainJobs
<1>26. (IsVisits(job[w]) /\ job[w].visit = v)
  BY <1>2, <1>3
<1>27. QED
  BY <1>5, <1>14, <1>15, <1>16, <1>18, <1>19, <1>21, <1>22, <1>24, <1>25, <1>26, WriteStep

\* A restored visit has a new event, on the shared calendar; it is its one event only
\* where the row agrees and no other job has met the repair.
LEMMA RestoreStep ==
    ASSUME CalendarInv, Typed', NEW w \in Syncs, NEW v, RestoreVisit(w, v) PROVE CalendarInv'
<1>1. /\ job[w].at = "restoring" /\ job[w] \in RestoreJobs /\ v \in job[w].todo
      /\ Copied(job[w]) /\ Hand(w, job[w])
  <2>1. job[w] \in Jobs
    BY Fields DEF CalendarInv, Typed
  <2>2. QED BY <2>1, JobKinds DEF RestoreVisit, CalendarInv, Typed, Remembered, Hands
<1>2. v \in Visits /\ job[w].todo \subseteq Visits /\ v # Blank
  BY <1>1, CalendarSyncAssumption DEF RestoreJobs
<1>3. PICK seen \in Known : seen = job[w].seen[v]
  <2>1. job[w].seen \in [Visits -> Known \cup {Blank}] /\ job[w].seen[v] # Blank
    BY <1>1 DEF RestoreJobs, Copied
  <2>2. QED BY <1>2, <2>1
<1>n. created \in Nat /\ created \in 0..MaxEvents /\ created < MaxEvents /\ MaxEvents \in Nat
      /\ created' = created + 1
  BY CalendarSyncAssumption DEF RestoreVisit, CalendarInv, Typed, CalendarTypeOK
<1>4. PICK e \in Events : e = created' /\ e > created /\ ~(e <= created) /\ e # Blank /\ event[e] = Blank
  <2>1. created' \in Events /\ created' > created /\ ~(created' <= created)
    BY <1>n DEF Events
  <2>2. PICK e \in Events : e = created' /\ e > created /\ ~(e <= created)
    BY <2>1
  <2>3. event[e] = Blank
    BY <2>2 DEF CalendarInv, EventsIssued
  <2>4. QED BY <2>2, <2>3, CalendarSyncAssumption
<1>d. PICK b : b = [cal |-> "shared", tag |-> v, day |-> seen.day, live |-> TRUE]
  OBVIOUS
<1>5. /\ event' = [event EXCEPT ![e] = b]
      /\ b.cal = "shared" /\ b.tag = v /\ b.day = seen.day /\ b.live
      /\ row' = IF row[v] = Blank THEN row ELSE [row EXCEPT ![v].event = e, ![v].sync = "synced"]
      /\ stale' = IF row[v] # Blank /\ row[v].day = seen.day /\ row[v].status = seen.status
                  THEN stale \ {v} ELSE stale \cup {v}
      /\ met' = met
  BY <1>3, <1>4, <1>d DEF RestoreVisit
<1>6. PICK mended \in BOOLEAN :
         /\ mended = (/\ w \notin met /\ row[v] # Blank
                      /\ row[v].cal = "shared" /\ Tagged(v, "own") = {})
         /\ astray' = IF mended THEN astray \ {v} ELSE astray \cup {v}
         /\ crossed' = IF mended THEN crossed \ {v} ELSE crossed
         /\ reopened' = IF mended THEN reopened \ {v} ELSE reopened
  BY DEF RestoreVisit
<1>7. \A f \in Events : event'[f] = IF f = e THEN b ELSE event[f]
  BY <1>5 DEF CalendarInv, Typed, CalendarTypeOK
<1>b. b # Blank
  <2>1. b \in Event
    BY <1>2, <1>3, <1>d DEF Event, Known, Calendars
  <2>2. QED BY <2>1, CalendarSyncAssumption
<1>8. /\ \A u \in Visits \ {v} : row'[u] = row[u]
      /\ row[v] = Blank => row'[v] = Blank
      /\ row[v] # Blank => /\ row'[v].status = row[v].status /\ row'[v].day = row[v].day
                           /\ row'[v].event = e /\ row'[v].cal = row[v].cal /\ row'[v].sync = "synced"
  <2>1. row \in [Visits -> Row \cup {Blank}]
    BY DEF CalendarInv, Typed, CalendarTypeOK
  <2>2. CASE row[v] = Blank
    BY <1>5, <2>2
  <2>3. CASE row[v] # Blank
    <3>1. row[v] \in Row
      BY <1>2, <2>1, <2>3
    <3>2. \A u \in Visits : row'[u] = IF u = v THEN [row[v] EXCEPT !.event = e, !.sync = "synced"]
                                      ELSE row[u]
      BY <1>5, <2>1, <2>3
    <3>3. QED BY <1>2, <2>3, <3>1, <3>2 DEF Row
  <2>4. QED BY <2>2, <2>3
<1>9. \A u \in Visits \ {v} : /\ u \in astray' <=> u \in astray
                              /\ u \in crossed' <=> u \in crossed
                              /\ u \in reopened' <=> u \in reopened
                              /\ u \in stale' <=> u \in stale
  BY <1>5, <1>6
<1>10. /\ \A u \in Visits : Standing(u)' => Standing(u)
       /\ \A u \in Visits \ {v} : /\ Standing(u)' <=> Standing(u)
                                  /\ u \in Adrift' <=> u \in Adrift
                                  /\ u \in Lost' <=> u \in Lost
  BY <1>8, <1>9 DEF Standing, Adrift, Lost
<1>11. v \notin Adrift' => mended
  BY <1>2, <1>6 DEF Adrift
<1>12. w \in met => astray \subseteq astray' /\ crossed \subseteq crossed' /\ reopened \subseteq reopened'
  BY <1>6
<1>13. \A u \in Visits : row[u] # Blank => row[u].event # e /\ row[u].event \in Events \cup {Blank}
  BY <1>4, Fields DEF CalendarInv, EventsIssued, Typed
<1>14. EventsIssued'
  <2>1. \A f \in Events : f <= created => f <= created'
    BY <1>n DEF Events
  <2>2. e <= created'
    BY <1>n, <1>4
  <2>3. QED BY <1>7, <1>8, <1>13, <2>1, <2>2 DEF CalendarInv, EventsIssued
<1>15. TagsTrue'
  <2>1. SUFFICES ASSUME NEW u \in Visits, Standing(u)', row'[u].event # Blank,
                        event'[row'[u].event] # Blank
                 PROVE  /\ u \notin Lost' => event'[row'[u].event].tag = u
                        /\ u \notin Adrift' => event'[row'[u].event].live
    BY DEF TagsTrue
  <2>2. CASE u = v
    BY <1>5, <1>7, <1>8, <2>1, <2>2 DEF Standing
  <2>3. CASE u # v
    <3>1. Standing(u) /\ row'[u] = row[u] /\ row[u].event \in Events /\ row[u].event # e
      BY <1>8, <1>10, <1>13, <2>1, <2>3 DEF Standing
    <3>2. QED BY <1>7, <1>10, <2>1, <2>3, <3>1 DEF CalendarInv, TagsTrue
  <2>4. QED BY <2>2, <2>3
<1>16. OneEach'
  <2>1. SUFFICES ASSUME NEW u \in Visits, NEW cal \in Calendars, u \notin Adrift',
                        NEW f \in Tagged(u, cal)', NEW g \in Tagged(u, cal)'
                 PROVE  f = g
    BY DEF OneEach
  <2>2. \A h \in Events : h \in Tagged(u, cal)' => h \in Tagged(u, cal) \/ (h = e /\ u = v /\ cal = "shared")
    BY <1>5, <1>7 DEF Tagged, Live, On
  <2>3. f \in Events /\ g \in Events
    BY <2>1 DEF Tagged, Live, On
  <2>4. CASE u # v
    BY <1>10, <2>1, <2>2, <2>3, <2>4 DEF CalendarInv, OneEach
  <2>5. CASE u = v
    <3>1. w \notin met /\ Tagged(v, "own") = {}
      BY <1>6, <1>11, <2>1, <2>5
    <3>2. Tagged(v, "shared") = {}
      BY <1>1, <3>1 DEF Hand
    <3>3. Tagged(u, cal) = {}
      BY <2>5, <3>1, <3>2 DEF Calendars
    <3>4. QED BY <2>1, <2>2, <2>3, <3>3
  <2>6. QED BY <2>4, <2>5
<1>17. NeverShared'
  <2>1. SUFFICES ASSUME NEW u \in Visits, NEW y \in Visits, u # y, Standing(u)', Standing(y)',
                        row'[u].event # Blank, row'[u].event = row'[y].event,
                        u \notin Lost', y \notin Lost'
                 PROVE  FALSE
    BY DEF NeverShared, Standing, Lost
  <2>2. u # v /\ y # v
    BY <1>8, <1>10, <1>13, <2>1 DEF Standing
  <2>3. u \notin Lost /\ y \notin Lost /\ Standing(u) /\ Standing(y)
        /\ row[u].event # Blank /\ row[u].event = row[y].event
    BY <1>8, <1>10, <2>1, <2>2
  <2>4. QED BY <2>1, <2>3 DEF CalendarInv, NeverShared, Standing, Lost
<1>18. Shown'
  <2>1. SUFFICES ASSUME NEW u \in Visits, Standing(u)', row'[u].sync = "synced",
                        u \notin stale' \cup Adrift'
                 PROVE  /\ row'[u].event # Blank
                        /\ event'[row'[u].event] =
                              [cal |-> row'[u].cal, tag |-> u, day |-> row'[u].day, live |-> TRUE]
    BY DEF Shown, Standing, Adrift, Lost
  <2>2. CASE u # v
    <3>1. row'[u] = row[u] /\ Standing(u) /\ u \notin stale \cup Adrift
      BY <1>8, <1>9, <1>10, <2>1, <2>2
    <3>2. row[u].event \in Events /\ row[u].event # e /\ row[u].event # Blank
      BY <1>13, <2>1, <3>1, SettledEvent, CalendarSyncAssumption DEF Standing
    <3>3. event[row[u].event] =
              [cal |-> row[u].cal, tag |-> u, day |-> row[u].day, live |-> TRUE]
      BY <2>1, <3>1 DEF CalendarInv, Shown, Standing, Adrift, Lost
    <3>4. QED BY <1>7, <3>1, <3>2, <3>3
  <2>3. CASE u = v
    <3>1. mended /\ row[v] # Blank
      BY <1>6, <1>11, <2>1, <2>3
    <3>2. row[v].cal = "shared" /\ row[v].day = seen.day
      BY <1>5, <1>6, <2>1, <2>3, <3>1
    <3>3. row'[v].event = e /\ row'[v].cal = "shared" /\ row'[v].day = seen.day /\ event'[e] = b
      BY <1>7, <1>8, <3>1, <3>2
    <3>4. QED BY <1>4, <1>d, <2>3, <3>3
  <2>4. QED BY <2>2, <2>3
<1>19. PICK j : j = [job[w] EXCEPT !.todo = @ \ {v}] /\ Do(w, j)
  BY DEF RestoreVisit
<1>20. j \in Jobs /\ j.at = "restoring" /\ IsRepair(j) /\ IsRepair(job[w]) /\ j # Idle
       /\ j.todo = job[w].todo \ {v}
  <2>1. j \in RestoreJobs /\ j.at = "restoring" /\ j.todo = job[w].todo \ {v}
    BY <1>1, <1>19 DEF RestoreJobs
  <2>2. QED BY <1>1, <2>1, JobsOf DEF IsRepair, Idle
<1>21. \A x \in Syncs : job'[x] = IF x = w THEN j ELSE job[x]
  BY <1>19, <1>20, OneJob DEF CalendarInv, Typed
<1>22. ASSUME NEW x \in Syncs, NEW f, Carries(job'[x], f) PROVE x # w /\ job'[x] = job[x] /\ f # e
  <2>1. x # w /\ job'[x] = job[x]
    BY <1>20, <1>21, <1>22 DEF Carries, Carrying
  <2>2. QED BY <1>4, <1>22, <2>1, CarriedIssued
<1>23. RowHand'
  <2>1. SUFFICES ASSUME NEW u \in Visits, NEW x \in Syncs, Standing(u)',
                        Carries(job'[x], row'[u].event), job'[x].visit # u
                 PROVE  u \in Lost'
    BY DEF RowHand, Carries
  <2>2. x # w /\ job'[x] = job[x] /\ u # v
    BY <1>8, <1>10, <1>22, <2>1 DEF Standing
  <2>3. QED BY <1>8, <1>10, <2>1, <2>2 DEF CalendarInv, RowHand
<1>24. HandHand'
  <2>1. SUFFICES ASSUME NEW x \in Syncs, NEW y \in Syncs, NEW f \in Events,
                        Carries(job'[x], f), Carries(job'[y], f), job'[x].visit # job'[y].visit
                 PROVE  x \in met' /\ job'[x].visit \in crossed'
    BY DEF HandHand, Carries
  <2>2. x # w /\ job'[x] = job[x] /\ y # w /\ job'[y] = job[y]
    BY <1>22, <2>1
  <2>3. x \in met /\ job[x].visit \in crossed
    BY <2>1, <2>2 DEF CalendarInv, HandHand
  <2>4. job[x].at # "idle"
    BY <2>1, <2>2 DEF Carries, Carrying
  <2>5. w \in met
    BY <1>20, <2>2, <2>4 DEF CalendarInv, MetTrue, Together
  <2>6. QED BY <1>5, <1>12, <2>2, <2>3, <2>5
<1>25. Writes(w, v, e)
  <2>1. /\ created' \in Nat /\ created <= created' /\ event'[e].tag = v
        /\ \A f \in Events \ {e} : event'[f] = event[f]
    BY <1>n, <1>5, <1>7
  <2>2. QED BY <1>4, <1>5, <1>8, <1>9, <1>10, <1>12, <2>1 DEF Writes
<1>26. Hand(w, j)'
  <2>1. ASSUME w \notin met', NEW u \in j.todo PROVE Tagged(u, "shared")' = {}
    <3>1. u # v /\ Tagged(u, "shared") = {}
      BY <1>1, <1>5, <1>20, <2>1 DEF Hand
    <3>2. QED BY <1>5, <1>7, <3>1 DEF Tagged, Live, On
  <2>2. QED BY <1>20, <2>1 DEF Hand, Writing, Carrying
<1>27. (IsRepair(job[w]) /\ IsRepair(j)) /\ (w \in met' <=> w \in met /\ j # Idle)
  BY <1>5, <1>20
<1>28. QED
  BY <1>2, <1>14, <1>15, <1>16, <1>17, <1>18, <1>19, <1>20, <1>23, <1>24, <1>25, <1>26, <1>27, WriteStep

\* What the world does to rows leaves the jobs what they rely on.
LEMMA WorldKeeps ==
    ASSUME CalendarInv, Typed', Shrinks, UNCHANGED <<event, job, met>>,
           \A u \in Visits : row'[u] = Blank => row[u] = Blank
    PROVE  CalendarInv'
<1>1. EventsIssued' /\ TagsTrue' /\ OneEach' /\ NeverShared' /\ Shown'
  BY ShrinkKeeps
<1>2. /\ astray \subseteq astray' /\ crossed \subseteq crossed' /\ reopened \subseteq reopened'
      /\ Adrift \subseteq Adrift' /\ Lost \subseteq Lost'
  BY DEF Shrinks, Adrift, Lost
<1>3. MetTrue'
  <2>1. MetTrue
    BY DEF CalendarInv
  <2>2. QED BY <1>2, <2>1 DEF MetTrue, Together, IsRepair, IsVisits
<1>4. RowHand'
  <2>1. SUFFICES ASSUME NEW v \in Visits, NEW w \in Syncs, Standing(v)',
                        Carries(job[w], row'[v].event), job[w].visit # v
                 PROVE  v \in Lost'
    BY DEF RowHand, Carries
  <2>2. v \in reopened' \/ (Standing(v) /\ row'[v].event = row[v].event)
    BY <2>1 DEF Shrinks, Standing
  <2>3. QED BY <1>2, <2>1, <2>2 DEF CalendarInv, RowHand, Lost
<1>5. HandHand'
  BY <1>2 DEF CalendarInv, HandHand, Carries
<1>6. ASSUME NEW x \in Syncs PROVE \E k \in Jobs : job'[x] = k /\ Hand(x, k)'
  <2>1. PICK k \in Jobs : k = job[x] /\ Hand(x, k)
    BY Fields DEF CalendarInv, Typed, Hands
  <2>2. ASSUME k.at \in {"resolving"} \cup Writing, k.visit \notin Adrift'
        PROVE  row'[k.visit] # Blank
    <3>1. Knows(k) /\ k.visit \in Visits /\ k.visit \notin Adrift
      BY <1>2, <2>1, <2>2, JobKinds DEF Hand, Writing, Carrying
    <3>2. row[k.visit] # Blank
      BY <3>1 DEF Knows
    <3>3. QED BY <3>1, <3>2
  <2>3. (x \notin met' => x \notin met) /\ \A f : event'[f] = event[f]
    OBVIOUS
  <2>4. Hand(x, k)'
    BY <2>1, <2>2, <2>3, ShrinkHand
  <2>5. QED BY <2>1, <2>4
<1>7. Hands'
  BY <1>6, HandsOf
<1>8. QED BY <1>1, <1>3, <1>4, <1>5, <1>7 DEF CalendarInv

\* Customers, the admin and the provider, and the process that dies.
LEMMA WorldStep ==
    ASSUME CalendarInv, Typed',
           \/ Provision \/ Requeue \/ Restart \/ UNCHANGED calendarVars
           \/ \E v \in Visits : CancelVisit(v) \/ Reopen(v) \/ \E d \in Days : Reschedule(v, d)
    PROVE  CalendarInv'
<1>r. row \in [Visits -> Row \cup {Blank}] /\ Blank \notin Row
  BY CalendarSyncAssumption DEF CalendarInv, Typed, CalendarTypeOK
<1>1. CASE Provision \/ UNCHANGED calendarVars
  <2>1. UNCHANGED <<row, event, created, job, met, stale, astray, crossed, reopened>>
    BY <1>1 DEF Provision, calendarVars, google, ghosts
  <2>2. Shrinks
    BY <2>1 DEF Shrinks
  <2>3. QED BY <2>1, <2>2, WorldKeeps
<1>2. CASE Requeue
  <2>1. UNCHANGED <<event, created, job, met, stale, astray, crossed, reopened>>
    BY <1>2 DEF Requeue, google, ghosts
  <2>2. \A u \in Visits :
           /\ row'[u] = Blank <=> row[u] = Blank
           /\ row[u] # Blank => /\ row'[u].event = row[u].event /\ row'[u].cal = row[u].cal
                                /\ row'[u].day = row[u].day /\ row'[u].status = row[u].status
                                /\ row'[u].sync \in {row[u].sync, "pending"}
    <3>1. SUFFICES ASSUME NEW u \in Visits
                   PROVE  /\ row'[u] = Blank <=> row[u] = Blank
                          /\ row[u] # Blank =>
                                /\ row'[u].event = row[u].event /\ row'[u].cal = row[u].cal
                                /\ row'[u].day = row[u].day /\ row'[u].status = row[u].status
                                /\ row'[u].sync \in {row[u].sync, "pending"}
      OBVIOUS
    <3>2. row'[u] = IF row[u] # Blank /\ row[u].event # Blank
                    THEN [row[u] EXCEPT !.sync = "pending"] ELSE row[u]
      BY <1>2 DEF Requeue
    <3>3. CASE row[u] \in Row
      <4>1. [row[u] EXCEPT !.sync = "pending"] \in Row
        BY <3>3 DEF Row
      <4>2. QED BY <1>r, <3>2, <3>3, <4>1 DEF Row
    <3>4. CASE row[u] = Blank
      BY <3>2, <3>4
    <3>5. QED BY <1>r, <3>3, <3>4
  <2>3. Shrinks
    BY <2>1, <2>2 DEF Shrinks
  <2>4. QED BY <2>1, <2>2, <2>3, WorldKeeps
<1>3. CASE Restart
  <2>1. UNCHANGED <<row, event, created, stale, astray, crossed, reopened>> /\ met' = {}
        /\ \A x \in Syncs : job'[x] = Idle
    BY <1>3 DEF Restart, google
  <2>2. Shrinks
    BY <2>1 DEF Shrinks
  <2>3. EventsIssued' /\ TagsTrue' /\ OneEach' /\ NeverShared' /\ Shown'
    BY <2>2, ShrinkKeeps
  <2>4. Idle.at = "idle" /\ Idle \in Jobs
    BY PlainJobs DEF Idle
  <2>5. MetTrue'
    BY <2>1, <2>4 DEF MetTrue, Together, IsRepair, IsVisits
  <2>6. RowHand' /\ HandHand'
    BY <2>1, <2>4 DEF RowHand, HandHand, Carries, Carrying
  <2>7. ASSUME NEW x \in Syncs PROVE \E k \in Jobs : job'[x] = k /\ Hand(x, k)'
    BY <2>1, <2>4, FreeHand
  <2>8. Hands'
    BY <2>7, HandsOf
  <2>9. QED BY <2>3, <2>5, <2>6, <2>8 DEF CalendarInv
<1>4. ASSUME NEW v \in Visits, CancelVisit(v) \/ Reopen(v) \/ \E d \in Days : Reschedule(v, d)
      PROVE  CalendarInv'
  <2>1. /\ UNCHANGED <<event, created, job, met, stale, astray, crossed>>
        /\ reopened \subseteq reopened' /\ row[v] \in Row /\ row[v] # Blank
    BY <1>4, <1>r DEF CancelVisit, Reopen, Reschedule, google, ghosts
  <2>2. \/ row' = [row EXCEPT ![v] = [row[v] EXCEPT !.status = "cancelled", !.sync = "pending"]]
        \/ /\ row' = [row EXCEPT ![v] = [row[v] EXCEPT !.status = "booked", !.sync = "pending"]]
           /\ v \in reopened'
        \/ \E d \in Days : row' = [row EXCEPT ![v] = [row[v] EXCEPT !.day = d, !.sync = "pending"]]
    <3>1. CASE CancelVisit(v)
      BY <1>r, <2>1, <3>1 DEF CancelVisit, Row
    <3>2. CASE Reopen(v)
      BY <1>r, <2>1, <3>2 DEF Reopen, Row
    <3>3. CASE \E d \in Days : Reschedule(v, d)
      BY <1>r, <2>1, <3>3 DEF Reschedule, Row
    <3>4. QED BY <1>4, <3>1, <3>2, <3>3
  <2>3. \A u \in Visits \ {v} : row'[u] = row[u]
    BY <1>r, <2>2
  <2>4. /\ row'[v] # Blank /\ row'[v].event = row[v].event /\ row'[v].cal = row[v].cal
        /\ row'[v].sync = "pending"
        /\ row'[v].status = "booked" => row[v].status = "booked" \/ v \in reopened'
    <3>1. CASE row'[v] = [row[v] EXCEPT !.status = "cancelled", !.sync = "pending"]
      <4>1. row'[v] \in Row
        BY <2>1, <3>1 DEF Row
      <4>2. QED BY <1>r, <2>1, <3>1, <4>1 DEF Row
    <3>2. CASE row'[v] = [row[v] EXCEPT !.status = "booked", !.sync = "pending"] /\ v \in reopened'
      <4>1. row'[v] \in Row
        BY <2>1, <3>2 DEF Row
      <4>2. QED BY <1>r, <2>1, <3>2, <4>1 DEF Row
    <3>3. ASSUME NEW d \in Days, row'[v] = [row[v] EXCEPT !.day = d, !.sync = "pending"]
          PROVE  /\ row'[v] # Blank /\ row'[v].event = row[v].event /\ row'[v].cal = row[v].cal
                 /\ row'[v].sync = "pending"
                 /\ row'[v].status = "booked" => row[v].status = "booked" \/ v \in reopened'
      <4>1. row'[v] \in Row
        BY <2>1, <3>3 DEF Row
      <4>2. QED BY <1>r, <2>1, <3>3, <4>1 DEF Row
    <3>4. QED BY <1>r, <2>2, <3>1, <3>2, <3>3
  <2>5. Shrinks
    BY <2>1, <2>3, <2>4 DEF Shrinks
  <2>6. QED BY <2>1, <2>3, <2>4, <2>5, WorldKeeps
<1>5. QED BY <1>1, <1>2, <1>3, <1>4

\* It holds at the start: the one event there may be bears no tag.
LEMMA CalendarStarts == ASSUME CalendarInit, Typed PROVE CalendarInv
<1>1. /\ \A v \in Visits : row[v] \in [status: {"booked"}, day: Days, event: {Blank}, cal: {Blank},
                                       sync: {"pending"}]
      /\ \A w \in Syncs : job[w] = Idle
      /\ met = {} /\ Idle.at = "idle"
  BY DEF CalendarInit, Idle
<1>2. \A v \in Visits : row[v] # Blank /\ row[v].event = Blank /\ row[v].sync = "pending"
  <2>1. ASSUME NEW v \in Visits PROVE row[v] # Blank
    <3>1. row[v] \in Row
      BY <1>1 DEF Row
    <3>2. QED BY <3>1, CalendarSyncAssumption
  <2>2. QED BY <1>1, <2>1
<1>3. \A e \in Events : event[e] # Blank => e = 1 /\ created = 1 /\ event[e].tag = Blank
  BY DEF CalendarInit
<1>4. \A v \in Visits, cal \in Calendars : Tagged(v, cal) = {}
  BY <1>3, CalendarSyncAssumption DEF Tagged, Live, On
<1>5. EventsIssued
  BY <1>2, <1>3 DEF EventsIssued
<1>6. TagsTrue /\ OneEach /\ NeverShared /\ Shown
  BY <1>2, <1>4 DEF TagsTrue, OneEach, NeverShared, Shown
<1>7. MetTrue /\ RowHand /\ HandHand
  BY <1>1 DEF MetTrue, Together, IsRepair, IsVisits, RowHand, HandHand, Carries, Carrying
<1>8. Hands
  BY <1>1 DEF Hands, Hand, Writing, Carrying
<1>9. QED BY <1>5, <1>6, <1>7, <1>8 DEF CalendarInv

\* Every step keeps it.
LEMMA CalendarStep == ASSUME CalendarInv, Typed', [CalendarNext]_calendarVars PROVE CalendarInv'
<1>1. CASE \/ Provision \/ Requeue \/ Restart \/ UNCHANGED calendarVars
           \/ \E v \in Visits : CancelVisit(v) \/ Reopen(v) \/ \E d \in Days : Reschedule(v, d)
  BY <1>1, WorldStep
<1>2. ASSUME NEW w \in Syncs, SyncStep(w) PROVE CalendarInv'
  <2>1. CASE Resolve(w) BY <2>1, ResolveStep
  <2>2. CASE Evict(w) BY <2>2, EvictStep
  <2>3. CASE Own(w) BY <2>3, OwnStep
  <2>4. CASE Update(w) \/ Adopt(w) BY <2>4, UpdateStep
  <2>5. CASE Find(w) BY <2>5, FindStep
  <2>6. CASE Match(w) BY <2>6, MatchStep
  <2>7. CASE Create(w) BY <2>7, CreateStep
  <2>8. CASE Store(w) BY <2>8, StoreStep
  <2>9. CASE Fail(w) BY <2>9, EndSteps
  <2>10. QED BY <1>2, <2>1, <2>2, <2>3, <2>4, <2>5, <2>6, <2>7, <2>8, <2>9 DEF SyncStep
<1>3. ASSUME NEW w \in Syncs, RepairStep(w) PROVE CalendarInv'
  <2>1. CASE Remove(w) BY <2>1, RemoveStep
  <2>2. CASE DropRow(w) BY <2>2, EndSteps
  <2>3. CASE RepairEnds(w) BY <2>3, RepairSteps
  <2>4. ASSUME NEW e, NEW v, NEW cal, ReconcileEvent(w, e, v, cal) PROVE CalendarInv'
    BY <2>4, ReconcileStep
  <2>5. ASSUME NEW v, RestoreVisit(w, v) PROVE CalendarInv'
    BY <2>5, RestoreStep
  <2>6. QED BY <1>3, <2>1, <2>2, <2>3, <2>4, <2>5 DEF RepairStep
<1>4. ASSUME NEW w \in Syncs, GoogleFails(w) PROVE CalendarInv'
  BY <1>4, EndSteps
<1>5. ASSUME NEW w \in Syncs, ReconcileList(w) PROVE CalendarInv'
  BY <1>5, RepairSteps
<1>6. ASSUME NEW w \in Syncs, RestoreWipe(w) PROVE CalendarInv'
  BY <1>6, WipeStep
<1>7. ASSUME NEW w \in Syncs, NEW v \in Visits,
             CronLoad(w, v) \/ Load(w, v) \/ CancelRemoves(w, v) \/ DeleteVisit(w, v)
      PROVE  CalendarInv'
  <2>1. Load(w, v) \/ CancelRemoves(w, v) \/ DeleteVisit(w, v)
    BY <1>7 DEF CronLoad
  <2>2. QED BY <2>1, BeginsStep
<1>8. QED BY <1>1, <1>2, <1>3, <1>4, <1>5, <1>6, <1>7 DEF CalendarNext

\* The invariant, along every behaviour.
LEMMA CalendarInvariant == CalendarSpec => []CalendarInv
<1>1. CalendarInit => CalendarInv
  BY TypedStarts, CalendarStarts
<1>2. CalendarInv /\ [CalendarNext]_calendarVars => CalendarInv'
  <2>1. CalendarInv => Typed
    BY DEF CalendarInv
  <2>2. QED BY <2>1, TypedStep, CalendarStep
<1>3. QED BY <1>1, <1>2, PTL DEF CalendarSpec

\* isCalendarEventIdTakenByOtherBooking, asked before an event is updated and before
\* one is adopted, and true no longer when the row is stored: however many syncs run
\* beside each other, two booked visits keep the same event only where their syncs had
\* it in hand at once, or where one of them was set back to booked.
THEOREM OneEventOneVisit == CalendarSpec => []NeverShared
<1>1. CalendarInv => NeverShared
  BY DEF CalendarInv
<1>2. QED BY <1>1, CalendarInvariant, PTL

\* syncBooking: what says "synced" is in the calendar, on the day of its visit,
\* however many syncs run beside each other, but for the cases the property names.
THEOREM SyncedIsShown == CalendarSpec => []Shown
<1>1. CalendarInv => Shown
  BY DEF CalendarInv
<1>2. QED BY <1>1, CalendarInvariant, PTL

\* findAndDeduplicateByBookingId: no calendar shows a visit twice, however many syncs
\* run beside each other, but for the cases the property names.
THEOREM VisitShownOnce == CalendarSpec => []ShownOnce
<1>1. CalendarInv => ShownOnce
  <2>1. SUFFICES ASSUME CalendarInv, NEW v \in Visits, NEW cal \in Calendars, v \notin Adrift
                 PROVE  Cardinality(Tagged(v, cal)) <= 1
    BY DEF ShownOnce, Adrift, Lost
  <2>2. PICK es : es = Tagged(v, cal)
    OBVIOUS
  <2>3. CASE es = {}
    <3>1. Cardinality(es) = 0
      BY <2>3, FS_EmptySet
    <3>2. QED BY <2>2, <3>1
  <2>4. CASE es # {}
    <3>1. PICK e : es = {e}
      BY <2>1, <2>2, <2>4 DEF CalendarInv, OneEach
    <3>2. Cardinality(es) = 1
      BY <3>1, FS_Singleton
    <3>3. QED BY <2>2, <3>2
  <2>5. QED BY <2>3, <2>4
<1>2. QED BY <1>1, CalendarInvariant, PTL
=============================================================================
