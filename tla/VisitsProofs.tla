---------------------------- MODULE VisitsProofs ----------------------------
(* Proofs about Visits, for any subscriptions, any finite set of visits, any   *)
(* slots and seats, and any number of requests at once.                        *)
EXTENDS Visits, FiniteSetTheorems, TLAPS

\* What a request holds at each of its steps.
Fit(j) ==
    /\ j.at \in {"scheduling", "booking", "bumping", "reserving", "inserting", "cancelling",
                "cancelVisits", "deleting", "dropping", "sweeping", "sweepVisits"} => j.sub \in Subs
    /\ j.at \in {"cancelling", "cancelVisits", "removing", "sweeping", "sweepVisits"} =>
          j.next = "idle"
    /\ j.at = "booking" => j.next \in {"idle", "activating"}
    /\ j.at = "freeing" => j.next \in {"idle", "taking", "dropping"}
    /\ j.at = "freeing" /\ j.next = "dropping" => j.sub \in Subs
    /\ j.at = "idle" => j = Idle

Hands == \A w \in Workers : Fit(job[w])

-----------------------------------------------------------------------------
\* A set of visits is finite, and so are its seats.
LEMMA SeatsCounted ==
    ASSUME NEW ids \in SUBSET Visits PROVE SeatsOf(ids) \in [Slots -> Nat]
<1>1. ASSUME NEW t \in Slots PROVE Cardinality({v \in ids : visit[v].slot = t}) \in Nat
  <2>1. IsFiniteSet({v \in ids : visit[v].slot = t})
    BY VisitsAssumption, FS_Subset
  <2>2. QED
    BY <2>1, FS_CardinalityType
<1>2. QED
  BY <1>1 DEF SeatsOf

\* No request, and nothing to free.
LEMMA IdleJob ==
    /\ Idle \in Job /\ Fit(Idle)
    /\ Nothing \in [Slots -> Nat \cup {None}]
    /\ Idle.at = "idle" /\ Idle.next = "idle" /\ Idle.read = Nothing
BY VisitsAssumption DEF Idle, Job, Fit, Nothing, Slots, Steps

\* The types of what a request holds.
LEMMA Working ==
    ASSUME TypeOK, NEW w \in Workers
    PROVE  /\ job[w] \in Job
           /\ job[w].sub \in Subs \cup {None} /\ job[w].slot \in Slots /\ job[w].seen \in Nat
           /\ job[w].ids \subseteq Visits /\ job[w].seats \in [Slots -> Nat]
           /\ job[w].read \in [Slots -> Nat \cup {None}] /\ job[w].next \in Steps
BY DEF TypeOK, Job

\* A worker goes on with a request of the right form.
LEMMA Handed ==
    ASSUME TypeOK, Hands, NEW w \in Workers, NEW j \in Job, Fit(j), Do(w, j)
    PROVE  job' \in [Workers -> Job] /\ Hands'
<1>1. job' = [job EXCEPT ![w] = j]
  BY DEF Do
<1>2. \A v \in Workers : job'[v] = IF v = w THEN j ELSE job[v]
  BY <1>1 DEF TypeOK
<1>3. job' \in [Workers -> Job]
  BY <1>1 DEF TypeOK
<1>4. ASSUME NEW v \in Workers PROVE Fit(job'[v])
  BY <1>2 DEF Hands
<1>5. Hands'
  BY <1>4 DEF Hands, Fit
<1>6. QED
  BY <1>3, <1>5

\* A visit booked where there was none.
LEMMA InsertTyped ==
    ASSUME TypeOK, NEW s \in Subs, NEW t \in Slots, NEW r \in BOOLEAN, Inserts(s, t, r)
    PROVE  visit' \in [Visits -> Visit \cup {None}]
BY DEF TypeOK, Inserts, Visit

\* Visits that are cancelled stay visits.
LEMMA CancelTyped ==
    ASSUME TypeOK, NEW ids, \A v \in Visits : v \in ids => visit[v] # None, Cancels(ids)
    PROVE  visit' \in [Visits -> Visit \cup {None}]
<1>1. ASSUME NEW v \in Visits
      PROVE  (IF v \in ids THEN [visit[v] EXCEPT !.status = "cancelled"] ELSE visit[v])
                \in Visit \cup {None}
  BY DEF TypeOK, Visit
<1>2. QED
  BY <1>1 DEF Cancels

\* A request that starts is counted.
LEMMA Started ==
    ASSUME TypeOK, NEW w, NEW j, Starts(w, j)
    PROVE  Do(w, j) /\ requests' \in 0..MaxRequests /\ drift' \in BOOLEAN
<1>1. requests' \in 0..MaxRequests
  BY VisitsAssumption DEF TypeOK, Starts
<1>2. drift' \in BOOLEAN
  BY DEF TypeOK, Starts
<1>3. QED
  BY <1>1, <1>2 DEF Starts

\* Types and forms are kept.
LEMMA NextType == ASSUME TypeOK, Hands, [Next]_vars PROVE TypeOK' /\ Hands'
<1>1. ASSUME NEW w \in Workers, NEW s \in Subs, NEW t \in Slots, ScheduleRead(w, s, t)
      PROVE  TypeOK' /\ Hands'
  <2>1. Of(s) \cap Booked \cap Future \in SUBSET Visits
    BY Working DEF Of
  <2>2. SeatsOf(Of(s) \cap Booked \cap Future) \in [Slots -> Nat]
    BY <2>1, SeatsCounted
  <2> DEFINE j == [Idle EXCEPT !.at = "scheduling", !.sub = s, !.slot = t,
                           !.ids = Of(s) \cap Booked \cap Future,
                           !.seats = SeatsOf(Of(s) \cap Booked \cap Future)]
  <2>3. j \in Job /\ Fit(j)
    BY <1>1, <2>1, <2>2, IdleJob DEF TypeOK, Job, Steps, Slots, Fit, At, Idle
  <2>4. Do(w, j)
    BY <1>1 DEF ScheduleRead, Starts
  <2>5. job' \in [Workers -> Job] /\ Hands'
    BY <2>3, <2>4, Handed
  <2>6. QED
    BY <1>1, <2>5, Started DEF TypeOK, ScheduleRead
<1>2. ASSUME NEW w \in Workers, ScheduleCommit(w)
      PROVE  TypeOK' /\ Hands'
  <2>1. job' \in [Workers -> Job] /\ Hands'
    BY <1>2, IdleJob, Handed DEF ScheduleCommit, Ends
  <2>2. job[w].sub \in Subs
    BY <1>2 DEF Hands, Fit, At, ScheduleCommit
  <2>3. visit' \in [Visits -> Visit \cup {None}]
    <3> DEFINE old == {v \in job[w].ids : visit[v] # None}
               cancelled == [v \in Visits |->
                  IF v \in old THEN [visit[v] EXCEPT !.status = "cancelled"] ELSE visit[v]]
               new == [sub |-> job[w].sub, slot |-> job[w].slot, status |-> "booked",
                       recurring |-> TRUE, late |-> FALSE]
    <3>1. cancelled \in [Visits -> Visit \cup {None}]
      BY DEF TypeOK, Visit
    <3>2. new \in Visit
      BY <2>2, Working DEF Visit
    <3>3. \E v : visit' = [cancelled EXCEPT ![v] = new]
      BY <1>2 DEF ScheduleCommit
    <3>4. QED
      BY <3>1, <3>2, <3>3
  <2>4. count' \in [Slots -> Nat]
    BY <1>2, Working DEF TypeOK, ScheduleCommit, Floor
  <2>5. QED
    BY <1>2, <2>1, Working, <2>2, <2>3, <2>4 DEF TypeOK, ScheduleCommit
<1>3. ASSUME NEW w \in Workers, NEW s \in Subs, NEW t \in Slots, BookRead(w, s, t)
      PROVE  TypeOK' /\ Hands'
  <2> DEFINE j == [Idle EXCEPT !.at = "booking", !.sub = s, !.slot = t, !.seen = count[t],
                      !.next = IF sub[s] = "pending_schedule" THEN "activating" ELSE "idle"]
  <2>1. j \in Job /\ Fit(j)
    BY <1>3, IdleJob DEF TypeOK, Job, Steps, Slots, Fit, At, Idle
  <2>2. Do(w, j)
    BY <1>3 DEF BookRead, Starts
  <2>3. job' \in [Workers -> Job] /\ Hands'
    BY <2>1, <2>2, Handed
  <2>4. QED
    BY <1>3, <2>3, Started DEF TypeOK, BookRead
<1>4. ASSUME NEW w \in Workers, BookInsert(w)
      PROVE  TypeOK' /\ Hands'
  <2> DEFINE j == [job[w] EXCEPT !.at = "bumping"]
  <2>1. j \in Job /\ Fit(j)
    BY <1>4, Working, IdleJob DEF TypeOK, Job, Steps, Slots, Fit, At, Idle, Hands, BookInsert
  <2>2. Do(w, j)
    BY <1>4 DEF BookInsert, Ends
  <2>3. job' \in [Workers -> Job] /\ Hands'
    BY <2>1, <2>2, Handed
  <2>4. visit' \in [Visits -> Visit \cup {None}]
    BY <1>4, Working, InsertTyped DEF Hands, Fit, At, BookInsert
  <2>5. QED
    BY <1>4, <2>3, Working, <2>4 DEF TypeOK, BookInsert
<1>5. ASSUME NEW w \in Workers, BookBump(w)
      PROVE  TypeOK' /\ Hands'
  <2> DEFINE j == IF job[w].next = "idle" THEN Idle ELSE [job[w] EXCEPT !.at = "activating"]
  <2>1. j \in Job /\ Fit(j)
    BY <1>5, Working, IdleJob DEF TypeOK, Job, Steps, Slots, Fit, At, Idle, Hands, BookBump
  <2>2. Do(w, j)
    BY <1>5 DEF BookBump, Ends
  <2>3. job' \in [Workers -> Job] /\ Hands'
    BY <2>1, <2>2, Handed
  <2>4. QED
    BY <1>5, <2>3, Working DEF TypeOK, BookBump, Taken
<1>6. ASSUME NEW w \in Workers, BookActivate(w)
      PROVE  TypeOK' /\ Hands'
  <2>1. job' \in [Workers -> Job] /\ Hands'
    BY <1>6, IdleJob, Handed DEF BookActivate, Ends
  <2>2. QED
    BY <1>6, <2>1, Working DEF TypeOK, BookActivate
<1>7. ASSUME NEW w \in Workers, NEW v \in Visits, NEW t \in Slots, MoveRead(w, v, t)
      PROVE  TypeOK' /\ Hands'
  <2>1. {v} \in SUBSET Visits
    BY Working DEF Of
  <2>2. SeatsOf({v}) \in [Slots -> Nat]
    BY <2>1, SeatsCounted
  <2> DEFINE j == [Idle EXCEPT !.at = "moving", !.slot = t, !.seen = count[t], !.ids = {v},
                           !.seats = SeatsOf({v})]
  <2>3. j \in Job /\ Fit(j)
    BY <1>7, <2>1, <2>2, IdleJob DEF TypeOK, Job, Steps, Slots, Fit, At, Idle
  <2>4. Do(w, j)
    BY <1>7 DEF MoveRead, Starts
  <2>5. job' \in [Workers -> Job] /\ Hands'
    BY <2>3, <2>4, Handed
  <2>6. QED
    BY <1>7, <2>5, Started DEF TypeOK, MoveRead
<1>8. ASSUME NEW w \in Workers, MoveVisit(w)
      PROVE  TypeOK' /\ Hands'
  <2> DEFINE j == [job[w] EXCEPT !.at = "freeing", !.ids = {}, !.next = "taking"]
  <2>1. j \in Job /\ Fit(j)
    BY <1>8, Working, IdleJob DEF TypeOK, Job, Steps, Slots, Fit, At, Idle, Hands, MoveVisit
  <2>2. Do(w, j)
    BY <1>8 DEF MoveVisit, Ends
  <2>3. job' \in [Workers -> Job] /\ Hands'
    BY <2>1, <2>2, Handed
  <2>4. visit' \in [Visits -> Visit \cup {None}]
    BY <1>8, Working DEF TypeOK, MoveVisit, Visit
  <2>5. QED
    BY <1>8, <2>3, Working, <2>4 DEF TypeOK, MoveVisit
<1>9. ASSUME NEW w \in Workers, NEW s \in Subs, NEW t \in Slots, ReserveRead(w, s, t)
      PROVE  TypeOK' /\ Hands'
  <2> DEFINE j == [Idle EXCEPT !.at = "reserving", !.sub = s, !.slot = t, !.seen = count[t]]
  <2>1. j \in Job /\ Fit(j)
    BY <1>9, IdleJob DEF TypeOK, Job, Steps, Slots, Fit, At, Idle
  <2>2. Do(w, j)
    BY <1>9 DEF ReserveRead, Starts
  <2>3. job' \in [Workers -> Job] /\ Hands'
    BY <2>1, <2>2, Handed
  <2>4. QED
    BY <1>9, <2>3, Started DEF TypeOK, ReserveRead
<1>10. ASSUME NEW w \in Workers, Take(w)
      PROVE  TypeOK' /\ Hands'
  <2> DEFINE j == IF At(w, "taking") THEN Idle ELSE [job[w] EXCEPT !.at = "inserting"]
  <2>1. j \in Job /\ Fit(j)
    BY <1>10, Working, IdleJob DEF TypeOK, Job, Steps, Slots, Fit, At, Idle, Hands, Take
  <2>2. Do(w, j)
    BY <1>10 DEF Take, Ends
  <2>3. job' \in [Workers -> Job] /\ Hands'
    BY <2>1, <2>2, Handed
  <2>4. QED
    BY <1>10, <2>3, Working DEF TypeOK, Take, Taken
<1>11. ASSUME NEW w \in Workers, ReserveInsert(w)
      PROVE  TypeOK' /\ Hands'
  <2>1. job' \in [Workers -> Job] /\ Hands'
    BY <1>11, IdleJob, Handed DEF ReserveInsert, Ends
  <2>2. visit' \in [Visits -> Visit \cup {None}]
    BY <1>11, Working, InsertTyped DEF Hands, Fit, At, ReserveInsert
  <2>3. QED
    BY <1>11, <2>1, Working, <2>2 DEF TypeOK, ReserveInsert
<1>12. ASSUME NEW w \in Workers, NEW t \in Slots, FreeRead(w, t)
      PROVE  TypeOK' /\ Hands'
  <2> DEFINE j == [job[w] EXCEPT !.read[t] = count[t]]
  <2>1. j \in Job /\ Fit(j)
    BY <1>12, Working, IdleJob DEF TypeOK, Job, Steps, Slots, Fit, At, Idle, Hands, FreeRead
  <2>2. Do(w, j)
    BY <1>12 DEF FreeRead, Ends
  <2>3. job' \in [Workers -> Job] /\ Hands'
    BY <2>1, <2>2, Handed
  <2>4. QED
    BY <1>12, <2>3, Working DEF TypeOK, FreeRead
<1>13. ASSUME NEW w \in Workers, NEW t \in Slots, FreeWrite(w, t)
      PROVE  TypeOK' /\ Hands'
  <2> DEFINE j == [job[w] EXCEPT !.seats[t] = 0, !.read[t] = None]
  <2>1. j \in Job /\ Fit(j)
    BY <1>13, Working, IdleJob DEF TypeOK, Job, Steps, Slots, Fit, At, Idle, Hands, FreeWrite
  <2>2. Do(w, j)
    BY <1>13 DEF FreeWrite, Ends
  <2>3. job' \in [Workers -> Job] /\ Hands'
    BY <2>1, <2>2, Handed
  <2>4. count' \in [Slots -> Nat]
    BY <1>13, Working DEF TypeOK, FreeWrite, Less, Floor
  <2>5. QED
    BY <1>13, <2>3, Working, <2>4 DEF TypeOK, FreeWrite
<1>14. ASSUME NEW w \in Workers, FreeDone(w)
      PROVE  TypeOK' /\ Hands'
  <2> DEFINE j == IF job[w].next = "idle" THEN Idle ELSE [job[w] EXCEPT !.at = job[w].next]
  <2>1. j \in Job /\ Fit(j)
    BY <1>14, Working, IdleJob DEF TypeOK, Job, Steps, Slots, Fit, At, Idle, Hands, FreeDone
  <2>2. Do(w, j)
    BY <1>14 DEF FreeDone, Ends
  <2>3. job' \in [Workers -> Job] /\ Hands'
    BY <2>1, <2>2, Handed
  <2>4. QED
    BY <1>14, <2>3, Working DEF TypeOK, FreeDone
<1>15. ASSUME NEW w \in Workers, NEW s \in Subs, CancelSub(w, s)
      PROVE  TypeOK' /\ Hands'
  <2> DEFINE j == [Idle EXCEPT !.at = "cancelling", !.sub = s]
  <2>1. j \in Job /\ Fit(j)
    BY <1>15, IdleJob DEF TypeOK, Job, Steps, Slots, Fit, At, Idle
  <2>2. Do(w, j)
    BY <1>15 DEF CancelSub, Starts
  <2>3. job' \in [Workers -> Job] /\ Hands'
    BY <2>1, <2>2, Handed
  <2>4. QED
    BY <1>15, <2>3, Started DEF TypeOK, CancelSub
<1>16. ASSUME NEW w \in Workers, CancelFind(w)
      PROVE  TypeOK' /\ Hands'
  <2> DEFINE found == Of(job[w].sub) \cap Booked \cap Future
  <2>1. found \in SUBSET Visits
    BY DEF Of
  <2>2. SeatsOf(found) \in [Slots -> Nat]
    BY <2>1, SeatsCounted
  <2> DEFINE j == IF found = {} THEN Idle
                  ELSE [job[w] EXCEPT !.at = "cancelVisits", !.seats = SeatsOf(found)]
  <2>3. j \in Job /\ Fit(j)
    BY <1>16, <2>1, <2>2, Working, IdleJob
       DEF TypeOK, Job, Steps, Slots, Fit, At, Idle, Hands, CancelFind
  <2>4. Do(w, j)
    BY <1>16 DEF CancelFind, Ends
  <2>5. job' \in [Workers -> Job] /\ Hands'
    BY <2>3, <2>4, Handed
  <2>6. QED
    BY <1>16, <2>5, Working DEF TypeOK, CancelFind
<1>17. ASSUME NEW w \in Workers, CancelVisits(w)
      PROVE  TypeOK' /\ Hands'
  <2> DEFINE j == [job[w] EXCEPT !.at = "freeing"]
  <2>1. j \in Job /\ Fit(j)
    BY <1>17, Working, IdleJob DEF TypeOK, Job, Steps, Slots, Fit, At, Idle, Hands, CancelVisits
  <2>2. Do(w, j)
    BY <1>17 DEF CancelVisits, Ends, CancelFrees
  <2>3. job' \in [Workers -> Job] /\ Hands'
    BY <2>1, <2>2, Handed
  <2>4. visit' \in [Visits -> Visit \cup {None}]
    BY <1>17, CancelTyped DEF Of, CancelVisits
  <2>5. QED
    BY <1>17, <2>3, Working, <2>4 DEF TypeOK, CancelVisits
<1>18. ASSUME NEW w \in Workers, NEW s \in Subs, DeleteFind(w, s)
      PROVE  TypeOK' /\ Hands'
  <2>1. Of(s) \in SUBSET Visits
    BY Working DEF Of
  <2> DEFINE j == [Idle EXCEPT !.at = "deleting", !.sub = s, !.ids = Of(s)]
  <2>2. j \in Job /\ Fit(j)
    BY <1>18, <2>1, IdleJob DEF TypeOK, Job, Steps, Slots, Fit, At, Idle
  <2>3. Do(w, j)
    BY <1>18 DEF DeleteFind, Starts
  <2>4. job' \in [Workers -> Job] /\ Hands'
    BY <2>2, <2>3, Handed
  <2>5. QED
    BY <1>18, <2>4, Started DEF TypeOK, DeleteFind
<1>19. ASSUME NEW w \in Workers, DeleteSeats(w)
      PROVE  TypeOK' /\ Hands'
  <2> DEFINE ids == {v \in job[w].ids : visit[v] # None}
  <2>1. ids \in SUBSET Visits
    BY Working DEF Of
  <2>2. SeatsOf(ids) \in [Slots -> Nat]
    BY <2>1, SeatsCounted
  <2> DEFINE j == [job[w] EXCEPT !.at = "freeing", !.ids = {}, !.seats = SeatsOf(ids),
                            !.next = "dropping"]
  <2>3. j \in Job /\ Fit(j)
    BY <1>19, <2>1, <2>2, Working, IdleJob
       DEF TypeOK, Job, Steps, Slots, Fit, At, Idle, Hands, DeleteSeats
  <2>4. Do(w, j)
    BY <1>19 DEF DeleteSeats, Ends, Frees
  <2>5. job' \in [Workers -> Job] /\ Hands'
    BY <2>3, <2>4, Handed
  <2>6. QED
    BY <1>19, <2>5, Working DEF TypeOK, DeleteSeats
<1>20. ASSUME NEW w \in Workers, DeleteRows(w)
      PROVE  TypeOK' /\ Hands'
  <2>1. job' \in [Workers -> Job] /\ Hands'
    BY <1>20, IdleJob, Handed DEF DeleteRows, Ends
  <2>2. QED
    BY <1>20, <2>1, Working DEF TypeOK, DeleteRows
<1>21. ASSUME NEW w \in Workers, NEW v \in Visits, RemoveRead(w, v)
      PROVE  TypeOK' /\ Hands'
  <2> DEFINE ids == IF visit[v].status = "cancelled" THEN {} ELSE {v}
  <2>1. ids \in SUBSET Visits
    OBVIOUS
  <2>2. SeatsOf(ids) \in [Slots -> Nat]
    BY <2>1, SeatsCounted
  <2> DEFINE j == [Idle EXCEPT !.at = "removing", !.ids = {v},
                           !.seats = SeatsOf(ids)]
  <2>3. j \in Job /\ Fit(j)
    BY <1>21, <2>1, <2>2, IdleJob DEF TypeOK, Job, Steps, Slots, Fit, At, Idle
  <2>4. Do(w, j)
    BY <1>21 DEF RemoveRead, Starts
  <2>5. job' \in [Workers -> Job] /\ Hands'
    BY <2>3, <2>4, Handed
  <2>6. QED
    BY <1>21, <2>5, Started DEF TypeOK, RemoveRead
<1>22. ASSUME NEW w \in Workers, RemoveRow(w)
      PROVE  TypeOK' /\ Hands'
  <2> DEFINE j == [job[w] EXCEPT !.at = "freeing", !.ids = {}]
  <2>1. j \in Job /\ Fit(j)
    BY <1>22, Working, IdleJob DEF TypeOK, Job, Steps, Slots, Fit, At, Idle, Hands, RemoveRow
  <2>2. Do(w, j)
    BY <1>22 DEF RemoveRow, Ends
  <2>3. job' \in [Workers -> Job] /\ Hands'
    BY <2>1, <2>2, Handed
  <2>4. QED
    BY <1>22, <2>3, Working DEF TypeOK, RemoveRow
<1>23. ASSUME NEW w \in Workers, NEW s \in Subs, Expire(w, s)
      PROVE  TypeOK' /\ Hands'
  <2> DEFINE j == [Idle EXCEPT !.at = "sweeping", !.sub = s]
  <2>1. j \in Job /\ Fit(j)
    BY <1>23, IdleJob DEF TypeOK, Job, Steps, Slots, Fit, At, Idle
  <2>2. Do(w, j)
    BY <1>23 DEF Expire, Starts
  <2>3. job' \in [Workers -> Job] /\ Hands'
    BY <2>1, <2>2, Handed
  <2>4. QED
    BY <1>23, <2>3, Started DEF TypeOK, Expire
<1>24. ASSUME NEW w \in Workers, SweepFind(w)
      PROVE  TypeOK' /\ Hands'
  <2> DEFINE found == Of(job[w].sub) \cap Booked \cap Future
  <2>1. found \in SUBSET Visits
    BY DEF Of
  <2>2. SeatsOf(found) \in [Slots -> Nat]
    BY <2>1, SeatsCounted
  <2> DEFINE j == IF found = {} THEN Idle
                  ELSE [job[w] EXCEPT !.at = "sweepVisits", !.ids = found,
                               !.seats = SeatsOf(found), !.read = count]
  <2>3. j \in Job /\ Fit(j)
    BY <1>24, <2>1, <2>2, Working, IdleJob
       DEF TypeOK, Job, Steps, Slots, Fit, At, Idle, Hands, SweepFind
  <2>4. Do(w, j)
    BY <1>24 DEF SweepFind, Ends
  <2>5. job' \in [Workers -> Job] /\ Hands'
    BY <2>3, <2>4, Handed
  <2>6. QED
    BY <1>24, <2>5, Working DEF TypeOK, SweepFind
<1>25. ASSUME NEW w \in Workers, SweepVisits(w)
      PROVE  TypeOK' /\ Hands'
  <2> DEFINE j == [job[w] EXCEPT !.at = "freeing", !.ids = {}]
  <2>1. j \in Job /\ Fit(j)
    BY <1>25, Working, IdleJob DEF TypeOK, Job, Steps, Slots, Fit, At, Idle, Hands, SweepVisits
  <2>2. Do(w, j)
    BY <1>25 DEF SweepVisits, Ends
  <2>3. job' \in [Workers -> Job] /\ Hands'
    BY <2>1, <2>2, Handed
  <2>4. visit' \in [Visits -> Visit \cup {None}]
    BY <1>25, CancelTyped DEF Of, SweepVisits
  <2>5. QED
    BY <1>25, <2>3, Working, <2>4 DEF TypeOK, SweepVisits
<1>26. ASSUME NEW w \in Workers, CutShort(w)
      PROVE  TypeOK' /\ Hands'
  <2>1. job' \in [Workers -> Job] /\ Hands'
    BY <1>26, IdleJob, Handed DEF CutShort, Ends
  <2>2. QED
    BY <1>26, <2>1, Working DEF TypeOK, CutShort
<1>27. CASE NewDay
  <2>1. today' \in Slots
    BY <1>27, VisitsAssumption DEF TypeOK, NewDay, Slots
  <2>2. drift' \in BOOLEAN
    BY <1>27 DEF TypeOK, NewDay
  <2>3. QED
    BY <1>27, <2>1, <2>2 DEF TypeOK, Hands, NewDay
<1>28. ASSUME NEW v \in Visits, NEW st \in {"BOOKED", "CANCELLED", "COMPLETED"}, Edit(v, st)
      PROVE  TypeOK' /\ Hands'
  BY <1>28 DEF TypeOK, Hands, Edit, Visit
<1>29. CASE UNCHANGED vars
  BY <1>29 DEF TypeOK, Hands, vars
<1>30. QED
  BY <1>1, <1>2, <1>3, <1>4, <1>5, <1>6, <1>7, <1>8, <1>9, <1>10,
     <1>11, <1>12, <1>13, <1>14, <1>15, <1>16, <1>17, <1>18, <1>19, <1>20,
     <1>21, <1>22, <1>23, <1>24, <1>25, <1>26, <1>27, <1>28, <1>29 DEF Next, Step, Request
-----------------------------------------------------------------------------
(* One schedule a subscription.                                               *)

\* The visits of a schedule that are to come, and were not moved there too late.
Steady(s) == {v \in Of(s) \cap Booked \cap Future : visit[v].recurring /\ ~visit[v].late}

Scheduling(w, s) == At(w, "scheduling") /\ job[w].sub = s

\* A schedule in the making gives up all that is scheduled, and is the only one of
\* its subscription; so what is scheduled is one visit at most.
Given ==
    \A s \in Subs :
        /\ \A w \in Workers : Scheduling(w, s) => Steady(s) \subseteq job[w].ids
        /\ \A v, w \in Workers : Scheduling(v, s) /\ Scheduling(w, s) => v = w
        /\ \A u, v \in Steady(s) : u = v

\* A visit of a schedule is moved in time.
Moved(v) ==
    /\ visit[v] # None /\ visit[v].sub = visit'[v].sub /\ visit[v].status = "booked"
    /\ visit[v].slot >= today /\ visit[v].recurring /\ ~visit[v].late

\* No visit becomes part of a schedule.
NoneScheduled ==
    /\ today' >= today
    /\ \A v \in Visits : \/ visit'[v] = visit[v] \/ visit'[v] = None
                         \/ ~visit'[v].recurring \/ visit'[v].status # "booked"
                         \/ visit'[v].late \/ Moved(v)

\* Then every schedule is what it was, or less.
LEMMA Shrinks ==
    ASSUME TypeOK, TypeOK', NoneScheduled, NEW s PROVE Steady(s)' \subseteq Steady(s)
<1>1. ASSUME NEW v \in Steady(s)' PROVE v \in Steady(s)
  <2>1. /\ v \in Visits /\ visit'[v] # None /\ visit'[v].sub = s /\ visit'[v].status = "booked"
        /\ visit'[v].slot >= today' /\ visit'[v].recurring /\ ~visit'[v].late
    BY <1>1 DEF Steady, Of, Booked, Future
  <2>2. CASE visit'[v] = visit[v]
    <3>1. visit[v] \in Visit
      BY <2>1, <2>2 DEF TypeOK
    <3>2. visit[v].slot \in Int /\ today' \in Int /\ today \in Int
      BY <3>1, VisitsAssumption DEF TypeOK, Visit, Slots
    <3>3. visit[v].slot >= today
      BY <2>1, <2>2, <3>2 DEF NoneScheduled
    <3>4. QED
      BY <2>1, <2>2, <3>3 DEF Steady, Of, Booked, Future
  <2>3. CASE Moved(v)
    BY <2>1, <2>3 DEF Moved, Steady, Of, Booked, Future
  <2>4. QED
    BY <2>1, <2>2, <2>3 DEF NoneScheduled
<1>2. QED
  BY <1>1

\* No step but those of a schedule breaks it.
LEMMA StaysGiven ==
    ASSUME TypeOK, TypeOK', Given, NoneScheduled,
           \A w \in Workers : job'[w] = job[w] \/ job'[w].at # "scheduling"
    PROVE  Given'
<1>1. ASSUME NEW w \in Workers, NEW s, Scheduling(w, s)'
      PROVE  Scheduling(w, s) /\ job'[w] = job[w]
  BY <1>1 DEF Scheduling, At
<1>2. ASSUME NEW s \in Subs
      PROVE  /\ \A w \in Workers : Scheduling(w, s)' => Steady(s)' \subseteq job'[w].ids
             /\ \A v, w \in Workers : Scheduling(v, s)' /\ Scheduling(w, s)' => v = w
             /\ \A u, v \in Steady(s)' : u = v
  <2>1. Steady(s)' \subseteq Steady(s)
    BY Shrinks
  <2>2. QED
    BY <1>1, <2>1 DEF Given
<1>3. QED
  BY <1>2 DEF Given

\* A schedule that begins reads all that is to be given up.
LEMMA BeginsGiven ==
    ASSUME TypeOK, TypeOK', Given, NEW w \in Workers, NEW s \in Subs, NEW t \in Slots,
           ScheduleRead(w, s, t)
    PROVE  Given'
<1>1. /\ \A u \in Workers : u # w => job'[u] = job[u]
      /\ job'[w].at = "scheduling" /\ job'[w].sub = s
      /\ job'[w].ids = Of(s) \cap Booked \cap Future
      /\ UNCHANGED <<today, visit>>
  BY DEF ScheduleRead, Starts, Do, TypeOK, Idle
<1>2. ASSUME NEW q PROVE Steady(q)' = Steady(q)
  BY <1>1 DEF Steady, Of, Booked, Future
<1>3. \A q \in Workers : ~Scheduling(q, s)
  BY DEF ScheduleRead, Locked, Scheduling
<1>4. \A v \in Workers, q \in Subs : v # w => (Scheduling(v, q)' <=> Scheduling(v, q))
  BY <1>1 DEF Scheduling, At
<1>5. \A q \in Subs : Scheduling(w, q)' => q = s
  BY <1>1 DEF Scheduling
<1>6. Steady(s) \subseteq job'[w].ids
  BY <1>1 DEF Steady
<1>7. ASSUME NEW q \in Subs
      PROVE  /\ \A v \in Workers : Scheduling(v, q)' => Steady(q)' \subseteq job'[v].ids
             /\ \A u, v \in Workers : Scheduling(u, q)' /\ Scheduling(v, q)' => u = v
             /\ \A u, v \in Steady(q)' : u = v
  BY <1>1, <1>2, <1>3, <1>4, <1>5, <1>6 DEF Given
<1>8. QED
  BY <1>7 DEF Given

\* A schedule that commits leaves its subscription the one visit it makes.
LEMMA CommitsGiven ==
    ASSUME TypeOK, TypeOK', Hands, Given, NEW w \in Workers, ScheduleCommit(w)
    PROVE  Given'
<1>1. PICK s \in Subs : job[w].sub = s
  BY DEF ScheduleCommit, Hands, Fit, At
<1>2. /\ \A u \in Workers : u # w => job'[u] = job[u]
      /\ job'[w].at = "idle"
      /\ UNCHANGED today
  BY IdleJob DEF ScheduleCommit, Ends, Do, TypeOK
<1>3. Scheduling(w, s) /\ Steady(s) \subseteq job[w].ids
  BY <1>1 DEF ScheduleCommit, Given, Scheduling
<1>4. PICK new \in Visits :
         /\ visit[new] = None
         /\ visit'[new] = [sub |-> s, slot |-> job[w].slot, status |-> "booked",
                           recurring |-> TRUE, late |-> FALSE]
         /\ \A v \in Visits \ {new} :
               visit'[v] = IF v \in job[w].ids /\ visit[v] # None
                           THEN [visit[v] EXCEPT !.status = "cancelled"] ELSE visit[v]
  BY <1>1 DEF ScheduleCommit, Fresh, TypeOK
<1>5. ASSUME NEW q, NEW v \in Steady(q)', v # new
      PROVE  v \in Steady(q) /\ (v \in job[w].ids => FALSE)
  <2>1. /\ v \in Visits /\ visit'[v] # None /\ visit'[v].sub = q /\ visit'[v].status = "booked"
        /\ visit'[v].slot >= today' /\ visit'[v].recurring /\ ~visit'[v].late
    BY <1>5 DEF Steady, Of, Booked, Future
  <2>2. visit'[v] = visit[v] /\ v \notin job[w].ids
    BY <1>4, <1>5, <2>1 DEF TypeOK, Visit
  <2>3. QED
    BY <1>2, <2>1, <2>2 DEF Steady, Of, Booked, Future
<1>6. ASSUME NEW q \in Subs, new \in Steady(q)' PROVE q = s
  BY <1>4, <1>6 DEF Steady, Of
<1>7. \A v \in Steady(s)' : v = new
  BY <1>3, <1>5
<1>8. \A q \in Subs : q # s => Steady(q)' \subseteq Steady(q)
  BY <1>5, <1>6
<1>9. ASSUME NEW v \in Workers, NEW q \in Subs, Scheduling(v, q)'
      PROVE  v # w /\ Scheduling(v, q) /\ job'[v] = job[v] /\ q # s
  <2>1. v # w /\ Scheduling(v, q) /\ job'[v] = job[v]
    BY <1>2, <1>9 DEF Scheduling, At
  <2>2. QED
    BY <1>3, <2>1 DEF Given
<1>10. ASSUME NEW q \in Subs
      PROVE  /\ \A v \in Workers : Scheduling(v, q)' => Steady(q)' \subseteq job'[v].ids
             /\ \A u, v \in Workers : Scheduling(u, q)' /\ Scheduling(v, q)' => u = v
             /\ \A u, v \in Steady(q)' : u = v
  <2>1. CASE q = s
    BY <1>7, <1>9, <2>1
  <2>2. CASE q # s
    BY <1>8, <1>9, <2>2 DEF Given
  <2>3. QED
    BY <2>1, <2>2
<1>11. QED
  BY <1>10 DEF Given

\* A step that leaves the visits and the day alone, and starts no schedule.
LEMMA QuietGiven ==
    ASSUME TypeOK, TypeOK', Given, UNCHANGED <<today, visit>>, NEW w \in Workers,
           \A u \in Workers : u # w => job'[u] = job[u], job'[w].at # "scheduling"
    PROVE  Given'
<1>1. NoneScheduled
  BY VisitsAssumption DEF NoneScheduled, TypeOK, Slots
<1>2. \A v \in Workers : job'[v] = job[v] \/ job'[v].at # "scheduling"
  OBVIOUS
<1>3. QED
  BY <1>1, <1>2, StaysGiven

\* A step that cancels, deletes or books visits for once, and starts no schedule.
LEMMA LessGiven ==
    ASSUME TypeOK, TypeOK', Given, UNCHANGED today, NEW w \in Workers,
           \A v \in Visits : \/ visit'[v] = visit[v] \/ visit'[v] = None
                            \/ ~visit'[v].recurring \/ visit'[v].status # "booked",
           \A u \in Workers : u # w => job'[u] = job[u], job'[w].at # "scheduling"
    PROVE  Given'
<1>1. NoneScheduled
  BY VisitsAssumption DEF NoneScheduled, TypeOK, Slots
<1>2. \A v \in Workers : job'[v] = job[v] \/ job'[v].at # "scheduling"
  OBVIOUS
<1>3. QED
  BY <1>1, <1>2, StaysGiven

\* Moving a visit puts none on the schedule, but those it marks as late.
LEMMA MovesNone ==
    ASSUME TypeOK, NEW w \in Workers, MoveVisit(w) PROVE NoneScheduled
<1>1. today' = today /\ today \in Int
  <2>1. UNCHANGED <<today, sub, count, drift, requests>>
    BY DEF MoveVisit
  <2>2. today \in Int
    BY VisitsAssumption DEF TypeOK, Slots
  <2>3. QED
    BY <2>1, <2>2
<1>2. ASSUME NEW v \in Visits, visit'[v] # visit[v]
      PROVE  \/ ~visit'[v].recurring \/ visit'[v].status # "booked"
             \/ visit'[v].late \/ Moved(v)
  <2>1. /\ visit[v] # None
        /\ visit'[v] = [visit[v] EXCEPT !.slot = job[w].slot,
                                       !.late = @ \/ visit[v].slot < today]
    BY <1>2 DEF MoveVisit
  <2>2. visit[v] \in Visit /\ visit[v].slot \in Int
    BY <2>1, VisitsAssumption DEF TypeOK, Visit, Slots
  <2>3. /\ visit'[v].sub = visit[v].sub /\ visit'[v].status = visit[v].status
        /\ visit'[v].recurring = visit[v].recurring
        /\ visit'[v].late = (visit[v].late \/ visit[v].slot < today)
    BY <2>1, <2>2 DEF Visit
  <2>4. CASE visit[v].slot < today
    BY <2>3, <2>4
  <2>5. CASE visit[v].late
    BY <2>3, <2>5
  <2>6. CASE visit[v].slot >= today /\ ~visit[v].late
    BY <2>1, <2>3, <2>6 DEF Moved
  <2>7. QED
    BY <1>1, <2>2, <2>4, <2>5, <2>6
<1>3. QED
  BY <1>1, <1>2 DEF NoneScheduled

\* Every step keeps the schedules.
LEMMA NextGiven ==
    ASSUME TypeOK, Hands, Given, TypeOK', [Next]_vars PROVE Given'
<1>1. ASSUME NEW w \in Workers, NEW s \in Subs, NEW t \in Slots, BookRead(w, s, t)
      PROVE  Given'
  <2>1. (\A u \in Workers : u # w => job'[u] = job[u]) /\ job'[w].at # "scheduling"
    BY <1>1, Working DEF BookRead, Starts, Do, TypeOK, Job, Idle
  <2>2. UNCHANGED <<today, visit>>
    BY <1>1 DEF BookRead
  <2>3. QED
    BY <2>1, <2>2, QuietGiven
<1>2. ASSUME NEW w \in Workers, BookBump(w)
      PROVE  Given'
  <2>1. (\A u \in Workers : u # w => job'[u] = job[u]) /\ job'[w].at # "scheduling"
    BY <1>2, Working DEF BookBump, At, Ends, Do, TypeOK, Job, Idle
  <2>2. UNCHANGED <<today, visit>>
    BY <1>2 DEF BookBump
  <2>3. QED
    BY <2>1, <2>2, QuietGiven
<1>3. ASSUME NEW w \in Workers, BookActivate(w)
      PROVE  Given'
  <2>1. (\A u \in Workers : u # w => job'[u] = job[u]) /\ job'[w].at # "scheduling"
    BY <1>3, Working DEF BookActivate, At, Ends, Do, TypeOK, Job, Idle
  <2>2. UNCHANGED <<today, visit>>
    BY <1>3 DEF BookActivate
  <2>3. QED
    BY <2>1, <2>2, QuietGiven
<1>4. ASSUME NEW w \in Workers, NEW v \in Visits, NEW t \in Slots, MoveRead(w, v, t)
      PROVE  Given'
  <2>1. (\A u \in Workers : u # w => job'[u] = job[u]) /\ job'[w].at # "scheduling"
    BY <1>4, Working DEF MoveRead, Starts, Do, TypeOK, Job, Idle
  <2>2. UNCHANGED <<today, visit>>
    BY <1>4 DEF MoveRead
  <2>3. QED
    BY <2>1, <2>2, QuietGiven
<1>5. ASSUME NEW w \in Workers, NEW s \in Subs, NEW t \in Slots, ReserveRead(w, s, t)
      PROVE  Given'
  <2>1. (\A u \in Workers : u # w => job'[u] = job[u]) /\ job'[w].at # "scheduling"
    BY <1>5, Working DEF ReserveRead, Starts, Do, TypeOK, Job, Idle
  <2>2. UNCHANGED <<today, visit>>
    BY <1>5 DEF ReserveRead
  <2>3. QED
    BY <2>1, <2>2, QuietGiven
<1>6. ASSUME NEW w \in Workers, Take(w)
      PROVE  Given'
  <2>1. (\A u \in Workers : u # w => job'[u] = job[u]) /\ job'[w].at # "scheduling"
    BY <1>6, Working DEF Take, At, Ends, Do, TypeOK, Job, Idle
  <2>2. UNCHANGED <<today, visit>>
    BY <1>6 DEF Take
  <2>3. QED
    BY <2>1, <2>2, QuietGiven
<1>7. ASSUME NEW w \in Workers, NEW t \in Slots, FreeRead(w, t)
      PROVE  Given'
  <2>1. (\A u \in Workers : u # w => job'[u] = job[u]) /\ job'[w].at # "scheduling"
    BY <1>7, Working DEF FreeRead, At, Do, TypeOK, Job, Idle
  <2>2. UNCHANGED <<today, visit>>
    BY <1>7 DEF FreeRead
  <2>3. QED
    BY <2>1, <2>2, QuietGiven
<1>8. ASSUME NEW w \in Workers, NEW t \in Slots, FreeWrite(w, t)
      PROVE  Given'
  <2>1. (\A u \in Workers : u # w => job'[u] = job[u]) /\ job'[w].at # "scheduling"
    BY <1>8, Working DEF FreeWrite, At, Do, TypeOK, Job, Idle
  <2>2. UNCHANGED <<today, visit>>
    BY <1>8 DEF FreeWrite
  <2>3. QED
    BY <2>1, <2>2, QuietGiven
<1>9. ASSUME NEW w \in Workers, FreeDone(w)
      PROVE  Given'
  <2>1. (\A u \in Workers : u # w => job'[u] = job[u]) /\ job'[w].at # "scheduling"
    <3>1. Do(w, Idle) \/ Do(w, [job[w] EXCEPT !.at = job[w].next])
      BY <1>9 DEF FreeDone, Ends
    <3>2. job[w].next # "scheduling" /\ job[w] \in Job
      BY <1>9, Working DEF FreeDone, Hands, Fit, At
    <3>3. QED
      BY <3>1, <3>2, IdleJob DEF Do, TypeOK, Job
  <2>2. UNCHANGED <<today, visit>>
    BY <1>9 DEF FreeDone
  <2>3. QED
    BY <2>1, <2>2, QuietGiven
<1>10. ASSUME NEW w \in Workers, NEW s \in Subs, CancelSub(w, s)
      PROVE  Given'
  <2>1. (\A u \in Workers : u # w => job'[u] = job[u]) /\ job'[w].at # "scheduling"
    BY <1>10, Working DEF CancelSub, Starts, Do, TypeOK, Job, Idle
  <2>2. UNCHANGED <<today, visit>>
    BY <1>10 DEF CancelSub
  <2>3. QED
    BY <2>1, <2>2, QuietGiven
<1>11. ASSUME NEW w \in Workers, CancelFind(w)
      PROVE  Given'
  <2>1. (\A u \in Workers : u # w => job'[u] = job[u]) /\ job'[w].at # "scheduling"
    <3>1. \/ Do(w, Idle)
          \/ \E j : Do(w, j) /\ j.at = "cancelVisits"
      <4> DEFINE j == [job[w] EXCEPT !.at = "cancelVisits", !.seats =
                          SeatsOf(Of(job[w].sub) \cap Booked \cap Future)]
      <4>1. Do(w, Idle) \/ Do(w, j)
        BY <1>11 DEF CancelFind, Ends
      <4>2. j.at = "cancelVisits"
        BY Working DEF Job
      <4>3. QED
        BY <4>1, <4>2
    <3>2. QED
      BY <3>1, IdleJob DEF Do, TypeOK
  <2>2. UNCHANGED <<today, visit>>
    BY <1>11 DEF CancelFind
  <2>3. QED
    BY <2>1, <2>2, QuietGiven
<1>12. ASSUME NEW w \in Workers, NEW s \in Subs, DeleteFind(w, s)
      PROVE  Given'
  <2>1. (\A u \in Workers : u # w => job'[u] = job[u]) /\ job'[w].at # "scheduling"
    BY <1>12, Working DEF DeleteFind, Starts, Do, TypeOK, Job, Idle
  <2>2. UNCHANGED <<today, visit>>
    BY <1>12 DEF DeleteFind
  <2>3. QED
    BY <2>1, <2>2, QuietGiven
<1>13. ASSUME NEW w \in Workers, DeleteSeats(w)
      PROVE  Given'
  <2>1. (\A u \in Workers : u # w => job'[u] = job[u]) /\ job'[w].at # "scheduling"
    BY <1>13, Working DEF DeleteSeats, At, Frees, Do, TypeOK, Job, Idle
  <2>2. UNCHANGED <<today, visit>>
    BY <1>13 DEF DeleteSeats
  <2>3. QED
    BY <2>1, <2>2, QuietGiven
<1>14. ASSUME NEW w \in Workers, NEW v \in Visits, RemoveRead(w, v)
      PROVE  Given'
  <2>1. (\A u \in Workers : u # w => job'[u] = job[u]) /\ job'[w].at # "scheduling"
    BY <1>14, Working DEF RemoveRead, Starts, Do, TypeOK, Job, Idle
  <2>2. UNCHANGED <<today, visit>>
    BY <1>14 DEF RemoveRead
  <2>3. QED
    BY <2>1, <2>2, QuietGiven
<1>15. ASSUME NEW w \in Workers, NEW s \in Subs, Expire(w, s)
      PROVE  Given'
  <2>1. (\A u \in Workers : u # w => job'[u] = job[u]) /\ job'[w].at # "scheduling"
    BY <1>15, Working DEF Expire, Starts, Do, TypeOK, Job, Idle
  <2>2. UNCHANGED <<today, visit>>
    BY <1>15 DEF Expire
  <2>3. QED
    BY <2>1, <2>2, QuietGiven
<1>16. ASSUME NEW w \in Workers, SweepFind(w)
      PROVE  Given'
  <2>1. (\A u \in Workers : u # w => job'[u] = job[u]) /\ job'[w].at # "scheduling"
    <3>1. \/ Do(w, Idle)
          \/ \E j : Do(w, j) /\ j.at = "sweepVisits"
      <4> DEFINE j == [job[w] EXCEPT !.at = "sweepVisits",
                          !.ids = Of(job[w].sub) \cap Booked \cap Future, !.seats =
                          SeatsOf(Of(job[w].sub) \cap Booked \cap Future), !.read = count]
      <4>1. Do(w, Idle) \/ Do(w, j)
        BY <1>16 DEF SweepFind, Ends
      <4>2. j.at = "sweepVisits"
        BY Working DEF Job
      <4>3. QED
        BY <4>1, <4>2
    <3>2. QED
      BY <3>1, IdleJob DEF Do, TypeOK
  <2>2. UNCHANGED <<today, visit>>
    BY <1>16 DEF SweepFind
  <2>3. QED
    BY <2>1, <2>2, QuietGiven
<1>17. ASSUME NEW w \in Workers, CutShort(w)
      PROVE  Given'
  <2>1. (\A u \in Workers : u # w => job'[u] = job[u]) /\ job'[w].at # "scheduling"
    BY <1>17, Working DEF CutShort, At, Ends, Do, TypeOK, Job, Idle
  <2>2. UNCHANGED <<today, visit>>
    BY <1>17 DEF CutShort
  <2>3. QED
    BY <2>1, <2>2, QuietGiven
<1>18. ASSUME NEW w \in Workers, BookInsert(w)
      PROVE  Given'
  <2>1. (\A u \in Workers : u # w => job'[u] = job[u]) /\ job'[w].at # "scheduling"
    BY <1>18, Working DEF BookInsert, Inserts, Do, TypeOK, Job, Idle
  <2>2. \A v \in Visits : \/ visit'[v] = visit[v] \/ visit'[v] = None
                           \/ ~visit'[v].recurring \/ visit'[v].status # "booked"
    BY <1>18 DEF BookInsert, Inserts, TypeOK, Visit, Of
  <2>3. QED
    BY <1>18, <2>1, <2>2, LessGiven DEF BookInsert
<1>19. ASSUME NEW w \in Workers, MoveVisit(w)
      PROVE  Given'
  <2>1. (\A u \in Workers : u # w => job'[u] = job[u]) /\ job'[w].at # "scheduling"
    BY <1>19, Working DEF MoveVisit, Do, TypeOK, Job, Idle
  <2>2. NoneScheduled
    BY <1>19, MovesNone
  <2>3. QED
    BY <2>1, <2>2, StaysGiven
<1>20. ASSUME NEW w \in Workers, ReserveInsert(w)
      PROVE  Given'
  <2>1. (\A u \in Workers : u # w => job'[u] = job[u]) /\ job'[w].at # "scheduling"
    BY <1>20, Working DEF ReserveInsert, Inserts, Ends, Do, TypeOK, Job, Idle
  <2>2. \A v \in Visits : \/ visit'[v] = visit[v] \/ visit'[v] = None
                           \/ ~visit'[v].recurring \/ visit'[v].status # "booked"
    BY <1>20 DEF ReserveInsert, Inserts, Ends, TypeOK, Visit, Of
  <2>3. QED
    BY <1>20, <2>1, <2>2, LessGiven DEF ReserveInsert
<1>21. ASSUME NEW w \in Workers, CancelVisits(w)
      PROVE  Given'
  <2>1. (\A u \in Workers : u # w => job'[u] = job[u]) /\ job'[w].at # "scheduling"
    BY <1>21, Working DEF CancelVisits, Cancels, CancelFrees, Do, TypeOK, Job, Idle
  <2>2. \A v \in Visits : \/ visit'[v] = visit[v] \/ visit'[v] = None
                           \/ ~visit'[v].recurring \/ visit'[v].status # "booked"
    BY <1>21 DEF CancelVisits, Cancels, CancelFrees, TypeOK, Visit, Of
  <2>3. QED
    BY <1>21, <2>1, <2>2, LessGiven DEF CancelVisits
<1>22. ASSUME NEW w \in Workers, DeleteRows(w)
      PROVE  Given'
  <2>1. (\A u \in Workers : u # w => job'[u] = job[u]) /\ job'[w].at # "scheduling"
    BY <1>22, Working DEF DeleteRows, Ends, Do, TypeOK, Job, Idle
  <2>2. \A v \in Visits : \/ visit'[v] = visit[v] \/ visit'[v] = None
                           \/ ~visit'[v].recurring \/ visit'[v].status # "booked"
    BY <1>22 DEF DeleteRows, Ends, TypeOK, Visit, Of
  <2>3. QED
    BY <1>22, <2>1, <2>2, LessGiven DEF DeleteRows
<1>23. ASSUME NEW w \in Workers, RemoveRow(w)
      PROVE  Given'
  <2>1. (\A u \in Workers : u # w => job'[u] = job[u]) /\ job'[w].at # "scheduling"
    BY <1>23, Working DEF RemoveRow, Do, TypeOK, Job, Idle
  <2>2. \A v \in Visits : \/ visit'[v] = visit[v] \/ visit'[v] = None
                           \/ ~visit'[v].recurring \/ visit'[v].status # "booked"
    BY <1>23 DEF RemoveRow, TypeOK, Visit, Of
  <2>3. QED
    BY <1>23, <2>1, <2>2, LessGiven DEF RemoveRow
<1>24. ASSUME NEW w \in Workers, SweepVisits(w)
      PROVE  Given'
  <2>1. (\A u \in Workers : u # w => job'[u] = job[u]) /\ job'[w].at # "scheduling"
    BY <1>24, Working DEF SweepVisits, Cancels, Do, TypeOK, Job, Idle
  <2>2. \A v \in Visits : \/ visit'[v] = visit[v] \/ visit'[v] = None
                           \/ ~visit'[v].recurring \/ visit'[v].status # "booked"
    BY <1>24 DEF SweepVisits, Cancels, TypeOK, Visit, Of
  <2>3. QED
    BY <1>24, <2>1, <2>2, LessGiven DEF SweepVisits
<1>25. ASSUME NEW w \in Workers, NEW s \in Subs, NEW t \in Slots, ScheduleRead(w, s, t)
      PROVE  Given'
  BY <1>25, BeginsGiven
<1>26. ASSUME NEW w \in Workers, ScheduleCommit(w) PROVE Given'
  BY <1>26, CommitsGiven
<1>27. CASE NewDay
  <2>1. NoneScheduled /\ UNCHANGED job
    BY <1>27, VisitsAssumption DEF NewDay, NoneScheduled, TypeOK, Slots
  <2>2. QED
    BY <2>1, StaysGiven
<1>28. ASSUME NEW v \in Visits, NEW st \in {"BOOKED", "CANCELLED", "COMPLETED"}, Edit(v, st)
      PROVE  Given'
  <2>1. \A u \in Visits : visit'[u] = visit[u] \/ visit'[u].status # "booked"
    BY <1>28 DEF Edit, TypeOK, Visit
  <2>2. today' >= today /\ UNCHANGED job
    BY <1>28, VisitsAssumption DEF Edit, TypeOK, Slots
  <2>3. QED
    BY <2>1, <2>2, StaysGiven DEF NoneScheduled
<1>29. CASE UNCHANGED vars
  <2>1. NoneScheduled /\ UNCHANGED job
    BY <1>29, VisitsAssumption DEF vars, NoneScheduled, TypeOK, Slots
  <2>2. QED
    BY <2>1, StaysGiven
<1>30. QED
  BY <1>1, <1>2, <1>3, <1>4, <1>5, <1>6, <1>7, <1>8, <1>9, <1>10,
     <1>11, <1>12, <1>13, <1>14, <1>15, <1>16, <1>17, <1>18, <1>19, <1>20,
     <1>21, <1>22, <1>23, <1>24, <1>25, <1>26, <1>27, <1>28, <1>29 DEF Next, Step, Request

-----------------------------------------------------------------------------
(* Counters that are honest.                                                  *)

Coming == today..LastDay
Mine(s) == Of(s) \cap Booked \cap Future
One(condition) == IF condition THEN 1 ELSE 0

\* Seats of a slot: taken by a subscription's visits to come, by all of its visits,
\* and by one visit.
MineIn(s, t) == Cardinality({v \in Mine(s) : visit[v].slot = t})
AllIn(s, t) == Cardinality({v \in Of(s) : visit[v].slot = t})
OneIn(v, t) == One(v \in Booked /\ visit[v].slot = t)

Even == \A t \in Coming : count[t] = BookedIn(t)
Plain == \A v \in Visits : visit[v] # None => visit[v].status \in {"booked", "cancelled"}

\* What a request that is alone has read is so.
Seen(w) ==
    LET j == job[w]
    IN  /\ j.at \in {"booking", "bumping", "moving", "reserving", "taking"}
              \/ (j.at = "freeing" /\ j.next = "taking") => j.seen = count[j.slot]
        /\ j.at \in {"moving", "removing", "cancelling", "cancelVisits", "deleting"} =>
              j.read = Nothing
        /\ j.at \in {"freeing", "sweepVisits"} =>
              \A t \in Slots : j.read[t] # None => j.read[t] = count[t]

HeldOf(w, s) ==
    LET j == job[w]
    IN  /\ j.at \in {"scheduling", "sweepVisits"} => j.ids = Mine(s)
        /\ j.at \in {"scheduling", "cancelVisits", "sweepVisits"} =>
              \A t \in Slots : j.seats[t] = MineIn(s, t)
        /\ j.at = "deleting" => j.ids = Of(s)
        /\ j.at = "dropping" => Of(s) \subseteq Booked
        /\ j.at = "freeing" /\ j.next = "dropping" =>
              /\ Of(s) \subseteq Booked
              /\ \A t \in Slots : j.seats[t] <= AllIn(s, t)

Held(w) ==
    LET j == job[w]
    IN  /\ \A s \in Subs : j.sub = s => HeldOf(w, s)
        /\ j.at = "moving" => \E v \in Booked :
              /\ j.ids = {v} /\ visit[v].slot # j.slot
              /\ \A t \in Slots : j.seats[t] = OneIn(v, t)
        /\ j.at = "removing" => \E v \in Visits :
              /\ j.ids = {v} /\ visit[v] # None
              /\ \A t \in Slots : j.seats[t] = OneIn(v, t)
        /\ j.at = "freeing" /\ j.next = "taking" => j.seats[j.slot] = 0

\* And the counters are what is booked, but for what it has still to do.
Balance(w, t) ==
    LET j == job[w]
    IN  /\ j.at \notin {"bumping", "taking", "inserting", "dropping", "freeing"} =>
              count[t] = BookedIn(t)
        /\ j.at \in {"bumping", "taking"} => count[t] + One(t = j.slot) = BookedIn(t)
        /\ j.at = "inserting" => count[t] = BookedIn(t) + One(t = j.slot)
        /\ j.at = "dropping" => \A s \in Subs :
              j.sub = s => count[t] + AllIn(s, t) = BookedIn(t)
        /\ j.at = "freeing" =>
              /\ j.next = "idle" => count[t] = BookedIn(t) + j.seats[t]
              /\ j.next = "taking" =>
                    count[t] + One(t = j.slot) = BookedIn(t) + j.seats[t]
              /\ j.next = "dropping" => \A s \in Subs :
                    j.sub = s => count[t] + AllIn(s, t) = BookedIn(t) + j.seats[t]

InStep(w) == Seen(w) /\ Held(w) /\ \A t \in Coming : Balance(w, t)

\* As long as nothing happened that may spoil the counters, at most one request is
\* under way, and it is in step with the counters.
Calm ==
    ~drift =>
        /\ Plain
        /\ \A v, w \in Workers : job[v] # Idle /\ job[w] # Idle => v = w
        /\ (\A w \in Workers : job[w] = Idle) => Even
        /\ \A w \in Workers : job[w] # Idle => InStep(w)

-----------------------------------------------------------------------------
(* What is counted.                                                           *)

BookedAt(t) == {v \in Booked : visit[v].slot = t}

\* Sets of visits are finite.
LEMMA Finite ==
    ASSUME NEW S \in SUBSET Visits PROVE IsFiniteSet(S) /\ Cardinality(S) \in Nat
<1>1. IsFiniteSet(S)
  BY VisitsAssumption, FS_Subset
<1>2. QED
  BY <1>1, FS_CardinalityType

\* Taking visits out of a set of visits.
LEMMA Without ==
    ASSUME NEW S \in SUBSET Visits, NEW gone \in SUBSET S
    PROVE  Cardinality(S \ gone) = Cardinality(S) - Cardinality(gone)
<1>1. IsFiniteSet(S) /\ IsFiniteSet(gone)
  BY Finite
<1>2. S \cap gone = gone
  OBVIOUS
<1>3. QED
  BY <1>1, <1>2, FS_Difference

\* Adding one.
LEMMA With ==
    ASSUME NEW S \in SUBSET Visits, NEW v \in Visits \ S
    PROVE  Cardinality(S \cup {v}) = Cardinality(S) + 1
<1>1. IsFiniteSet(S)
  BY Finite
<1>2. QED
  BY <1>1, FS_AddElement

\* Counts are natural numbers.
LEMMA Counted ==
    ASSUME NEW t
    PROVE  /\ BookedIn(t) \in Nat /\ BookedIn(t) = Cardinality(BookedAt(t))
           /\ \A s : MineIn(s, t) \in Nat /\ AllIn(s, t) \in Nat
           /\ \A v : OneIn(v, t) \in {0, 1}
           /\ BookedAt(t) \subseteq Visits
<1>1. BookedAt(t) \in SUBSET Visits
  BY DEF BookedAt, Booked
<1>2. BookedIn(t) = Cardinality(BookedAt(t))
  BY DEF BookedIn, BookedAt
<1>3. ASSUME NEW s PROVE MineIn(s, t) \in Nat /\ AllIn(s, t) \in Nat
  <2>1. {v \in Mine(s) : visit[v].slot = t} \in SUBSET Visits
    BY DEF Mine, Of
  <2>2. {v \in Of(s) : visit[v].slot = t} \in SUBSET Visits
    BY DEF Of
  <2>3. QED
    BY <2>1, <2>2, Finite DEF MineIn, AllIn
<1>4. QED
  BY <1>1, <1>2, <1>3, Finite DEF OneIn, One

\* What no visit and no day changed is as it was.
LEMMA Kept ==
    ASSUME UNCHANGED <<today, visit>>
    PROVE  /\ Coming' = Coming /\ Booked' = Booked /\ (Plain => Plain')
           /\ \A t : BookedIn(t)' = BookedIn(t)
           /\ \A s : Mine(s)' = Mine(s) /\ Of(s)' = Of(s)
           /\ \A s, t : MineIn(s, t)' = MineIn(s, t) /\ AllIn(s, t)' = AllIn(s, t)
           /\ \A v, t : OneIn(v, t)' = OneIn(v, t)
<1>1. Coming' = Coming /\ Booked' = Booked /\ Future' = Future /\ (Plain => Plain')
  BY DEF Coming, Booked, Future, Plain
<1>2. \A s : Of(s)' = Of(s)
  BY DEF Of
<1>3. \A s : Mine(s)' = Mine(s)
  BY <1>1, <1>2 DEF Mine
<1>4. \A t : BookedIn(t)' = BookedIn(t)
  BY <1>1 DEF BookedIn
<1>5. \A s, t : MineIn(s, t)' = MineIn(s, t) /\ AllIn(s, t)' = AllIn(s, t)
  BY <1>2, <1>3 DEF MineIn, AllIn
<1>6. \A v, t : OneIn(v, t)' = OneIn(v, t)
  BY <1>1 DEF OneIn
<1>7. QED
  BY <1>1, <1>2, <1>3, <1>4, <1>5, <1>6

\* A visit more.
LEMMA InsertCounted ==
    ASSUME TypeOK, NEW s \in Subs, NEW t \in Slots, NEW r \in BOOLEAN, Inserts(s, t, r), Plain
    PROVE  Plain' /\ \A u \in Slots : BookedIn(u)' = BookedIn(u) + One(u = t)
<1>1. PICK new \in Visits :
         /\ visit[new] = None
         /\ visit' = [visit EXCEPT ![new] =
               [sub |-> s, slot |-> t, status |-> "booked", recurring |-> r,
                late |-> FALSE]]
  BY DEF Inserts, Fresh
<1>2. visit'[new] = [sub |-> s, slot |-> t, status |-> "booked", recurring |-> r,
                     late |-> FALSE]
  BY <1>1 DEF TypeOK
<1>3. visit'[new] \in Visit /\ visit'[new] # None
  <2>1. visit'[new] \in Visit
    BY <1>2 DEF Visit
  <2>2. QED
    BY <2>1, VisitsAssumption
<1>4. \A v \in Visits \ {new} : visit'[v] = visit[v]
  BY <1>1 DEF TypeOK
<1>5. Plain'
  BY <1>2, <1>4 DEF Plain
<1>6. ASSUME NEW u \in Slots PROVE BookedIn(u)' = BookedIn(u) + One(u = t)
  <2>1. new \in Visits \ BookedAt(u) /\ BookedAt(u) \in SUBSET Visits
    BY <1>1 DEF BookedAt, Booked
  <2>2. CASE u = t
    <3>1. BookedAt(u)' = BookedAt(u) \cup {new}
      BY <1>2, <1>3, <1>4, <2>1, <2>2 DEF BookedAt, Booked
    <3>2. QED
      BY <2>1, <2>2, <3>1, With DEF BookedIn, BookedAt, One
  <2>3. CASE u # t
    <3>1. BookedAt(u)' = BookedAt(u)
      BY <1>1, <1>2, <1>4, <2>3 DEF BookedAt, Booked
    <3>2. BookedIn(u)' = BookedIn(u) /\ BookedIn(u) \in Nat
      BY <3>1, Counted DEF BookedIn, BookedAt
    <3>3. QED
      BY <2>3, <3>2 DEF One
  <2>4. QED
    BY <2>2, <2>3
<1>7. QED
  BY <1>5, <1>6

\* Visits less.
LEMMA LessCounted ==
    ASSUME NEW gone \in SUBSET Visits, NEW u,
           \A v \in Visits \ gone : visit'[v] = visit[v],
           \A v \in gone : visit'[v] = None \/ visit'[v].status # "booked"
    PROVE  BookedIn(u)' = BookedIn(u) - Cardinality(BookedAt(u) \cap gone)
<1>1. BookedAt(u)' = BookedAt(u) \ (BookedAt(u) \cap gone)
  BY DEF BookedAt, Booked
<1>2. BookedAt(u) \in SUBSET Visits /\ BookedAt(u) \cap gone \in SUBSET BookedAt(u)
  BY DEF BookedAt, Booked
<1>3. QED
  BY <1>1, <1>2, Without DEF BookedIn, BookedAt

\* The seat of a visit, if it is booked.
LEMMA OneCounted ==
    ASSUME NEW v \in Visits, NEW t,
           NEW ids, ids = IF v \in Booked THEN {v} ELSE {}
    PROVE  Cardinality({x \in ids : visit[x].slot = t}) = OneIn(v, t)
<1>1. CASE v \in Booked /\ visit[v].slot = t
  <2>1. {x \in ids : visit[x].slot = t} = {v}
    BY <1>1
  <2>2. QED
    BY <1>1, <2>1, FS_Singleton DEF OneIn, One
<1>2. CASE ~(v \in Booked /\ visit[v].slot = t)
  <2>1. {x \in ids : visit[x].slot = t} = {}
    BY <1>2
  <2>2. QED
    BY <1>2, <2>1, FS_EmptySet DEF OneIn, One
<1>3. QED
  BY <1>1, <1>2

\* Where a request starts and nothing has spoilt the counters, it is alone.
LEMMA Alone ==
    ASSUME TypeOK, Calm, ~drift', NEW w \in Workers, NEW j, Starts(w, j), UNCHANGED <<today, visit>>
    PROVE  /\ Plain' /\ Even /\ Coming' = Coming
           /\ \A u \in Workers \ {w} : job'[u] = Idle
           /\ job'[w] = j
<1>1. ~drift /\ \A u \in Workers : job[u] = Idle
  BY DEF Starts
<1>2. Plain' /\ Even /\ Coming' = Coming
  BY <1>1, Kept DEF Calm
<1>3. QED
  BY <1>1, <1>2 DEF Starts, Do, TypeOK

\* A request that goes on is alone.
LEMMA Onward ==
    ASSUME TypeOK, Calm, ~drift, NEW w \in Workers, NEW j, job[w].at # "idle", Do(w, j)
    PROVE  /\ Plain /\ InStep(w)
           /\ \A u \in Workers \ {w} : job'[u] = Idle
           /\ job'[w] = j
<1>1. job[w] # Idle
  BY IdleJob
<1>2. Plain /\ InStep(w) /\ \A u \in Workers \ {w} : job[u] = Idle
  BY <1>1 DEF Calm
<1>3. QED
  BY <1>2 DEF Do, TypeOK

\* It is calm if the only request is in step, or has ended in peace.
LEMMA StaysCalm ==
    ASSUME NEW w \in Workers, Plain',
           \A u \in Workers \ {w} : job'[u] = Idle,
           job'[w] = Idle => Even',
           job'[w] # Idle => InStep(w)'
    PROVE  Calm'
<1>1. \A u \in Workers : job'[u] # Idle => u = w
  OBVIOUS
<1>2. (\A u \in Workers : job'[u] = Idle) => Even'
  OBVIOUS
<1>3. \A u \in Workers : job'[u] # Idle => InStep(u)'
  BY <1>1
<1>4. QED
  BY <1>1, <1>2, <1>3 DEF Calm

\* Requests that start are in step with what they read.
LEMMA ReadsCalm ==
    ASSUME TypeOK, Calm, ~drift', NEW w \in Workers,
           \/ \E s \in Subs : CancelSub(w, s) \/ DeleteFind(w, s) \/ Expire(w, s)
           \/ \E v \in Visits : RemoveRead(w, v)
           \/ \E s \in Subs, t \in Slots :
                 ScheduleRead(w, s, t) \/ BookRead(w, s, t) \/ ReserveRead(w, s, t)
           \/ \E v \in Visits, t \in Slots : MoveRead(w, v, t)
    PROVE  Calm'
<1>1. ASSUME NEW s \in Subs, CancelSub(w, s) PROVE Calm'
  <2>1. /\ Plain' /\ Even /\ Coming' = Coming
        /\ \A u \in Workers \ {w} : job'[u] = Idle
        /\ UNCHANGED <<today, visit, count>>
    BY <1>1, Alone DEF CancelSub
  <2>2. job'[w].at = "cancelling" /\ job'[w].read = Nothing
    BY <1>1 DEF CancelSub, Starts, Do, TypeOK, Idle
  <2>3. Seen(w)'
    BY <2>1, <2>2 DEF Seen
  <2>4. Held(w)'
    BY <2>1, <2>2, Kept DEF Held, HeldOf
  <2>5. \A u \in Coming : Balance(w, u)'
    BY <2>1, <2>2, Kept DEF Balance, Even
  <2>6. QED
    BY <2>1, <2>2, <2>3, <2>4, <2>5, StaysCalm, IdleJob DEF InStep
<1>2. ASSUME NEW s \in Subs, DeleteFind(w, s) PROVE Calm'
  <2>1. /\ Plain' /\ Even /\ Coming' = Coming
        /\ \A u \in Workers \ {w} : job'[u] = Idle
        /\ UNCHANGED <<today, visit, count>>
    BY <1>2, Alone DEF DeleteFind
  <2>2. /\ job'[w].at = "deleting" /\ job'[w].read = Nothing
        /\ job'[w].sub = s /\ job'[w].ids = Of(s)
    BY <1>2 DEF DeleteFind, Starts, Do, TypeOK, Idle
  <2>3. Seen(w)'
    BY <2>1, <2>2 DEF Seen
  <2>4. Held(w)'
    BY <2>1, <2>2, Kept DEF Held, HeldOf
  <2>5. \A u \in Coming : Balance(w, u)'
    BY <2>1, <2>2, Kept DEF Balance, Even
  <2>6. QED
    BY <2>1, <2>2, <2>3, <2>4, <2>5, StaysCalm, IdleJob DEF InStep
<1>3. ASSUME NEW s \in Subs, Expire(w, s) PROVE Calm'
  <2>1. /\ Plain' /\ Even /\ Coming' = Coming
        /\ \A u \in Workers \ {w} : job'[u] = Idle
        /\ UNCHANGED <<today, visit, count>>
    BY <1>3, Alone DEF Expire
  <2>2. job'[w].at = "sweeping"
    BY <1>3 DEF Expire, Starts, Do, TypeOK, Idle
  <2>3. Seen(w)'
    BY <2>1, <2>2 DEF Seen
  <2>4. Held(w)'
    BY <2>1, <2>2, Kept DEF Held, HeldOf
  <2>5. \A u \in Coming : Balance(w, u)'
    BY <2>1, <2>2, Kept DEF Balance, Even
  <2>6. QED
    BY <2>1, <2>2, <2>3, <2>4, <2>5, StaysCalm, IdleJob DEF InStep
<1>4. ASSUME NEW v \in Visits, RemoveRead(w, v) PROVE Calm'
  <2>1. /\ Plain' /\ Even /\ Coming' = Coming
        /\ \A u \in Workers \ {w} : job'[u] = Idle
        /\ UNCHANGED <<today, visit, count>>
    BY <1>4, Alone DEF RemoveRead
  <2>2. /\ job'[w].at = "removing" /\ job'[w].read = Nothing
        /\ job'[w].ids = {v} /\ visit[v] # None
        /\ \A t \in Slots : job'[w].seats[t] = OneIn(v, t)
    <3> DEFINE ids == IF visit[v].status = "cancelled" THEN {} ELSE {v}
    <3>1. /\ job'[w].at = "removing" /\ job'[w].read = Nothing
          /\ job'[w].ids = {v} /\ job'[w].seats = SeatsOf(ids) /\ visit[v] # None
      BY <1>4 DEF RemoveRead, Starts, Do, TypeOK, Idle
    <3>2. Plain
      BY <1>4 DEF Calm, RemoveRead, Starts
    <3>3. \A t \in Slots : Cardinality({x \in ids : visit[x].slot = t}) = OneIn(v, t)
      BY <3>1, <3>2, OneCounted DEF Booked, Plain
    <3>4. QED
      BY <3>1, <3>3 DEF SeatsOf
  <2>3. Seen(w)'
    BY <2>1, <2>2 DEF Seen
  <2>4. Held(w)'
    BY <2>1, <2>2, Kept DEF Held, HeldOf
  <2>5. \A u \in Coming : Balance(w, u)'
    BY <2>1, <2>2, Kept DEF Balance, Even
  <2>6. QED
    BY <2>1, <2>2, <2>3, <2>4, <2>5, StaysCalm, IdleJob DEF InStep
<1>5. ASSUME NEW s \in Subs, NEW t \in Slots, ScheduleRead(w, s, t) PROVE Calm'
  <2>1. /\ Plain' /\ Even /\ Coming' = Coming
        /\ \A u \in Workers \ {w} : job'[u] = Idle
        /\ UNCHANGED <<today, visit, count>>
    BY <1>5, Alone DEF ScheduleRead
  <2>2. /\ job'[w].at = "scheduling" /\ job'[w].sub = s /\ job'[w].ids = Mine(s)
        /\ \A u \in Slots : job'[w].seats[u] = MineIn(s, u)
    BY <1>5 DEF ScheduleRead, Starts, Do, TypeOK, Idle, Mine, MineIn, SeatsOf
  <2>3. Seen(w)'
    BY <2>1, <2>2 DEF Seen
  <2>4. Held(w)'
    BY <2>1, <2>2, Kept DEF Held, HeldOf
  <2>5. \A u \in Coming : Balance(w, u)'
    BY <2>1, <2>2, Kept DEF Balance, Even
  <2>6. QED
    BY <2>1, <2>2, <2>3, <2>4, <2>5, StaysCalm, IdleJob DEF InStep
<1>6. ASSUME NEW s \in Subs, NEW t \in Slots, BookRead(w, s, t) PROVE Calm'
  <2>1. /\ Plain' /\ Even /\ Coming' = Coming
        /\ \A u \in Workers \ {w} : job'[u] = Idle
        /\ UNCHANGED <<today, visit, count>>
    BY <1>6, Alone DEF BookRead
  <2>2. job'[w].at = "booking" /\ job'[w].slot = t /\ job'[w].seen = count[t]
    BY <1>6 DEF BookRead, Starts, Do, TypeOK, Idle
  <2>3. Seen(w)'
    BY <2>1, <2>2 DEF Seen
  <2>4. Held(w)'
    BY <2>1, <2>2, Kept DEF Held, HeldOf
  <2>5. \A u \in Coming : Balance(w, u)'
    BY <2>1, <2>2, Kept DEF Balance, Even
  <2>6. QED
    BY <2>1, <2>2, <2>3, <2>4, <2>5, StaysCalm, IdleJob DEF InStep
<1>7. ASSUME NEW s \in Subs, NEW t \in Slots, ReserveRead(w, s, t) PROVE Calm'
  <2>1. /\ Plain' /\ Even /\ Coming' = Coming
        /\ \A u \in Workers \ {w} : job'[u] = Idle
        /\ UNCHANGED <<today, visit, count>>
    BY <1>7, Alone DEF ReserveRead
  <2>2. job'[w].at = "reserving" /\ job'[w].slot = t /\ job'[w].seen = count[t]
    BY <1>7 DEF ReserveRead, Starts, Do, TypeOK, Idle
  <2>3. Seen(w)'
    BY <2>1, <2>2 DEF Seen
  <2>4. Held(w)'
    BY <2>1, <2>2, Kept DEF Held, HeldOf
  <2>5. \A u \in Coming : Balance(w, u)'
    BY <2>1, <2>2, Kept DEF Balance, Even
  <2>6. QED
    BY <2>1, <2>2, <2>3, <2>4, <2>5, StaysCalm, IdleJob DEF InStep
<1>8. ASSUME NEW v \in Visits, NEW t \in Slots, MoveRead(w, v, t) PROVE Calm'
  <2>1. /\ Plain' /\ Even /\ Coming' = Coming
        /\ \A u \in Workers \ {w} : job'[u] = Idle
        /\ UNCHANGED <<today, visit, count>>
    BY <1>8, Alone DEF MoveRead
  <2>2. /\ job'[w].at = "moving" /\ job'[w].read = Nothing
        /\ job'[w].slot = t /\ job'[w].seen = count[t]
        /\ v \in Booked /\ visit[v].slot # t /\ job'[w].ids = {v}
        /\ \A u \in Slots : job'[w].seats[u] = OneIn(v, u)
    <3>1. /\ job'[w].at = "moving" /\ job'[w].read = Nothing
          /\ job'[w].slot = t /\ job'[w].seen = count[t]
          /\ visit[v] # None /\ visit[v].status \in {"booked", "BOOKED"}
          /\ visit[v].slot # t /\ job'[w].ids = {v}
          /\ job'[w].seats = SeatsOf({v})
      BY <1>8 DEF MoveRead, Starts, Do, TypeOK, Idle
    <3> v \in Booked
      BY <2>1, <3>1 DEF Plain, Booked
    <3>2. \A u \in Slots : Cardinality({x \in {v} : visit[x].slot = u}) = OneIn(v, u)
      BY <3>1, OneCounted
    <3>3. QED
      BY <3>1, <3>2 DEF SeatsOf
  <2>3. Seen(w)'
    BY <2>1, <2>2 DEF Seen
  <2>4. Held(w)'
    BY <2>1, <2>2, Kept DEF Held, HeldOf
  <2>5. \A u \in Coming : Balance(w, u)'
    BY <2>1, <2>2, Kept DEF Balance, Even
  <2>6. QED
    BY <2>1, <2>2, <2>3, <2>4, <2>5, StaysCalm, IdleJob DEF InStep
<1>9. QED
  BY <1>1, <1>2, <1>3, <1>4, <1>5, <1>6, <1>7, <1>8

\* A schedule that commits takes out the visits it found and adds one.
LEMMA CommitCounted ==
    ASSUME TypeOK, NEW w \in Workers, NEW s \in Subs, ScheduleCommit(w), job[w].sub = s, Plain,
           job[w].ids = Mine(s)
    PROVE  /\ Plain'
           /\ \A u \in Coming :
                 /\ BookedIn(u)' = (BookedIn(u) - MineIn(s, u)) + One(u = job[w].slot)
                 /\ MineIn(s, u) <= BookedIn(u)
<1>1. PICK new \in Visits :
         /\ visit[new] = None
         /\ visit'[new] = [sub |-> s, slot |-> job[w].slot, status |-> "booked",
                           recurring |-> TRUE, late |-> FALSE]
         /\ \A v \in Visits \ {new} :
               visit'[v] = IF v \in job[w].ids /\ visit[v] # None
                           THEN [visit[v] EXCEPT !.status = "cancelled"] ELSE visit[v]
  BY DEF ScheduleCommit, Fresh, TypeOK
<1>2. visit'[new] # None
  <2>1. visit'[new] \in Visit
    BY <1>1, Working DEF Visit
  <2>2. QED
    BY <2>1, VisitsAssumption
<1>3. \A v \in Mine(s) : v # new /\ visit'[v].status = "cancelled"
  BY <1>1 DEF Mine, Of, TypeOK, Visit
<1>4. \A v \in Visits \ {new} : v \notin Mine(s) => visit'[v] = visit[v]
  BY <1>1
<1>5. Plain'
  <2>1. ASSUME NEW v \in Visits, visit'[v] # None
        PROVE  visit'[v].status \in {"booked", "cancelled"}
    BY <1>1, <1>3, <1>4, <2>1 DEF Plain
  <2>2. QED
    BY <2>1 DEF Plain
<1>6. ASSUME NEW u \in Coming
      PROVE  /\ BookedIn(u)' = (BookedIn(u) - MineIn(s, u)) + One(u = job[w].slot)
             /\ MineIn(s, u) <= BookedIn(u)
  <2> DEFINE mine == {v \in Mine(s) : visit[v].slot = u}
             kept == BookedAt(u) \ mine
  <2>1. mine \in SUBSET BookedAt(u) /\ BookedAt(u) \in SUBSET Visits
    BY DEF Mine, BookedAt, Booked
  <2>2. Cardinality(kept) = BookedIn(u) - MineIn(s, u) /\ MineIn(s, u) <= BookedIn(u)
    <3>1. Cardinality(kept) = Cardinality(BookedAt(u)) - Cardinality(mine)
      BY <2>1, Without
    <3>2. Cardinality(BookedAt(u)) = BookedIn(u) /\ Cardinality(mine) = MineIn(s, u)
      BY DEF BookedIn, BookedAt, MineIn
    <3>3. Cardinality(kept) \in Nat
      BY <2>1, Finite
    <3>4. BookedIn(u) \in Nat /\ MineIn(s, u) \in Nat
      BY Counted
    <3> HIDE DEF kept, mine
    <3>5. QED
      BY <3>1, <3>2, <3>3, <3>4
  <2>3. new \in Visits \ kept /\ kept \in SUBSET Visits
    BY <1>1, <2>1 DEF BookedAt, Booked
  <2>4. CASE u = job[w].slot
    <3>1. BookedAt(u)' = kept \cup {new}
      BY <1>1, <1>2, <1>3, <1>4, <2>4 DEF BookedAt, Booked, Mine, Of
    <3>2. Cardinality(kept \cup {new}) = Cardinality(kept) + 1
      <4> HIDE DEF kept
      <4>1. QED
        BY <2>3, With
    <3>3. QED
      BY <2>2, <2>4, <3>1, <3>2 DEF BookedIn, BookedAt, One
  <2>5. CASE u # job[w].slot
    <3>1. BookedAt(u)' = kept
      BY <1>1, <1>2, <1>3, <1>4, <2>5 DEF BookedAt, Booked, Mine, Of
    <3>2. BookedIn(u)' = Cardinality(kept)
      BY <3>1 DEF BookedIn, BookedAt
    <3>3. BookedIn(u) \in Nat /\ MineIn(s, u) \in Nat
      BY Counted
    <3>4. QED
      BY <2>2, <2>5, <3>2, <3>3 DEF One
  <2>6. QED
    BY <2>2, <2>4, <2>5
<1>7. QED
  BY <1>5, <1>6

\* A visit that moves.
LEMMA MoveCounted ==
    ASSUME TypeOK, NEW w \in Workers, NEW v \in Booked, MoveVisit(w), job[w].ids = {v},
           visit[v].slot # job[w].slot, Plain
    PROVE  /\ Plain'
           /\ \A u \in Coming : BookedIn(u)' = (BookedIn(u) - OneIn(v, u)) + One(u = job[w].slot)
<1>1. v \in Visits /\ visit[v] \in Visit /\ visit[v] # None /\ visit[v].status = "booked"
  BY DEF Booked, TypeOK
<1>2. /\ visit'[v] = [visit[v] EXCEPT !.slot = job[w].slot,
                                     !.late = @ \/ visit[v].slot < today]
      /\ \A x \in Visits \ {v} : visit'[x] = visit[x]
  BY <1>1 DEF MoveVisit
<1>3. visit'[v].slot = job[w].slot /\ visit'[v].status = "booked" /\ visit'[v] # None
  <2>1. visit'[v] \in Visit
    BY <1>1, <1>2, Working DEF Visit
  <2>2. QED
    BY <1>1, <1>2, <2>1, VisitsAssumption DEF Visit
<1>4. Plain' /\ Booked' = Booked
  <2>1. Plain'
    BY <1>2, <1>3 DEF Plain
  <2>2. \A x \in Visits : x \in Booked' <=> x \in Booked
    BY <1>1, <1>2, <1>3 DEF Booked
  <2>3. QED
    BY <2>1, <2>2 DEF Booked
<1>5. ASSUME NEW u \in Coming
      PROVE  BookedIn(u)' = (BookedIn(u) - OneIn(v, u)) + One(u = job[w].slot)
  <2>1. /\ BookedAt(u) \in SUBSET Visits
        /\ BookedIn(u) \in Nat /\ BookedIn(u) = Cardinality(BookedAt(u))
    BY Counted
  <2> BookedIn(u)' = Cardinality(BookedAt(u)')
    BY DEF BookedIn, BookedAt
  <2>2. CASE u = job[w].slot
    <3>1. v \in Visits \ BookedAt(u)
      BY <1>1, <2>2 DEF BookedAt
    <3>2. BookedAt(u)' = BookedAt(u) \cup {v}
      BY <1>2, <1>3, <1>4, <2>2 DEF BookedAt, Booked
    <3>3. Cardinality(BookedAt(u) \cup {v}) = Cardinality(BookedAt(u)) + 1
      BY <2>1, <3>1, With
    <3>4. OneIn(v, u) = 0 /\ One(u = job[w].slot) = 1
      BY <2>2 DEF OneIn, One
    <3>5. QED
      BY <2>1, <3>2, <3>3, <3>4
  <2>3. CASE u = visit[v].slot
    <3>1. {v} \in SUBSET BookedAt(u)
      BY <2>3 DEF BookedAt
    <3>2. BookedAt(u)' = BookedAt(u) \ {v}
      BY <1>2, <1>3, <1>4, <2>3 DEF BookedAt, Booked
    <3>3. Cardinality(BookedAt(u) \ {v}) = Cardinality(BookedAt(u)) - Cardinality({v})
      BY <2>1, <3>1, Without
    <3>4. Cardinality({v}) = 1
      BY FS_Singleton
    <3>5. OneIn(v, u) = 1 /\ One(u = job[w].slot) = 0
      BY <2>3 DEF OneIn, One
    <3>6. QED
      BY <2>1, <3>2, <3>3, <3>4, <3>5
  <2>4. CASE u # job[w].slot /\ u # visit[v].slot
    <3>1. BookedAt(u)' = BookedAt(u)
      BY <1>1, <1>2, <1>3, <2>4 DEF BookedAt, Booked
    <3>2. BookedIn(u)' = BookedIn(u)
      BY <3>1 DEF BookedIn, BookedAt
    <3>3. QED
      BY <2>1, <2>4, <3>2 DEF OneIn, One
  <2>5. QED
    BY <2>2, <2>3, <2>4
<1>6. QED
  BY <1>4, <1>5

\* Visits that are cancelled or deleted.
LEMMA GoneCounted ==
    ASSUME TypeOK, NEW gone \in SUBSET Visits, Plain,
           \A v \in Visits \ gone : visit'[v] = visit[v],
           \A v \in gone : visit'[v] = None \/ visit'[v].status = "cancelled"
    PROVE  /\ Plain'
           /\ \A u : BookedIn(u)' = BookedIn(u) - Cardinality(BookedAt(u) \cap gone)
<1>1. Plain'
  BY DEF Plain
<1>2. QED
  BY <1>1, LessCounted

\* The requests that book, step by step: what they insert and what they count are
\* the same visit.
LEMMA BookingCalm ==
    ASSUME TypeOK, Hands, Calm, ~drift, NEW w \in Workers,
           \/ ScheduleCommit(w) \/ BookInsert(w) \/ BookBump(w) \/ BookActivate(w)
           \/ MoveVisit(w) \/ Take(w) \/ ReserveInsert(w)
    PROVE  Calm'
<1>1. CASE ScheduleCommit(w)
  <2>1. /\ Plain /\ InStep(w) /\ job'[w] = Idle
        /\ \A u \in Workers \ {w} : job'[u] = Idle
    BY <1>1, Onward DEF ScheduleCommit, Ends, At
  <2>2. PICK s \in Subs : job[w].sub = s
    BY <1>1 DEF ScheduleCommit, Hands, Fit, At
  <2>3. job[w].ids = Mine(s) /\ \A t \in Slots : job[w].seats[t] = MineIn(s, t)
    BY <1>1, <2>1, <2>2 DEF ScheduleCommit, At, InStep, Held, HeldOf
  <2>4. \A t \in Coming : count[t] = BookedIn(t)
    BY <1>1, <2>1 DEF ScheduleCommit, At, InStep, Balance
  <2>5. /\ Plain'
        /\ \A u \in Coming :
              /\ BookedIn(u)' = (BookedIn(u) - MineIn(s, u)) + One(u = job[w].slot)
              /\ MineIn(s, u) <= BookedIn(u)
    BY <1>1, <2>1, <2>2, <2>3, CommitCounted
  <2>6. ASSUME NEW u \in Coming PROVE count'[u] = BookedIn(u)'
    <3>1. u \in Slots
      BY VisitsAssumption DEF TypeOK, Slots, Coming
    <3>2. count'[u] = Floor(count[u] - job[w].seats[u]) + One(u = job[w].slot)
      BY <1>1, <3>1 DEF ScheduleCommit, One
    <3>3. BookedIn(u) \in Nat /\ MineIn(s, u) \in Nat
      BY Counted
    <3>4. Floor(BookedIn(u) - MineIn(s, u)) = BookedIn(u) - MineIn(s, u)
      BY <2>5, <3>3 DEF Floor
    <3>5. QED
      BY <2>3, <2>4, <2>5, <3>1, <3>2, <3>4
  <2>7. Even'
    BY <1>1, <2>6 DEF Even, Coming, ScheduleCommit
  <2>8. QED
    BY <2>1, <2>5, <2>7, StaysCalm
<1>2. CASE BookInsert(w)
  <2>1. /\ Plain /\ InStep(w) /\ job'[w] = [job[w] EXCEPT !.at = "bumping"]
        /\ \A u \in Workers \ {w} : job'[u] = Idle
    BY <1>2, Onward DEF BookInsert, At
  <2>2. job[w].at = "booking" /\ job[w].sub \in Subs /\ job[w].slot \in Slots
    BY <1>2, Working DEF BookInsert, Hands, Fit, At
  <2>3. Plain' /\ \A u \in Slots : BookedIn(u)' = BookedIn(u) + One(u = job[w].slot)
    BY <1>2, <2>1, <2>2, InsertCounted DEF BookInsert
  <2>4. /\ job'[w].at = "bumping" /\ job'[w].slot = job[w].slot /\ job'[w].seen = job[w].seen
        /\ UNCHANGED <<count, today>>
    BY <1>2, <2>1, Working DEF Job, BookInsert
  <2>5. Seen(w)'
    BY <2>1, <2>2, <2>4 DEF Seen, InStep
  <2>6. Held(w)'
    BY <2>4 DEF Held, HeldOf
  <2>7. \A u \in Coming' : Balance(w, u)'
    <3>1. \A u \in Coming : count[u] = BookedIn(u) /\ u \in Slots
      BY <2>1, <2>2, VisitsAssumption DEF InStep, Balance, Coming, TypeOK, Slots
    <3>2. \A u \in Coming' : count'[u] + One(u = job[w].slot) = BookedIn(u)'
      BY <2>3, <2>4, <3>1 DEF Coming
    <3>3. QED
      BY <2>4, <3>2 DEF Balance
  <2>8. QED
    BY <2>1, <2>3, <2>4, <2>5, <2>6, <2>7, StaysCalm, IdleJob DEF InStep
<1>3. CASE BookBump(w)
  <2> DEFINE j == IF job[w].next = "idle" THEN Idle ELSE [job[w] EXCEPT !.at = "activating"]
  <2>1. /\ Plain /\ InStep(w) /\ job'[w] = j
        /\ \A u \in Workers \ {w} : job'[u] = Idle
    <3>1. Do(w, j) /\ job[w].at # "idle"
      BY <1>3 DEF BookBump, Ends, At
    <3>2. QED
      BY <3>1, Onward
  <2>2. Plain' /\ Coming' = Coming /\ \A u : BookedIn(u)' = BookedIn(u)
    BY <1>3, <2>1, Kept DEF BookBump
  <2>3. \A u \in Coming : count'[u] = BookedIn(u)
    <3>1. \A u \in Coming : count[u] + One(u = job[w].slot) = BookedIn(u) /\ u \in Slots
      BY <1>3, <2>1, VisitsAssumption DEF BookBump, At, InStep, Balance, Coming, TypeOK, Slots
    <3>2. count' = [count EXCEPT ![job[w].slot] = count[job[w].slot] + 1]
      BY <1>3, <2>1 DEF BookBump, Taken, At, InStep, Seen
    <3>3. QED
      BY <3>1, <3>2 DEF One, TypeOK
  <2>4. job'[w] = Idle \/ job'[w].at = "activating"
    BY <2>1, Working DEF Job
  <2>5. job'[w] = Idle => Even'
    BY <2>2, <2>3 DEF Even
  <2>6. job'[w] # Idle => InStep(w)'
    BY <2>2, <2>3, <2>4 DEF InStep, Seen, Held, HeldOf, Balance
  <2>7. QED
    BY <2>1, <2>2, <2>5, <2>6, StaysCalm
<1>4. CASE BookActivate(w)
  <2>1. /\ Plain /\ InStep(w) /\ job'[w] = Idle
        /\ \A u \in Workers \ {w} : job'[u] = Idle
    BY <1>4, Onward DEF BookActivate, Ends, At
  <2>2. Plain' /\ Coming' = Coming /\ \A u : BookedIn(u)' = BookedIn(u)
    BY <1>4, <2>1, Kept DEF BookActivate
  <2>3. Even'
    BY <1>4, <2>1, <2>2 DEF BookActivate, At, InStep, Balance, Even
  <2>4. QED
    BY <2>1, <2>2, <2>3, StaysCalm
<1>5. CASE MoveVisit(w)
  <2>1. /\ Plain /\ InStep(w)
        /\ job'[w] = [job[w] EXCEPT !.at = "freeing", !.ids = {}, !.next = "taking"]
        /\ \A u \in Workers \ {w} : job'[u] = Idle
    BY <1>5, Onward DEF MoveVisit, At
  <2>2. PICK v \in Booked : /\ job[w].ids = {v} /\ visit[v].slot # job[w].slot
                            /\ \A t \in Slots : job[w].seats[t] = OneIn(v, t)
    BY <1>5, <2>1 DEF MoveVisit, At, InStep, Held
  <2>3. /\ Plain'
        /\ \A u \in Coming : BookedIn(u)' = (BookedIn(u) - OneIn(v, u)) + One(u = job[w].slot)
    BY <1>5, <2>1, <2>2, MoveCounted
  <2>4. /\ job'[w].at = "freeing" /\ job'[w].next = "taking" /\ job'[w].slot = job[w].slot
        /\ job'[w].seen = job[w].seen /\ job'[w].seats = job[w].seats
        /\ job'[w].read = job[w].read /\ UNCHANGED <<count, today>>
    BY <1>5, <2>1, Working DEF Job, MoveVisit
  <2>5. Seen(w)'
    BY <1>5, <2>1, <2>4 DEF MoveVisit, At, Seen, InStep, Nothing
  <2>6. Held(w)'
    <3>1. job'[w].seats[job'[w].slot] = 0
      BY <2>2, <2>4, Working DEF OneIn, One
    <3>2. QED
      BY <2>4, <3>1 DEF Held, HeldOf
  <2>7. \A u \in Coming' : Balance(w, u)'
    <3>1. \A u \in Coming : count[u] = BookedIn(u) /\ u \in Slots
      <4>1. \A u \in Coming : count[u] = BookedIn(u)
        BY <1>5, <2>1 DEF MoveVisit, At, InStep, Balance
      <4>2. QED
        BY <4>1, VisitsAssumption DEF Coming, TypeOK, Slots
    <3>2. ASSUME NEW u \in Coming
          PROVE  count'[u] + One(u = job[w].slot) = BookedIn(u)' + job'[w].seats[u]
      <4>1. BookedIn(u) \in Nat /\ OneIn(v, u) \in {0, 1} /\ One(u = job[w].slot) \in {0, 1}
        BY Counted DEF One
      <4>2. QED
        BY <2>2, <2>3, <2>4, <3>1, <4>1
    <3>3. Coming' = Coming
      BY <2>4 DEF Coming
    <3>4. QED
      BY <2>4, <3>2, <3>3 DEF Balance
  <2>8. QED
    BY <2>1, <2>3, <2>4, <2>5, <2>6, <2>7, StaysCalm, IdleJob DEF InStep
<1>6. CASE Take(w)
  <2> DEFINE j == IF At(w, "taking") THEN Idle ELSE [job[w] EXCEPT !.at = "inserting"]
  <2>1. /\ Plain /\ InStep(w) /\ job'[w] = j
        /\ \A u \in Workers \ {w} : job'[u] = Idle
    <3>1. Do(w, j) /\ job[w].at # "idle"
      BY <1>6 DEF Take, Ends, At
    <3>2. QED
      BY <3>1, Onward
  <2>2. Plain' /\ Coming' = Coming /\ \A u : BookedIn(u)' = BookedIn(u)
    BY <1>6, <2>1, Kept DEF Take
  <2>3. \A u \in Coming : count'[u] = count[u] + One(u = job[w].slot) /\ count[u] \in Nat
    <3>1. count' = [count EXCEPT ![job[w].slot] = count[job[w].slot] + 1]
      BY <1>6, <2>1 DEF Take, Taken, At, InStep, Seen
    <3>2. \A u \in Coming : u \in Slots
      BY VisitsAssumption DEF Coming, TypeOK, Slots
    <3>3. QED
      BY <3>1, <3>2 DEF One, TypeOK
  <2>4. CASE At(w, "taking")
    <3>1. Even'
      BY <2>1, <2>2, <2>3, <2>4 DEF At, InStep, Balance, Even
    <3>2. QED
      BY <2>1, <2>2, <2>4, <3>1, StaysCalm
  <2>5. CASE At(w, "reserving")
    <3>1. job'[w].at = "inserting" /\ job'[w].slot = job[w].slot
      BY <2>1, <2>5, Working DEF At, Job
    <3>2. \A u \in Coming : count[u] = BookedIn(u)
      BY <2>1, <2>5 DEF At, InStep, Balance
    <3>3. InStep(w)'
      BY <2>2, <2>3, <3>1, <3>2 DEF InStep, Seen, Held, HeldOf, Balance
    <3>4. QED
      BY <2>1, <2>2, <3>1, <3>3, StaysCalm, IdleJob
  <2>6. QED
    BY <1>6, <2>4, <2>5 DEF Take
<1>7. CASE ReserveInsert(w)
  <2>1. /\ Plain /\ InStep(w) /\ job'[w] = Idle
        /\ \A u \in Workers \ {w} : job'[u] = Idle
    BY <1>7, Onward DEF ReserveInsert, Ends, At
  <2>2. job[w].at = "inserting" /\ job[w].sub \in Subs /\ job[w].slot \in Slots
    BY <1>7, Working DEF ReserveInsert, Hands, Fit, At
  <2>3. Plain' /\ \A u \in Slots : BookedIn(u)' = BookedIn(u) + One(u = job[w].slot)
    BY <1>7, <2>1, <2>2, InsertCounted DEF ReserveInsert
  <2>4. \A u \in Coming : count[u] = BookedIn(u) + One(u = job[w].slot) /\ u \in Slots
    BY <2>1, <2>2, VisitsAssumption DEF InStep, Balance, Coming, TypeOK, Slots
  <2>5. Even'
    BY <1>7, <2>3, <2>4 DEF Even, Coming, ReserveInsert
  <2>6. QED
    BY <2>1, <2>3, <2>5, StaysCalm
<1>8. QED
  BY <1>1, <1>2, <1>3, <1>4, <1>5, <1>6, <1>7

\* Freeing seats, slot by slot, takes the counters to what is booked.
LEMMA FreeingCalm ==
    ASSUME TypeOK, Hands, Calm, ~drift, NEW w \in Workers,
           FreeDone(w) \/ \E t \in Slots : FreeRead(w, t) \/ FreeWrite(w, t)
    PROVE  Calm'
<1>1. /\ job[w].at = "freeing" /\ job[w].next \in {"idle", "taking", "dropping"}
      /\ UNCHANGED <<today, visit>>
  BY DEF FreeDone, FreeRead, FreeWrite, At, Hands, Fit
<1>2. \A u \in Coming : u \in Slots
  BY VisitsAssumption DEF Coming, TypeOK, Slots
<1>3. ASSUME NEW t \in Slots, FreeRead(w, t) PROVE Calm'
  <2>1. /\ Plain /\ InStep(w) /\ job'[w] = [job[w] EXCEPT !.read[t] = count[t]]
        /\ \A u \in Workers \ {w} : job'[u] = Idle
    BY <1>1, <1>3, Onward DEF FreeRead
  <2>2. /\ job'[w].at = job[w].at /\ job'[w].next = job[w].next /\ job'[w].slot = job[w].slot
        /\ job'[w].seen = job[w].seen /\ job'[w].sub = job[w].sub
        /\ job'[w].seats = job[w].seats
        /\ \A u \in Slots : job'[w].read[u] = IF u = t THEN count[t] ELSE job[w].read[u]
    BY <2>1, Working DEF Job
  <2>3. UNCHANGED count
    BY <1>3 DEF FreeRead
  <2>4. Plain'
    BY <1>1, <2>1, Kept
  <2>5. Seen(w)'
    BY <1>1, <2>1, <2>2, <2>3 DEF InStep, Seen
  <2>6. Held(w)'
    BY <1>1, <2>1, <2>2, Kept DEF InStep, Held, HeldOf
  <2>7. \A u \in Coming' : Balance(w, u)'
    BY <1>1, <2>1, <2>2, <2>3, Kept DEF InStep, Balance
  <2>8. QED
    BY <1>1, <2>1, <2>2, <2>4, <2>5, <2>6, <2>7, StaysCalm, IdleJob DEF InStep
<1>4. ASSUME NEW t \in Slots, FreeWrite(w, t) PROVE Calm'
  <2>1. /\ Plain /\ InStep(w) /\ job'[w] = [job[w] EXCEPT !.seats[t] = 0, !.read[t] = None]
        /\ \A u \in Workers \ {w} : job'[u] = Idle
    BY <1>1, <1>4, Onward DEF FreeWrite
  <2>2. /\ job'[w].at = job[w].at /\ job'[w].next = job[w].next /\ job'[w].slot = job[w].slot
        /\ job'[w].seen = job[w].seen /\ job'[w].sub = job[w].sub
        /\ \A u \in Slots : job'[w].seats[u] = IF u = t THEN 0 ELSE job[w].seats[u]
        /\ \A u \in Slots : job'[w].read[u] = IF u = t THEN None ELSE job[w].read[u]
    BY <2>1, Working DEF Job
  <2>3. \A u \in Slots : count'[u] = IF u = t THEN Less(count[t], job[w].seats[t]) ELSE count[u]
    <3>1. job[w].read[t] = count[t]
      BY <1>1, <1>4, <2>1 DEF FreeWrite, InStep, Seen
    <3>2. QED
      BY <1>4, <3>1 DEF FreeWrite, TypeOK
  <2>4. Plain'
    BY <1>1, <2>1, Kept
  <2>5. job[w].next = "taking" => job[w].slot # t
    <3>1. job[w].seats[t] > 0
      BY <1>4 DEF FreeWrite
    <3>2. job[w].next = "taking" => job[w].seats[job[w].slot] = 0
      BY <1>1, <2>1 DEF InStep, Held
    <3>3. QED
      BY <3>1, <3>2
  <2>6. Seen(w)'
    <3>1. job[w].next = "taking" => job[w].slot # t
      BY <2>5
    <3>2. job[w].next = "taking" => job'[w].seen = count'[job'[w].slot]
      BY <1>1, <2>1, <2>2, <2>3, <3>1, Working DEF InStep, Seen
    <3>3. \A u \in Slots : job'[w].read[u] # None => job'[w].read[u] = count'[u]
      BY <1>1, <2>1, <2>2, <2>3 DEF InStep, Seen
    <3>4. QED
      BY <1>1, <2>2, <3>2, <3>3 DEF Seen
  <2>7. Held(w)'
    <3>1. \A s : AllIn(s, t) \in Nat
      BY Counted
    <3>2. QED
      BY <1>1, <2>1, <2>2, <3>1, Kept, Working DEF InStep, Held, HeldOf
  <2>8. ASSUME NEW u \in Coming PROVE Balance(w, u)'
    <3>1. u \in Slots /\ Balance(w, u) /\ BookedIn(u)' = BookedIn(u)
      BY <1>1, <1>2, <2>1, Kept DEF InStep
    <3>2. BookedIn(u) \in Nat /\ count[u] \in Nat /\ job[w].seats[u] \in Nat
      BY <3>1, Counted, Working DEF TypeOK
    <3>3. job[w].next = "taking" /\ u = t => u # job[w].slot
      BY <2>5
    <3>4. CASE u # t
      BY <1>1, <2>2, <2>3, <3>1, <3>4, Kept DEF Balance
    <3>5. CASE u = t
      <4>1. /\ job'[w].seats[u] = 0
            /\ count[u] >= job[w].seats[u] => count'[u] = count[u] - job[w].seats[u]
        BY <2>2, <2>3, <3>1, <3>2, <3>5 DEF Less, Floor
      <4>2. CASE job[w].next = "idle"
        BY <1>1, <2>2, <3>1, <3>2, <4>1, <4>2 DEF Balance
      <4>3. CASE job[w].next = "taking"
        BY <1>1, <2>2, <3>1, <3>2, <3>3, <3>5, <4>1, <4>3 DEF Balance, One
      <4>4. CASE job[w].next = "dropping"
        <5>1. PICK s \in Subs : job[w].sub = s
          BY <1>1, <4>4 DEF Hands, Fit
        <5>2. AllIn(s, u) <= BookedIn(u) /\ AllIn(s, u) \in Nat
          <6>1. Of(s) \subseteq Booked
            BY <1>1, <2>1, <4>4, <5>1 DEF InStep, Held, HeldOf
          <6>2. {v \in Of(s) : visit[v].slot = u} \in SUBSET BookedAt(u)
            BY <6>1 DEF BookedAt
          <6>3. IsFiniteSet(BookedAt(u))
            BY Counted, Finite
          <6>4. QED
            BY <6>2, <6>3, FS_Subset, Counted DEF AllIn
        <5>3. count[u] + AllIn(s, u) = BookedIn(u) + job[w].seats[u]
          BY <1>1, <3>1, <4>4, <5>1 DEF Balance
        <5>4. count'[u] + AllIn(s, u) = BookedIn(u)' + job'[w].seats[u]
          BY <3>1, <3>2, <4>1, <5>2, <5>3
        <5>5. QED
          BY <1>1, <2>2, <4>4, <5>1, <5>4, Kept DEF Balance
      <4>5. QED
        BY <1>1, <4>2, <4>3, <4>4
    <3>6. QED
      BY <3>4, <3>5
  <2>9. Coming' = Coming
    BY <1>1 DEF Coming
  <2>10. QED
    BY <1>1, <2>1, <2>2, <2>4, <2>6, <2>7, <2>8, <2>9, StaysCalm, IdleJob DEF InStep
<1>5. CASE FreeDone(w)
  <2> DEFINE j == IF job[w].next = "idle" THEN Idle ELSE [job[w] EXCEPT !.at = job[w].next]
  <2>1. /\ Plain /\ InStep(w) /\ job'[w] = j
        /\ \A u \in Workers \ {w} : job'[u] = Idle
    <3>1. Do(w, j) /\ job[w].at # "idle"
      BY <1>1, <1>5 DEF FreeDone, Ends
    <3>2. QED
      BY <3>1, Onward
  <2>2. Plain' /\ Coming' = Coming /\ UNCHANGED count
    BY <1>1, <1>5, <2>1, Kept DEF FreeDone
  <2>3. \A u \in Coming : job[w].seats[u] = 0 /\ count[u] \in Nat /\ BookedIn(u) \in Nat
    BY <1>2, <1>5, Counted DEF FreeDone, TypeOK
  <2>4. CASE job[w].next = "idle"
    <3>1. \A u \in Coming : count[u] = BookedIn(u)
      BY <1>1, <2>1, <2>3, <2>4 DEF InStep, Balance
    <3>2. Even'
      BY <1>1, <2>2, <3>1, Kept DEF Even
    <3>3. QED
      BY <2>1, <2>2, <2>4, <3>2, StaysCalm
  <2>5. CASE job[w].next # "idle"
    <3>1. /\ job'[w].at = job[w].next /\ job'[w].slot = job[w].slot
          /\ job'[w].seen = job[w].seen /\ job'[w].sub = job[w].sub
      BY <2>1, <2>5, Working DEF Job
    <3>2. Seen(w)'
      BY <1>1, <2>1, <2>2, <2>5, <3>1 DEF InStep, Seen
    <3>3. Held(w)'
      BY <1>1, <2>1, <2>5, <3>1, Kept DEF InStep, Held, HeldOf
    <3>4. ASSUME NEW u \in Coming PROVE Balance(w, u)'
      <4>1. Balance(w, u) /\ BookedIn(u)' = BookedIn(u) /\ job[w].seats[u] = 0
        BY <1>1, <2>1, <2>3, Kept DEF InStep
      <4>2. CASE job[w].next = "taking"
        <5>1. count[u] + One(u = job[w].slot) = BookedIn(u)
          BY <1>1, <2>3, <4>1, <4>2 DEF Balance
        <5>2. QED
          BY <2>2, <3>1, <4>1, <4>2, <5>1 DEF Balance
      <4>3. CASE job[w].next = "dropping"
        <5>1. \A s \in Subs : job[w].sub = s => count[u] + AllIn(s, u) = BookedIn(u)
          BY <1>1, <2>3, <4>1, <4>3 DEF Balance
        <5>2. QED
          BY <1>1, <2>2, <3>1, <4>1, <4>3, <5>1, Kept DEF Balance
      <4>4. QED
        BY <1>1, <2>5, <4>2, <4>3
    <3>5. QED
      BY <1>1, <2>1, <2>2, <2>5, <3>1, <3>2, <3>3, <3>4, StaysCalm, IdleJob DEF InStep
  <2>6. QED
    BY <2>4, <2>5
<1>6. QED
  BY <1>3, <1>4, <1>5

\* Requests that take visits away free the seats that these have, no more.
LEMMA RemovalCalm ==
    ASSUME TypeOK, Hands, Calm, ~drift, ~drift', NEW w \in Workers,
           \/ CancelFind(w) \/ CancelVisits(w) \/ DeleteSeats(w) \/ DeleteRows(w)
           \/ RemoveRow(w) \/ SweepFind(w) \/ SweepVisits(w)
    PROVE  Calm'
<1>1. \A u \in Coming : u \in Slots /\ u \in Int /\ today \in Int /\ u >= today
  BY VisitsAssumption DEF Coming, TypeOK, Slots
<1>2. ASSUME NEW s, NEW u \in Coming
      PROVE  /\ BookedAt(u) \cap Mine(s) = {v \in Mine(s) : visit[v].slot = u}
             /\ BookedAt(u) \cap (Of(s) \cap Booked) = {v \in Mine(s) : visit[v].slot = u}
             /\ Of(s) \subseteq Booked =>
                   BookedAt(u) \cap Of(s) = {v \in Of(s) : visit[v].slot = u}
  <2>1. \A v \in BookedAt(u) : v \in Booked /\ v \in Future /\ visit[v].slot = u
    BY <1>1 DEF BookedAt, Booked, Future
  <2>2. \A v \in Booked : visit[v].slot = u => v \in BookedAt(u)
    BY DEF BookedAt
  <2>3. QED
    BY <2>1, <2>2 DEF Mine
<1>3. CASE CancelFind(w)
  <2> DEFINE found == Of(job[w].sub) \cap Booked \cap Future
             j == IF found = {} THEN Idle
                  ELSE [job[w] EXCEPT !.at = "cancelVisits", !.seats = SeatsOf(found)]
  <2>1. /\ Plain /\ InStep(w) /\ job'[w] = j
        /\ \A u \in Workers \ {w} : job'[u] = Idle
    <3>1. Do(w, j) /\ job[w].at # "idle"
      BY <1>3 DEF CancelFind, Ends, At
    <3>2. QED
      BY <3>1, Onward
  <2>2. PICK s \in Subs : job[w].sub = s
    BY <1>3 DEF CancelFind, Hands, Fit, At
  <2>3. Plain' /\ Coming' = Coming /\ UNCHANGED count
    BY <1>3, <2>1, Kept DEF CancelFind
  <2>4. \A u \in Coming : count[u] = BookedIn(u) /\ BookedIn(u)' = BookedIn(u)
    BY <1>3, <2>1, Kept DEF CancelFind, At, InStep, Balance
  <2>5. CASE found = {}
    <3>1. Even'
      BY <2>3, <2>4 DEF Even
    <3>2. QED
      BY <2>1, <2>3, <2>5, <3>1, StaysCalm
  <2>6. CASE found # {}
    <3>1. /\ job'[w].at = "cancelVisits" /\ job'[w].sub = s /\ job'[w].read = Nothing
          /\ \A u \in Slots : job'[w].seats[u] = MineIn(s, u)
      <4>1. /\ job'[w].at = "cancelVisits" /\ job'[w].sub = s /\ job'[w].read = job[w].read
            /\ job'[w].seats = SeatsOf(Mine(s))
        BY <2>1, <2>2, <2>6, Working DEF Job, Mine
      <4>2. job[w].read = Nothing
        BY <1>3, <2>1 DEF CancelFind, At, InStep, Seen
      <4>3. QED
        BY <4>1, <4>2 DEF SeatsOf, MineIn
    <3>2. Seen(w)'
      BY <3>1 DEF Seen
    <3>3. Held(w)'
      BY <1>3, <3>1, Kept DEF CancelFind, Held, HeldOf
    <3>4. \A u \in Coming : Balance(w, u)'
      BY <2>3, <2>4, <3>1 DEF Balance
    <3>5. QED
      BY <2>1, <2>3, <3>1, <3>2, <3>3, <3>4, StaysCalm, IdleJob DEF InStep
  <2>7. QED
    BY <2>5, <2>6
<1>4. CASE CancelVisits(w)
  <2>1. /\ Plain /\ InStep(w) /\ job'[w] = [job[w] EXCEPT !.at = "freeing"]
        /\ \A u \in Workers \ {w} : job'[u] = Idle
    BY <1>4, Onward DEF CancelVisits, CancelFrees, At
  <2>2. PICK s \in Subs : job[w].sub = s
    BY <1>4 DEF CancelVisits, Hands, Fit, At
  <2>3. /\ job'[w].at = "freeing" /\ job'[w].next = "idle" /\ job'[w].read = Nothing
        /\ \A u \in Slots : job'[w].seats[u] = MineIn(s, u)
    <3>1. job[w].next = "idle"
      BY <1>4 DEF CancelVisits, Hands, Fit, At
    <3>2. job[w].read = Nothing /\ \A u \in Slots : job[w].seats[u] = MineIn(s, u)
      BY <1>4, <2>1, <2>2 DEF CancelVisits, At, InStep, Seen, Held, HeldOf
    <3>3. QED
      BY <2>1, <3>1, <3>2, Working DEF Job
  <2> DEFINE gone == Of(s) \cap Booked
  <2>4. /\ Plain'
        /\ \A u : BookedIn(u)' = BookedIn(u) - Cardinality(BookedAt(u) \cap gone)
    <3>1. gone \in SUBSET Visits
      BY DEF Of
    <3>2. /\ \A v \in Visits \ gone : visit'[v] = visit[v]
          /\ \A v \in gone : visit'[v].status = "cancelled"
      BY <1>4, <2>2 DEF CancelVisits, Cancels, Of, TypeOK, Visit
    <3> HIDE DEF gone
    <3>3. QED
      BY <2>1, <3>1, <3>2, GoneCounted
  <2>5. ASSUME NEW u \in Coming PROVE count'[u] = BookedIn(u)' + job'[w].seats[u]
    <3>1. count[u] = BookedIn(u) /\ UNCHANGED count
      BY <1>4, <2>1 DEF CancelVisits, At, InStep, Balance
    <3>2. BookedIn(u)' = BookedIn(u) - MineIn(s, u)
      BY <1>2, <2>4 DEF MineIn
    <3>3. BookedIn(u) \in Nat /\ MineIn(s, u) \in Nat
      BY Counted
    <3>4. QED
      BY <1>1, <2>3, <3>1, <3>2, <3>3
  <2>6. Coming' = Coming
    BY <1>4 DEF CancelVisits, Coming
  <2>7. Seen(w)' /\ Held(w)' /\ \A u \in Coming' : Balance(w, u)'
    BY <2>3, <2>5, <2>6 DEF Seen, Nothing, Held, HeldOf, Balance
  <2>8. QED
    BY <2>1, <2>3, <2>4, <2>7, StaysCalm, IdleJob DEF InStep
<1>5. CASE DeleteSeats(w)
  <2> DEFINE ids == {v \in job[w].ids : visit[v] # None}
  <2>1. /\ Plain /\ InStep(w)
        /\ job'[w] = [job[w] EXCEPT !.at = "freeing", !.ids = {}, !.seats = SeatsOf(ids),
                                    !.next = "dropping"]
        /\ \A u \in Workers \ {w} : job'[u] = Idle
    BY <1>5, Onward DEF DeleteSeats, Frees, At
  <2>2. PICK s \in Subs : job[w].sub = s
    BY <1>5 DEF DeleteSeats, Hands, Fit, At
  <2>3. job[w].ids = Of(s) /\ job[w].read = Nothing
    BY <1>5, <2>1, <2>2 DEF DeleteSeats, At, InStep, Seen, Held, HeldOf
  <2>4. ids = Of(s) /\ Of(s) \subseteq Booked
    <3>1. ids = Of(s)
      BY <2>3 DEF Of
    <3>2. ids \ Booked = {}
      BY <1>5 DEF DeleteSeats
    <3>3. QED
      BY <3>1, <3>2
  <2>5. /\ job'[w].at = "freeing" /\ job'[w].next = "dropping" /\ job'[w].sub = s
        /\ job'[w].read = Nothing
        /\ \A u \in Slots : job'[w].seats[u] = AllIn(s, u)
    <3>1. /\ job'[w].at = "freeing" /\ job'[w].next = "dropping" /\ job'[w].sub = s
          /\ job'[w].read = Nothing /\ job'[w].seats = SeatsOf(Of(s))
      BY <2>1, <2>2, <2>3, <2>4, Working DEF Job
    <3>2. QED
      BY <3>1 DEF SeatsOf, AllIn
  <2>6. Plain' /\ Coming' = Coming /\ UNCHANGED <<count, today, visit>>
    BY <1>5, <2>1, Kept DEF DeleteSeats
  <2>7. Seen(w)'
    BY <2>5 DEF Seen, Nothing
  <2>8. Held(w)'
    <3>1. \A u : AllIn(s, u) \in Nat
      BY Counted
    <3>2. QED
      BY <2>4, <2>5, <2>6, <3>1, Kept DEF Held, HeldOf
  <2>9. ASSUME NEW u \in Coming PROVE Balance(w, u)'
    <3>1. count[u] = BookedIn(u)
      BY <1>5, <2>1 DEF DeleteSeats, At, InStep, Balance
    <3>2. BookedIn(u)' = BookedIn(u) /\ AllIn(s, u)' = AllIn(s, u)
      BY <2>6, Kept
    <3>3. QED
      BY <1>1, <2>5, <2>6, <3>1, <3>2 DEF Balance
  <2>10. QED
    BY <2>1, <2>5, <2>6, <2>7, <2>8, <2>9, StaysCalm, IdleJob DEF InStep
<1>6. CASE DeleteRows(w)
  <2>1. /\ Plain /\ InStep(w) /\ job'[w] = Idle
        /\ \A u \in Workers \ {w} : job'[u] = Idle
    BY <1>6, Onward DEF DeleteRows, Ends, At
  <2>2. PICK s \in Subs : job[w].sub = s
    BY <1>6 DEF DeleteRows, Hands, Fit, At
  <2>3. Of(s) \subseteq Booked
    BY <1>6, <2>1, <2>2 DEF DeleteRows, At, InStep, Held, HeldOf
  <2> DEFINE gone == Of(s)
  <2>4. /\ Plain'
        /\ \A u : BookedIn(u)' = BookedIn(u) - Cardinality(BookedAt(u) \cap gone)
    <3>1. gone \in SUBSET Visits
      BY DEF Of
    <3>2. /\ \A v \in Visits \ gone : visit'[v] = visit[v]
          /\ \A v \in gone : visit'[v] = None
      BY <1>6, <2>2, <3>1 DEF DeleteRows
    <3> HIDE DEF gone
    <3>3. QED
      BY <2>1, <3>1, <3>2, GoneCounted
  <2>5. ASSUME NEW u \in Coming PROVE count'[u] = BookedIn(u)'
    <3>1. count[u] + AllIn(s, u) = BookedIn(u) /\ UNCHANGED count
      BY <1>6, <2>1, <2>2 DEF DeleteRows, At, InStep, Balance
    <3>2. BookedIn(u)' = BookedIn(u) - AllIn(s, u)
      BY <1>2, <2>3, <2>4 DEF AllIn
    <3>3. count[u] \in Nat /\ AllIn(s, u) \in Nat
      BY <1>1, Counted DEF TypeOK
    <3>4. QED
      BY <3>1, <3>2, <3>3
  <2>6. Even'
    BY <1>6, <2>5 DEF Even, Coming, DeleteRows
  <2>7. QED
    BY <2>1, <2>4, <2>6, StaysCalm
<1>7. CASE RemoveRow(w)
  <2>1. /\ Plain /\ InStep(w) /\ job'[w] = [job[w] EXCEPT !.at = "freeing", !.ids = {}]
        /\ \A u \in Workers \ {w} : job'[u] = Idle
    BY <1>7, Onward DEF RemoveRow, At
  <2>2. PICK v \in Visits : /\ job[w].ids = {v} /\ visit[v] # None
                            /\ \A t \in Slots : job[w].seats[t] = OneIn(v, t)
    BY <1>7, <2>1 DEF RemoveRow, At, InStep, Held
  <2>3. /\ job'[w].at = "freeing" /\ job'[w].next = "idle" /\ job'[w].read = Nothing
        /\ job'[w].seats = job[w].seats
    <3>1. job[w].next = "idle" /\ job[w].read = Nothing
      BY <1>7, <2>1 DEF RemoveRow, Hands, Fit, At, InStep, Seen
    <3>2. QED
      BY <2>1, <3>1, Working DEF Job
  <2>4. /\ Plain'
        /\ \A u : BookedIn(u)' = BookedIn(u) - Cardinality(BookedAt(u) \cap {v})
    <3>1. /\ \A x \in Visits \ {v} : visit'[x] = visit[x]
          /\ \A x \in {v} : visit'[x] = None
      BY <1>7, <2>2 DEF RemoveRow
    <3>2. QED
      BY <2>1, <2>2, <3>1, GoneCounted
  <2>5. ASSUME NEW u \in Coming PROVE count'[u] = BookedIn(u)' + job'[w].seats[u]
    <3>1. count[u] = BookedIn(u) /\ UNCHANGED count
      BY <1>7, <2>1 DEF RemoveRow, At, InStep, Balance
    <3>2. Cardinality(BookedAt(u) \cap {v}) = OneIn(v, u)
      <4> DEFINE ids == IF v \in Booked THEN {v} ELSE {}
      <4>1. BookedAt(u) \cap {v} = {x \in ids : visit[x].slot = u}
        BY DEF BookedAt
      <4>2. Cardinality({x \in ids : visit[x].slot = u}) = OneIn(v, u)
        BY OneCounted
      <4>3. QED
        BY <4>1, <4>2
    <3>3. BookedIn(u) \in Nat /\ OneIn(v, u) \in {0, 1}
      BY Counted
    <3>4. QED
      BY <1>1, <2>2, <2>3, <2>4, <3>1, <3>2, <3>3
  <2>6. Coming' = Coming
    BY <1>7 DEF RemoveRow, Coming
  <2>7. Seen(w)' /\ Held(w)' /\ \A u \in Coming' : Balance(w, u)'
    BY <2>3, <2>5, <2>6 DEF Seen, Nothing, Held, HeldOf, Balance
  <2>8. QED
    BY <2>1, <2>3, <2>4, <2>7, StaysCalm, IdleJob DEF InStep
<1>8. CASE SweepFind(w)
  <2> DEFINE found == Of(job[w].sub) \cap Booked \cap Future
             j == IF found = {} THEN Idle
                  ELSE [job[w] EXCEPT !.at = "sweepVisits", !.ids = found,
                               !.seats = SeatsOf(found), !.read = count]
  <2>1. /\ Plain /\ InStep(w) /\ job'[w] = j
        /\ \A u \in Workers \ {w} : job'[u] = Idle
    <3>1. Do(w, j) /\ job[w].at # "idle"
      BY <1>8 DEF SweepFind, Ends, At
    <3>2. QED
      BY <3>1, Onward
  <2>2. PICK s \in Subs : job[w].sub = s
    BY <1>8 DEF SweepFind, Hands, Fit, At
  <2>3. Plain' /\ Coming' = Coming /\ UNCHANGED count
    BY <1>8, <2>1, Kept DEF SweepFind
  <2>4. \A u \in Coming : count[u] = BookedIn(u) /\ BookedIn(u)' = BookedIn(u)
    BY <1>8, <2>1, Kept DEF SweepFind, At, InStep, Balance
  <2>5. CASE found = {}
    <3>1. Even'
      BY <2>3, <2>4 DEF Even
    <3>2. QED
      BY <2>1, <2>3, <2>5, <3>1, StaysCalm
  <2>6. CASE found # {}
    <3>1. /\ job'[w].at = "sweepVisits" /\ job'[w].sub = s /\ job'[w].read = count
          /\ job'[w].ids = Mine(s)
          /\ \A u \in Slots : job'[w].seats[u] = MineIn(s, u)
      <4>1. /\ job'[w].at = "sweepVisits" /\ job'[w].sub = s /\ job'[w].read = count
            /\ job'[w].ids = Mine(s) /\ job'[w].seats = SeatsOf(Mine(s))
        BY <2>1, <2>2, <2>6, Working DEF Job, Mine
      <4>2. QED
        BY <4>1 DEF SeatsOf, MineIn
    <3>2. Seen(w)'
      BY <2>3, <3>1 DEF Seen
    <3>3. Held(w)'
      BY <1>8, <3>1, Kept DEF SweepFind, Held, HeldOf
    <3>4. \A u \in Coming : Balance(w, u)'
      BY <2>3, <2>4, <3>1 DEF Balance
    <3>5. QED
      BY <2>1, <2>3, <3>1, <3>2, <3>3, <3>4, StaysCalm, IdleJob DEF InStep
  <2>7. QED
    BY <2>5, <2>6
<1>9. CASE SweepVisits(w)
  <2>1. /\ Plain /\ InStep(w) /\ job'[w] = [job[w] EXCEPT !.at = "freeing", !.ids = {}]
        /\ \A u \in Workers \ {w} : job'[u] = Idle
    BY <1>9, Onward DEF SweepVisits, At
  <2>2. PICK s \in Subs : job[w].sub = s
    BY <1>9 DEF SweepVisits, Hands, Fit, At
  <2>3. job[w].ids = Mine(s) /\ \A u \in Slots : job[w].seats[u] = MineIn(s, u)
    BY <1>9, <2>1, <2>2 DEF SweepVisits, At, InStep, Held, HeldOf
  <2>4. /\ job'[w].at = "freeing" /\ job'[w].next = "idle"
        /\ job'[w].read = job[w].read /\ job'[w].seats = job[w].seats
    <3>1. job[w].next = "idle"
      BY <1>9 DEF SweepVisits, Hands, Fit, At
    <3>2. QED
      BY <2>1, <3>1, Working DEF Job
  <2> DEFINE gone == Mine(s)
  <2>5. /\ Plain'
        /\ \A u : BookedIn(u)' = BookedIn(u) - Cardinality(BookedAt(u) \cap gone)
    <3>1. gone \in SUBSET Visits /\ \A v \in gone : visit[v] # None
      BY DEF Mine, Of
    <3>2. /\ \A v \in Visits \ gone : visit'[v] = visit[v]
          /\ \A v \in gone : visit'[v].status = "cancelled"
      <4>1. visit' = [v \in Visits |-> IF v \in gone THEN [visit[v] EXCEPT !.status = "cancelled"]
                                       ELSE visit[v]]
        BY <1>9, <2>3, <3>1 DEF SweepVisits, Cancels
      <4>2. \A v \in gone : visit[v] \in Visit
        BY <3>1 DEF TypeOK
      <4>3. QED
        BY <3>1, <4>1, <4>2 DEF Visit
    <3> HIDE DEF gone
    <3>3. QED
      BY <2>1, <3>1, <3>2, GoneCounted
  <2>6. ASSUME NEW u \in Coming PROVE count'[u] = BookedIn(u)' + job'[w].seats[u]
    <3>1. count[u] = BookedIn(u) /\ UNCHANGED count
      BY <1>9, <2>1 DEF SweepVisits, At, InStep, Balance
    <3>2. BookedIn(u)' = BookedIn(u) - MineIn(s, u)
      BY <1>2, <2>5 DEF MineIn
    <3>3. BookedIn(u) \in Nat /\ MineIn(s, u) \in Nat
      BY Counted
    <3>4. QED
      BY <1>1, <2>3, <2>4, <3>1, <3>2, <3>3
  <2>7. Coming' = Coming
    BY <1>9 DEF SweepVisits, Coming
  <2>8. Seen(w)'
    BY <1>9, <2>1, <2>4 DEF SweepVisits, At, InStep, Seen
  <2>9. Held(w)' /\ \A u \in Coming' : Balance(w, u)'
    BY <2>4, <2>6, <2>7 DEF Held, HeldOf, Balance
  <2>10. QED
    BY <2>1, <2>4, <2>5, <2>8, <2>9, StaysCalm, IdleJob DEF InStep
<1>10. QED
  BY <1>3, <1>4, <1>5, <1>6, <1>7, <1>8, <1>9

\* Every step keeps the counters in step, or spoils them.
LEMMA NextCalm == ASSUME TypeOK, Hands, Calm, [Next]_vars PROVE Calm'
<1>1. CASE drift'
  BY <1>1 DEF Calm
<1>2. ASSUME ~drift', NEW w \in Workers, Request(w) PROVE Calm'
  BY <1>2, ReadsCalm DEF Request
<1>3. ASSUME ~drift', NEW w \in Workers, Step(w) PROVE Calm'
  <2>1. ~drift
    BY <1>3
    DEF Step, ScheduleCommit, BookInsert, BookBump, BookActivate, MoveVisit, Take,
        ReserveInsert, FreeDone, CancelFind, CancelVisits, DeleteSeats, DeleteRows, RemoveRow,
        SweepFind, SweepVisits, FreeRead, FreeWrite
  <2>2. QED
    BY <1>3, <2>1, BookingCalm, FreeingCalm, RemovalCalm DEF Step
<1>4. CASE ~drift' /\ NewDay
  <2>1. ~drift /\ \A w \in Workers : job[w] = Idle
    BY <1>4 DEF NewDay
  <2>2. Plain /\ Even
    BY <2>1 DEF Calm
  <2>3. today' = today + 1 /\ UNCHANGED <<visit, count, job>>
    BY <1>4 DEF NewDay
  <2>4. Coming' \subseteq Coming
    BY <2>3, VisitsAssumption DEF Coming, TypeOK, Slots
  <2>5. \A u : BookedIn(u)' = BookedIn(u)
    BY <2>3 DEF BookedIn, Booked
  <2>6. Plain' /\ Even'
    BY <2>2, <2>3, <2>4, <2>5 DEF Plain, Even
  <2>7. QED
    BY <2>1, <2>3, <2>6 DEF Calm
<1>5. CASE UNCHANGED vars
  <2>1. UNCHANGED <<today, visit>> /\ UNCHANGED <<count, job, drift>>
    BY <1>5 DEF vars
  <2>2. ASSUME NEW w \in Workers, InStep(w) PROVE InStep(w)'
    BY <2>1, <2>2, Kept DEF InStep, Seen, Held, HeldOf, Balance
  <2>3. Even => Even'
    BY <2>1, Kept DEF Even
  <2>4. QED
    BY <2>1, <2>2, <2>3, Kept DEF Calm
<1>6. ASSUME ~drift', NEW w \in Workers, CutShort(w) PROVE FALSE
  BY <1>6 DEF CutShort
<1>7. ASSUME ~drift', NEW v \in Visits, NEW st \in {"BOOKED", "CANCELLED", "COMPLETED"}, Edit(v, st)
      PROVE  FALSE
  BY <1>7 DEF Edit
<1>8. QED
  BY <1>1, <1>2, <1>3, <1>4, <1>5, <1>6, <1>7 DEF Next
-----------------------------------------------------------------------------
\* The initial state satisfies the invariants of schedules.
LEMMA InitGiven == ASSUME Init PROVE TypeOK /\ Hands /\ Given
<1>1. TypeOK
  <2>1. today \in Slots /\ requests \in 0..MaxRequests
    BY VisitsAssumption DEF Init, Slots
  <2>2. job \in [Workers -> Job]
    BY IdleJob DEF Init
  <2>3. sub \in [Subs -> {"pending_schedule", "active", "cancelled", "expired", "deleted"}]
    BY DEF Init
  <2>4. count \in [Slots -> Nat] /\ visit \in [Visits -> Visit \cup {None}]
    BY DEF Init
  <2>5. QED
    BY <2>1, <2>2, <2>3, <2>4 DEF Init, TypeOK
<1>2. Hands
  BY IdleJob DEF Init, Hands
<1>3. Given
  BY IdleJob DEF Init, Given, Scheduling, At, Steady, Of
<1>4. QED
  BY <1>1, <1>2, <1>3

\* One visit at most is one schedule.
LEMMA GivenOne == ASSUME Given PROVE OneSchedule
<1>1. ASSUME NEW s \in Subs PROVE Cardinality(Steady(s)) <= 1
  <2>1. CASE Steady(s) = {}
    BY <2>1, FS_EmptySet
  <2>2. CASE Steady(s) # {}
    <3>1. PICK v : Steady(s) = {v}
      BY <2>2 DEF Given
    <3>2. QED
      BY <3>1, FS_Singleton
  <2>3. QED
    BY <2>1, <2>2
<1>2. QED
  BY <1>1 DEF OneSchedule, Steady

\* The invariants of schedules hold in every reachable state.
LEMMA SchedulesHold == Spec => [](TypeOK /\ Hands /\ Given)
<1>1. Init => TypeOK /\ Hands /\ Given
  BY InitGiven
<1>2. TypeOK /\ Hands /\ Given /\ [Next]_vars => (TypeOK /\ Hands /\ Given)'
  BY NextType, NextGiven
<1>3. QED
  BY <1>1, <1>2, PTL DEF Spec

\* Type correctness: counters never run below zero, visits and requests keep their
\* form.
THEOREM TypeCorrect == Spec => []TypeOK
BY SchedulesHold, PTL

\* However often and however fast the customer picks a weekday, with whatever else
\* goes on, a subscription has one visit to come of its schedule: the transaction
\* gives up all visits of the schedule before (schedule_cleaning_subscription).
THEOREM ScheduledOnce == Spec => []OneSchedule
<1>1. TypeOK /\ Hands /\ Given => OneSchedule
  BY GivenOne
<1>2. QED
  BY <1>1, SchedulesHold, PTL
\* In the beginning there are no visits, and no seats are taken.
LEMMA InitCalm == ASSUME Init PROVE Calm
<1>1. Plain /\ \A w \in Workers : job[w] = Idle
  BY DEF Init, Plain
<1>2. ASSUME NEW t \in Coming PROVE count[t] = BookedIn(t)
  <2>1. count[t] = 0
    BY <1>2, VisitsAssumption DEF Init, Coming, Slots
  <2>2. {v \in Booked : visit[v].slot = t} = {}
    BY DEF Init, Booked
  <2>3. QED
    BY <2>1, <2>2, FS_EmptySet DEF BookedIn
<1>3. QED
  BY <1>1, <1>2 DEF Calm, Even

\* The invariant of counters holds in every reachable state.
LEMMA CalmHolds == Spec => []Calm
<1>1. Init => TypeOK /\ Hands /\ Calm
  BY InitGiven, InitCalm
<1>2. TypeOK /\ Hands /\ Calm /\ [Next]_vars => (TypeOK /\ Hands /\ Calm)'
  BY NextType, NextCalm
<1>3. QED
  BY <1>1, <1>2, PTL DEF Spec

\* The counters of the days to come are the visits booked, through any sequence of
\* requests that do not overlap, run to their end and leave statuses to SQL: every
\* request that books, schedules, moves, cancels, deletes or sweeps visits frees and
\* takes as many seats as visits.
THEOREM CountersHonest == Spec => []CountHonest
<1>1. Calm => CountHonest
  BY DEF Calm, CountHonest, Even, Coming
<1>2. QED
  BY <1>1, CalmHolds, PTL
=============================================================================
