---------------------------- MODULE OutboxProofs ----------------------------
(* Proofs about Outbox: type correctness, the ledger's honesty, that nothing   *)
(* leaves the outbox unserved, and that the outbox implements EventLog.        *)
EXTENDS Outbox, FiniteSetTheorems, TLAPS

\* What only grows keeps a drain's invariant: a step that leaves the local state
\* of d alone and takes back no row, call or result preserves DrainInv(d).
LEMMA Frame ==
    ASSUME NEW d \in Drains, TypeOK, TypeOK', DrainInv(d),
           Stored \subseteq Stored', Settled \subseteq Settled',
           \A p \in Pairs : tries[p] <= tries'[p] /\ served[p] <= served'[p],
           pc'[d] = pc[d], batch'[d] = batch[d], event'[d] = event[d],
           todo'[d] = todo[d], consumer'[d] = consumer[d], seen'[d] = seen[d],
           blocking'[d] = blocking[d]
    PROVE  DrainInv(d)'
<1> USE OutboxAssumption
<1>1. (pc[d] \in InRow => event[d] \in Events) /\ InHandler \subseteq InRow
  BY DEF DrainInv, Stored, InRow
<1>2. pc[d] \in InHandler => Current(d) \in Pairs /\ Current(d)' = Current(d)
  BY <1>1 DEF DrainInv, Current, Pairs
<1>3. pc[d] \in InHandler =>
        seen[d] + (IF pc[d] = "call" THEN 0 ELSE 1) <= tries'[Current(d)]
  <2>1. pc[d] \in InHandler => tries[Current(d)] <= tries'[Current(d)]
    BY <1>2
  <2>2. pc[d] \in InHandler =>
          tries[Current(d)] \in Nat /\ tries'[Current(d)] \in Nat /\ seen[d] \in Nat
    BY <1>2 DEF TypeOK
  <2> QED
    BY <2>1, <2>2 DEF DrainInv
<1>4. pc[d] = "returned" => served'[Current(d)] >= 1
  <2>1. pc[d] = "returned" => served[Current(d)] <= served'[Current(d)]
    BY <1>2 DEF InHandler
  <2>2. pc[d] = "returned" => served[Current(d)] \in Nat /\ served'[Current(d)] \in Nat
    BY <1>2 DEF TypeOK, InHandler
  <2> QED
    BY <2>1, <2>2 DEF DrainInv
<1> QED
  BY <1>1, <1>2, <1>3, <1>4 DEF DrainInv, InHandler

\* Calls and results are only ever added, so what is settled stays settled.
LEMMA SettledGrows ==
    ASSUME TypeOK, TypeOK',
           \A p \in Pairs : tries[p] <= tries'[p] /\ served[p] <= served'[p]
    PROVE  Settled \subseteq Settled'
BY OutboxAssumption DEF Settled, TypeOK

\* Every variable keeps its type; the invariant of the drains is needed to know
\* that a drain in a row has an event and one in a handler a consumer.
LEMMA TypeStep == IInv /\ [Next]_vars => TypeOK'
<1> SUFFICES ASSUME IInv, [Next]_vars PROVE TypeOK'
  OBVIOUS
<1> USE OutboxAssumption DEF IInv, TypeOK, rows, ghosts, local, InRow, InHandler
<1>d. ASSUME NEW d \in Drains PROVE
        /\ batch[d] \subseteq Events
        /\ pc[d] \in InRow => event[d] \in Events
        /\ pc[d] \in InHandler => Current(d) \in Pairs
  BY DEF DrainInv, Stored, Current, Pairs
<1>1. ASSUME NEW e \in Events, Publish(e) PROVE TypeOK'
  <2>1. Cardinality(Stored) \in Nat
    BY FS_Subset, FS_CardinalityType DEF Stored
  <2> QED
    BY <1>1, <2>1 DEF Publish
<1>2. ASSUME NEW d \in Drains, StartDrain(d) PROVE TypeOK'
  BY <1>2 DEF StartDrain, Unpublished, Stored
<1>3. ASSUME NEW d \in Drains, NextRow(d) PROVE TypeOK'
  BY <1>3 DEF NextRow
<1>4. ASSUME NEW d \in Drains, ReadDelivery(d) PROVE TypeOK'
  <2>1. \A c \in todo[d] : <<event[d], c>> \in Pairs /\ delivery[<<event[d], c>>].attempts \in Nat
    BY <1>d, <1>4 DEF ReadDelivery, ReadRow, Pairs
  <2>2. pc' \in [Drains -> {"idle", "rows"} \cup InRow]
    BY <1>4 DEF ReadDelivery, ReadRow
  <2>3. todo' \in [Drains -> SUBSET Consumers]
    BY <1>4 DEF ReadDelivery, ReadRow
  <2>4. consumer' \in [Drains -> Consumers \cup {None}] /\ seen' \in [Drains -> Nat]
    BY <1>4, <2>1 DEF ReadDelivery, ReadRow
  <2> QED
    BY <1>4, <2>2, <2>3, <2>4 DEF ReadDelivery, ReadRow
<1>5. ASSUME NEW d \in Drains, CallHandler(d) PROVE TypeOK'
  <2>1. Current(d) \in Pairs
    BY <1>5, <1>d DEF CallHandler
  <2>2. tries' \in [Pairs -> Nat] /\ served' \in [Pairs -> Nat]
    BY <1>5, <2>1 DEF CallHandler
  <2> QED
    BY <1>5, <2>2 DEF CallHandler
<1>6. ASSUME NEW d \in Drains, RecordSuccess(d) PROVE TypeOK'
  BY <1>6, <1>d DEF RecordSuccess, RecordDelivery
<1>7. ASSUME NEW d \in Drains, SuccessNotRecorded(d) PROVE TypeOK'
  BY <1>7 DEF SuccessNotRecorded
<1>8. ASSUME NEW d \in Drains, RecordFailure(d) PROVE TypeOK'
  BY <1>8, <1>d DEF RecordFailure, Fail, RecordDelivery
<1>9. ASSUME NEW d \in Drains, FinishRow(d) PROVE TypeOK'
  BY <1>9, <1>d DEF FinishRow, CloseRow, LeaveRow
<1>10. ASSUME NEW d \in Drains, EndDrain(d) PROVE TypeOK'
  BY <1>10 DEF EndDrain
<1>11. ASSUME NEW d \in Drains, Abort(d) PROVE TypeOK'
  BY <1>11 DEF Abort, LeaveRow
<1>12. CASE UNCHANGED vars
  BY <1>12 DEF vars
<1> QED
  BY <1>1, <1>2, <1>3, <1>4, <1>5, <1>6, <1>7, <1>8, <1>9, <1>10, <1>11, <1>12
     DEF Next, DrainStep

\* No step takes back a stored event, a call or a result.
LEMMA Grows ==
    IInv /\ [Next]_vars =>
        /\ Stored \subseteq Stored'
        /\ \A p \in Pairs : tries[p] <= tries'[p] /\ served[p] <= served'[p]
        /\ Settled \subseteq Settled'
<1> SUFFICES ASSUME IInv, [Next]_vars
             PROVE  /\ Stored \subseteq Stored'
                    /\ \A p \in Pairs : tries[p] <= tries'[p] /\ served[p] <= served'[p]
                    /\ Settled \subseteq Settled'
  OBVIOUS
<1> USE OutboxAssumption DEF rows, ghosts
<1>t. TypeOK /\ TypeOK'
  BY TypeStep DEF IInv
<1>1. Stored \subseteq Stored'
  <2>1. ASSUME NEW e \in Events, Publish(e) PROVE Stored \subseteq Stored'
    BY <2>1, <1>t DEF Publish, Stored, TypeOK
  <2>2. ASSUME occurredAt' = occurredAt PROVE Stored \subseteq Stored'
    BY <2>2 DEF Stored
  <2> QED
    BY <2>1, <2>2 DEF Next, DrainStep, StartDrain, NextRow, ReadDelivery, ReadRow, CallHandler,
       RecordSuccess, SuccessNotRecorded, RecordFailure, Fail, FinishRow, CloseRow, EndDrain,
       Abort, vars
<1>2. \A p \in Pairs : tries[p] <= tries'[p] /\ served[p] <= served'[p]
  <2>1. ASSUME NEW d \in Drains, CallHandler(d)
        PROVE  \A p \in Pairs : tries[p] <= tries'[p] /\ served[p] <= served'[p]
    BY <2>1, <1>t DEF CallHandler, TypeOK
  <2>2. ASSUME tries' = tries, served' = served
        PROVE  \A p \in Pairs : tries[p] <= tries'[p] /\ served[p] <= served'[p]
    BY <2>2, <1>t DEF TypeOK
  <2> QED
    BY <2>1, <2>2 DEF Next, DrainStep, Publish, StartDrain, NextRow, ReadDelivery, ReadRow,
       RecordSuccess, SuccessNotRecorded, RecordFailure, Fail, FinishRow, CloseRow, EndDrain,
       Abort, vars
<1> QED
  BY <1>t, <1>1, <1>2, SettledGrows

\* The ledger stays honest: only the three upserts touch it, and each writes one
\* attempt more than the drain read, which is no more than the calls made.
LEMMA LedgerStep == IInv /\ [Next]_vars => HonestLedger'
<1> SUFFICES ASSUME IInv, [Next]_vars PROVE HonestLedger'
  OBVIOUS
<1> USE OutboxAssumption
<1>t. TypeOK /\ TypeOK' /\ HonestLedger
  BY TypeStep DEF IInv
<1>g. \A p \in Pairs : tries[p] <= tries'[p] /\ served[p] <= served'[p]
  BY Grows
<1>1. ASSUME delivery' = delivery PROVE HonestLedger'
  BY <1>1, <1>t, <1>g DEF HonestLedger, TypeOK
<1>d. ASSUME NEW d \in Drains, pc[d] \in {"returned", "threw"}
      PROVE  Current(d) \in Pairs /\ seen[d] + 1 <= tries[Current(d)] /\ seen[d] \in Nat
  BY <1>d, <1>t DEF IInv, DrainInv, InHandler, InRow, Current, Pairs, Stored, TypeOK
<1>2. ASSUME NEW d \in Drains, RecordSuccess(d) PROVE HonestLedger'
  <2>1. served[Current(d)] >= 1 /\ pc[d] = "returned"
    BY <1>2 DEF RecordSuccess, IInv, DrainInv
  <2> QED
    BY <1>2, <1>d, <1>t, <2>1 DEF RecordSuccess, RecordDelivery, HonestLedger, ghosts, TypeOK
<1>3. ASSUME NEW d \in Drains, RecordFailure(d) PROVE HonestLedger'
  <2> DEFINE dead == seen[d] + 1 >= MaxAttempts
  <2>1. /\ pc[d] = "threw"
        /\ delivery' = [delivery EXCEPT ![Current(d)] =
                          [status |-> IF dead THEN "dead" ELSE "failed",
                           attempts |-> seen[d] + 1]]
        /\ UNCHANGED <<served, tries>>
    BY <1>3 DEF RecordFailure, Fail, RecordDelivery, ghosts
  <2>2. dead => tries[Current(d)] >= MaxAttempts
    BY <1>d, <1>t, <2>1 DEF TypeOK
  <2> HIDE DEF dead
  <2> QED
    BY <1>d, <1>t, <2>1, <2>2 DEF HonestLedger, TypeOK
<1> QED
  BY <1>1, <1>2, <1>3 DEF Next, DrainStep, Publish, StartDrain, NextRow, ReadDelivery, ReadRow,
     CallHandler, SuccessNotRecorded, FinishRow, CloseRow, EndDrain, Abort, rows, vars

\* Every drain keeps its invariant: another drain's step by Frame, its own step
\* because a handler leaves "todo" only once it is settled or blocks the row.
LEMMA DrainsStep == IInv /\ [Next]_vars => \A x \in Drains : DrainInv(x)'
<1> SUFFICES ASSUME IInv, [Next]_vars, NEW x \in Drains PROVE DrainInv(x)'
  OBVIOUS
<1> USE OutboxAssumption DEF rows, ghosts, local
<1>t. TypeOK /\ TypeOK' /\ DrainInv(x)
  BY TypeStep DEF IInv
<1>g. /\ Stored \subseteq Stored'
      /\ \A p \in Pairs : tries[p] <= tries'[p] /\ served[p] <= served'[p]
      /\ Settled \subseteq Settled'
  BY Grows
<1>p. \A y \in Drains : pc[y] \in InRow => event[y] \in Events /\ Subs[event[y]] \subseteq Consumers
  BY DEF IInv, DrainInv, Stored
<1>f. ASSUME pc'[x] = pc[x], batch'[x] = batch[x], event'[x] = event[x],
             todo'[x] = todo[x], consumer'[x] = consumer[x], seen'[x] = seen[x],
             blocking'[x] = blocking[x]
      PROVE  DrainInv(x)'
  BY <1>f, <1>t, <1>g, Frame
<1>1. ASSUME NEW e \in Events, Publish(e) PROVE DrainInv(x)'
  BY <1>1, <1>f DEF Publish
<1>2. ASSUME NEW d \in Drains, StartDrain(d) PROVE DrainInv(x)'
  <2>1. CASE d = x
    <3>1. pc'[x] = "rows" /\ batch'[x] \subseteq Stored
      BY <1>2, <2>1, <1>t DEF StartDrain, Unpublished, TypeOK
    <3> QED
      BY <3>1, <1>g DEF DrainInv, InRow, InHandler
  <2> QED
    BY <1>2, <1>f, <1>t, <2>1 DEF StartDrain, TypeOK
<1>3. ASSUME NEW d \in Drains, NextRow(d) PROVE DrainInv(x)'
  <2>1. CASE d = x
    <3>1. PICK e \in batch[x] : /\ batch' = [batch EXCEPT ![x] = @ \ {e}]
                                /\ event' = [event EXCEPT ![x] = e]
                                /\ todo' = [todo EXCEPT ![x] = Subs[e]]
      BY <1>3, <2>1 DEF NextRow
    <3>2. /\ pc'[x] = "handlers" /\ event'[x] = e /\ todo'[x] = Subs[e]
          /\ batch'[x] \subseteq Stored' /\ e \in Stored'
      BY <1>3, <2>1, <3>1, <1>t, <1>g DEF NextRow, DrainInv, TypeOK
    <3> QED
      BY <3>2 DEF DrainInv, InHandler
  <2> QED
    BY <1>3, <1>f, <1>t, <2>1 DEF NextRow, TypeOK
<1>4. ASSUME NEW d \in Drains, ReadDelivery(d) PROVE DrainInv(x)'
  <2>1. CASE d = x
    <3>1. PICK c \in todo[x] :
            /\ pc[x] = "handlers"
            /\ todo' = [todo EXCEPT ![x] = @ \ {c}]
            /\ \/ /\ delivery[<<event[x], c>>].status \in {"delivered", "dead"}
                  /\ UNCHANGED <<pc, consumer, seen>>
               \/ /\ pc' = [pc EXCEPT ![x] = "call"]
                  /\ consumer' = [consumer EXCEPT ![x] = c]
                  /\ seen' = [seen EXCEPT ![x] = delivery[<<event[x], c>>].attempts]
            /\ UNCHANGED <<rows, batch, event, blocking, ghosts, faults>>
      BY <1>4, <2>1 DEF ReadDelivery, ReadRow
    <3>2. /\ event[x] \in Stored /\ c \in Subs[event[x]] /\ <<event[x], c>> \in Pairs
          /\ todo'[x] = todo[x] \ {c} /\ todo'[x] \subseteq Subs[event[x]]
          /\ batch[x] \subseteq Stored'
      BY <3>1, <1>t, <1>p, <1>g DEF DrainInv, InRow, Pairs, TypeOK
    <3>3. Stored' = Stored /\ Settled' = Settled
      BY <3>1 DEF Stored, Settled
    <3>4. CASE pc' = pc /\ delivery[<<event[x], c>>].status \in {"delivered", "dead"}
      <4>1. <<event[x], c>> \in Settled
        BY <3>2, <3>4 DEF IInv, HonestLedger, Settled
      <4>2. ~blocking[x] => \A k \in Subs[event[x]] \ todo[x] : <<event[x], k>> \in Settled
        BY <3>1, <1>t DEF DrainInv
      <4> QED
        BY <3>1, <3>2, <3>3, <3>4, <4>1, <4>2 DEF DrainInv, InHandler, InRow
    <3>5. CASE /\ pc' = [pc EXCEPT ![x] = "call"]
               /\ consumer' = [consumer EXCEPT ![x] = c]
               /\ seen' = [seen EXCEPT ![x] = delivery[<<event[x], c>>].attempts]
      <4>1. /\ pc'[x] = "call" /\ consumer'[x] = c
            /\ seen'[x] = delivery[<<event[x], c>>].attempts
            /\ event'[x] = event[x] /\ blocking'[x] = blocking[x] /\ batch'[x] = batch[x]
            /\ tries' = tries
        BY <3>1, <3>5, <1>t DEF TypeOK
      <4>2. seen'[x] + 0 <= tries[<<event[x], c>>]
        BY <4>1, <3>2, <1>t DEF IInv, HonestLedger, TypeOK
      <4>3. ~blocking[x] => \A k \in Subs[event[x]] \ todo[x] : <<event[x], k>> \in Settled
        BY <3>1, <1>t DEF DrainInv
      <4> QED
        BY <4>1, <4>2, <4>3, <3>2, <3>3 DEF DrainInv, InHandler, InRow, Current
    <3> QED
      BY <3>1, <3>4, <3>5
  <2> QED
    BY <1>4, <1>f, <1>t, <2>1 DEF ReadDelivery, ReadRow, TypeOK
<1>5. ASSUME NEW d \in Drains, CallHandler(d) PROVE DrainInv(x)'
  <2>1. CASE d = x
    <3>1. /\ Current(x) \in Pairs /\ Current(x)' = Current(x)
          /\ event[x] \in Stored /\ consumer[x] \in Subs[event[x]]
          /\ seen[x] <= tries[Current(x)]
          /\ todo[x] \subseteq Subs[event[x]] /\ batch[x] \subseteq Stored'
      BY <1>5, <2>1, <1>t, <1>p, <1>g
         DEF CallHandler, DrainInv, InRow, InHandler, Current, Pairs, TypeOK
    <3>2. /\ pc'[x] \in {"returned", "threw"}
          /\ tries'[Current(x)] = tries[Current(x)] + 1
          /\ pc'[x] = "returned" => served'[Current(x)] = served[Current(x)] + 1
      BY <1>5, <2>1, <3>1, <1>t DEF CallHandler, TypeOK
    <3>3. seen[x] + 1 <= tries'[Current(x)] /\ (pc'[x] = "returned" => served'[Current(x)] >= 1)
      BY <3>1, <3>2, <1>t DEF TypeOK
    <3>4. ~blocking[x] => \A k \in Subs[event[x]] \ todo[x] :
                             k = consumer[x] \/ <<event[x], k>> \in Settled
      BY <1>5, <2>1, <1>t DEF CallHandler, DrainInv, InHandler
    <3>5. UNCHANGED <<batch, event, todo, consumer, seen, blocking>>
      BY <1>5 DEF CallHandler
    <3> QED
      BY <3>1, <3>2, <3>3, <3>4, <3>5, <1>g DEF DrainInv, InRow, InHandler
  <2> QED
    BY <1>5, <1>f, <1>t, <2>1 DEF CallHandler, TypeOK
<1>6. ASSUME NEW d \in Drains, RecordSuccess(d) PROVE DrainInv(x)'
  <2>1. CASE d = x
    <3>1. <<event[x], consumer[x]>> \in Settled'
      BY <1>6, <2>1, <1>t, <1>p, <1>g
         DEF RecordSuccess, DrainInv, InRow, InHandler, Current, Settled, Pairs
    <3>2. pc[x] = "returned" /\ pc'[x] = "handlers"
      BY <1>6, <2>1, <1>t DEF RecordSuccess, TypeOK
    <3> QED
      BY <1>6, <2>1, <3>1, <3>2, <1>t, <1>g DEF RecordSuccess, DrainInv, InRow, InHandler
  <2> QED
    BY <1>6, <1>f, <1>t, <2>1 DEF RecordSuccess, TypeOK
<1>7. ASSUME NEW d \in Drains, SuccessNotRecorded(d) PROVE DrainInv(x)'
  <2>1. CASE d = x
    <3>1. pc[x] = "returned" /\ pc'[x] = "threw"
      BY <1>7, <2>1, <1>t DEF SuccessNotRecorded, TypeOK
    <3> QED
      BY <1>7, <2>1, <3>1, <1>t, <1>g
         DEF SuccessNotRecorded, DrainInv, InRow, InHandler, Current
  <2> QED
    BY <1>7, <1>f, <1>t, <2>1 DEF SuccessNotRecorded, TypeOK
<1>8. ASSUME NEW d \in Drains, RecordFailure(d) PROVE DrainInv(x)'
  <2>1. CASE d = x
    <3>1. /\ pc[x] = "threw" /\ pc'[x] = "handlers"
          /\ blocking'[x] = (blocking[x] \/ ~(seen[x] + 1 >= MaxAttempts))
          /\ UNCHANGED <<batch, event, todo, occurredAt>>
      BY <1>8, <2>1, <1>t DEF RecordFailure, Fail, TypeOK
    <3>2. ~blocking'[x] => ~blocking[x] /\ <<event[x], consumer[x]>> \in Settled
      <4>1. /\ Current(x) \in Pairs /\ tries[Current(x)] \in Nat /\ seen[x] \in Nat
            /\ seen[x] + 1 <= tries[Current(x)]
        BY <3>1, <1>t, <1>p DEF DrainInv, InRow, InHandler, Current, Pairs, TypeOK
      <4>2. seen[x] + 1 >= MaxAttempts => tries[Current(x)] >= MaxAttempts
        BY <4>1
      <4> QED
        BY <3>1, <4>1, <4>2 DEF Settled, Current
    <3> QED
      BY <3>1, <3>2, <1>t, <1>g DEF DrainInv, InRow, InHandler
  <2> QED
    BY <1>8, <1>f, <1>t, <2>1 DEF RecordFailure, Fail, TypeOK
<1>9. ASSUME NEW d \in Drains, FinishRow(d) PROVE DrainInv(x)'
  <2>1. CASE d = x
    <3>1. pc'[x] = "rows" /\ batch'[x] \subseteq Stored'
      BY <1>9, <2>1, <1>t, <1>g DEF FinishRow, CloseRow, DrainInv, TypeOK
    <3> QED
      BY <3>1 DEF DrainInv, InRow, InHandler
  <2> QED
    BY <1>9, <1>f, <1>t, <2>1 DEF FinishRow, CloseRow, LeaveRow, TypeOK
<1>10. ASSUME NEW d \in Drains, EndDrain(d) PROVE DrainInv(x)'
  <2>1. CASE d = x
    <3>1. pc'[x] = "idle" /\ batch'[x] \subseteq Stored'
      BY <1>10, <2>1, <1>t, <1>g DEF EndDrain, DrainInv, TypeOK
    <3> QED
      BY <3>1 DEF DrainInv, InRow, InHandler
  <2> QED
    BY <1>10, <1>f, <1>t, <2>1 DEF EndDrain, TypeOK
<1>11. ASSUME NEW d \in Drains, Abort(d) PROVE DrainInv(x)'
  <2>1. CASE d = x
    <3>1. pc'[x] = "idle" /\ batch'[x] = {}
      BY <1>11, <2>1, <1>t DEF Abort, TypeOK
    <3> QED
      BY <3>1 DEF DrainInv, InRow, InHandler
  <2> QED
    BY <1>11, <1>f, <1>t, <2>1 DEF Abort, LeaveRow, TypeOK
<1>12. CASE UNCHANGED vars
  BY <1>12, <1>f DEF vars
<1> QED
  BY <1>1, <1>2, <1>3, <1>4, <1>5, <1>6, <1>7, <1>8, <1>9, <1>10, <1>11, <1>12
     DEF Next, DrainStep

\* Only FinishRow publishes, and it does with every subscriber settled.
LEMMA LossStep == IInv /\ [Next]_vars => NoSilentLoss' /\ (published \subseteq Stored)'
<1> SUFFICES ASSUME IInv, [Next]_vars PROVE NoSilentLoss' /\ published' \subseteq Stored'
  OBVIOUS
<1> USE OutboxAssumption DEF rows, ghosts, local
<1>g. Stored \subseteq Stored' /\ Settled \subseteq Settled'
  BY Grows
<1>1. ASSUME published' = published PROVE NoSilentLoss' /\ published' \subseteq Stored'
  BY <1>1, <1>g DEF IInv, NoSilentLoss
<1>2. ASSUME NEW d \in Drains, FinishRow(d)
      PROVE  NoSilentLoss' /\ published' \subseteq Stored'
  <2>1. CASE ~blocking[d]
    <3>1. event[d] \in Stored /\ \A c \in Subs[event[d]] : <<event[d], c>> \in Settled
      BY <1>2, <2>1 DEF FinishRow, CloseRow, IInv, DrainInv, InRow
    <3>2. published' = published \cup {event[d]}
      BY <1>2, <2>1 DEF FinishRow, CloseRow
    <3> QED
      BY <3>1, <3>2, <1>g DEF IInv, NoSilentLoss
  <2> QED
    BY <1>1, <1>2, <2>1 DEF FinishRow, CloseRow
<1> QED
  BY <1>1, <1>2 DEF Next, DrainStep, Publish, StartDrain, NextRow, ReadDelivery, ReadRow,
     CallHandler, RecordSuccess, SuccessNotRecorded, RecordFailure, Fail, EndDrain, Abort, vars

\* A pair is settled by a call, and calls are made for stored events only.
LEMMA SettledStep == IInv /\ [Next]_vars => (Settled \subseteq Stored \X Consumers)'
<1> SUFFICES ASSUME IInv, [Next]_vars PROVE Settled' \subseteq Stored' \X Consumers
  OBVIOUS
<1> USE OutboxAssumption DEF rows, ghosts, local
<1>g. Stored \subseteq Stored'
  BY Grows
<1>1. ASSUME tries' = tries, served' = served PROVE Settled' \subseteq Stored' \X Consumers
  BY <1>1, <1>g DEF IInv, Settled
<1>2. ASSUME NEW d \in Drains, CallHandler(d) PROVE Settled' \subseteq Stored' \X Consumers
  <2>1. Current(d) \in Stored \X Consumers
    BY <1>2 DEF CallHandler, IInv, DrainInv, InRow, InHandler, Current, Stored
  <2>2. Settled' \subseteq Settled \cup {Current(d)}
    BY <1>2 DEF CallHandler, Settled, IInv, TypeOK
  <2> QED
    BY <2>1, <2>2, <1>g DEF IInv
<1> QED
  BY <1>1, <1>2 DEF Next, DrainStep, Publish, StartDrain, NextRow, ReadDelivery, ReadRow,
     RecordSuccess, SuccessNotRecorded, RecordFailure, Fail, FinishRow, CloseRow, EndDrain,
     Abort, vars

\* IInv holds initially and every step keeps it.
THEOREM Invariance == Spec => []IInv
<1>1. Init => IInv
  BY OutboxAssumption
     DEF Init, IInv, TypeOK, NoRow, InRow, InHandler, HonestLedger, DrainInv, NoSilentLoss,
         Settled, Stored, Pairs
<1>2. IInv /\ [Next]_vars => IInv'
  BY TypeStep, LedgerStep, DrainsStep, LossStep, SettledStep DEF IInv
<1> QED
  BY <1>1, <1>2, PTL DEF Spec

\* Type correctness, for any number of events, handlers and drains.
THEOREM TypeCorrect == Spec => []TypeOK
BY Invariance, PTL DEF IInv

\* The attempts of a delivery row never exceed the calls made, a delivered row is
\* of a handler that returned, a dead one of a handler called MaxAttempts times.
THEOREM LedgerIsHonest == Spec => []HonestLedger
BY Invariance, PTL DEF IInv

\* No event is published with a subscriber neither served nor tried MaxAttempts
\* times, for any number of concurrent drains, whatever fails.
THEOREM NothingLost == Spec => []NoSilentLoss
BY Invariance, PTL DEF IInv

\* The outbox implements EventLog: an insert stores, the call that settles a pair
\* settles it, a publishing FinishRow retires, every other step stutters.
THEOREM ImplementsEventLog == Spec => LogSpec
<1> USE OutboxAssumption DEF rows, ghosts, local
<1>1. Init => Log!Init
  BY DEF Init, Log!Init, Stored, Settled, Pairs
<1>2. IInv /\ IInv' /\ [Next]_vars => [Log!Next]_Log!vars
  <2> SUFFICES ASSUME IInv, IInv', [Next]_vars PROVE [Log!Next]_Log!vars
    OBVIOUS
  <2>1. ASSUME UNCHANGED <<occurredAt, published, served, tries>>
        PROVE  UNCHANGED Log!vars
    BY <2>1 DEF Log!vars, Stored, Settled
  <2>2. ASSUME NEW e \in Events, Publish(e) PROVE [Log!Next]_Log!vars
    <3>1. CASE occurredAt' = [occurredAt EXCEPT ![e] = Cardinality(Stored) + 1]
      <4>1. Cardinality(Stored) \in Nat
        BY FS_Subset, FS_CardinalityType DEF Stored
      <4>n. occurredAt'[e] > 0 /\ \A f \in Events \ {e} : occurredAt'[f] = occurredAt[f]
        BY <3>1, <4>1 DEF IInv, TypeOK
      <4>2. Stored' = Stored \cup {e} /\ e \notin Stored
        BY <2>2, <4>n DEF Publish, Stored
      <4>3. Log!Store(e)
        BY <2>2, <4>2 DEF Publish, Log!Store, Settled
      <4> QED
        BY <4>3 DEF Log!Next
    <3> QED
      BY <2>1, <2>2, <3>1 DEF Publish
  <2>3. ASSUME NEW d \in Drains, CallHandler(d) PROVE [Log!Next]_Log!vars
    <3>1. /\ event[d] \in Stored /\ consumer[d] \in Subs[event[d]]
          /\ consumer[d] \in Consumers /\ event[d] \in Events
      BY <2>3 DEF CallHandler, IInv, DrainInv, InRow, InHandler, Stored
    <3>2. Settled' = Settled \/ Settled' = Settled \cup {Current(d)}
      <4>1. \A p \in Pairs \ {Current(d)} : tries'[p] = tries[p] /\ served'[p] = served[p]
        BY <2>3 DEF CallHandler, IInv, TypeOK
      <4>2. Settled \subseteq Settled'
        BY Grows
      <4>3. Settled' \subseteq Settled \cup {Current(d)}
        BY <4>1 DEF Settled
      <4> QED
        BY <4>2, <4>3
    <3>3. Stored' = Stored /\ published' = published
      BY <2>3 DEF CallHandler, Stored
    <3>4. CASE Settled' = Settled \cup {Current(d)}
      <4>1. Log!Settle(event[d], consumer[d])
        BY <3>1, <3>3, <3>4 DEF Log!Settle, Current
      <4> QED
        BY <3>1, <4>1 DEF Log!Next
    <3> QED
      BY <3>2, <3>3, <3>4 DEF Log!vars
  <2>4. ASSUME NEW d \in Drains, FinishRow(d) PROVE [Log!Next]_Log!vars
    <3>1. CASE ~blocking[d]
      <4>1. event[d] \in Stored /\ \A c \in Subs[event[d]] : <<event[d], c>> \in Settled
        BY <2>4, <3>1 DEF FinishRow, CloseRow, IInv, DrainInv, InRow
      <4>2. Log!Retire(event[d])
        BY <2>4, <3>1, <4>1 DEF FinishRow, CloseRow, Log!Retire, Stored, Settled
      <4> QED
        BY <4>1, <4>2 DEF Log!Next, Stored
    <3> QED
      BY <2>1, <2>4, <3>1 DEF FinishRow, CloseRow
  <2> QED
    BY <2>1, <2>2, <2>3, <2>4 DEF Next, DrainStep, StartDrain, NextRow, ReadDelivery, ReadRow,
       RecordSuccess, SuccessNotRecorded, RecordFailure, Fail, EndDrain, Abort, vars
<1> QED
  BY <1>1, <1>2, Invariance, PTL DEF Spec, LogSpec, Log!Spec
=============================================================================
