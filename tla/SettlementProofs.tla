-------------------------- MODULE SettlementProofs --------------------------
(* Proofs about Settlement, for any rows, invoices and workers, and about     *)
(* Allowance, for any requests, plans and policy.                             *)
EXTENDS Settlement, Allowance, FiniteSetTheorems, TLAPS

\* What the invariant says of a worker's hands survives a step that takes no
\* payment back and no invoice from a row, and that leaves the worker alone.
LEMMA OthersKeep ==
    ASSUME TypeOK, TypeOK', NEW v \in Workers, WorkerInv(v),
           UNCHANGED <<pc[v], work[v], row[v], ref[v]>>,
           Received \subseteq Received',
           \A r \in Rows : invoices[r] \subseteq invoices'[r]
    PROVE  WorkerInv(v)'
BY DEF WorkerInv, TypeOK, Received

\* The initial state satisfies the invariant.
LEMMA InitInv == ASSUME Init PROVE IInv
BY SettlementAssumption DEF Init, IInv, TypeOK, MoneyIsReal, CapturesAnnounced, WorkerInv, ReferencesIssued, Received

\* One lemma per step of a worker: the types, that no payment or invoice is
\* forgotten, then each conjunct of the invariant, for the worker and the others.
LEMMA AskInvoiceInv ==
    ASSUME IInv, NEW w \in Workers, \E r \in Rows : AskInvoice(w, r)
    PROVE  IInv'
<1>1. TypeOK'
  BY SettlementAssumption DEF rows, books, IInv, TypeOK, WorkerInv, AskInvoice
<1>2. Received \subseteq Received' /\ \A r \in Rows : invoices[r] \subseteq invoices'[r]
  BY DEF rows, books, IInv, TypeOK, Received, AskInvoice
<1>3. MoneyIsReal'
  BY <1>2 DEF rows, books, IInv, TypeOK, MoneyIsReal, WorkerInv, ReferencesIssued, Received, AskInvoice
<1>4. CapturesAnnounced'
  BY <1>1 DEF rows, books, IInv, TypeOK, CapturesAnnounced, WorkerInv, AskInvoice
<1>5. ReferencesIssued'
  BY <1>1, <1>2 DEF rows, books, IInv, TypeOK, ReferencesIssued, WorkerInv, AskInvoice
<1>6. WorkerInv(w)'
  BY <1>1, <1>2, SettlementAssumption DEF rows, books, IInv, TypeOK, WorkerInv, ReferencesIssued, Received, Workers, AskInvoice
<1>7. ASSUME NEW v \in Workers \ {w} PROVE WorkerInv(v)'
  <2>1. UNCHANGED <<pc[v], work[v], row[v], ref[v]>>
    BY DEF rows, books, IInv, TypeOK, AskInvoice
  <2>2. QED
    BY <1>1, <1>2, <2>1, OthersKeep DEF IInv
<1>8. QED
  BY <1>1, <1>3, <1>4, <1>5, <1>6, <1>7 DEF IInv

LEMMA ReuseInvoiceInv ==
    ASSUME IInv, NEW w \in Workers, ReuseInvoice(w)
    PROVE  IInv'
<1>1. TypeOK'
  BY SettlementAssumption DEF rows, books, IInv, TypeOK, WorkerInv, ReuseInvoice, SetPaid, Done
<1>2. Received \subseteq Received' /\ \A r \in Rows : invoices[r] \subseteq invoices'[r]
  BY DEF rows, books, IInv, TypeOK, Received, ReuseInvoice, SetPaid, Done
<1>3. MoneyIsReal'
  BY <1>2 DEF rows, books, IInv, TypeOK, MoneyIsReal, WorkerInv, ReferencesIssued, Received, ReuseInvoice, SetPaid, Done
<1>4. CapturesAnnounced'
  BY <1>1 DEF rows, books, IInv, TypeOK, CapturesAnnounced, WorkerInv, ReuseInvoice, SetPaid, Done
<1>5. ReferencesIssued'
  BY <1>1, <1>2 DEF rows, books, IInv, TypeOK, ReferencesIssued, WorkerInv, ReuseInvoice, SetPaid, Done
<1>6. WorkerInv(w)'
  BY <1>1, <1>2, SettlementAssumption DEF rows, books, IInv, TypeOK, WorkerInv, ReferencesIssued, Received, Workers, ReuseInvoice, SetPaid, Done
<1>7. ASSUME NEW v \in Workers \ {w} PROVE WorkerInv(v)'
  <2>1. UNCHANGED <<pc[v], work[v], row[v], ref[v]>>
    BY DEF rows, books, IInv, TypeOK, ReuseInvoice, SetPaid, Done
  <2>2. QED
    BY <1>1, <1>2, <2>1, OthersKeep DEF IInv
<1>8. QED
  BY <1>1, <1>3, <1>4, <1>5, <1>6, <1>7 DEF IInv

LEMMA IssueInvoiceInv ==
    ASSUME IInv, NEW w \in Workers, IssueInvoice(w)
    PROVE  IInv'
<1>1. TypeOK'
  BY SettlementAssumption DEF rows, books, IInv, TypeOK, WorkerInv, IssueInvoice, Done, Fault
<1>2. Received \subseteq Received' /\ \A r \in Rows : invoices[r] \subseteq invoices'[r]
  BY DEF rows, books, IInv, TypeOK, Received, IssueInvoice, Done, Fault
<1>3. MoneyIsReal'
  BY <1>2 DEF rows, books, IInv, TypeOK, MoneyIsReal, WorkerInv, ReferencesIssued, Received, IssueInvoice, Done, Fault
<1>4. CapturesAnnounced'
  BY <1>1 DEF rows, books, IInv, TypeOK, CapturesAnnounced, WorkerInv, IssueInvoice, Done, Fault
<1>5. ReferencesIssued'
  BY <1>1, <1>2 DEF rows, books, IInv, TypeOK, ReferencesIssued, WorkerInv, IssueInvoice, Done, Fault
<1>6. WorkerInv(w)'
  BY <1>1, <1>2, SettlementAssumption DEF rows, books, IInv, TypeOK, WorkerInv, ReferencesIssued, Received, Workers, IssueInvoice, Done, Fault
<1>7. ASSUME NEW v \in Workers \ {w} PROVE WorkerInv(v)'
  <2>1. UNCHANGED <<pc[v], work[v], row[v], ref[v]>>
    BY DEF rows, books, IInv, TypeOK, IssueInvoice, Done, Fault
  <2>2. QED
    BY <1>1, <1>2, <2>1, OthersKeep DEF IInv
<1>8. QED
  BY <1>1, <1>3, <1>4, <1>5, <1>6, <1>7 DEF IInv

LEMMA SettleInv ==
    ASSUME IInv, NEW w \in Workers, \E f \in Refs : Settle(w, f)
    PROVE  IInv'
<1>1. TypeOK'
  BY SettlementAssumption DEF rows, books, IInv, TypeOK, WorkerInv, Settle
<1>2. Received \subseteq Received' /\ \A r \in Rows : invoices[r] \subseteq invoices'[r]
  BY DEF rows, books, IInv, TypeOK, Received, Settle
<1>3. MoneyIsReal'
  BY <1>2 DEF rows, books, IInv, TypeOK, MoneyIsReal, WorkerInv, ReferencesIssued, Received, Settle
<1>4. CapturesAnnounced'
  BY <1>1 DEF rows, books, IInv, TypeOK, CapturesAnnounced, WorkerInv, Settle
<1>5. ReferencesIssued'
  BY <1>1, <1>2 DEF rows, books, IInv, TypeOK, ReferencesIssued, WorkerInv, Settle
<1>6. WorkerInv(w)'
  BY <1>1, <1>2, SettlementAssumption DEF rows, books, IInv, TypeOK, WorkerInv, ReferencesIssued, Received, Workers, Settle
<1>7. ASSUME NEW v \in Workers \ {w} PROVE WorkerInv(v)'
  <2>1. UNCHANGED <<pc[v], work[v], row[v], ref[v]>>
    BY DEF rows, books, IInv, TypeOK, Settle
  <2>2. QED
    BY <1>1, <1>2, <2>1, OthersKeep DEF IInv
<1>8. QED
  BY <1>1, <1>3, <1>4, <1>5, <1>6, <1>7 DEF IInv

LEMMA StartScanInv ==
    ASSUME IInv, NEW w \in Workers, StartScan(w)
    PROVE  IInv'
<1>1. TypeOK'
  BY SettlementAssumption DEF rows, books, IInv, TypeOK, WorkerInv, StartScan, ScanRows, Open
<1>2. Received \subseteq Received' /\ \A r \in Rows : invoices[r] \subseteq invoices'[r]
  BY DEF rows, books, IInv, TypeOK, Received, StartScan, ScanRows, Open
<1>3. MoneyIsReal'
  BY <1>2 DEF rows, books, IInv, TypeOK, MoneyIsReal, WorkerInv, ReferencesIssued, Received, StartScan, ScanRows, Open
<1>4. CapturesAnnounced'
  BY <1>1 DEF rows, books, IInv, TypeOK, CapturesAnnounced, WorkerInv, StartScan, ScanRows, Open
<1>5. ReferencesIssued'
  BY <1>1, <1>2 DEF rows, books, IInv, TypeOK, ReferencesIssued, WorkerInv, StartScan, ScanRows, Open
<1>6. WorkerInv(w)'
  BY <1>1, <1>2, SettlementAssumption DEF rows, books, IInv, TypeOK, WorkerInv, ReferencesIssued, Received, Workers, StartScan, ScanRows, Open
<1>7. ASSUME NEW v \in Workers \ {w} PROVE WorkerInv(v)'
  <2>1. UNCHANGED <<pc[v], work[v], row[v], ref[v]>>
    BY DEF rows, books, IInv, TypeOK, StartScan, ScanRows, Open
  <2>2. QED
    BY <1>1, <1>2, <2>1, OthersKeep DEF IInv
<1>8. QED
  BY <1>1, <1>3, <1>4, <1>5, <1>6, <1>7 DEF IInv

LEMMA SkipUnpaidInv ==
    ASSUME IInv, NEW w \in Workers, SkipUnpaid(w)
    PROVE  IInv'
<1>1. TypeOK'
  BY SettlementAssumption DEF rows, books, IInv, TypeOK, WorkerInv, SkipUnpaid, Fault
<1>2. Received \subseteq Received' /\ \A r \in Rows : invoices[r] \subseteq invoices'[r]
  BY DEF rows, books, IInv, TypeOK, Received, SkipUnpaid, Fault
<1>3. MoneyIsReal'
  BY <1>2 DEF rows, books, IInv, TypeOK, MoneyIsReal, WorkerInv, ReferencesIssued, Received, SkipUnpaid, Fault
<1>4. CapturesAnnounced'
  BY <1>1 DEF rows, books, IInv, TypeOK, CapturesAnnounced, WorkerInv, SkipUnpaid, Fault
<1>5. ReferencesIssued'
  BY <1>1, <1>2 DEF rows, books, IInv, TypeOK, ReferencesIssued, WorkerInv, SkipUnpaid, Fault
<1>6. WorkerInv(w)'
  BY <1>1, <1>2, SettlementAssumption DEF rows, books, IInv, TypeOK, WorkerInv, ReferencesIssued, Received, Workers, SkipUnpaid, Fault
<1>7. ASSUME NEW v \in Workers \ {w} PROVE WorkerInv(v)'
  <2>1. UNCHANGED <<pc[v], work[v], row[v], ref[v]>>
    BY DEF rows, books, IInv, TypeOK, SkipUnpaid, Fault
  <2>2. QED
    BY <1>1, <1>2, <2>1, OthersKeep DEF IInv
<1>8. QED
  BY <1>1, <1>3, <1>4, <1>5, <1>6, <1>7 DEF IInv

LEMMA PatchInv ==
    ASSUME IInv, NEW w \in Workers, Patch(w)
    PROVE  IInv'
<1>1. TypeOK'
  BY SettlementAssumption DEF rows, books, IInv, TypeOK, WorkerInv, Patch, PatchIf, SetPaid
<1>2. Received \subseteq Received' /\ \A r \in Rows : invoices[r] \subseteq invoices'[r]
  BY DEF rows, books, IInv, TypeOK, Received, Patch, PatchIf, SetPaid
<1>3. MoneyIsReal'
  BY <1>2 DEF rows, books, IInv, TypeOK, MoneyIsReal, WorkerInv, ReferencesIssued, Received, Patch, PatchIf, SetPaid
<1>4. CapturesAnnounced'
  BY <1>1 DEF rows, books, IInv, TypeOK, CapturesAnnounced, WorkerInv, Patch, PatchIf, SetPaid
<1>5. ReferencesIssued'
  BY <1>1, <1>2 DEF rows, books, IInv, TypeOK, ReferencesIssued, WorkerInv, Patch, PatchIf, SetPaid
<1>6. WorkerInv(w)'
  BY <1>1, <1>2, SettlementAssumption DEF rows, books, IInv, TypeOK, WorkerInv, ReferencesIssued, Received, Workers, Patch, PatchIf, SetPaid
<1>7. ASSUME NEW v \in Workers \ {w} PROVE WorkerInv(v)'
  <2>1. UNCHANGED <<pc[v], work[v], row[v], ref[v]>>
    BY DEF rows, books, IInv, TypeOK, Patch, PatchIf, SetPaid
  <2>2. QED
    BY <1>1, <1>2, <2>1, OthersKeep DEF IInv
<1>8. QED
  BY <1>1, <1>3, <1>4, <1>5, <1>6, <1>7 DEF IInv

LEMMA EndWebhookInv ==
    ASSUME IInv, NEW w \in Workers, EndWebhook(w)
    PROVE  IInv'
<1>1. TypeOK'
  BY SettlementAssumption DEF rows, books, IInv, TypeOK, WorkerInv, EndWebhook, Done
<1>2. Received \subseteq Received' /\ \A r \in Rows : invoices[r] \subseteq invoices'[r]
  BY DEF rows, books, IInv, TypeOK, Received, EndWebhook, Done
<1>3. MoneyIsReal'
  BY <1>2 DEF rows, books, IInv, TypeOK, MoneyIsReal, WorkerInv, ReferencesIssued, Received, EndWebhook, Done
<1>4. CapturesAnnounced'
  BY <1>1 DEF rows, books, IInv, TypeOK, CapturesAnnounced, WorkerInv, EndWebhook, Done
<1>5. ReferencesIssued'
  BY <1>1, <1>2 DEF rows, books, IInv, TypeOK, ReferencesIssued, WorkerInv, EndWebhook, Done
<1>6. WorkerInv(w)'
  BY <1>1, <1>2, SettlementAssumption DEF rows, books, IInv, TypeOK, WorkerInv, ReferencesIssued, Received, Workers, EndWebhook, Done
<1>7. ASSUME NEW v \in Workers \ {w} PROVE WorkerInv(v)'
  <2>1. UNCHANGED <<pc[v], work[v], row[v], ref[v]>>
    BY DEF rows, books, IInv, TypeOK, EndWebhook, Done
  <2>2. QED
    BY <1>1, <1>2, <2>1, OthersKeep DEF IInv
<1>8. QED
  BY <1>1, <1>3, <1>4, <1>5, <1>6, <1>7 DEF IInv

LEMMA StartExpireInv ==
    ASSUME IInv, NEW w \in Workers, StartExpire(w)
    PROVE  IInv'
<1>1. TypeOK'
  BY SettlementAssumption DEF rows, books, IInv, TypeOK, WorkerInv, StartExpire, Open
<1>2. Received \subseteq Received' /\ \A r \in Rows : invoices[r] \subseteq invoices'[r]
  BY DEF rows, books, IInv, TypeOK, Received, StartExpire, Open
<1>3. MoneyIsReal'
  BY <1>2 DEF rows, books, IInv, TypeOK, MoneyIsReal, WorkerInv, ReferencesIssued, Received, StartExpire, Open
<1>4. CapturesAnnounced'
  BY <1>1 DEF rows, books, IInv, TypeOK, CapturesAnnounced, WorkerInv, StartExpire, Open
<1>5. ReferencesIssued'
  BY <1>1, <1>2 DEF rows, books, IInv, TypeOK, ReferencesIssued, WorkerInv, StartExpire, Open
<1>6. WorkerInv(w)'
  BY <1>1, <1>2, SettlementAssumption DEF rows, books, IInv, TypeOK, WorkerInv, ReferencesIssued, Received, Workers, StartExpire, Open
<1>7. ASSUME NEW v \in Workers \ {w} PROVE WorkerInv(v)'
  <2>1. UNCHANGED <<pc[v], work[v], row[v], ref[v]>>
    BY DEF rows, books, IInv, TypeOK, StartExpire, Open
  <2>2. QED
    BY <1>1, <1>2, <2>1, OthersKeep DEF IInv
<1>8. QED
  BY <1>1, <1>3, <1>4, <1>5, <1>6, <1>7 DEF IInv

LEMMA ExpireRowInv ==
    ASSUME IInv, NEW w \in Workers, ExpireRow(w)
    PROVE  IInv'
<1>1. TypeOK'
  BY SettlementAssumption DEF rows, books, IInv, TypeOK, WorkerInv, ExpireRow
<1>2. Received \subseteq Received' /\ \A r \in Rows : invoices[r] \subseteq invoices'[r]
  BY DEF rows, books, IInv, TypeOK, Received, ExpireRow
<1>3. MoneyIsReal'
  BY <1>2 DEF rows, books, IInv, TypeOK, MoneyIsReal, WorkerInv, ReferencesIssued, Received, ExpireRow
<1>4. CapturesAnnounced'
  BY <1>1 DEF rows, books, IInv, TypeOK, CapturesAnnounced, WorkerInv, ExpireRow
<1>5. ReferencesIssued'
  BY <1>1, <1>2 DEF rows, books, IInv, TypeOK, ReferencesIssued, WorkerInv, ExpireRow
<1>6. WorkerInv(w)'
  BY <1>1, <1>2, SettlementAssumption DEF rows, books, IInv, TypeOK, WorkerInv, ReferencesIssued, Received, Workers, ExpireRow
<1>7. ASSUME NEW v \in Workers \ {w} PROVE WorkerInv(v)'
  <2>1. UNCHANGED <<pc[v], work[v], row[v], ref[v]>>
    BY DEF rows, books, IInv, TypeOK, ExpireRow
  <2>2. QED
    BY <1>1, <1>2, <2>1, OthersKeep DEF IInv
<1>8. QED
  BY <1>1, <1>3, <1>4, <1>5, <1>6, <1>7 DEF IInv

LEMMA EndExpireInv ==
    ASSUME IInv, NEW w \in Workers, EndExpire(w)
    PROVE  IInv'
<1>1. TypeOK'
  BY SettlementAssumption DEF rows, books, IInv, TypeOK, WorkerInv, EndExpire, Done
<1>2. Received \subseteq Received' /\ \A r \in Rows : invoices[r] \subseteq invoices'[r]
  BY DEF rows, books, IInv, TypeOK, Received, EndExpire, Done
<1>3. MoneyIsReal'
  BY <1>2 DEF rows, books, IInv, TypeOK, MoneyIsReal, WorkerInv, ReferencesIssued, Received, EndExpire, Done
<1>4. CapturesAnnounced'
  BY <1>1 DEF rows, books, IInv, TypeOK, CapturesAnnounced, WorkerInv, EndExpire, Done
<1>5. ReferencesIssued'
  BY <1>1, <1>2 DEF rows, books, IInv, TypeOK, ReferencesIssued, WorkerInv, EndExpire, Done
<1>6. WorkerInv(w)'
  BY <1>1, <1>2, SettlementAssumption DEF rows, books, IInv, TypeOK, WorkerInv, ReferencesIssued, Received, Workers, EndExpire, Done
<1>7. ASSUME NEW v \in Workers \ {w} PROVE WorkerInv(v)'
  <2>1. UNCHANGED <<pc[v], work[v], row[v], ref[v]>>
    BY DEF rows, books, IInv, TypeOK, EndExpire, Done
  <2>2. QED
    BY <1>1, <1>2, <2>1, OthersKeep DEF IInv
<1>8. QED
  BY <1>1, <1>3, <1>4, <1>5, <1>6, <1>7 DEF IInv

LEMMA PollInv ==
    ASSUME IInv, NEW w \in Workers, \E f \in Refs : Poll(w, f)
    PROVE  IInv'
<1>1. TypeOK'
  BY SettlementAssumption DEF rows, books, IInv, TypeOK, WorkerInv, Poll
<1>2. Received \subseteq Received' /\ \A r \in Rows : invoices[r] \subseteq invoices'[r]
  BY DEF rows, books, IInv, TypeOK, Received, Poll
<1>3. MoneyIsReal'
  BY <1>2 DEF rows, books, IInv, TypeOK, MoneyIsReal, WorkerInv, ReferencesIssued, Received, Poll
<1>4. CapturesAnnounced'
  BY <1>1 DEF rows, books, IInv, TypeOK, CapturesAnnounced, WorkerInv, Poll
<1>5. ReferencesIssued'
  BY <1>1, <1>2 DEF rows, books, IInv, TypeOK, ReferencesIssued, WorkerInv, Poll
<1>6. WorkerInv(w)'
  BY <1>1, <1>2, SettlementAssumption DEF rows, books, IInv, TypeOK, WorkerInv, ReferencesIssued, Received, Workers, Poll
<1>7. ASSUME NEW v \in Workers \ {w} PROVE WorkerInv(v)'
  <2>1. UNCHANGED <<pc[v], work[v], row[v], ref[v]>>
    BY DEF rows, books, IInv, TypeOK, Poll
  <2>2. QED
    BY <1>1, <1>2, <2>1, OthersKeep DEF IInv
<1>8. QED
  BY <1>1, <1>3, <1>4, <1>5, <1>6, <1>7 DEF IInv

LEMMA LookupInv ==
    ASSUME IInv, NEW w \in Workers, Lookup(w)
    PROVE  IInv'
<1>1. TypeOK'
  BY SettlementAssumption DEF rows, books, IInv, TypeOK, WorkerInv, Lookup, Recorded
<1>2. Received \subseteq Received' /\ \A r \in Rows : invoices[r] \subseteq invoices'[r]
  BY DEF rows, books, IInv, TypeOK, Received, Lookup, Recorded
<1>3. MoneyIsReal'
  BY <1>2 DEF rows, books, IInv, TypeOK, MoneyIsReal, WorkerInv, ReferencesIssued, Received, Lookup, Recorded
<1>4. CapturesAnnounced'
  BY <1>1 DEF rows, books, IInv, TypeOK, CapturesAnnounced, WorkerInv, Lookup, Recorded
<1>5. ReferencesIssued'
  BY <1>1, <1>2 DEF rows, books, IInv, TypeOK, ReferencesIssued, WorkerInv, Lookup, Recorded
<1>6. WorkerInv(w)'
  BY <1>1, <1>2, SettlementAssumption DEF rows, books, IInv, TypeOK, WorkerInv, ReferencesIssued, Received, Workers, Lookup, Recorded
<1>7. ASSUME NEW v \in Workers \ {w} PROVE WorkerInv(v)'
  <2>1. UNCHANGED <<pc[v], work[v], row[v], ref[v]>>
    BY DEF rows, books, IInv, TypeOK, Lookup, Recorded
  <2>2. QED
    BY <1>1, <1>2, <2>1, OthersKeep DEF IInv
<1>8. QED
  BY <1>1, <1>3, <1>4, <1>5, <1>6, <1>7 DEF IInv

LEMMA PersistInv ==
    ASSUME IInv, NEW w \in Workers, Persist(w)
    PROVE  IInv'
<1>1. TypeOK'
  BY SettlementAssumption DEF rows, books, IInv, TypeOK, WorkerInv, Received, Persist, PersistThen, Fault
<1>2. Received \subseteq Received' /\ \A r \in Rows : invoices[r] \subseteq invoices'[r]
  BY DEF rows, books, IInv, TypeOK, Received, Persist, PersistThen, Fault
<1>3. MoneyIsReal'
  BY <1>2 DEF rows, books, IInv, TypeOK, MoneyIsReal, WorkerInv, ReferencesIssued, Received, Persist, PersistThen, Fault
<1>4. CapturesAnnounced'
  BY <1>1 DEF rows, books, IInv, TypeOK, CapturesAnnounced, WorkerInv, Persist, PersistThen, Fault
<1>5. ReferencesIssued'
  BY <1>1, <1>2 DEF rows, books, IInv, TypeOK, ReferencesIssued, WorkerInv, Persist, PersistThen, Fault
<1>6. WorkerInv(w)'
  BY <1>1, <1>2, SettlementAssumption DEF rows, books, IInv, TypeOK, WorkerInv, ReferencesIssued, Received, Workers, Persist, PersistThen, Fault
<1>7. ASSUME NEW v \in Workers \ {w} PROVE WorkerInv(v)'
  <2>1. UNCHANGED <<pc[v], work[v], row[v], ref[v]>>
    BY DEF rows, books, IInv, TypeOK, Persist, PersistThen, Fault
  <2>2. QED
    BY <1>1, <1>2, <2>1, OthersKeep DEF IInv
<1>8. QED
  BY <1>1, <1>3, <1>4, <1>5, <1>6, <1>7 DEF IInv

LEMMA PublishInv ==
    ASSUME IInv, NEW w \in Workers, Publish(w)
    PROVE  IInv'
<1>1. TypeOK'
  BY SettlementAssumption DEF rows, books, IInv, TypeOK, WorkerInv, Publish, Recorded, Fault
<1>2. Received \subseteq Received' /\ \A r \in Rows : invoices[r] \subseteq invoices'[r]
  BY DEF rows, books, IInv, TypeOK, Received, Publish, Recorded, Fault
<1>3. MoneyIsReal'
  BY <1>2 DEF rows, books, IInv, TypeOK, MoneyIsReal, WorkerInv, ReferencesIssued, Received, Publish, Recorded, Fault
<1>4. CapturesAnnounced'
  BY <1>1 DEF rows, books, IInv, TypeOK, CapturesAnnounced, WorkerInv, Publish, Recorded, Fault
<1>5. ReferencesIssued'
  BY <1>1, <1>2 DEF rows, books, IInv, TypeOK, ReferencesIssued, WorkerInv, Publish, Recorded, Fault
<1>6. WorkerInv(w)'
  BY <1>1, <1>2, SettlementAssumption DEF rows, books, IInv, TypeOK, WorkerInv, ReferencesIssued, Received, Workers, Publish, Recorded, Fault
<1>7. ASSUME NEW v \in Workers \ {w} PROVE WorkerInv(v)'
  <2>1. UNCHANGED <<pc[v], work[v], row[v], ref[v]>>
    BY DEF rows, books, IInv, TypeOK, Publish, Recorded, Fault
  <2>2. QED
    BY <1>1, <1>2, <2>1, OthersKeep DEF IInv
<1>8. QED
  BY <1>1, <1>3, <1>4, <1>5, <1>6, <1>7 DEF IInv

LEMMA CutShortInv ==
    ASSUME IInv, NEW w \in Workers, CutShort(w)
    PROVE  IInv'
<1>1. TypeOK'
  BY SettlementAssumption DEF rows, books, IInv, TypeOK, WorkerInv, CutShort, Done, Fault
<1>2. Received \subseteq Received' /\ \A r \in Rows : invoices[r] \subseteq invoices'[r]
  BY DEF rows, books, IInv, TypeOK, Received, CutShort, Done, Fault
<1>3. MoneyIsReal'
  BY <1>2 DEF rows, books, IInv, TypeOK, MoneyIsReal, WorkerInv, ReferencesIssued, Received, CutShort, Done, Fault
<1>4. CapturesAnnounced'
  BY <1>1 DEF rows, books, IInv, TypeOK, CapturesAnnounced, WorkerInv, CutShort, Done, Fault
<1>5. ReferencesIssued'
  BY <1>1, <1>2 DEF rows, books, IInv, TypeOK, ReferencesIssued, WorkerInv, CutShort, Done, Fault
<1>6. WorkerInv(w)'
  BY <1>1, <1>2, SettlementAssumption DEF rows, books, IInv, TypeOK, WorkerInv, ReferencesIssued, Received, Workers, CutShort, Done, Fault
<1>7. ASSUME NEW v \in Workers \ {w} PROVE WorkerInv(v)'
  <2>1. UNCHANGED <<pc[v], work[v], row[v], ref[v]>>
    BY DEF rows, books, IInv, TypeOK, CutShort, Done, Fault
  <2>2. QED
    BY <1>1, <1>2, <2>1, OthersKeep DEF IInv
<1>8. QED
  BY <1>1, <1>3, <1>4, <1>5, <1>6, <1>7 DEF IInv

\* A payment, or a refund: no worker moves.
LEMMA CustomerInv ==
    ASSUME IInv, (\E f \in Refs : Pay(f)) \/ (\E r \in Rows : Refund(r))
    PROVE  IInv'
<1>1. TypeOK'
  BY DEF rows, books, worker, IInv, TypeOK, Pay, Refund
<1>2. Received \subseteq Received' /\ invoices' = invoices
  BY DEF rows, books, IInv, TypeOK, Received, Pay, Refund
<1>3. MoneyIsReal'
  BY <1>2 DEF rows, books, IInv, TypeOK, MoneyIsReal, Received, Pay, Refund
<1>4. CapturesAnnounced' /\ ReferencesIssued'
  BY DEF rows, books, worker, IInv, TypeOK, CapturesAnnounced, ReferencesIssued, Pay, Refund
<1>5. \A w \in Workers : UNCHANGED <<pc[w], work[w], row[w], ref[w]>>
  BY DEF worker, Pay, Refund
<1>6. QED
  BY <1>1, <1>2, <1>3, <1>4, <1>5, OthersKeep DEF IInv

\* Every step preserves the invariant.
LEMMA NextInv == ASSUME IInv, [Next]_vars PROVE IInv'
<1>1. CASE \E w \in Workers : WorkerStep(w)
  BY <1>1, StartScanInv, SkipUnpaidInv, StartExpireInv, ExpireRowInv, EndExpireInv, PatchInv,
     EndWebhookInv, LookupInv, PersistInv, PublishInv DEF WorkerStep, CronStep, Record
<1>2. CASE \E w \in Workers :
              \/ ReuseInvoice(w) \/ IssueInvoice(w) \/ CutShort(w)
              \/ \E r \in Rows : AskInvoice(w, r)
              \/ \E f \in Refs : Settle(w, f) \/ Poll(w, f)
  BY <1>2, ReuseInvoiceInv, IssueInvoiceInv, CutShortInv, AskInvoiceInv, SettleInv, PollInv
<1>3. CASE (\E f \in Refs : Pay(f)) \/ (\E r \in Rows : Refund(r))
  BY <1>3, CustomerInv
<1>4. CASE UNCHANGED vars
  BY <1>4 DEF vars, rows, books, worker, IInv, TypeOK, MoneyIsReal, CapturesAnnounced,
     ReferencesIssued, WorkerInv, Received
<1>5. QED
  BY <1>1, <1>2, <1>3, <1>4 DEF Next

\* The invariant holds in every reachable state.
THEOREM Invariance == Spec => []IInv
<1>1. Init => IInv
  BY InitInv
<1>2. IInv /\ [Next]_vars => IInv'
  BY NextInv
<1>3. QED
  BY <1>1, <1>2, PTL DEF Spec

\* Every variable keeps its type.
THEOREM TypeCorrect == Spec => []TypeOK
BY Invariance, PTL DEF IInv

\* No row is paid, and nothing enters the ledger, that the gateway was not paid
\* for, whatever webhooks, crons, polls and invoices interleave.
THEOREM NothingForNothing == Spec => []MoneyIsReal
BY Invariance, PTL DEF IInv

\* Every captured payment is announced, unless a recorder is at it or failed.
THEOREM EveryCaptureAnnounced == Spec => []CapturesAnnounced
BY Invariance, PTL DEF IInv

-----------------------------------------------------------------------------
\* Allowance. Hours are counted hour by hour: a booking's hours, in a slot each.
HourCells(bookings, where) ==
    UNION {{b} \X (1..Hours[where[b].court]) : b \in bookings}

\* What the customer spends and what he has to come, by the policy's own account.
Spent == Booked(Spending) \cap (Orderly \ freely)
OwnActive == {b \in Orderly : status[b] \in Active}
SpentOn(c, t) ==
    {b \in Spent :
        /\ Window[AllowanceOf(c).period][slot[b].at] = Window[AllowanceOf(c).period][t]
        /\ slot[b].court \in Counted
        /\ AllowanceOf(slot[b].court) = AllowanceOf(c)}
Ahead == {b \in OwnActive : slot[b].at >= now}
OnDay(t) == {b \in OwnActive : DayOf[slot[b].at] = DayOf[t]}

\* A call that was let through by a count may rely on it until it inserts.
HourLeft(q) ==
    \A c \in Courts, t \in Times :
        slot[q] = [court |-> c, at |-> t] /\ AllowanceOf(c) # Nil
        => Cardinality(HourCells(SpentOn(c, t), slot)) + Hours[c] <= AllowanceOf(c).limit
ActiveLeft == MaxActiveBookings > 0 => Cardinality(Ahead) < MaxActiveBookings
DayLeft(q) ==
    MaxPerDay > 0 => \A c \in Courts, t \in Times :
        slot[q] = [court |-> c, at |-> t] => Cardinality(OnDay(t)) < MaxPerDay

Waits(q, steps) == call[q] \in steps /\ q \notin Desk \cup raced
HasRoom(q) ==
    /\ Waits(q, {"active", "day", "insert"}) /\ q \notin freely => HourLeft(q)
    /\ Waits(q, {"day", "insert"}) => ActiveLeft
    /\ Waits(q, {"insert"}) => DayLeft(q)

Limits ==
    /\ \A c \in Courts, t \in Times : AllowanceOf(c) # Nil =>
          Cardinality(HourCells(SpentOn(c, t), slot)) <= AllowanceOf(c).limit
    /\ MaxActiveBookings > 0 => Cardinality(Ahead) <= MaxActiveBookings
    /\ MaxPerDay > 0 => \A t \in Times : Cardinality(OnDay(t)) <= MaxPerDay

\* A call that counts has chosen its slot and has no booking yet.
Placed ==
    \A r \in Requests :
        /\ call[r] \in {"hours", "active", "day", "insert"} =>
              slot[r] \in [court: Courts, at: Times]
        /\ call[r] # "done" => status[r] = "none"
        /\ status[r] = "none" => listed[r] = "none" /\ r \notin removing /\ moving[r] = "none"

\* What is being removed is cancelled, unless it was marked or a trigger failed.
Going == \A b \in removing \ (marked \cup unmirrored) : status[b] \notin Active

\* A move under way will write what shows a booking that holds a court, or it
\* holds none, unless it was marked or a trigger failed.
Moving ==
    \A b \in Requests \ (marked \cup unmirrored) :
        status[b] \in Active => moving[b] \in {"none", "scheduled", "rescheduled"}

AllowanceInv ==
    /\ AllowanceTypeOK /\ Placed /\ Going /\ Moving /\ ListIsTrue
    /\ Limits /\ \A q \in Requests : HasRoom(q)

-----------------------------------------------------------------------------
\* The hours of a set of bookings are a number, and a part of them is no more.
LEMMA HoursGrow ==
    ASSUME NEW A \in SUBSET Requests, NEW B \in SUBSET Requests, NEW u, NEW v,
           \A b \in B : u[b].court \in Courts,
           A \subseteq B, \A b \in A : v[b] = u[b]
    PROVE  /\ IsFiniteSet(HourCells(B, u))
           /\ Cardinality(HourCells(A, v)) \in Nat /\ Cardinality(HourCells(B, u)) \in Nat
           /\ Cardinality(HourCells(A, v)) <= Cardinality(HourCells(B, u))
<1> DEFINE part(b) == {b} \X (1..Hours[u[b].court])
           T == {part(b) : b \in B}
           g == [b \in B |-> part(b)]
<1>1. IsFiniteSet(B)
  BY AllowanceAssumption, FS_Subset
<1>2. g \in Surjection(B, T)
  BY DEF Surjection, Range
<1>3. IsFiniteSet(T)
  <2> HIDE DEF T, g
  <2> QED BY <1>1, <1>2, FS_Surjection DEF ExistsSurjection
<1>4. ASSUME NEW t \in T PROVE IsFiniteSet(t)
  <2>1. PICK b \in B : t = part(b)
    OBVIOUS
  <2>2. IsFiniteSet({b})
    BY FS_Singleton
  <2>3. Hours[u[b].court] \in Int /\ 1 \in Int
    BY AllowanceAssumption
  <2>4. IsFiniteSet(1..Hours[u[b].court])
    BY <2>3, FS_Interval
  <2>5. QED BY <2>1, <2>2, <2>4, FS_Product
<1>5. IsFiniteSet(HourCells(B, u))
  <2>1. IsFiniteSet(UNION T)
    <3> HIDE DEF T
    <3> QED BY <1>3, <1>4, FS_UNION
  <2>2. QED BY <2>1 DEF HourCells
<1>6. HourCells(A, v) \subseteq HourCells(B, u)
  BY DEF HourCells
<1>7. QED
  <2>1. IsFiniteSet(HourCells(A, v)) /\ Cardinality(HourCells(A, v)) <= Cardinality(HourCells(B, u))
    BY <1>5, <1>6, FS_Subset
  <2>2. QED BY <1>5, <2>1, FS_CardinalityType

\* One booking more is its hours more.
LEMMA HoursAdd ==
    ASSUME NEW A \in SUBSET Requests, NEW u, NEW r \in Requests,
           \A b \in A \cup {r} : u[b].court \in Courts
    PROVE  Cardinality(HourCells(A \cup {r}, u)) <= Cardinality(HourCells(A, u)) + Hours[u[r].court]
<1> DEFINE P == {r} \X (1..Hours[u[r].court])
<1>1. IsFiniteSet(HourCells(A, u)) /\ Cardinality(HourCells(A, u)) \in Nat
  BY HoursGrow
<1>2. HourCells(A \cup {r}, u) = HourCells(A, u) \cup P
  BY DEF HourCells
<1>3. Hours[u[r].court] \in Nat
  BY AllowanceAssumption
<1>4. IsFiniteSet(P) /\ Cardinality(P) = Hours[u[r].court]
  <2>1. IsFiniteSet({r}) /\ Cardinality({r}) = 1
    BY FS_Singleton
  <2>2. IsFiniteSet(1..Hours[u[r].court]) /\ Cardinality(1..Hours[u[r].court]) = Hours[u[r].court]
    <3>1. 1 \in Int /\ Hours[u[r].court] \in Int
      BY <1>3
    <3>2. IsFiniteSet(1..Hours[u[r].court])
          /\ Cardinality(1..Hours[u[r].court]) =
                IF 1 > Hours[u[r].court] THEN 0 ELSE Hours[u[r].court] - 1 + 1
      BY <3>1, FS_Interval
    <3>3. QED BY <1>3, <3>2
  <2>3. IsFiniteSet(P) /\ Cardinality(P) = Cardinality({r}) * Cardinality(1..Hours[u[r].court])
    BY <2>1, <2>2, FS_Product
  <2>4. QED BY <2>1, <2>2, <2>3, <1>3
<1>5. /\ IsFiniteSet(HourCells(A, u) \cup P)
      /\ Cardinality(HourCells(A, u) \cup P) =
            Cardinality(HourCells(A, u)) + Cardinality(P) - Cardinality(HourCells(A, u) \cap P)
  <2> HIDE DEF P
  <2> QED BY <1>1, <1>4, FS_Union
<1>6. Cardinality(HourCells(A, u) \cap P) \in Nat
  <2>1. IsFiniteSet(HourCells(A, u) \cap P)
    BY <1>4, FS_Intersection
  <2>2. QED BY <2>1, FS_CardinalityType
<1>7. QED
  <2> HIDE DEF P
  <2>1. Cardinality(HourCells(A \cup {r}, u)) = Cardinality(HourCells(A, u) \cup P)
    BY <1>2
  <2> DEFINE x == Cardinality(HourCells(A, u))
             y == Cardinality(HourCells(A, u) \cap P)
             h == Hours[u[r].court]
             z == Cardinality(HourCells(A \cup {r}, u))
  <2>2. x \in Nat /\ y \in Nat /\ h \in Nat /\ z = x + h - y
    BY <1>1, <1>3, <1>4, <1>5, <1>6, <2>1
  <2> HIDE DEF x, y, h, z
  <2>3. z <= x + h
    BY <2>2
  <2>4. QED BY <2>3 DEF x, h, z

\* A set of requests is finite, a part of it no larger, and one more is one more.
LEMMA RequestsCount ==
    ASSUME NEW A \in SUBSET Requests, NEW B \in SUBSET Requests, A \subseteq B
    PROVE  /\ Cardinality(A) \in Nat /\ Cardinality(B) \in Nat
           /\ Cardinality(A) <= Cardinality(B)
           /\ \A r \in Requests : Cardinality(A \cup {r}) <= Cardinality(A) + 1
<1>1. IsFiniteSet(A) /\ IsFiniteSet(B)
  BY AllowanceAssumption, FS_Subset
<1>2. Cardinality(A) \in Nat /\ Cardinality(B) \in Nat
  BY <1>1, FS_CardinalityType
<1>3. Cardinality(A) <= Cardinality(B)
  BY <1>1, FS_Subset
<1>4. ASSUME NEW r \in Requests PROVE Cardinality(A \cup {r}) <= Cardinality(A) + 1
  <2>1. CASE r \in A
    <3>1. A \cup {r} = A
      BY <2>1
    <3>2. Cardinality(A \cup {r}) = Cardinality(A)
      BY <3>1, Zenon
    <3>3. QED BY <3>2, <1>2
  <2>2. CASE r \notin A
    <3>1. Cardinality(A \cup {r}) = Cardinality(A) + 1
      BY <1>1, <2>2, FS_AddElement
    <3>2. QED BY <3>1, <1>2
  <2>3. QED BY <2>1, <2>2
<1>5. QED BY <1>2, <1>3, <1>4

\* The hours of a plan are a number.
LEMMA LimitIsNumber ==
    ASSUME NEW c \in Courts, AllowanceOf(c) # Nil
    PROVE  AllowanceOf(c).limit \in Nat
<1> DEFINE lines == HourLines(c)
           part(x) == {x} \X (1..x[2].quantity)
           T == {part(x) : x \in lines}
           g == [x \in lines |-> part(x)]
<1>1. AllowanceOf(c).limit = Cardinality(UNION T)
  BY DEF AllowanceOf
<1>2. IsFiniteSet(UNION {q.lines : q \in Plans})
  <2> DEFINE L == {q.lines : q \in Plans}
             h == [q \in Plans |-> q.lines]
  <2>1. h \in Surjection(Plans, L)
    BY DEF Surjection, Range
  <2>2. IsFiniteSet(L)
    <3> HIDE DEF L, h
    <3> QED BY <2>1, AllowanceAssumption, FS_Surjection DEF ExistsSurjection
  <2>3. \A s \in L : IsFiniteSet(s)
    BY AllowanceAssumption
  <2> HIDE DEF L
  <2>4. IsFiniteSet(UNION L)
    BY <2>2, <2>3, FS_UNION
  <2>5. QED BY <2>4 DEF L
<1>3. IsFiniteSet(lines)
  <2>1. IsFiniteSet(Plans \X UNION {q.lines : q \in Plans})
    BY <1>2, AllowanceAssumption, FS_Product
  <2>2. lines \subseteq Plans \X UNION {q.lines : q \in Plans}
    BY DEF HourLines
  <2>3. QED BY <2>1, <2>2, FS_Subset
<1>4. g \in Surjection(lines, T)
  BY DEF Surjection, Range
<1>5. IsFiniteSet(T)
  <2> HIDE DEF T, g, lines
  <2> QED BY <1>3, <1>4, FS_Surjection DEF ExistsSurjection
<1>6. ASSUME NEW t \in T PROVE IsFiniteSet(t)
  <2>1. PICK x \in lines : t = part(x)
    OBVIOUS
  <2>2. x[2].quantity \in Nat
    <3>1. x[2] \in UNION {q.lines : q \in Plans}
      BY DEF HourLines
    <3>2. PICK q \in Plans : x[2] \in q.lines
      BY <3>1
    <3>3. q.lines \in SUBSET Line
      BY AllowanceAssumption
    <3>4. QED BY <3>2, <3>3 DEF Line
  <2>3. x[2].quantity \in Int /\ 1 \in Int
    BY <2>2
  <2>4. IsFiniteSet(1..x[2].quantity) /\ IsFiniteSet({x})
    BY <2>3, FS_Interval, FS_Singleton
  <2>5. QED BY <2>1, <2>4, FS_Product
<1>7. IsFiniteSet(UNION T)
  <2> HIDE DEF T
  <2> QED BY <1>5, <1>6, FS_UNION
<1>8. QED BY <1>1, <1>7, FS_CardinalityType

\* Steps that bring nothing new into what is spent or active.
Shrinks ==
    /\ \A b \in Spent' : b \in Spent /\ slot'[b] = slot[b]
    /\ \A b \in OwnActive' : b \in OwnActive /\ slot'[b] = slot[b]
    /\ now \in Times /\ now' \in Times /\ now <= now'

\* Whoever is booked has his slot, and so have those who wait.
LEMMA SlotTypes ==
    ASSUME AllowanceInv
    PROVE  /\ \A b \in Requests : status[b] # "none" => slot[b] \in [court: Courts, at: Times]
           /\ \A b \in Spent \cup OwnActive : b \in Requests /\ slot[b].court \in Courts
BY DEF AllowanceInv, AllowanceTypeOK, Spent, OwnActive, Booked, Spending, Active, Orderly

\* Then the hours and the counts are no more than before.
LEMMA CountsShrink ==
    ASSUME AllowanceInv, Shrinks
    PROVE  /\ \A c \in Courts, t \in Times : AllowanceOf(c) # Nil =>
                /\ Cardinality(HourCells(SpentOn(c, t), slot)) \in Nat
                /\ Cardinality(HourCells(SpentOn(c, t), slot))' \in Nat
                /\ Cardinality(HourCells(SpentOn(c, t), slot))'
                        <= Cardinality(HourCells(SpentOn(c, t), slot))
           /\ Cardinality(Ahead) \in Nat /\ Cardinality(Ahead)' \in Nat
           /\ Cardinality(Ahead)' <= Cardinality(Ahead)
           /\ \A t \in Times :
                /\ Cardinality(OnDay(t)) \in Nat /\ Cardinality(OnDay(t))' \in Nat
                /\ Cardinality(OnDay(t))' <= Cardinality(OnDay(t))
<1>1. ASSUME NEW c \in Courts, NEW t \in Times
      PROVE  /\ Cardinality(HourCells(SpentOn(c, t), slot)) \in Nat
             /\ Cardinality(HourCells(SpentOn(c, t), slot))' \in Nat
             /\ Cardinality(HourCells(SpentOn(c, t), slot))'
                    <= Cardinality(HourCells(SpentOn(c, t), slot))
  <2> DEFINE A == SpentOn(c, t)'
             B == SpentOn(c, t)
  <2>1. B \in SUBSET Requests /\ \A b \in B : slot[b].court \in Courts
    BY SlotTypes DEF SpentOn
  <2>2. A \subseteq B /\ \A b \in A : slot'[b] = slot[b]
    BY DEF Shrinks, SpentOn
  <2> HIDE DEF A, B
  <2>3. A \in SUBSET Requests
    BY <2>1, <2>2
  <2>4. /\ Cardinality(HourCells(A, slot')) \in Nat /\ Cardinality(HourCells(B, slot)) \in Nat
        /\ Cardinality(HourCells(A, slot')) <= Cardinality(HourCells(B, slot))
    BY <2>1, <2>2, <2>3, HoursGrow
  <2>5. QED BY <2>4 DEF A, B
<1>2. /\ Cardinality(Ahead) \in Nat /\ Cardinality(Ahead)' \in Nat
      /\ Cardinality(Ahead)' <= Cardinality(Ahead)
  <2> DEFINE A == Ahead'
             B == Ahead
  <2>1. B \in SUBSET Requests
    BY DEF Ahead, OwnActive, Orderly
  <2>2. A \subseteq B
    <3>1. SUFFICES ASSUME NEW b \in Ahead' PROVE b \in Ahead
      OBVIOUS
    <3>2. b \in OwnActive /\ slot'[b] = slot[b] /\ slot'[b].at >= now'
      BY DEF Ahead, Shrinks
    <3>3. slot[b].at \in Times
      BY <3>2 DEF AllowanceInv, AllowanceTypeOK, OwnActive, Orderly, Active
    <3>4. slot[b].at >= now
      BY <3>2, <3>3 DEF Shrinks, Times
    <3>5. QED BY <3>2, <3>4 DEF Ahead
  <2> HIDE DEF A, B
  <2>3. A \in SUBSET Requests
    BY <2>1, <2>2
  <2>4. Cardinality(A) \in Nat /\ Cardinality(B) \in Nat /\ Cardinality(A) <= Cardinality(B)
    BY <2>1, <2>2, <2>3, RequestsCount
  <2>5. QED BY <2>4 DEF A, B
<1>3. ASSUME NEW t \in Times
      PROVE  /\ Cardinality(OnDay(t)) \in Nat /\ Cardinality(OnDay(t))' \in Nat
             /\ Cardinality(OnDay(t))' <= Cardinality(OnDay(t))
  <2> DEFINE A == OnDay(t)'
             B == OnDay(t)
  <2>1. B \in SUBSET Requests
    BY DEF OnDay, OwnActive, Orderly
  <2>2. A \subseteq B
    BY DEF OnDay, Shrinks
  <2> HIDE DEF A, B
  <2>3. A \in SUBSET Requests
    BY <2>1, <2>2
  <2>4. Cardinality(A) \in Nat /\ Cardinality(B) \in Nat /\ Cardinality(A) <= Cardinality(B)
    BY <2>1, <2>2, <2>3, RequestsCount
  <2>5. QED BY <2>4 DEF A, B
<1>4. QED BY <1>1, <1>2, <1>3

LEMMA LimitsShrink ==
    ASSUME AllowanceInv, Shrinks
    PROVE  /\ Limits' /\ (ActiveLeft => ActiveLeft')
           /\ \A q \in Requests : slot'[q] = slot[q] =>
                 (HourLeft(q) => HourLeft(q)') /\ (DayLeft(q) => DayLeft(q)')
<1>1. MaxActiveBookings \in Nat /\ MaxPerDay \in Nat /\ \A c \in Courts : Hours[c] \in Nat
  BY AllowanceAssumption
<1>2. Limits'
  <2>1. ASSUME NEW c \in Courts, NEW t \in Times, AllowanceOf(c) # Nil
        PROVE  Cardinality(HourCells(SpentOn(c, t), slot))' <= AllowanceOf(c).limit
    <3>1. Cardinality(HourCells(SpentOn(c, t), slot)) <= AllowanceOf(c).limit
          /\ AllowanceOf(c).limit \in Nat
      BY <2>1, LimitIsNumber DEF AllowanceInv, Limits
    <3>2. QED BY <2>1, <3>1, CountsShrink
  <2>2. MaxActiveBookings > 0 => Cardinality(Ahead)' <= MaxActiveBookings
    BY <1>1, CountsShrink DEF AllowanceInv, Limits
  <2>3. ASSUME MaxPerDay > 0, NEW t \in Times PROVE Cardinality(OnDay(t))' <= MaxPerDay
    BY <1>1, <2>3, CountsShrink DEF AllowanceInv, Limits
  <2>4. QED BY <2>1, <2>2, <2>3 DEF Limits
<1>3. ActiveLeft => ActiveLeft'
  BY <1>1, CountsShrink DEF ActiveLeft
<1>4. ASSUME NEW q \in Requests, slot'[q] = slot[q], HourLeft(q) PROVE HourLeft(q)'
  <2>1. SUFFICES ASSUME NEW c \in Courts, NEW t \in Times,
                        slot[q] = [court |-> c, at |-> t], AllowanceOf(c) # Nil
                 PROVE  Cardinality(HourCells(SpentOn(c, t), slot))' + Hours[c]
                            <= AllowanceOf(c).limit
    BY <1>4 DEF HourLeft
  <2>2. Cardinality(HourCells(SpentOn(c, t), slot)) + Hours[c] <= AllowanceOf(c).limit
        /\ AllowanceOf(c).limit \in Nat
    BY <1>4, <2>1, LimitIsNumber DEF HourLeft
  <2>3. QED BY <1>1, <2>1, <2>2, CountsShrink
<1>5. ASSUME NEW q \in Requests, slot'[q] = slot[q], DayLeft(q) PROVE DayLeft(q)'
  <2>1. SUFFICES ASSUME MaxPerDay > 0, NEW c \in Courts, NEW t \in Times,
                        slot[q] = [court |-> c, at |-> t]
                 PROVE  Cardinality(OnDay(t))' < MaxPerDay
    BY <1>5 DEF DayLeft
  <2>2. Cardinality(OnDay(t)) < MaxPerDay
    BY <1>5, <2>1 DEF DayLeft
  <2>3. QED BY <1>1, <2>2, CountsShrink
<1>6. QED BY <1>2, <1>3, <1>4, <1>5

\* Where also nobody moves on, everybody keeps his room.
LEMMA RoomStays ==
    ASSUME AllowanceInv, Shrinks, UNCHANGED <<call, slot, freely, raced>>
    PROVE  Limits' /\ \A q \in Requests : HasRoom(q)'
<1>1. ASSUME NEW q \in Requests PROVE HasRoom(q)'
  <2>1. HasRoom(q)
    BY DEF AllowanceInv
  <2>2. (HourLeft(q) => HourLeft(q)') /\ (DayLeft(q) => DayLeft(q)') /\ (ActiveLeft => ActiveLeft')
    BY LimitsShrink
  <2>3. QED BY <2>1, <2>2 DEF HasRoom, Waits
<1>2. QED BY <1>1, LimitsShrink

\* A write of bookings shows on the list, unless its trigger fails.
LEMMA MirrorShows ==
    ASSUME AllowanceInv, NEW changed \in SUBSET Requests,
           NEW to \in [changed -> BookingStatuses \ {"none"}],
           Mirrors(changed, to), marked \subseteq marked'
    PROVE  /\ status' \in [Requests -> BookingStatuses]
           /\ listed' \in [Requests -> Statuses \cup {"none"}]
           /\ unmirrored \subseteq unmirrored' /\ unmirrored' \subseteq Requests
           /\ misses' \in 0..MaxOddities
           /\ elsewhere' \subseteq Requests /\ overtaken' \subseteq Requests
           /\ \A b \in Requests :
                /\ b \in changed => status'[b] = to[b]
                /\ b \notin changed => status'[b] = status[b] /\ listed'[b] = listed[b]
           /\ ListIsTrue'
<1>1. \A b \in changed :
          /\ Shown(to[b]) \in Statuses
          /\ to[b] \in Active => Shown(to[b]) = "scheduled"
          /\ Shown(to[b]) = "scheduled" => to[b] \in Active \cup {"released"}
  BY DEF Shown, Statuses, Active, BookingStatuses, Spending
<1>2. status' \in [Requests -> BookingStatuses] /\ \A b \in Requests :
          /\ b \in changed => status'[b] = to[b]
          /\ b \notin changed => status'[b] = status[b]
  BY DEF Mirrors, AllowanceInv, AllowanceTypeOK
<1>3. /\ listed' \in [Requests -> Statuses \cup {"none"}]
      /\ \A b \in Requests : b \notin changed => listed'[b] = listed[b]
      /\ \A b \in changed \ unmirrored' : listed'[b] = Shown(to[b])
      /\ elsewhere' \subseteq Requests /\ overtaken' \subseteq Requests
      /\ \A b \in Requests \ unmirrored' : b \notin changed => (b \in overtaken' <=> b \in overtaken)
  BY <1>1 DEF Mirrors, AllowanceInv, AllowanceTypeOK
<1>4. unmirrored \subseteq unmirrored' /\ unmirrored' \subseteq Requests
  BY DEF Mirrors, AllowanceInv, AllowanceTypeOK
<1>5. misses' \in 0..MaxOddities
  BY AllowanceAssumption DEF Mirrors, AllowanceInv, AllowanceTypeOK
<1>6. ListIsTrue'
  <2>1. SUFFICES ASSUME NEW b \in Requests, b \notin unmirrored'
                 PROVE  /\ status'[b] \in Active /\ b \notin marked'
                              => listed'[b] \in {"scheduled", "rescheduled"}
                        /\ listed'[b] = "scheduled" /\ b \notin overtaken'
                              => status'[b] \in Active \cup {"released"}
    BY DEF ListIsTrue
  <2>2. CASE b \in changed
    BY <1>1, <1>2, <1>3, <2>1, <2>2
  <2>3. CASE b \notin changed
    BY <1>2, <1>3, <1>4, <2>1, <2>3 DEF AllowanceInv, ListIsTrue
  <2>4. QED BY <2>2, <2>3
<1>7. QED BY <1>2, <1>3, <1>4, <1>5, <1>6

\* A write over bookings that are there, which spends nothing new, keeps everything.
LEMMA WriteKeeps ==
    ASSUME AllowanceInv, NEW changed \in SUBSET Requests,
           NEW to \in [changed -> BookingStatuses \ {"none"}],
           Mirrors(changed, to), marked \subseteq marked', marked' \subseteq Requests,
           marks' \in 0..MaxOddities,
           \A b \in changed :
              /\ status[b] # "none"
              /\ to[b] \in Active => status[b] \in Active \/ b \in marked'
              /\ to[b] \in Spending => status[b] \in Spending \/ b \in marked',
           removing' \subseteq Requests,
           \A b \in removing' \ removing : b \in changed /\ to[b] \notin Active,
           UNCHANGED <<now, member, call, slot, moving, freely, raced>>
    PROVE  AllowanceInv'
<1>1. /\ status' \in [Requests -> BookingStatuses]
      /\ listed' \in [Requests -> Statuses \cup {"none"}]
      /\ unmirrored \subseteq unmirrored' /\ unmirrored' \subseteq Requests
      /\ misses' \in 0..MaxOddities
      /\ elsewhere' \subseteq Requests /\ overtaken' \subseteq Requests
      /\ \A b \in Requests :
            /\ b \in changed => status'[b] = to[b]
            /\ b \notin changed => status'[b] = status[b] /\ listed'[b] = listed[b]
      /\ ListIsTrue'
  BY MirrorShows
<1>2. AllowanceTypeOK'
  BY <1>1 DEF AllowanceInv, AllowanceTypeOK
<1>3. Placed'
  BY <1>1 DEF AllowanceInv, AllowanceTypeOK, Placed
<1>4. Going'
  <2>1. SUFFICES ASSUME NEW b \in removing', b \notin marked', b \notin unmirrored'
                 PROVE  status'[b] \notin Active
    BY DEF Going
  <2>2. b \in Requests
    BY <2>1
  <2>3. CASE b \notin removing
    BY <1>1, <2>1, <2>2, <2>3
  <2>4. CASE b \in removing
    <3>1. status[b] \notin Active
      BY <1>1, <2>1, <2>4 DEF AllowanceInv, Going
    <3>2. QED BY <1>1, <2>1, <2>2, <3>1
  <2>5. QED BY <2>3, <2>4
<1>5. Shrinks
  <2>1. now \in Times /\ now' \in Times /\ now <= now'
    BY DEF AllowanceInv, AllowanceTypeOK, Times
  <2>2. \A b \in Requests : /\ status'[b] \in Spending /\ b \notin marked' => status[b] \in Spending
                            /\ status'[b] \in Active /\ b \notin marked' => status[b] \in Active
    BY <1>1
  <2>3. Orderly' \subseteq Orderly /\ \A b \in Orderly' : b \notin marked'
    BY DEF Orderly
  <2>4. QED BY <2>1, <2>2, <2>3 DEF Shrinks, Spent, OwnActive, Booked, Orderly
<1>6. Limits' /\ \A q \in Requests : HasRoom(q)'
  BY <1>5, RoomStays
<1>7. Moving'
  <2>1. SUFFICES ASSUME NEW b \in Requests, b \notin marked', b \notin unmirrored',
                        status'[b] \in Active
                 PROVE  moving[b] \in {"none", "scheduled", "rescheduled"}
    BY DEF Moving
  <2>2. status[b] \in Active /\ b \notin marked /\ b \notin unmirrored
    BY <1>1, <2>1
  <2>3. QED BY <2>2 DEF AllowanceInv, Moving
<1>8. QED BY <1>1, <1>2, <1>3, <1>4, <1>6, <1>7 DEF AllowanceInv

\* What a single booking is written to.
LEMMA WriteIsMirror ==
    ASSUME NEW b \in Requests, NEW value \in BookingStatuses \ {"none"}, Writes(b, value)
    PROVE  \E to \in [{b} -> BookingStatuses \ {"none"}] : to[b] = value /\ Mirrors({b}, to)
<1> DEFINE to == [x \in {b} |-> value]
<1>1. to \in [{b} -> BookingStatuses \ {"none"}] /\ to[b] = value
  OBVIOUS
<1>2. Mirrors({b}, to)
  BY DEF Writes
<1>3. QED BY <1>1, <1>2

\* The desk, the sweep and the provider write over bookings.
LEMMA OverwriteKeeps ==
    ASSUME AllowanceInv, NEW b \in Requests,
           \/ Confirm(b) \/ Cancel(b) \/ Release(b) \/ RemoveRead(b) \/ RemoveRow(b)
           \/ MoveRead(b) \/ MoveWrite(b) \/ \E st \in Statuses : Mark(b, st)
    PROVE  AllowanceInv'
<1>0. marks \in 0..MaxOddities /\ marked \subseteq Requests /\ removing \subseteq Requests
  BY DEF AllowanceInv, AllowanceTypeOK
<1>1. CASE Confirm(b)
  <2>1. status[b] = "held" /\ Writes(b, "confirmed")
        /\ UNCHANGED <<now, member, call, slot, removing, moving, marks, freely, raced, marked>>
    BY <1>1 DEF Confirm, ghosts, chores
  <2>2. PICK to \in [{b} -> BookingStatuses \ {"none"}] : to[b] = "confirmed" /\ Mirrors({b}, to)
    BY <2>1, WriteIsMirror DEF BookingStatuses, Spending
  <2>3. QED BY <1>0, <2>1, <2>2, WriteKeeps DEF Active, Spending
<1>2. CASE Cancel(b)
  <2>1. status[b] # "none" /\ Writes(b, "cancelled")
        /\ UNCHANGED <<now, member, call, slot, removing, moving, marks, freely, raced, marked>>
    BY <1>2 DEF Cancel, ghosts, chores
  <2>2. PICK to \in [{b} -> BookingStatuses \ {"none"}] : to[b] = "cancelled" /\ Mirrors({b}, to)
    BY <2>1, WriteIsMirror DEF BookingStatuses, Spending
  <2>3. QED BY <1>0, <2>1, <2>2, WriteKeeps DEF Active, Spending
<1>3. CASE Release(b)
  <2>1. status[b] = "held" /\ Writes(b, "released")
        /\ UNCHANGED <<now, member, call, slot, removing, moving, marks, freely, raced, marked>>
    BY <1>3 DEF Release, ghosts, chores
  <2>2. PICK to \in [{b} -> BookingStatuses \ {"none"}] : to[b] = "released" /\ Mirrors({b}, to)
    BY <2>1, WriteIsMirror DEF BookingStatuses, Spending
  <2>3. QED BY <1>0, <2>1, <2>2, WriteKeeps DEF Active, Spending
<1>4. CASE RemoveRead(b)
  <2>1. /\ listed[b] # "none" /\ removing' = removing \cup {b}
        /\ UNCHANGED <<now, member, call, slot, moving, marks, freely, raced, marked>>
    BY <1>4 DEF RemoveRead, ghosts
  <2>2. status[b] # "none"
    BY <2>1 DEF AllowanceInv, Placed
  <2>3. CASE listed[b] # "cancelled"
    <3>1. Writes(b, "cancelled")
      BY <1>4, <2>3 DEF RemoveRead, RemoveCancels
    <3>2. PICK to \in [{b} -> BookingStatuses \ {"none"}] : to[b] = "cancelled" /\ Mirrors({b}, to)
      BY <3>1, WriteIsMirror DEF BookingStatuses, Spending
    <3>3. QED BY <1>0, <2>1, <2>2, <3>2, WriteKeeps DEF Active, Spending
  <2>4. CASE listed[b] = "cancelled"
    <3>1. UNCHANGED <<status, listed, elsewhere, unmirrored, overtaken, misses>>
      BY <1>4, <2>4 DEF RemoveRead, RemoveCancels, list
    <3>2. Shrinks
      BY <2>1, <3>1 DEF Shrinks, Spent, OwnActive, Booked, Orderly, Times,
                        AllowanceInv, AllowanceTypeOK
    <3>3. Limits' /\ \A q \in Requests : HasRoom(q)'
      BY <2>1, <3>2, RoomStays
    <3>4. b \in marked \cup unmirrored \/ status[b] \notin Active
      BY <2>4 DEF AllowanceInv, ListIsTrue
    <3>5. Going'
      BY <2>1, <3>1, <3>4 DEF AllowanceInv, Going
    <3>6. AllowanceTypeOK' /\ Placed' /\ ListIsTrue'
      <4>1. AllowanceTypeOK'
        BY <2>1, <3>1 DEF AllowanceInv, AllowanceTypeOK
      <4>2. Placed'
        BY <2>1, <2>2, <3>1 DEF AllowanceInv, Placed
      <4>3. ListIsTrue'
        BY <2>1, <3>1 DEF AllowanceInv, ListIsTrue
      <4>4. QED BY <4>1, <4>2, <4>3
    <3>7. Moving'
      BY <2>1, <3>1 DEF AllowanceInv, Moving
    <3>8. QED BY <3>3, <3>5, <3>6, <3>7 DEF AllowanceInv
  <2>5. QED BY <2>3, <2>4
<1>5. CASE RemoveRow(b)
  <2>1. /\ b \in removing /\ removing' = removing \ {b}
        /\ moving' = [moving EXCEPT ![b] = "none"]
        /\ listed' = [listed EXCEPT ![b] = "none"]
        /\ elsewhere' = elsewhere \ {b}
        /\ UNCHANGED <<now, member, call, slot, status, marks, freely, raced, marked,
                       unmirrored, overtaken, misses>>
    BY <1>5 DEF RemoveRow, ghosts
  <2>2. Shrinks
    BY <2>1 DEF Shrinks, Spent, OwnActive, Booked, Orderly, Times, AllowanceInv, AllowanceTypeOK
  <2>3. Limits' /\ \A q \in Requests : HasRoom(q)'
    BY <2>1, <2>2, RoomStays
  <2>4. AllowanceTypeOK'
    BY <2>1 DEF AllowanceInv, AllowanceTypeOK, Statuses
  <2>5. Placed' /\ Going'
    BY <2>1 DEF AllowanceInv, AllowanceTypeOK, Placed, Going
  <2>6. ListIsTrue'
    BY <2>1 DEF AllowanceInv, AllowanceTypeOK, ListIsTrue, Going
  <2>7. Moving'
    BY <2>1 DEF AllowanceInv, AllowanceTypeOK, Moving
  <2>8. QED BY <2>3, <2>4, <2>5, <2>6, <2>7 DEF AllowanceInv
<1>6. ASSUME NEW st \in Statuses, Mark(b, st) PROVE AllowanceInv'
  <2>1. /\ listed[b] # "none" /\ misses + marks < MaxOddities /\ marks' = marks + 1
        /\ UNCHANGED <<now, member, call, slot, removing, moving, freely, raced>>
    BY <1>6 DEF Mark, Counts
  <2>2. status[b] # "none" /\ marks' \in 0..MaxOddities
    BY <2>1, AllowanceAssumption DEF AllowanceInv, AllowanceTypeOK, Placed
  <2>3. CASE st \in DOMAIN BookingStatus
    <3> DEFINE value == BookingStatus[st]
    <3>1. /\ Writes(b, value)
          /\ marked' = IF \/ st = "scheduled" /\ status[b] \notin Active
                          \/ st = "done" /\ status[b] \notin Spending
                       THEN marked \cup {b} ELSE marked
      BY <1>6, <2>3 DEF Mark
    <3>2. /\ value \in BookingStatuses \ {"none"}
          /\ value \in Active => st = "scheduled"
          /\ value \in Spending => st \in {"scheduled", "done"}
      BY <2>3 DEF BookingStatus, BookingStatuses, Spending, Active
    <3>3. PICK to \in [{b} -> BookingStatuses \ {"none"}] : to[b] = value /\ Mirrors({b}, to)
      <4> HIDE DEF value
      <4> QED BY <3>1, <3>2, WriteIsMirror
    <3>4. marked \subseteq marked' /\ marked' \subseteq Requests
      BY <1>0, <3>1
    <3>5. /\ value \in Active => status[b] \in Active \/ b \in marked'
          /\ value \in Spending => status[b] \in Spending \/ b \in marked'
      <4> HIDE DEF value
      <4> QED BY <3>1, <3>2 DEF Active, Spending
    <3>6. QED
      <4> HIDE DEF value
      <4> QED BY <1>0, <2>1, <2>2, <3>3, <3>4, <3>5, WriteKeeps
  <2>4. CASE st \notin DOMAIN BookingStatus
    <3>1. /\ listed' = [listed EXCEPT ![b] = st]
          /\ UNCHANGED <<status, marked, elsewhere, unmirrored, overtaken, misses>>
      BY <1>6, <2>4 DEF Mark
    <3>2. st = "rescheduled"
      BY <2>4 DEF BookingStatus, Statuses
    <3>3. Shrinks
      BY <2>1, <3>1 DEF Shrinks, Spent, OwnActive, Booked, Orderly, Times,
                        AllowanceInv, AllowanceTypeOK
    <3>4. Limits' /\ \A q \in Requests : HasRoom(q)'
      BY <2>1, <3>1, <3>3, RoomStays
    <3>5. AllowanceTypeOK'
      BY <2>1, <2>2, <3>1 DEF AllowanceInv, AllowanceTypeOK
    <3>6. Placed' /\ Going'
      BY <2>1, <2>2, <3>1 DEF AllowanceInv, AllowanceTypeOK, Placed, Going
    <3>7. ListIsTrue'
      BY <3>1, <3>2 DEF AllowanceInv, AllowanceTypeOK, ListIsTrue
    <3>8. Moving'
      BY <2>1, <3>1 DEF AllowanceInv, Moving
    <3>9. QED BY <3>4, <3>5, <3>6, <3>7, <3>8 DEF AllowanceInv
  <2>5. QED BY <2>3, <2>4
<1>7. CASE MoveRead(b)
  <2>1. /\ listed[b] # "none" /\ misses + marks < MaxOddities /\ marks' = marks + 1
        /\ moving' = [moving EXCEPT ![b] = listed[b]]
        /\ UNCHANGED <<now, member, call, slot, status, removing, freely, raced, marked,
                       listed, elsewhere, unmirrored, overtaken, misses>>
    BY <1>7 DEF MoveRead, Counts, ghosts, list
  <2>2. status[b] # "none" /\ marks' \in 0..MaxOddities
    BY <2>1, AllowanceAssumption DEF AllowanceInv, AllowanceTypeOK, Placed
  <2>3. Shrinks
    BY <2>1 DEF Shrinks, Spent, OwnActive, Booked, Orderly, Times, AllowanceInv, AllowanceTypeOK
  <2>4. Limits' /\ \A q \in Requests : HasRoom(q)'
    BY <2>1, <2>3, RoomStays
  <2>5. AllowanceTypeOK'
    BY <2>1, <2>2 DEF AllowanceInv, AllowanceTypeOK
  <2>6. Placed' /\ Going' /\ ListIsTrue'
    BY <2>1, <2>2 DEF AllowanceInv, AllowanceTypeOK, Placed, Going, ListIsTrue
  <2>7. Moving'
    BY <2>1 DEF AllowanceInv, AllowanceTypeOK, Moving, ListIsTrue
  <2>8. QED BY <2>4, <2>5, <2>6, <2>7 DEF AllowanceInv
<1>8. CASE MoveWrite(b)
  <2>1. /\ moving[b] # "none" /\ moving' = [moving EXCEPT ![b] = "none"]
        /\ listed' = [listed EXCEPT ![b] = moving[b]] /\ elsewhere' = elsewhere \cup {b}
        /\ overtaken' = IF listed[b] = moving[b] THEN overtaken ELSE overtaken \cup {b}
        /\ UNCHANGED <<now, member, call, slot, status, removing, marks, freely, raced, marked,
                       unmirrored, misses>>
    BY <1>8 DEF MoveWrite, ghosts
  <2>2. status[b] # "none"
    BY <2>1 DEF AllowanceInv, Placed
  <2>3. Shrinks
    BY <2>1 DEF Shrinks, Spent, OwnActive, Booked, Orderly, Times, AllowanceInv, AllowanceTypeOK
  <2>4. Limits' /\ \A q \in Requests : HasRoom(q)'
    BY <2>1, <2>3, RoomStays
  <2>5. AllowanceTypeOK'
    BY <2>1 DEF AllowanceInv, AllowanceTypeOK
  <2>6. Placed' /\ Going'
    BY <2>1, <2>2 DEF AllowanceInv, AllowanceTypeOK, Placed, Going
  <2>7. Moving'
    BY <2>1 DEF AllowanceInv, AllowanceTypeOK, Moving
  <2>8. ListIsTrue'
    <3>1. SUFFICES ASSUME NEW x \in Requests, x \notin unmirrored
                   PROVE  /\ status[x] \in Active /\ x \notin marked
                                => listed'[x] \in {"scheduled", "rescheduled"}
                          /\ listed'[x] = "scheduled" /\ x \notin overtaken'
                                => status[x] \in Active \cup {"released"}
      BY <2>1 DEF ListIsTrue
    <3>2. CASE x # b
      BY <2>1, <3>1, <3>2 DEF AllowanceInv, AllowanceTypeOK, ListIsTrue
    <3>3. CASE x = b
      <4>1. listed'[b] = moving[b] /\ (b \notin overtaken' => b \notin overtaken /\ listed[b] = moving[b])
        BY <2>1 DEF AllowanceInv, AllowanceTypeOK
      <4>2. QED BY <2>1, <3>1, <3>3, <4>1 DEF AllowanceInv, Moving, ListIsTrue
    <3>4. QED BY <3>2, <3>3
  <2>9. QED BY <2>4, <2>5, <2>6, <2>7, <2>8 DEF AllowanceInv
<1>9. QED BY <1>1, <1>2, <1>3, <1>4, <1>5, <1>6, <1>7, <1>8

\* Nobody who has not inserted yet is booked.
LEMMA CallsUnbooked ==
    ASSUME AllowanceInv, NEW r \in Requests, call[r] # "done"
    PROVE  status[r] = "none" /\ r \notin Spent /\ r \notin OwnActive
BY DEF AllowanceInv, Placed, Spent, OwnActive, Booked, Spending, Active

\* A call goes on or is refused: what is booked, the limits and the others' room
\* stay as they are.
LEMMA CallKeeps ==
    ASSUME AllowanceInv, NEW r \in Requests, call[r] # "done",
           NEW step \in {"new", "hours", "active", "day", "insert", "done"},
           NEW where \in [court: Courts, at: Times] \cup {Nil},
           call' = [call EXCEPT ![r] = step], slot' = [slot EXCEPT ![r] = where],
           raced \ {r} \subseteq raced', raced' \subseteq raced,
           freely \ {r} \subseteq freely', freely' \subseteq freely \cup {r},
           step \in {"hours", "active", "day", "insert"} => where # Nil,
           misses' \in 0..MaxOddities, UNCHANGED <<now, member, status, chores, marked, listed,
                                                  elsewhere, unmirrored, overtaken>>
    PROVE  /\ Shrinks /\ AllowanceTypeOK' /\ Placed' /\ Going' /\ Moving' /\ ListIsTrue' /\ Limits'
           /\ \A q \in Requests \ {r} : HasRoom(q)'
<1>1. status[r] = "none" /\ r \notin Spent /\ r \notin OwnActive
  BY CallsUnbooked
<1>2. \A q \in Requests \ {r} :
          call'[q] = call[q] /\ slot'[q] = slot[q] /\ (q \in raced' <=> q \in raced)
          /\ (q \in freely' <=> q \in freely)
  BY DEF AllowanceInv, AllowanceTypeOK
<1>3. Shrinks
  <2>1. now \in Times /\ now' \in Times /\ now <= now'
    BY DEF AllowanceInv, AllowanceTypeOK, Times
  <2>2. \A b \in Spent' : b \in Spent /\ slot'[b] = slot[b]
    BY <1>1, <1>2 DEF Spent, Booked, Orderly, Spending
  <2>3. \A b \in OwnActive' : b \in OwnActive /\ slot'[b] = slot[b]
    BY <1>1, <1>2 DEF OwnActive, Orderly, Active
  <2>4. QED BY <2>1, <2>2, <2>3 DEF Shrinks
<1>4. AllowanceTypeOK'
  <2>1. call' \in [Requests -> {"new", "hours", "active", "day", "insert", "done"}]
        /\ slot' \in [Requests -> [court: Courts, at: Times] \cup {Nil}]
    BY DEF AllowanceInv, AllowanceTypeOK
  <2>2. \A b \in Requests : status'[b] # "none" => call'[b] = "done" /\ slot'[b] # Nil
    BY <1>1, <1>2 DEF AllowanceInv, AllowanceTypeOK
  <2>3. QED BY <2>1, <2>2 DEF AllowanceInv, AllowanceTypeOK, chores
<1>5. Placed'
  <2>1. call'[r] = step /\ slot'[r] = where
    BY DEF AllowanceInv, AllowanceTypeOK
  <2>2. QED BY <1>1, <1>2, <2>1 DEF AllowanceInv, Placed, chores
<1>6. Going' /\ Moving' /\ ListIsTrue'
  BY DEF AllowanceInv, Going, Moving, ListIsTrue, chores
<1>7. Limits'
  BY <1>3, LimitsShrink
<1>8. ASSUME NEW q \in Requests \ {r} PROVE HasRoom(q)'
  <2>1. HasRoom(q)
    BY DEF AllowanceInv
  <2>2. (HourLeft(q) => HourLeft(q)') /\ (DayLeft(q) => DayLeft(q)') /\ (ActiveLeft => ActiveLeft')
    BY <1>2, <1>3, LimitsShrink
  <2>3. QED BY <1>2, <2>1, <2>2 DEF HasRoom, Waits
<1>9. QED BY <1>3, <1>4, <1>5, <1>6, <1>7, <1>8

\* A call asks for a slot.
LEMMA AskKeeps ==
    ASSUME AllowanceInv, NEW r \in Requests, NEW c \in Courts, NEW t \in Times, Ask(r, c, t)
    PROVE  AllowanceInv'
<1>1. call[r] = "new"
      /\ UNCHANGED <<now, member, status, chores, freely, raced, marked,
                     listed, elsewhere, unmirrored, overtaken>>
  BY DEF Ask, ghosts
<1>0. misses' \in 0..MaxOddities
  BY AllowanceAssumption DEF Ask, Opens, ReadFails, AllowanceInv, AllowanceTypeOK
<1>2. CASE call' = [call EXCEPT ![r] = "done"] /\ UNCHANGED slot
  <2>1. slot' = [slot EXCEPT ![r] = slot[r]] /\ slot[r] \in [court: Courts, at: Times] \cup {Nil}
    BY <1>2 DEF AllowanceInv, AllowanceTypeOK
  <2>2. /\ AllowanceTypeOK' /\ Placed' /\ Going' /\ Moving' /\ ListIsTrue' /\ Limits'
        /\ \A q \in Requests \ {r} : HasRoom(q)'
    BY <1>0, <1>1, <1>2, <2>1, CallKeeps
  <2>3. call'[r] = "done"
    BY <1>2 DEF AllowanceInv, AllowanceTypeOK
  <2>4. HasRoom(r)'
    BY <2>3 DEF HasRoom, Waits
  <2>5. QED BY <2>2, <2>4 DEF AllowanceInv
<1>3. CASE ~(call' = [call EXCEPT ![r] = "done"] /\ UNCHANGED slot)
  <2> DEFINE step == IF r \in Desk THEN "insert" ELSE "hours"
             where == [court |-> c, at |-> t]
  <2>1. call' = [call EXCEPT ![r] = step] /\ slot' = [slot EXCEPT ![r] = where]
    BY <1>3 DEF Ask
  <2>2. where \in [court: Courts, at: Times] /\ where # Nil
    BY AllowanceAssumption
  <2>3. step \in {"insert", "hours"} /\ (step = "insert" => r \in Desk)
    OBVIOUS
  <2> HIDE DEF step, where
  <2>4. /\ AllowanceTypeOK' /\ Placed' /\ Going' /\ Moving' /\ ListIsTrue' /\ Limits'
        /\ \A q \in Requests \ {r} : HasRoom(q)'
    BY <1>0, <1>1, <2>1, <2>2, <2>3, CallKeeps
  <2>5. call'[r] = step
    BY <2>1 DEF AllowanceInv, AllowanceTypeOK
  <2>6. HasRoom(r)'
    BY <2>3, <2>5 DEF HasRoom, Waits
  <2>7. QED BY <2>4, <2>6 DEF AllowanceInv
<1>4. QED BY <1>2, <1>3

\* A count refuses the call, which keeps everything.
LEMMA RefusalKeeps ==
    ASSUME AllowanceInv, NEW r \in Requests, call[r] # "done",
           call' = [call EXCEPT ![r] = "done"], slot' = [slot EXCEPT ![r] = Nil],
           raced' = raced \ {r}, freely \ {r} \subseteq freely', freely' \subseteq freely,
           misses' \in 0..MaxOddities, UNCHANGED <<now, member, status, chores, marked, listed,
                                                  elsewhere, unmirrored, overtaken>>
    PROVE  AllowanceInv'
<1>1. /\ AllowanceTypeOK' /\ Placed' /\ Going' /\ Moving' /\ ListIsTrue' /\ Limits'
      /\ \A q \in Requests \ {r} : HasRoom(q)'
  BY CallKeeps
<1>2. call'[r] = "done"
  BY DEF AllowanceInv, AllowanceTypeOK
<1>3. HasRoom(r)'
  BY <1>2 DEF HasRoom, Waits
<1>4. QED BY <1>1, <1>3 DEF AllowanceInv

\* The hours are counted: whoever is let through, in the period, has his left.
LEMMA CountHoursKeeps ==
    ASSUME AllowanceInv, NEW r \in Requests, CountHours(r)
    PROVE  AllowanceInv'
<1> DEFINE a == AllowanceOf(slot[r].court)
           enough == \/ ~member \/ a = Nil
                     \/ HoursOf(SpentIn(a.period, now)) + Hours[slot[r].court] <= a.limit
           within == member /\ (a = Nil \/ Window[a.period][now] = Window[a.period][slot[r].at])
<1>1. /\ call[r] = "hours" /\ Proceeds(r, enough, "active")
      /\ freely' = IF enough /\ ~within THEN freely \cup {r} ELSE freely
      /\ UNCHANGED <<now, member, status, chores, marked, listed, elsewhere, unmirrored,
                     overtaken, misses>>
      /\ misses \in 0..MaxOddities
  BY DEF CountHours, list, AllowanceInv, AllowanceTypeOK
<1>2. CASE ~enough
  <2>1. /\ call' = [call EXCEPT ![r] = "done"] /\ slot' = [slot EXCEPT ![r] = Nil]
        /\ raced' = raced \ {r} /\ freely' = freely
    BY <1>1, <1>2 DEF Proceeds
  <2>2. QED BY <1>1, <2>1, RefusalKeeps
<1>3. CASE enough
  <2>1. /\ call' = [call EXCEPT ![r] = "active"] /\ slot' = slot /\ raced' = raced
        /\ freely \subseteq freely' /\ freely' \subseteq freely \cup {r}
        /\ ~within => r \in freely'
    BY <1>1, <1>3 DEF Proceeds
  <2>2. slot[r] \in [court: Courts, at: Times] /\ slot[r] # Nil
    BY <1>1, AllowanceAssumption DEF AllowanceInv, Placed
  <2>3. slot' = [slot EXCEPT ![r] = slot[r]]
    BY <2>1 DEF AllowanceInv, AllowanceTypeOK
  <2>4. /\ Shrinks /\ AllowanceTypeOK' /\ Placed' /\ Going' /\ Moving' /\ ListIsTrue' /\ Limits'
        /\ \A q \in Requests \ {r} : HasRoom(q)'
    <3> HIDE DEF enough, within
    <3> QED BY <1>1, <2>1, <2>2, <2>3, CallKeeps
  <2>5. call'[r] = "active"
    BY <2>1 DEF AllowanceInv, AllowanceTypeOK
  <2>6. ASSUME r \notin freely' PROVE HourLeft(r)'
    <3>1. SUFFICES ASSUME NEW c \in Courts, NEW t \in Times,
                          slot[r] = [court |-> c, at |-> t], AllowanceOf(c) # Nil
                   PROVE  Cardinality(HourCells(SpentOn(c, t), slot))' + Hours[c]
                              <= AllowanceOf(c).limit
      BY <2>1 DEF HourLeft
    <3>2. within /\ slot[r].court = c /\ slot[r].at = t
      BY <2>1, <2>6, <3>1
    <3> DEFINE p == AllowanceOf(c).period
               A == SpentOn(c, t)'
               B == SpentIn(p, now)
    <3>3. Window[p][now] = Window[p][t] /\ HoursOf(B) + Hours[c] <= AllowanceOf(c).limit
      BY <1>3, <3>1, <3>2
    <3>4. B \in SUBSET Requests /\ \A b \in B : slot[b].court \in Courts
      BY SlotTypes DEF SpentIn, Booked, Spending, AllowanceInv
    <3>5. A \subseteq B
      BY <1>1, <2>1, <3>3 DEF SpentOn, SpentIn, Spent, Booked
    <3>6. HoursOf(B) = Cardinality(HourCells(B, slot))
      BY DEF HoursOf, HourCells
    <3>7. Hours[c] \in Nat /\ AllowanceOf(c).limit \in Nat
      BY <3>1, LimitIsNumber, AllowanceAssumption
    <3> HIDE DEF A, B
    <3>8. A \in SUBSET Requests
      BY <3>4, <3>5
    <3>9. /\ Cardinality(HourCells(A, slot)) \in Nat /\ Cardinality(HourCells(B, slot)) \in Nat
          /\ Cardinality(HourCells(A, slot)) <= Cardinality(HourCells(B, slot))
      BY <3>4, <3>5, <3>8, HoursGrow
    <3>10. Cardinality(HourCells(A, slot)) + Hours[c] <= AllowanceOf(c).limit
      BY <3>3, <3>6, <3>7, <3>9
    <3>11. QED BY <2>1, <3>10 DEF A
  <2>7. HasRoom(r)'
    BY <2>5, <2>6 DEF HasRoom, Waits
  <2>8. QED BY <2>4, <2>7 DEF AllowanceInv
<1>4. QED BY <1>2, <1>3

\* Without the plans there is no limit, and the hours are not the plan's.
LEMMA MissPlansKeeps ==
    ASSUME AllowanceInv, NEW r \in Requests, MissPlans(r)
    PROVE  AllowanceInv'
<1>1. PICK enough \in BOOLEAN :
          /\ Proceeds(r, enough, "active")
          /\ freely' = IF enough THEN freely \cup {r} ELSE freely
  BY DEF MissPlans
<1>2. /\ call[r] = "hours" /\ misses' \in 0..MaxOddities
      /\ UNCHANGED <<now, member, status, chores, marked, listed, elsewhere, unmirrored, overtaken>>
  BY AllowanceAssumption DEF MissPlans, ReadFails, AllowanceInv, AllowanceTypeOK
<1>3. CASE ~enough
  <2>1. /\ call' = [call EXCEPT ![r] = "done"] /\ slot' = [slot EXCEPT ![r] = Nil]
        /\ raced' = raced \ {r} /\ freely' = freely
    BY <1>1, <1>3 DEF Proceeds
  <2>2. QED BY <1>2, <2>1, RefusalKeeps
<1>4. CASE enough
  <2>1. /\ call' = [call EXCEPT ![r] = "active"] /\ slot' = slot /\ raced' = raced
        /\ freely' = freely \cup {r}
    BY <1>1, <1>4 DEF Proceeds
  <2>2. slot[r] \in [court: Courts, at: Times] /\ slot[r] # Nil
    BY <1>2, AllowanceAssumption DEF AllowanceInv, Placed
  <2>3. slot' = [slot EXCEPT ![r] = slot[r]]
    BY <2>1 DEF AllowanceInv, AllowanceTypeOK
  <2>4. /\ AllowanceTypeOK' /\ Placed' /\ Going' /\ Moving' /\ ListIsTrue' /\ Limits'
        /\ \A q \in Requests \ {r} : HasRoom(q)'
    BY <1>2, <2>1, <2>2, <2>3, CallKeeps
  <2>5. call'[r] = "active" /\ r \in freely'
    BY <2>1 DEF AllowanceInv, AllowanceTypeOK
  <2>6. HasRoom(r)'
    BY <2>5 DEF HasRoom, Waits
  <2>7. QED BY <2>4, <2>6 DEF AllowanceInv
<1>5. QED BY <1>3, <1>4

\* What is to come is counted.
LEMMA CountActiveKeeps ==
    ASSUME AllowanceInv, NEW r \in Requests, CountActive(r)
    PROVE  AllowanceInv'
<1>1. /\ call[r] = "active" /\ Proceeds(r, Room, "day")
      /\ freely' = IF Room THEN freely ELSE freely \ {r}
      /\ UNCHANGED <<now, member, status, chores, marked, listed, elsewhere, unmirrored,
                     overtaken, misses>>
      /\ misses \in 0..MaxOddities
  BY DEF CountActive, list, AllowanceInv, AllowanceTypeOK
<1>2. CASE ~Room
  <2>1. /\ call' = [call EXCEPT ![r] = "done"] /\ slot' = [slot EXCEPT ![r] = Nil]
        /\ raced' = raced \ {r} /\ freely' = freely \ {r}
    BY <1>1, <1>2 DEF Proceeds
  <2>2. QED BY <1>1, <2>1, RefusalKeeps
<1>3. CASE Room
  <2>1. /\ call' = [call EXCEPT ![r] = "day"] /\ slot' = slot /\ raced' = raced
        /\ freely' = freely
    BY <1>1, <1>3 DEF Proceeds
  <2>2. slot[r] \in [court: Courts, at: Times] /\ slot[r] # Nil
    BY <1>1, AllowanceAssumption DEF AllowanceInv, Placed
  <2>3. slot' = [slot EXCEPT ![r] = slot[r]]
    BY <2>1 DEF AllowanceInv, AllowanceTypeOK
  <2>4. /\ Shrinks /\ AllowanceTypeOK' /\ Placed' /\ Going' /\ Moving' /\ ListIsTrue' /\ Limits'
        /\ \A q \in Requests \ {r} : HasRoom(q)'
    BY <1>1, <2>1, <2>2, <2>3, CallKeeps
  <2>5. call'[r] = "day"
    BY <2>1 DEF AllowanceInv, AllowanceTypeOK
  <2>6. (HourLeft(r) => HourLeft(r)') /\ HasRoom(r)
    BY <2>1, <2>4, LimitsShrink DEF AllowanceInv
  <2>7. ActiveLeft'
    <3> DEFINE A == Ahead'
               B == {b \in Booked(Active) : slot[b].at >= now}
    <3>1. A \subseteq B /\ B \subseteq Requests
      BY <1>1, <2>1 DEF Ahead, OwnActive, Orderly, Booked
    <3>2. MaxActiveBookings > 0 => Cardinality(B) < MaxActiveBookings
      BY <1>3 DEF Room
    <3> HIDE DEF A, B
    <3>3. Cardinality(A) \in Nat /\ Cardinality(B) \in Nat /\ Cardinality(A) <= Cardinality(B)
      BY <3>1, RequestsCount
    <3>4. MaxActiveBookings > 0 => Cardinality(A) < MaxActiveBookings
      BY <3>2, <3>3, AllowanceAssumption
    <3>5. QED BY <3>4 DEF ActiveLeft, A
  <2>8. HasRoom(r)'
    BY <1>1, <2>1, <2>5, <2>6, <2>7 DEF HasRoom, Waits
  <2>9. QED BY <2>4, <2>8 DEF AllowanceInv
<1>4. QED BY <1>2, <1>3

\* The day is counted.
LEMMA CountDayKeeps ==
    ASSUME AllowanceInv, NEW r \in Requests, CountDay(r)
    PROVE  AllowanceInv'
<1> DEFINE B == {b \in Booked(Active) : DayOf[slot[b].at] = DayOf[slot[r].at]}
           room == MaxPerDay > 0 => Cardinality(B) < MaxPerDay
<1>1. /\ call[r] = "day" /\ Proceeds(r, room, "insert")
      /\ freely' = IF room THEN freely ELSE freely \ {r}
      /\ UNCHANGED <<now, member, status, chores, marked, listed, elsewhere, unmirrored,
                     overtaken, misses>>
      /\ misses \in 0..MaxOddities
  BY DEF CountDay, list, AllowanceInv, AllowanceTypeOK
<1>2. CASE ~room
  <2>1. /\ call' = [call EXCEPT ![r] = "done"] /\ slot' = [slot EXCEPT ![r] = Nil]
        /\ raced' = raced \ {r} /\ freely' = freely \ {r}
    BY <1>1, <1>2 DEF Proceeds
  <2>2. QED BY <1>1, <2>1, RefusalKeeps
<1>3. CASE room
  <2>1. /\ call' = [call EXCEPT ![r] = "insert"] /\ slot' = slot /\ raced' = raced
        /\ freely' = freely
    BY <1>1, <1>3 DEF Proceeds
  <2>2. slot[r] \in [court: Courts, at: Times] /\ slot[r] # Nil
    BY <1>1, AllowanceAssumption DEF AllowanceInv, Placed
  <2>3. slot' = [slot EXCEPT ![r] = slot[r]]
    BY <2>1 DEF AllowanceInv, AllowanceTypeOK
  <2>4. /\ Shrinks /\ AllowanceTypeOK' /\ Placed' /\ Going' /\ Moving' /\ ListIsTrue' /\ Limits'
        /\ \A q \in Requests \ {r} : HasRoom(q)'
    <3> HIDE DEF room
    <3> QED BY <1>1, <2>1, <2>2, <2>3, CallKeeps
  <2>5. call'[r] = "insert"
    BY <2>1 DEF AllowanceInv, AllowanceTypeOK
  <2>6. (HourLeft(r) => HourLeft(r)') /\ (ActiveLeft => ActiveLeft') /\ HasRoom(r)
    BY <2>1, <2>4, LimitsShrink DEF AllowanceInv
  <2>7. DayLeft(r)'
    <3>1. SUFFICES ASSUME MaxPerDay > 0, NEW c \in Courts, NEW t \in Times,
                          slot[r] = [court |-> c, at |-> t]
                   PROVE  Cardinality(OnDay(t))' < MaxPerDay
      BY <2>1 DEF DayLeft
    <3> DEFINE A == OnDay(t)'
    <3>2. A \subseteq B /\ B \subseteq Requests
      BY <1>1, <2>1, <3>1 DEF OnDay, OwnActive, Orderly, Booked
    <3>3. Cardinality(B) < MaxPerDay
      BY <1>3, <3>1
    <3> HIDE DEF A, B
    <3>4. Cardinality(A) \in Nat /\ Cardinality(B) \in Nat /\ Cardinality(A) <= Cardinality(B)
      BY <3>2, RequestsCount
    <3>5. Cardinality(A) < MaxPerDay
      BY <3>3, <3>4, AllowanceAssumption
    <3>6. QED BY <3>5 DEF A
  <2>8. HasRoom(r)'
    BY <1>1, <2>1, <2>5, <2>6, <2>7 DEF HasRoom, Waits
  <2>9. QED BY <2>4, <2>8 DEF AllowanceInv
<1>4. QED BY <1>2, <1>3

\* The booking that was let through is one more of what it had room for.
LEMMA InsertFits ==
    ASSUME AllowanceInv, NEW r \in Requests, Waits(r, {"insert"}),
           Spent' \subseteq Spent \cup {r}, OwnActive' \subseteq OwnActive \cup {r},
           r \in Spent' => r \notin freely,
           UNCHANGED <<slot, now>>
    PROVE  Limits'
<1>1. slot[r] \in [court: Courts, at: Times]
  BY DEF AllowanceInv, Placed, Waits
<1>2. PICK c0 \in Courts, t0 \in Times : slot[r] = [court |-> c0, at |-> t0]
  BY <1>1
<1>3. HasRoom(r)
  BY DEF AllowanceInv
<1>4. (r \notin freely => HourLeft(r)) /\ ActiveLeft /\ DayLeft(r)
  BY <1>3 DEF HasRoom, Waits
<1>5. MaxActiveBookings \in Nat /\ MaxPerDay \in Nat /\ \A c \in Courts : Hours[c] \in Nat
  BY AllowanceAssumption
<1>6. ASSUME NEW c \in Courts, NEW t \in Times, AllowanceOf(c) # Nil
      PROVE  Cardinality(HourCells(SpentOn(c, t), slot))' <= AllowanceOf(c).limit
  <2> DEFINE A == SpentOn(c, t)'
             B == SpentOn(c, t)
  <2>1. B \in SUBSET Requests /\ \A b \in B \cup {r} : slot[b].court \in Courts
    BY <1>2, SlotTypes DEF SpentOn
  <2>2. A \subseteq B \cup {r}
    BY DEF SpentOn
  <2>3. AllowanceOf(c).limit \in Nat /\ Cardinality(HourCells(B, slot)) <= AllowanceOf(c).limit
    BY <1>6, LimitIsNumber DEF AllowanceInv, Limits
  <2>4. CASE r \notin A
    <3> HIDE DEF A, B
    <3>1. A \subseteq B /\ A \in SUBSET Requests
      BY <2>1, <2>2, <2>4
    <3>2. /\ Cardinality(HourCells(A, slot)) \in Nat /\ Cardinality(HourCells(B, slot)) \in Nat
          /\ Cardinality(HourCells(A, slot)) <= Cardinality(HourCells(B, slot))
      BY <2>1, <3>1, HoursGrow
    <3>3. Cardinality(HourCells(A, slot)) <= AllowanceOf(c).limit
      BY <2>3, <3>2
    <3>4. QED BY <3>3 DEF A
  <2>5. CASE r \in A
    <3>1. /\ r \in Spent' /\ AllowanceOf(c0) = AllowanceOf(c)
          /\ Window[AllowanceOf(c).period][t0] = Window[AllowanceOf(c).period][t]
      BY <1>2, <2>5 DEF SpentOn
    <3>2. SpentOn(c0, t0) = B
      BY <3>1 DEF SpentOn
    <3>3. Cardinality(HourCells(SpentOn(c0, t0), slot)) + Hours[c0] <= AllowanceOf(c0).limit
      BY <1>2, <1>4, <1>6, <3>1 DEF HourLeft
    <3>4. Cardinality(HourCells(B, slot)) + Hours[c0] <= AllowanceOf(c).limit
      BY <3>1, <3>2, <3>3
    <3> DEFINE C == B \cup {r}
    <3> HIDE DEF A, B
    <3>5. Cardinality(HourCells(C, slot)) <= Cardinality(HourCells(B, slot)) + Hours[c0]
      <4>1. slot[r].court = c0
        BY <1>2
      <4>2. QED BY <2>1, <4>1, HoursAdd
    <3>6. A \subseteq C /\ A \in SUBSET Requests /\ C \in SUBSET Requests
          /\ \A b \in C : slot[b].court \in Courts
      BY <2>1, <2>2
    <3> HIDE DEF C
    <3>7. /\ Cardinality(HourCells(A, slot)) \in Nat /\ Cardinality(HourCells(C, slot)) \in Nat
          /\ Cardinality(HourCells(A, slot)) <= Cardinality(HourCells(C, slot))
      BY <3>6, HoursGrow
    <3>8. Cardinality(HourCells(B, slot)) \in Nat
      BY <2>1, HoursGrow
    <3>9. Cardinality(HourCells(A, slot)) <= AllowanceOf(c).limit
      BY <1>5, <2>3, <3>4, <3>5, <3>7, <3>8
    <3>10. QED BY <3>9 DEF A
  <2>6. QED BY <2>4, <2>5
<1>7. MaxActiveBookings > 0 => Cardinality(Ahead)' <= MaxActiveBookings
  <2> DEFINE A == Ahead'
             B == Ahead
             C == B \cup {r}
  <2>1. A \subseteq C /\ B \subseteq Requests
    BY DEF Ahead, OwnActive, Orderly
  <2> HIDE DEF A, B
  <2>2. Cardinality(C) <= Cardinality(B) + 1 /\ Cardinality(B) \in Nat
    BY <2>1, RequestsCount
  <2>3. A \in SUBSET Requests /\ C \in SUBSET Requests
    BY <2>1
  <2> HIDE DEF C
  <2>4. Cardinality(A) \in Nat /\ Cardinality(C) \in Nat /\ Cardinality(A) <= Cardinality(C)
    BY <2>1, <2>3, RequestsCount
  <2>5. MaxActiveBookings > 0 => Cardinality(B) < MaxActiveBookings
    BY <1>4 DEF ActiveLeft, B
  <2>6. MaxActiveBookings > 0 => Cardinality(A) <= MaxActiveBookings
    BY <1>5, <2>2, <2>4, <2>5
  <2>7. QED BY <2>6 DEF A
<1>8. ASSUME MaxPerDay > 0, NEW t \in Times PROVE Cardinality(OnDay(t))' <= MaxPerDay
  <2> DEFINE A == OnDay(t)'
             B == OnDay(t)
  <2>1. A \subseteq B \cup {r} /\ B \subseteq Requests
    BY DEF OnDay, OwnActive, Orderly
  <2>2. Cardinality(B) <= MaxPerDay
    BY <1>8 DEF AllowanceInv, Limits
  <2>3. CASE r \notin A
    <3> HIDE DEF A, B
    <3>1. A \subseteq B /\ A \in SUBSET Requests
      BY <2>1, <2>3
    <3>2. Cardinality(A) \in Nat /\ Cardinality(B) \in Nat /\ Cardinality(A) <= Cardinality(B)
      BY <2>1, <3>1, RequestsCount
    <3>3. Cardinality(A) <= MaxPerDay
      BY <1>5, <2>2, <3>2
    <3>4. QED BY <3>3 DEF A
  <2>4. CASE r \in A
    <3>1. DayOf[t0] = DayOf[t]
      BY <1>2, <2>4 DEF OnDay
    <3>2. OnDay(t0) = B
      BY <3>1 DEF OnDay
    <3>3. Cardinality(OnDay(t0)) < MaxPerDay
      BY <1>2, <1>4, <1>8 DEF DayLeft
    <3>4. Cardinality(B) < MaxPerDay
      BY <3>2, <3>3
    <3> DEFINE C == B \cup {r}
    <3> HIDE DEF A, B
    <3>5. Cardinality(C) <= Cardinality(B) + 1 /\ Cardinality(B) \in Nat
      BY <2>1, RequestsCount
    <3>6. A \in SUBSET Requests /\ C \in SUBSET Requests /\ A \subseteq C
      BY <2>1
    <3> HIDE DEF C
    <3>7. Cardinality(A) \in Nat /\ Cardinality(C) \in Nat /\ Cardinality(A) <= Cardinality(C)
      BY <3>6, RequestsCount
    <3>8. Cardinality(A) <= MaxPerDay
      BY <1>5, <3>4, <3>5, <3>7
    <3>9. QED BY <3>8 DEF A
  <2>5. QED BY <2>3, <2>4
<1>9. QED BY <1>6, <1>7, <1>8 DEF Limits

\* A booking is inserted, or refused by the index, over holds that ran out.
LEMMA InsertKeeps ==
    ASSUME AllowanceInv, NEW r \in Requests, Insert(r)
    PROVE  AllowanceInv'
<1>1. /\ call[r] = "insert" /\ call' = [call EXCEPT ![r] = "done"]
      /\ UNCHANGED <<now, member, removing, moving, marks, marked>>
  BY DEF Insert, chores
<1>2. PICK stale \in SUBSET {b \in Taking(r) : status[b] = "held"} :
          \/ /\ stale = Taking(r)
             /\ Mirrors(stale \cup {r},
                        [b \in stale \cup {r} |-> IF b = r THEN "held" ELSE "released"])
             /\ raced' = IF r \in Desk THEN raced
                         ELSE raced \cup {q \in Requests \ {r} :
                                             call[q] \in {"active", "day", "insert"}}
             /\ UNCHANGED <<slot, freely>>
          \/ /\ Mirrors(stale, [b \in stale |-> "released"])
             /\ slot' = [slot EXCEPT ![r] = Nil]
             /\ raced' = raced \ {r} /\ freely' = freely \ {r}
  BY DEF Insert
<1>3. /\ stale \subseteq Requests /\ r \notin stale /\ \A b \in stale : status[b] = "held"
      /\ status[r] = "none" /\ r \notin Spent /\ r \notin OwnActive /\ r \notin removing
      /\ moving[r] = "none"
  BY <1>1, CallsUnbooked DEF Taking, Booked, AllowanceInv, Placed
<1>4. /\ call'[r] = "done" /\ \A q \in Requests \ {r} : call'[q] = call[q]
      /\ call' \in [Requests -> {"new", "hours", "active", "day", "insert", "done"}]
  BY <1>1 DEF AllowanceInv, AllowanceTypeOK
<1>5. slot[r] \in [court: Courts, at: Times] /\ slot[r] # Nil
  BY <1>1, AllowanceAssumption DEF AllowanceInv, Placed
<1>6. HasRoom(r)'
  BY <1>4 DEF HasRoom, Waits
<1>7. now \in Times /\ now' \in Times /\ now <= now'
  BY <1>1 DEF AllowanceInv, AllowanceTypeOK, Times
<1>8. CASE /\ Mirrors(stale \cup {r},
                      [b \in stale \cup {r} |-> IF b = r THEN "held" ELSE "released"])
           /\ raced' = IF r \in Desk THEN raced
                       ELSE raced \cup {q \in Requests \ {r} :
                                           call[q] \in {"active", "day", "insert"}}
           /\ UNCHANGED <<slot, freely>>
  <2>1. PICK changed \in SUBSET Requests : changed = stale \cup {r}
    BY <1>3
  <2>2. PICK to \in [changed -> BookingStatuses \ {"none"}] :
            /\ to = [b \in stale \cup {r} |-> IF b = r THEN "held" ELSE "released"]
            /\ \A b \in changed : to[b] = IF b = r THEN "held" ELSE "released"
    <3> DEFINE f == [b \in changed |-> IF b = r THEN "held" ELSE "released"]
    <3>1. f \in [changed -> BookingStatuses \ {"none"}]
      BY DEF BookingStatuses, Spending
    <3>2. f = [b \in stale \cup {r} |-> IF b = r THEN "held" ELSE "released"]
      BY <2>1
    <3>3. \A b \in changed : f[b] = IF b = r THEN "held" ELSE "released"
      OBVIOUS
    <3> HIDE DEF f
    <3>4. QED BY <3>1, <3>2, <3>3
  <2>3. Mirrors(changed, to)
    BY <1>8, <2>1, <2>2
  <2>4. /\ status' \in [Requests -> BookingStatuses]
        /\ listed' \in [Requests -> Statuses \cup {"none"}]
        /\ unmirrored \subseteq unmirrored' /\ unmirrored' \subseteq Requests
        /\ misses' \in 0..MaxOddities
        /\ elsewhere' \subseteq Requests /\ overtaken' \subseteq Requests
        /\ \A b \in Requests :
              /\ b \in changed => status'[b] = to[b]
              /\ b \notin changed => status'[b] = status[b] /\ listed'[b] = listed[b]
        /\ ListIsTrue'
    BY <1>1, <2>3, MirrorShows
  <2>5. /\ status'[r] = "held" /\ \A b \in stale : status'[b] = "released"
        /\ \A b \in Requests \ (stale \cup {r}) : status'[b] = status[b] /\ listed'[b] = listed[b]
    BY <1>3, <2>1, <2>2, <2>4
  <2>6. raced \subseteq raced' /\ raced' \subseteq Requests /\ (r \in raced' => r \in raced)
    BY <1>8 DEF AllowanceInv, AllowanceTypeOK
  <2>7. AllowanceTypeOK'
    <3>1. \A b \in Requests : status'[b] # "none" => call'[b] = "done" /\ slot'[b] # Nil
      BY <1>3, <1>4, <1>5, <1>8, <2>5 DEF AllowanceInv, AllowanceTypeOK
    <3>2. QED BY <1>1, <1>4, <1>8, <2>4, <2>6, <3>1 DEF AllowanceInv, AllowanceTypeOK
  <2>8. Placed'
    BY <1>1, <1>3, <1>4, <1>8, <2>5 DEF AllowanceInv, Placed
  <2>9. Going'
    BY <1>1, <1>3, <2>4, <2>5 DEF AllowanceInv, AllowanceTypeOK, Going, Active
  <2>0. Moving'
    BY <1>1, <1>3, <2>4, <2>5 DEF AllowanceInv, Moving, Active
  <2>10. Orderly' \subseteq Orderly
    BY <1>1, <2>6 DEF Orderly
  <2>11. Spent' \subseteq Spent \cup {r} /\ OwnActive' \subseteq OwnActive \cup {r}
    BY <1>8, <2>5, <2>10 DEF Spent, OwnActive, Booked, Orderly, Spending, Active
  <2>12. r \in Spent' \cup OwnActive' => r \notin Desk \cup raced /\ r \notin marked
    BY <2>10 DEF Spent, OwnActive, Orderly
  <2>13. CASE r \notin Desk \cup raced
    <3>1. Waits(r, {"insert"})
      BY <1>1, <2>13 DEF Waits
    <3>2. r \in Spent' => r \notin freely
      BY <1>8 DEF Spent
    <3>3. Limits'
      BY <1>1, <1>8, <2>11, <3>1, <3>2, InsertFits
    <3>4. ASSUME NEW q \in Requests PROVE HasRoom(q)'
      <4>1. q = r \/ call'[q] \notin {"active", "day", "insert"} \/ q \in raced'
        BY <1>4, <1>8, <2>13
      <4>2. QED BY <1>4, <4>1 DEF HasRoom, Waits
    <3>5. QED BY <2>0, <2>4, <2>7, <2>8, <2>9, <3>3, <3>4 DEF AllowanceInv
  <2>14. CASE r \in Desk \cup raced
    <3>1. Shrinks
      BY <1>7, <1>8, <2>11, <2>12, <2>14 DEF Shrinks
    <3>2. Limits'
      BY <3>1, LimitsShrink
    <3>3. ASSUME NEW q \in Requests PROVE HasRoom(q)'
      <4>1. CASE q = r
        BY <1>6, <4>1
      <4>2. CASE q # r
        <5>1. HasRoom(q)
          BY DEF AllowanceInv
        <5>2. /\ HourLeft(q) => HourLeft(q)'
              /\ DayLeft(q) => DayLeft(q)'
              /\ ActiveLeft => ActiveLeft'
          BY <1>8, <3>1, LimitsShrink
        <5>3. call'[q] = call[q] /\ (q \notin raced' => q \notin raced) /\ freely' = freely
          BY <1>4, <1>8, <2>6, <4>2
        <5>4. QED BY <5>1, <5>2, <5>3 DEF HasRoom, Waits
      <4>3. QED BY <4>1, <4>2
    <3>4. QED BY <2>0, <2>4, <2>7, <2>8, <2>9, <3>2, <3>3 DEF AllowanceInv
  <2>15. QED BY <2>13, <2>14
<1>9. CASE /\ Mirrors(stale, [b \in stale |-> "released"])
           /\ slot' = [slot EXCEPT ![r] = Nil]
           /\ raced' = raced \ {r} /\ freely' = freely \ {r}
  <2>1. PICK to \in [stale -> BookingStatuses \ {"none"}] :
            to = [b \in stale |-> "released"] /\ \A b \in stale : to[b] = "released"
    <3> DEFINE f == [b \in stale |-> "released"]
    <3>1. f \in [stale -> BookingStatuses \ {"none"}] /\ \A b \in stale : f[b] = "released"
      BY DEF BookingStatuses, Spending
    <3>2. QED BY <3>1
  <2>2. Mirrors(stale, to) /\ stale \in SUBSET Requests
    BY <1>3, <1>9, <2>1
  <2>3. /\ status' \in [Requests -> BookingStatuses]
        /\ listed' \in [Requests -> Statuses \cup {"none"}]
        /\ unmirrored \subseteq unmirrored' /\ unmirrored' \subseteq Requests
        /\ misses' \in 0..MaxOddities
        /\ elsewhere' \subseteq Requests /\ overtaken' \subseteq Requests
        /\ \A b \in Requests :
              /\ b \in stale => status'[b] = to[b]
              /\ b \notin stale => status'[b] = status[b] /\ listed'[b] = listed[b]
        /\ ListIsTrue'
    BY <1>1, <2>2, MirrorShows
  <2>4. /\ \A b \in stale : status'[b] = "released"
        /\ \A b \in Requests \ stale : status'[b] = status[b] /\ listed'[b] = listed[b]
    BY <1>3, <2>1, <2>3
  <2>5. /\ slot' \in [Requests -> [court: Courts, at: Times] \cup {Nil}]
        /\ \A q \in Requests \ {r} : slot'[q] = slot[q]
    BY <1>9 DEF AllowanceInv, AllowanceTypeOK
  <2>6. AllowanceTypeOK'
    <3>1. \A b \in Requests : status'[b] # "none" => call'[b] = "done" /\ slot'[b] # Nil
      BY <1>3, <1>4, <2>4, <2>5 DEF AllowanceInv, AllowanceTypeOK
    <3>2. QED BY <1>1, <1>4, <1>9, <2>3, <2>5, <3>1 DEF AllowanceInv, AllowanceTypeOK
  <2>7. Placed'
    BY <1>1, <1>3, <1>4, <2>4, <2>5 DEF AllowanceInv, Placed
  <2>8. Going'
    BY <1>1, <1>3, <2>3, <2>4 DEF AllowanceInv, AllowanceTypeOK, Going, Active
  <2>0. Moving'
    BY <1>1, <1>3, <2>3, <2>4 DEF AllowanceInv, Moving, Active
  <2>9. Shrinks
    <3>1. \A b \in Spent' : b \in Spent /\ slot'[b] = slot[b]
      BY <1>1, <1>3, <1>9, <2>4, <2>5 DEF Spent, Booked, Orderly, Spending
    <3>2. \A b \in OwnActive' : b \in OwnActive /\ slot'[b] = slot[b]
      BY <1>1, <1>3, <1>9, <2>4, <2>5 DEF OwnActive, Orderly, Active
    <3>3. QED BY <1>7, <3>1, <3>2 DEF Shrinks
  <2>10. Limits'
    BY <2>9, LimitsShrink
  <2>11. ASSUME NEW q \in Requests \ {r} PROVE HasRoom(q)'
    <3>1. HasRoom(q)
      BY DEF AllowanceInv
    <3>2. (HourLeft(q) => HourLeft(q)') /\ (DayLeft(q) => DayLeft(q)') /\ (ActiveLeft => ActiveLeft')
      BY <2>5, <2>9, LimitsShrink
    <3>3. call'[q] = call[q] /\ (q \notin raced' => q \notin raced) /\ (q \notin freely' => q \notin freely)
      BY <1>4, <1>9
    <3>4. QED BY <3>1, <3>2, <3>3 DEF HasRoom, Waits
  <2>12. QED BY <1>6, <2>0, <2>3, <2>6, <2>7, <2>8, <2>10, <2>11 DEF AllowanceInv
<1>10. QED BY <1>2, <1>8, <1>9

\* The empty calendar.
LEMMA AllowanceStarts ==
    ASSUME AllowanceInit
    PROVE  AllowanceInv
<1>1. AllowanceTypeOK
  BY AllowanceAssumption DEF AllowanceInit, AllowanceTypeOK, Times, BookingStatuses
<1>2. Placed /\ Going /\ Moving /\ ListIsTrue
  BY DEF AllowanceInit, Placed, Going, Moving, ListIsTrue, Active
<1>3. Spent = {} /\ OwnActive = {}
  BY DEF AllowanceInit, Spent, OwnActive, Booked, Spending, Active, Orderly
<1>4. Cardinality({}) = 0
  BY FS_EmptySet
<1>5. MaxActiveBookings \in Nat /\ MaxPerDay \in Nat
  BY AllowanceAssumption
<1>6. Limits
  <2>1. ASSUME NEW c \in Courts, NEW t \in Times, AllowanceOf(c) # Nil
        PROVE  Cardinality(HourCells(SpentOn(c, t), slot)) <= AllowanceOf(c).limit
    <3>1. HourCells(SpentOn(c, t), slot) = {}
      BY <1>3 DEF HourCells, SpentOn
    <3>2. AllowanceOf(c).limit \in Nat
      BY <2>1, LimitIsNumber
    <3>3. QED BY <1>4, <3>1, <3>2
  <2>2. Cardinality(Ahead) <= MaxActiveBookings
    <3>1. Ahead = {}
      BY <1>3 DEF Ahead
    <3>2. QED BY <1>4, <1>5, <3>1
  <2>3. ASSUME NEW t \in Times PROVE Cardinality(OnDay(t)) <= MaxPerDay
    <3>1. OnDay(t) = {}
      BY <1>3 DEF OnDay
    <3>2. QED BY <1>4, <1>5, <3>1
  <2>4. QED BY <2>1, <2>2, <2>3 DEF Limits
<1>7. \A q \in Requests : HasRoom(q)
  BY DEF AllowanceInit, HasRoom, Waits
<1>8. QED BY <1>1, <1>2, <1>6, <1>7 DEF AllowanceInv

\* Every step keeps the invariant.
LEMMA AllowanceStep ==
    ASSUME AllowanceInv, [AllowanceNext]_allowanceVars
    PROVE  AllowanceInv'
<1>1. CASE Tick
  <2>1. /\ now' = now + 1 /\ now < LastTime
        /\ UNCHANGED <<member, call, slot, status, removing, moving, marks, freely, raced, marked,
                       listed, elsewhere, unmirrored, overtaken, misses>>
    BY <1>1 DEF Tick, ghosts, list, chores
  <2>2. now \in Times /\ now' \in Times /\ now <= now'
    BY <2>1, AllowanceAssumption DEF AllowanceInv, AllowanceTypeOK, Times
  <2>3. Shrinks
    BY <2>1, <2>2 DEF Shrinks, Spent, OwnActive, Booked, Orderly
  <2>4. Limits' /\ \A q \in Requests : HasRoom(q)'
    BY <2>1, <2>3, RoomStays
  <2>5. AllowanceTypeOK' /\ Placed' /\ Going' /\ Moving' /\ ListIsTrue'
    BY <2>1, <2>2 DEF AllowanceInv, AllowanceTypeOK, Placed, Going, Moving, ListIsTrue
  <2>6. QED BY <2>4, <2>5 DEF AllowanceInv
<1>2. CASE Subscribe \/ UNCHANGED allowanceVars
  <2>1. /\ member' \in BOOLEAN
        /\ UNCHANGED <<now, call, slot, status, removing, moving, marks, freely, raced, marked,
                       listed, elsewhere, unmirrored, overtaken, misses>>
    BY <1>2 DEF Subscribe, allowanceVars, ghosts, list, chores, AllowanceInv, AllowanceTypeOK
  <2>2. Shrinks
    BY <2>1 DEF Shrinks, Spent, OwnActive, Booked, Orderly, Times, AllowanceInv, AllowanceTypeOK
  <2>3. Limits' /\ \A q \in Requests : HasRoom(q)'
    BY <2>1, <2>2, RoomStays
  <2>4. AllowanceTypeOK' /\ Placed' /\ Going' /\ Moving' /\ ListIsTrue'
    BY <2>1 DEF AllowanceInv, AllowanceTypeOK, Placed, Going, Moving, ListIsTrue
  <2>5. QED BY <2>3, <2>4 DEF AllowanceInv
<1>3. ASSUME NEW r \in Requests,
             \/ CountHours(r) \/ MissPlans(r) \/ CountActive(r) \/ CountDay(r) \/ Insert(r)
             \/ \E c \in Courts, t \in SlotTimes : Ask(r, c, t)
      PROVE  AllowanceInv'
  BY <1>3, AllowanceAssumption, AskKeeps, CountHoursKeeps, MissPlansKeeps, CountActiveKeeps, CountDayKeeps, InsertKeeps
<1>4. ASSUME NEW b \in Requests,
             \/ Confirm(b) \/ Cancel(b) \/ Release(b) \/ RemoveRead(b) \/ RemoveRow(b)
             \/ MoveRead(b) \/ MoveWrite(b) \/ \E st \in Statuses : Mark(b, st)
      PROVE  AllowanceInv'
  BY <1>4, OverwriteKeeps
<1>5. QED BY <1>1, <1>2, <1>3, <1>4 DEF AllowanceNext

\* The invariant of every step of the allowance.
LEMMA AllowanceInvariance == AllowanceSpec => []AllowanceInv
<1>1. AllowanceInit => AllowanceInv
  BY AllowanceStarts
<1>2. AllowanceInv /\ [AllowanceNext]_allowanceVars => AllowanceInv'
  BY AllowanceStep
<1>3. QED BY <1>1, <1>2, PTL DEF AllowanceSpec

\* A court that an allowance counts is a court of the provider.
LEMMA CountedAreCourts == Counted \subseteq Courts
<1>1. ASSUME NEW p \in Plans PROVE Named(p) \subseteq Courts
  <2>1. p.courts \in SUBSET Courts /\ p.lines \in SUBSET Line
    BY AllowanceAssumption
  <2>2. \A l \in p.lines : l.courts \in SUBSET Courts
    BY <2>1 DEF Line
  <2>3. QED BY <2>1, <2>2 DEF Named
<1>2. QED BY <1>1 DEF Counted

\* A customer's calls of hold stand where the code may stop, with a slot of the
\* provider's where they need one, and his bookings are what hold inserted.
THEOREM AllowanceTyped == AllowanceSpec => []AllowanceTypeOK
<1>1. AllowanceInv => AllowanceTypeOK
  BY DEF AllowanceInv
<1>2. QED BY <1>1, AllowanceInvariance, PTL

\* A member books no more hours of a period than his plans include, one request
\* after the other, whatever is cancelled, played, released and booked again,
\* unless reading his plans failed.
THEOREM HoursOfAPlan == AllowanceSpec => []HoursKept
<1>1. ASSUME AllowanceInv PROVE HoursKept
  <2>1. SUFFICES ASSUME NEW c \in Counted, AllowanceOf(c) # Nil, NEW t \in Times
                 PROVE  HoursOf({b \in Booked(Spending) \cap (Orderly \ freely) :
                            /\ Window[AllowanceOf(c).period][slot[b].at]
                                  = Window[AllowanceOf(c).period][t]
                            /\ slot[b].court \in Counted
                            /\ AllowanceOf(slot[b].court) = AllowanceOf(c)})
                        <= AllowanceOf(c).limit
    BY DEF HoursKept
  <2>2. c \in Courts
    BY CountedAreCourts
  <2>3. Cardinality(HourCells(SpentOn(c, t), slot)) <= AllowanceOf(c).limit
    BY <1>1, <2>1, <2>2 DEF AllowanceInv, Limits
  <2>4. HoursOf(SpentOn(c, t)) = Cardinality(HourCells(SpentOn(c, t), slot))
    BY DEF HoursOf, HourCells
  <2>5. QED BY <2>3, <2>4 DEF SpentOn, Spent
<1>2. QED BY <1>1, AllowanceInvariance, PTL

\* The provider's policy, so many bookings to come and so many a day, holds for
\* requests that do not race.
THEOREM PolicyHolds == AllowanceSpec => []LimitsKept
<1>1. AllowanceInv => LimitsKept
  BY DEF AllowanceInv, Limits, LimitsKept, Ahead, OnDay, OwnActive
<1>2. QED BY <1>1, AllowanceInvariance, PTL

\* What holds a court is on the provider's list, and what the list shows as
\* scheduled holds one or has been released, unless a trigger failed or a move
\* wrote back the status it had loaded before.
THEOREM DayListIsTrue == AllowanceSpec => []ListIsTrue
<1>1. AllowanceInv => ListIsTrue
  BY DEF AllowanceInv
<1>2. QED BY <1>1, AllowanceInvariance, PTL
=============================================================================
