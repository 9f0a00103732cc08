--------------------------- MODULE PayoutsProofs ---------------------------
(* Proofs about Payouts, for any payouts, calls and amounts; and about         *)
(* Deliveries, for any meals, days, rows and number of calls at once.          *)
EXTENDS Payouts, Deliveries, FiniteSetTheorems, TLAPS

\* The cents of a set of payouts are finitely many, so a part of them is no
\* more than the whole.
LEMMA CentsFinite ==
    ASSUME NEW P \in SUBSET Payouts, NEW f \in [Payouts -> Nat]
    PROVE  IsFiniteSet(UNION {{p} \X (1 .. f[p]) : p \in P})
<1> DEFINE T == {{p} \X (1 .. f[p]) : p \in P}
           g == [p \in P |-> {p} \X (1 .. f[p])]
<1>1. IsFiniteSet(P)
  BY PayoutsAssumption, FS_Subset
<1>2. g \in Surjection(P, T)
  BY DEF Surjection, Range
<1>3. IsFiniteSet(T)
  <2> HIDE DEF T, g
  <2> QED BY <1>1, <1>2, FS_Surjection DEF ExistsSurjection
<1>4. ASSUME NEW t \in T PROVE IsFiniteSet(t)
  <2>1. PICK p \in P : t = {p} \X (1 .. f[p])
    OBVIOUS
  <2>2. IsFiniteSet({p})
    BY FS_Singleton
  <2>3. f[p] \in Int
    OBVIOUS
  <2>4. IsFiniteSet(1 .. f[p])
    BY <2>3, FS_Interval
  <2>5. QED BY <2>1, <2>2, <2>4, FS_Product
<1>5. QED
  <2> HIDE DEF T
  <2> QED BY <1>3, <1>4, FS_UNION DEF T

LEMMA SumMonotone ==
    ASSUME NEW Q \in SUBSET Payouts, NEW P \in SUBSET Q, NEW f \in [Payouts -> Nat]
    PROVE  SumOf(f, P) \in Nat /\ SumOf(f, Q) \in Nat /\ SumOf(f, P) <= SumOf(f, Q)
<1> DEFINE C(R) == UNION {{p} \X (1 .. f[p]) : p \in R}
<1>1. IsFiniteSet(C(P)) /\ IsFiniteSet(C(Q))
  BY CentsFinite
<1>2. C(P) \subseteq C(Q)
  OBVIOUS
<1>3. SumOf(f, P) = Cardinality(C(P)) /\ SumOf(f, Q) = Cardinality(C(Q))
  BY DEF SumOf
<1>4. QED
  <2> HIDE DEF C
  <2> QED BY <1>1, <1>2, <1>3, FS_Subset, FS_CardinalityType

\* The sum depends on the amounts of its own payouts only.
LEMMA SumCongruence ==
    ASSUME NEW P \in SUBSET Payouts, NEW f, NEW g, \A p \in P : f[p] = g[p]
    PROVE  SumOf(f, P) = SumOf(g, P)
BY DEF SumOf

LEMMA TotalNat ==
    ASSUME TypeOK PROVE Total(Committed) \in Nat
BY SumMonotone DEF TypeOK, Total, Committed

\* What no new withdrawal has joined still is within the balance.
LEMMA BalanceKept ==
    ASSUME TypeOK, TypeOK', BalanceInv, UNCHANGED <<earned, peak>>,
           Passed' \subseteq Passed, \A p \in Passed' : amount'[p] = amount[p]
    PROVE  BalanceInv'
<1>1. Passed' \subseteq Payouts /\ Passed \subseteq Payouts
  BY DEF Passed, Committed
<1>2. SumOf(amount', Passed') = SumOf(amount, Passed')
  BY <1>1, SumCongruence
<1>3. SumOf(amount, Passed') <= SumOf(amount, Passed) /\ SumOf(amount, Passed') \in Nat /\ SumOf(amount, Passed) \in Nat
  BY <1>1, SumMonotone DEF TypeOK
<1>4. QED
  BY <1>2, <1>3 DEF BalanceInv, Total, TypeOK

\* The calls entitled to a row are finitely many; fewer of them, and nothing
\* else of the row touched, keep its account of rights.
LEMMA EntitledFinite ==
    ASSUME NEW S \in SUBSET Workers
    PROVE  IsFiniteSet(S) /\ Cardinality(S) \in Nat
BY PayoutsAssumption, FS_Subset, FS_CardinalityType

LEMMA RightsKept ==
    ASSUME TypeOK, TypeOK', NEW p \in Payouts, RightsInv(p),
           sends'[p] = sends[p], approvals'[p] = approvals[p],
           kind'[p] = "instant" <=> kind[p] = "instant",
           status'[p] = "approved" => status[p] = "approved",
           Entitled(p)' \subseteq Entitled(p)
    PROVE  RightsInv(p)'
<1>1. Entitled(p) \subseteq Workers /\ Entitled(p)' \subseteq Workers
  BY DEF Entitled
<1>2. Cardinality(Entitled(p)') <= Cardinality(Entitled(p))
  BY <1>1, EntitledFinite, FS_Subset
<1>3. Cardinality(Entitled(p)') \in Nat /\ Cardinality(Entitled(p)) \in Nat
  BY <1>1, EntitledFinite
<1>4. QED
  BY <1>2, <1>3 DEF RightsInv, TypeOK

\* A call in whose hands nothing moved keeps its invariant.
LEMMA HandKept ==
    ASSUME TypeOK, NEW v \in Workers, NEW p \in Payouts, HandInv(v, p),
           UNCHANGED <<pc[v], payout[v], verdict[v]>>,
           overruled \subseteq overruled',
           InHand(v, p) => UNCHANGED <<status[p], kind[p], sends[p]>>
                           /\ (p \in gone <=> p \in gone') /\ (p \in unclear <=> p \in unclear'),
           \A u \in Workers : payout'[u] = p => payout[u] = p \/ ~InHand(v, p)
    PROVE  HandInv(v, p)'
BY DEF HandInv, InHand, Claimed

\* One lemma per action: the types, the calls, what they have in hand, the rows,
\* and then the money: what left, the balance, the rights to send.
LEMMA RequestInv ==
    ASSUME IInv, NEW w \in Workers, NEW q \in Payouts, NEW cents \in Amounts, Request(w, q, cents)
    PROVE  IInv'
<1>1. TypeOK'
  BY PayoutsAssumption DEF table, worker, transfers, admin, Request, Begin, IInv, TypeOK, CallInv, CommittedStatus
<1>2. ASSUME NEW v \in Workers PROVE CallInv(v)'
  BY PayoutsAssumption DEF table, worker, transfers, admin, Request, Begin, IInv, TypeOK, CallInv, RowInv, HandInv, InHand, Fresh, Unborn, Claimed, CommittedStatus, BalanceInv
<1>3. ASSUME NEW v \in Workers, NEW p \in Payouts PROVE HandInv(v, p)'
  BY PayoutsAssumption DEF table, worker, transfers, admin, Request, Begin, IInv, TypeOK, CallInv, RowInv, HandInv, InHand, Fresh, Unborn, Claimed
<1>4. ASSUME NEW p \in Payouts PROVE RowInv(p)'
  BY DEF table, worker, transfers, admin, Request, Begin, IInv, TypeOK, CallInv, RowInv, HandInv, InHand, Fresh, Unborn
<1>5. MoneyAccounted'
  BY DEF table, worker, transfers, admin, Request, Begin, IInv, TypeOK, CallInv, RowInv, HandInv, InHand, Claimed, Unborn, Fresh, MoneyAccounted
<1>6. BalanceInv'
  <2>1. Passed' \subseteq Passed
    BY DEF table, worker, transfers, admin, Request, Begin, IInv, TypeOK, CallInv, RowInv, HandInv, InHand, Claimed, Unborn, Fresh, Passed, Committed, CommittedStatus
  <2>2. \A p \in Passed' : amount'[p] = amount[p]
    BY <2>1 DEF table, worker, transfers, admin, Request, Begin, IInv, TypeOK, CallInv, Fresh, Passed, Committed
  <2>3. UNCHANGED <<earned, peak>>
    BY DEF Request, Begin
  <2>4. QED
    BY <1>1, <2>1, <2>2, <2>3, BalanceKept DEF IInv
<1>7. ASSUME NEW p \in Payouts PROVE RightsInv(p)'
  <2>1. Entitled(p)' \subseteq Entitled(p)
    BY DEF table, worker, transfers, admin, Request, Begin, IInv, TypeOK, CallInv, Entitled
  <2>2. /\ sends'[p] = sends[p] /\ approvals'[p] = approvals[p]
        /\ kind'[p] = "instant" <=> kind[p] = "instant"
        /\ status'[p] = "approved" => status[p] = "approved"
    BY DEF table, worker, transfers, admin, Request, Begin, IInv, TypeOK, CallInv, Fresh
  <2>3. QED
    BY <1>1, <2>1, <2>2, RightsKept DEF IInv
<1>8. QED
  BY <1>1, <1>2, <1>3, <1>4, <1>5, <1>6, <1>7 DEF IInv

LEMMA CheckInv ==
    ASSUME IInv, NEW w \in Workers, Check(w)
    PROVE  IInv'
<1>1. TypeOK'
  BY PayoutsAssumption DEF table, worker, transfers, admin, Check, Return, IInv, TypeOK, CallInv, CommittedStatus
<1>2. ASSUME NEW v \in Workers PROVE CallInv(v)'
  BY PayoutsAssumption DEF table, worker, transfers, admin, Check, Return, IInv, TypeOK, CallInv, RowInv, HandInv, InHand, Fresh, Unborn, Claimed, CommittedStatus
<1>3. ASSUME NEW v \in Workers, NEW p \in Payouts PROVE HandInv(v, p)'
  BY PayoutsAssumption DEF table, worker, transfers, admin, Check, Return, IInv, TypeOK, CallInv, RowInv, HandInv, InHand, Fresh, Unborn, Claimed
<1>4. ASSUME NEW p \in Payouts PROVE RowInv(p)'
  BY DEF table, worker, transfers, admin, Check, Return, IInv, TypeOK, CallInv, RowInv, HandInv, InHand, Fresh, Unborn
<1>5. MoneyAccounted'
  BY DEF table, worker, transfers, admin, Check, Return, IInv, TypeOK, CallInv, RowInv, HandInv, InHand, Claimed, Unborn, Fresh, MoneyAccounted
<1>6. BalanceInv'
  <2>1. Passed' \subseteq Passed
    BY DEF table, worker, transfers, admin, Check, Return, IInv, TypeOK, CallInv, RowInv, HandInv, InHand, Claimed, Unborn, Fresh, Passed, Committed, CommittedStatus
  <2>2. \A p \in Passed' : amount'[p] = amount[p]
    BY <2>1 DEF table, worker, transfers, admin, Check, Return, IInv, TypeOK, CallInv, Fresh, Passed, Committed
  <2>3. UNCHANGED <<earned, peak>>
    BY DEF Check, Return
  <2>4. QED
    BY <1>1, <2>1, <2>2, <2>3, BalanceKept DEF IInv
<1>7. ASSUME NEW p \in Payouts PROVE RightsInv(p)'
  <2>1. CASE p = payout[w] /\ kind'[p] = "instant"
    <3>1. Entitled(p) = {} /\ Entitled(p)' = {w}
      BY <2>1 DEF table, worker, transfers, admin, Check, Return, IInv, TypeOK, CallInv, HandInv, InHand, Unborn, Entitled
    <3>2. kind[p] # "instant"
      BY <2>1 DEF table, worker, transfers, admin, Check, Return, IInv, TypeOK, CallInv
    <3>3. Cardinality(Entitled(p)) = 0 /\ Cardinality(Entitled(p)') = 1
      BY <3>1, FS_EmptySet, FS_Singleton
    <3>4. UNCHANGED <<status, sends, approvals>>
      BY DEF table, worker, transfers, admin, Check, Return
    <3>5. QED
      BY <2>1, <3>2, <3>3, <3>4 DEF IInv, TypeOK, RightsInv
  <2>2. CASE ~(p = payout[w] /\ kind'[p] = "instant")
    <3>1. /\ sends'[p] = sends[p] /\ approvals'[p] = approvals[p]
          /\ kind'[p] = "instant" <=> kind[p] = "instant"
          /\ status'[p] = "approved" => status[p] = "approved"
      BY <2>2 DEF table, worker, transfers, admin, Check, Return, IInv, TypeOK, CallInv, Fresh
    <3>2. Entitled(p)' \subseteq Entitled(p)
      BY <2>2, <3>1 DEF table, worker, transfers, admin, Check, Return, IInv, TypeOK, CallInv, Entitled
    <3>3. QED
      BY <1>1, <3>1, <3>2, RightsKept DEF IInv
  <2>3. QED
    BY <2>1, <2>2
<1>8. QED
  BY <1>1, <1>2, <1>3, <1>4, <1>5, <1>6, <1>7 DEF IInv

LEMMA ClaimInv ==
    ASSUME IInv, NEW w \in Workers, Claim(w)
    PROVE  IInv'
<1>1. TypeOK'
  BY PayoutsAssumption DEF table, worker, transfers, admin, Claim, Return, IInv, TypeOK, CallInv, CommittedStatus
<1>2. ASSUME NEW v \in Workers PROVE CallInv(v)'
  BY PayoutsAssumption DEF table, worker, transfers, admin, Claim, Return, IInv, TypeOK, CallInv, RowInv, HandInv, InHand, Fresh, Unborn, Claimed, CommittedStatus
<1>3. ASSUME NEW v \in Workers, NEW p \in Payouts PROVE HandInv(v, p)'
  BY PayoutsAssumption DEF table, worker, transfers, admin, Claim, Return, IInv, TypeOK, CallInv, RowInv, HandInv, InHand, Fresh, Unborn, Claimed
<1>4. ASSUME NEW p \in Payouts PROVE RowInv(p)'
  BY DEF table, worker, transfers, admin, Claim, Return, IInv, TypeOK, CallInv, RowInv, HandInv, InHand, Fresh, Unborn
<1>5. MoneyAccounted'
  BY DEF table, worker, transfers, admin, Claim, Return, IInv, TypeOK, CallInv, RowInv, HandInv, InHand, Claimed, Unborn, Fresh, MoneyAccounted
<1>6. BalanceInv'
  <2>1. Passed' \subseteq Passed
    BY DEF table, worker, transfers, admin, Claim, Return, IInv, TypeOK, CallInv, RowInv, HandInv, InHand, Claimed, Unborn, Fresh, Passed, Committed, CommittedStatus
  <2>2. \A p \in Passed' : amount'[p] = amount[p]
    BY <2>1 DEF table, worker, transfers, admin, Claim, Return, IInv, TypeOK, CallInv, Fresh, Passed, Committed
  <2>3. UNCHANGED <<earned, peak>>
    BY DEF Claim, Return
  <2>4. QED
    BY <1>1, <2>1, <2>2, <2>3, BalanceKept DEF IInv
<1>7. ASSUME NEW p \in Payouts PROVE RightsInv(p)'
  <2>1. Entitled(p)' \subseteq Entitled(p)
    BY DEF table, worker, transfers, admin, Claim, Return, IInv, TypeOK, CallInv, Entitled
  <2>2. /\ sends'[p] = sends[p] /\ approvals'[p] = approvals[p]
        /\ kind'[p] = "instant" <=> kind[p] = "instant"
        /\ status'[p] = "approved" => status[p] = "approved"
    BY DEF table, worker, transfers, admin, Claim, Return, IInv, TypeOK, CallInv, Fresh
  <2>3. QED
    BY <1>1, <2>1, <2>2, RightsKept DEF IInv
<1>8. QED
  BY <1>1, <1>2, <1>3, <1>4, <1>5, <1>6, <1>7 DEF IInv

LEMMA RereadInv ==
    ASSUME IInv, NEW w \in Workers, Reread(w)
    PROVE  IInv'
<1>1. TypeOK'
  BY PayoutsAssumption DEF table, worker, transfers, admin, Reread, IInv, TypeOK, CallInv, CommittedStatus
<1>2. ASSUME NEW v \in Workers PROVE CallInv(v)'
  BY PayoutsAssumption DEF table, worker, transfers, admin, Reread, IInv, TypeOK, CallInv, RowInv, HandInv, InHand, Fresh, Unborn, Claimed, CommittedStatus, BalanceInv
<1>3. ASSUME NEW v \in Workers, NEW p \in Payouts PROVE HandInv(v, p)'
  BY PayoutsAssumption DEF table, worker, transfers, admin, Reread, IInv, TypeOK, CallInv, RowInv, HandInv, InHand, Fresh, Unborn, Claimed
<1>4. ASSUME NEW p \in Payouts PROVE RowInv(p)'
  BY DEF table, worker, transfers, admin, Reread, IInv, TypeOK, CallInv, RowInv, HandInv, InHand, Fresh, Unborn
<1>5. MoneyAccounted'
  BY DEF table, worker, transfers, admin, Reread, IInv, TypeOK, CallInv, RowInv, HandInv, InHand, Claimed, Unborn, Fresh, MoneyAccounted
<1>6. BalanceInv'
  <2>1. Passed' \subseteq Passed
    BY DEF table, worker, transfers, admin, Reread, IInv, TypeOK, CallInv, RowInv, HandInv, InHand, Claimed, Unborn, Fresh, Passed, Committed, CommittedStatus
  <2>2. \A p \in Passed' : amount'[p] = amount[p]
    BY <2>1 DEF table, worker, transfers, admin, Reread, IInv, TypeOK, CallInv, Fresh, Passed, Committed
  <2>3. UNCHANGED <<earned, peak>>
    BY DEF Reread
  <2>4. QED
    BY <1>1, <2>1, <2>2, <2>3, BalanceKept DEF IInv
<1>7. ASSUME NEW p \in Payouts PROVE RightsInv(p)'
  <2>1. Entitled(p)' \subseteq Entitled(p)
    BY DEF table, worker, transfers, admin, Reread, IInv, TypeOK, CallInv, Entitled
  <2>2. /\ sends'[p] = sends[p] /\ approvals'[p] = approvals[p]
        /\ kind'[p] = "instant" <=> kind[p] = "instant"
        /\ status'[p] = "approved" => status[p] = "approved"
    BY DEF table, worker, transfers, admin, Reread, IInv, TypeOK, CallInv, Fresh
  <2>3. QED
    BY <1>1, <2>1, <2>2, RightsKept DEF IInv
<1>8. QED
  BY <1>1, <1>2, <1>3, <1>4, <1>5, <1>6, <1>7 DEF IInv

LEMMA CompareInv ==
    ASSUME IInv, NEW w \in Workers, Compare(w)
    PROVE  IInv'
<1>1. TypeOK'
  BY PayoutsAssumption DEF table, worker, transfers, admin, Compare, CompareWith, IInv, TypeOK, CallInv, CommittedStatus
<1>2. ASSUME NEW v \in Workers PROVE CallInv(v)'
  BY PayoutsAssumption DEF table, worker, transfers, admin, Compare, CompareWith, IInv, TypeOK, CallInv, RowInv, HandInv, InHand, Fresh, Unborn, Claimed, CommittedStatus
<1>3. ASSUME NEW v \in Workers, NEW p \in Payouts PROVE HandInv(v, p)'
  BY PayoutsAssumption DEF table, worker, transfers, admin, Compare, CompareWith, IInv, TypeOK, CallInv, RowInv, HandInv, InHand, Fresh, Unborn, Claimed
<1>4. ASSUME NEW p \in Payouts PROVE RowInv(p)'
  BY DEF table, worker, transfers, admin, Compare, CompareWith, IInv, TypeOK, CallInv, RowInv, HandInv, InHand, Fresh, Unborn
<1>5. MoneyAccounted'
  BY DEF table, worker, transfers, admin, Compare, CompareWith, IInv, TypeOK, CallInv, RowInv, HandInv, InHand, Claimed, Unborn, Fresh, MoneyAccounted
<1>6. BalanceInv'
  <2>1. CASE Total(Committed) <= seen[w]
    <3>1. Passed' \subseteq Committed /\ Committed \subseteq Payouts
      BY DEF table, worker, transfers, admin, Compare, CompareWith, Passed, Committed
    <3>2. Total(Passed)' \in Nat /\ Total(Passed)' <= Total(Committed) /\ Total(Committed) \in Nat
      <4>1. SumOf(amount, Passed') \in Nat /\ SumOf(amount, Passed') <= SumOf(amount, Committed) /\ SumOf(amount, Committed) \in Nat
        BY <3>1, SumMonotone DEF IInv, TypeOK
      <4>2. amount' = amount
        BY DEF table, worker, transfers, admin, Compare, CompareWith
      <4>3. QED
        BY <4>1, <4>2 DEF Total
    <3>3. seen[w] <= peak /\ UNCHANGED <<earned, peak>> /\ earned <= peak
      BY DEF table, worker, transfers, admin, Compare, CompareWith, IInv, CallInv, BalanceInv
    <3>4. QED
      BY <2>1, <3>2, <3>3 DEF IInv, TypeOK, BalanceInv
  <2>2. CASE ~(Total(Committed) <= seen[w])
    <3>1. Passed' \subseteq Passed /\ UNCHANGED <<earned, peak, amount>>
      BY <2>2, TotalNat DEF table, worker, transfers, admin, Compare, CompareWith, IInv, TypeOK, Passed, Committed
    <3>2. QED
      BY <1>1, <3>1, BalanceKept DEF IInv
  <2>3. QED
    BY <2>1, <2>2
<1>7. ASSUME NEW p \in Payouts PROVE RightsInv(p)'
  <2>1. Entitled(p)' \subseteq Entitled(p)
    BY DEF table, worker, transfers, admin, Compare, CompareWith, IInv, TypeOK, CallInv, Entitled
  <2>2. /\ sends'[p] = sends[p] /\ approvals'[p] = approvals[p]
        /\ kind'[p] = "instant" <=> kind[p] = "instant"
        /\ status'[p] = "approved" => status[p] = "approved"
    BY DEF table, worker, transfers, admin, Compare, CompareWith, IInv, TypeOK, CallInv, Fresh
  <2>3. QED
    BY <1>1, <2>1, <2>2, RightsKept DEF IInv
<1>8. QED
  BY <1>1, <1>2, <1>3, <1>4, <1>5, <1>6, <1>7 DEF IInv

LEMMA PayInv ==
    ASSUME IInv, NEW w \in Workers, Pay(w)
    PROVE  IInv'
<1>1. TypeOK'
  BY PayoutsAssumption DEF table, worker, transfers, admin, Pay, PayThen, Answer, IInv, TypeOK, CallInv, CommittedStatus
<1>2. ASSUME NEW v \in Workers PROVE CallInv(v)'
  BY PayoutsAssumption DEF table, worker, transfers, admin, Pay, PayThen, Answer, IInv, TypeOK, CallInv, RowInv, HandInv, InHand, Fresh, Unborn, Claimed, CommittedStatus
<1>3. ASSUME NEW v \in Workers, NEW p \in Payouts PROVE HandInv(v, p)'
  BY PayoutsAssumption DEF table, worker, transfers, admin, Pay, PayThen, Answer, IInv, TypeOK, CallInv, RowInv, HandInv, InHand, Fresh, Unborn, Claimed
<1>4. ASSUME NEW p \in Payouts PROVE RowInv(p)'
  BY DEF table, worker, transfers, admin, Pay, PayThen, Answer, IInv, TypeOK, CallInv, RowInv, HandInv, InHand, Fresh, Unborn
<1>5. MoneyAccounted'
  BY DEF table, worker, transfers, admin, Pay, PayThen, Answer, IInv, TypeOK, CallInv, RowInv, HandInv, InHand, Claimed, Unborn, Fresh, MoneyAccounted
<1>6. BalanceInv'
  <2>1. Passed' \subseteq Passed
    BY DEF table, worker, transfers, admin, Pay, PayThen, Answer, IInv, TypeOK, CallInv, RowInv, HandInv, InHand, Claimed, Unborn, Fresh, Passed, Committed, CommittedStatus
  <2>2. \A p \in Passed' : amount'[p] = amount[p]
    BY <2>1 DEF table, worker, transfers, admin, Pay, PayThen, Answer, IInv, TypeOK, CallInv, Fresh, Passed, Committed
  <2>3. UNCHANGED <<earned, peak>>
    BY DEF Pay, PayThen, Answer
  <2>4. QED
    BY <1>1, <2>1, <2>2, <2>3, BalanceKept DEF IInv
<1>7. ASSUME NEW p \in Payouts PROVE RightsInv(p)'
  <2>1. CASE p = payout[w]
    <3>1. Entitled(p)' = Entitled(p) \ {w} /\ w \in Entitled(p) /\ Entitled(p) \subseteq Workers
      BY <2>1 DEF table, worker, transfers, admin, Pay, PayThen, Answer, IInv, TypeOK, CallInv, Entitled
    <3>2. Cardinality(Entitled(p)') = Cardinality(Entitled(p)) - 1 /\ Cardinality(Entitled(p)) \in Nat
      BY <3>1, EntitledFinite, FS_RemoveElement
    <3>3. sends'[p] = sends[p] + 1 /\ UNCHANGED <<status, kind, approvals>>
      BY <2>1 DEF table, worker, transfers, admin, Pay, PayThen, Answer, IInv, TypeOK, CallInv
    <3>4. QED
      BY <3>2, <3>3 DEF IInv, TypeOK, RightsInv
  <2>2. CASE p # payout[w]
    <3>1. Entitled(p)' \subseteq Entitled(p)
      BY <2>2 DEF table, worker, transfers, admin, Pay, PayThen, Answer, IInv, TypeOK, CallInv, Entitled
    <3>2. /\ sends'[p] = sends[p] /\ approvals'[p] = approvals[p]
          /\ kind'[p] = "instant" <=> kind[p] = "instant"
          /\ status'[p] = "approved" => status[p] = "approved"
      BY <2>2 DEF table, worker, transfers, admin, Pay, PayThen, Answer, IInv, TypeOK, CallInv
    <3>3. QED
      BY <1>1, <3>1, <3>2, RightsKept DEF IInv
  <2>3. QED
    BY <2>1, <2>2
<1>8. QED
  BY <1>1, <1>2, <1>3, <1>4, <1>5, <1>6, <1>7 DEF IInv

LEMMA LandInv ==
    ASSUME IInv, NEW w \in Workers, Land(w)
    PROVE  IInv'
<1>1. TypeOK'
  BY PayoutsAssumption DEF table, worker, transfers, admin, Land, Return, Exists, IInv, TypeOK, CallInv, CommittedStatus
<1>2. ASSUME NEW v \in Workers PROVE CallInv(v)'
  BY PayoutsAssumption DEF table, worker, transfers, admin, Land, Return, Exists, IInv, TypeOK, CallInv, RowInv, HandInv, InHand, Fresh, Unborn, Claimed, CommittedStatus
<1>3. ASSUME NEW v \in Workers, NEW p \in Payouts PROVE HandInv(v, p)'
  BY PayoutsAssumption DEF table, worker, transfers, admin, Land, Return, Exists, IInv, TypeOK, CallInv, RowInv, HandInv, InHand, Fresh, Unborn, Claimed
<1>4. ASSUME NEW p \in Payouts PROVE RowInv(p)'
  BY DEF table, worker, transfers, admin, Land, Return, Exists, IInv, TypeOK, CallInv, RowInv, HandInv, InHand, Fresh, Unborn
<1>5. MoneyAccounted'
  BY DEF table, worker, transfers, admin, Land, Return, Exists, IInv, TypeOK, CallInv, RowInv, HandInv, InHand, Claimed, Unborn, Fresh, MoneyAccounted
<1>6. BalanceInv'
  <2>1. Passed' \subseteq Passed
    BY DEF table, worker, transfers, admin, Land, Return, Exists, IInv, TypeOK, CallInv, RowInv, HandInv, InHand, Claimed, Unborn, Fresh, Passed, Committed, CommittedStatus
  <2>2. \A p \in Passed' : amount'[p] = amount[p]
    BY <2>1 DEF table, worker, transfers, admin, Land, Return, Exists, IInv, TypeOK, CallInv, Fresh, Passed, Committed
  <2>3. UNCHANGED <<earned, peak>>
    BY DEF Land, Return, Exists
  <2>4. QED
    BY <1>1, <2>1, <2>2, <2>3, BalanceKept DEF IInv
<1>7. ASSUME NEW p \in Payouts PROVE RightsInv(p)'
  <2>1. Entitled(p)' \subseteq Entitled(p)
    BY DEF table, worker, transfers, admin, Land, Return, Exists, IInv, TypeOK, CallInv, Entitled
  <2>2. /\ sends'[p] = sends[p] /\ approvals'[p] = approvals[p]
        /\ kind'[p] = "instant" <=> kind[p] = "instant"
        /\ status'[p] = "approved" => status[p] = "approved"
    BY DEF table, worker, transfers, admin, Land, Return, Exists, IInv, TypeOK, CallInv, Fresh
  <2>3. QED
    BY <1>1, <2>1, <2>2, RightsKept DEF IInv
<1>8. QED
  BY <1>1, <1>2, <1>3, <1>4, <1>5, <1>6, <1>7 DEF IInv

LEMMA ReadApprovedInv ==
    ASSUME IInv, NEW w \in Workers, NEW q \in Payouts, ReadApproved(w, q)
    PROVE  IInv'
<1>1. TypeOK'
  BY PayoutsAssumption DEF table, worker, transfers, admin, ReadApproved, Begin, IInv, TypeOK, CallInv, CommittedStatus
<1>2. ASSUME NEW v \in Workers PROVE CallInv(v)'
  BY PayoutsAssumption DEF table, worker, transfers, admin, ReadApproved, Begin, IInv, TypeOK, CallInv, RowInv, HandInv, InHand, Fresh, Unborn, Claimed, CommittedStatus
<1>3. ASSUME NEW v \in Workers, NEW p \in Payouts PROVE HandInv(v, p)'
  BY PayoutsAssumption DEF table, worker, transfers, admin, ReadApproved, Begin, IInv, TypeOK, CallInv, RowInv, HandInv, InHand, Fresh, Unborn, Claimed
<1>4. ASSUME NEW p \in Payouts PROVE RowInv(p)'
  BY DEF table, worker, transfers, admin, ReadApproved, Begin, IInv, TypeOK, CallInv, RowInv, HandInv, InHand, Fresh, Unborn
<1>5. MoneyAccounted'
  BY DEF table, worker, transfers, admin, ReadApproved, Begin, IInv, TypeOK, CallInv, RowInv, HandInv, InHand, Claimed, Unborn, Fresh, MoneyAccounted
<1>6. BalanceInv'
  <2>1. Passed' \subseteq Passed
    BY DEF table, worker, transfers, admin, ReadApproved, Begin, IInv, TypeOK, CallInv, RowInv, HandInv, InHand, Claimed, Unborn, Fresh, Passed, Committed, CommittedStatus
  <2>2. \A p \in Passed' : amount'[p] = amount[p]
    BY <2>1 DEF table, worker, transfers, admin, ReadApproved, Begin, IInv, TypeOK, CallInv, Fresh, Passed, Committed
  <2>3. UNCHANGED <<earned, peak>>
    BY DEF ReadApproved, Begin
  <2>4. QED
    BY <1>1, <2>1, <2>2, <2>3, BalanceKept DEF IInv
<1>7. ASSUME NEW p \in Payouts PROVE RightsInv(p)'
  <2>1. Entitled(p)' \subseteq Entitled(p)
    BY DEF table, worker, transfers, admin, ReadApproved, Begin, IInv, TypeOK, CallInv, Entitled
  <2>2. /\ sends'[p] = sends[p] /\ approvals'[p] = approvals[p]
        /\ kind'[p] = "instant" <=> kind[p] = "instant"
        /\ status'[p] = "approved" => status[p] = "approved"
    BY DEF table, worker, transfers, admin, ReadApproved, Begin, IInv, TypeOK, CallInv, Fresh
  <2>3. QED
    BY <1>1, <2>1, <2>2, RightsKept DEF IInv
<1>8. QED
  BY <1>1, <1>2, <1>3, <1>4, <1>5, <1>6, <1>7 DEF IInv

LEMMA LockInv ==
    ASSUME IInv, NEW w \in Workers, Lock(w)
    PROVE  IInv'
<1>1. TypeOK'
  BY PayoutsAssumption DEF table, worker, transfers, admin, Lock, LockFrom, Return, IInv, TypeOK, CallInv, CommittedStatus
<1>2. ASSUME NEW v \in Workers PROVE CallInv(v)'
  BY PayoutsAssumption DEF table, worker, transfers, admin, Lock, LockFrom, Return, IInv, TypeOK, CallInv, RowInv, HandInv, InHand, Fresh, Unborn, Claimed, CommittedStatus
<1>3. ASSUME NEW v \in Workers, NEW p \in Payouts PROVE HandInv(v, p)'
  BY PayoutsAssumption DEF table, worker, transfers, admin, Lock, LockFrom, Return, IInv, TypeOK, CallInv, RowInv, HandInv, InHand, Fresh, Unborn, Claimed
<1>4. ASSUME NEW p \in Payouts PROVE RowInv(p)'
  BY DEF table, worker, transfers, admin, Lock, LockFrom, Return, IInv, TypeOK, CallInv, RowInv, HandInv, InHand, Fresh, Unborn
<1>5. MoneyAccounted'
  BY DEF table, worker, transfers, admin, Lock, LockFrom, Return, IInv, TypeOK, CallInv, RowInv, HandInv, InHand, Claimed, Unborn, Fresh, MoneyAccounted
<1>6. BalanceInv'
  <2>1. Passed' \subseteq Passed
    BY DEF table, worker, transfers, admin, Lock, LockFrom, Return, IInv, TypeOK, CallInv, RowInv, HandInv, InHand, Claimed, Unborn, Fresh, Passed, Committed, CommittedStatus
  <2>2. \A p \in Passed' : amount'[p] = amount[p]
    BY <2>1 DEF table, worker, transfers, admin, Lock, LockFrom, Return, IInv, TypeOK, CallInv, Fresh, Passed, Committed
  <2>3. UNCHANGED <<earned, peak>>
    BY DEF Lock, LockFrom, Return
  <2>4. QED
    BY <1>1, <2>1, <2>2, <2>3, BalanceKept DEF IInv
<1>7. ASSUME NEW p \in Payouts PROVE RightsInv(p)'
  <2>1. CASE p = payout[w]
    <3>1. CASE status[p] = "approved"
      <4>1. Entitled(p)' = Entitled(p) \cup {w} /\ w \notin Entitled(p) /\ Entitled(p) \subseteq Workers
        BY <2>1, <3>1 DEF table, worker, transfers, admin, Lock, LockFrom, Return, IInv, TypeOK, CallInv, Entitled
      <4>2. Cardinality(Entitled(p)') = Cardinality(Entitled(p)) + 1 /\ Cardinality(Entitled(p)) \in Nat
        BY <4>1, EntitledFinite, FS_AddElement
      <4>3. status'[p] = "sending" /\ UNCHANGED <<sends, kind, approvals>>
        BY <2>1, <3>1 DEF table, worker, transfers, admin, Lock, LockFrom, Return, IInv, TypeOK, CallInv
      <4>4. QED
        BY <3>1, <4>2, <4>3 DEF IInv, TypeOK, RightsInv
    <3>2. CASE status[p] # "approved"
      <4>1. Entitled(p)' \subseteq Entitled(p) /\ UNCHANGED <<status, sends, kind, approvals>>
        BY <2>1, <3>2 DEF table, worker, transfers, admin, Lock, LockFrom, Return, IInv, TypeOK, CallInv, Entitled
      <4>2. QED
        BY <1>1, <4>1, RightsKept DEF IInv
    <3>3. QED
      BY <3>1, <3>2
  <2>2. CASE p # payout[w]
    <3>1. Entitled(p)' \subseteq Entitled(p)
      BY <2>2 DEF table, worker, transfers, admin, Lock, LockFrom, Return, IInv, TypeOK, CallInv, Entitled
    <3>2. /\ sends'[p] = sends[p] /\ approvals'[p] = approvals[p]
          /\ kind'[p] = "instant" <=> kind[p] = "instant"
          /\ status'[p] = "approved" => status[p] = "approved"
      BY <2>2 DEF table, worker, transfers, admin, Lock, LockFrom, Return, IInv, TypeOK, CallInv
    <3>3. QED
      BY <1>1, <3>1, <3>2, RightsKept DEF IInv
  <2>3. QED
    BY <2>1, <2>2
<1>8. QED
  BY <1>1, <1>2, <1>3, <1>4, <1>5, <1>6, <1>7 DEF IInv

LEMMA SettleInv ==
    ASSUME IInv, NEW w \in Workers, NEW q \in Payouts, Settle(w, q)
    PROVE  IInv'
<1>1. TypeOK'
  BY PayoutsAssumption DEF table, worker, transfers, admin, Settle, Begin, IInv, TypeOK, CallInv, CommittedStatus
<1>2. ASSUME NEW v \in Workers PROVE CallInv(v)'
  BY PayoutsAssumption DEF table, worker, transfers, admin, Settle, Begin, IInv, TypeOK, CallInv, RowInv, HandInv, InHand, Fresh, Unborn, Claimed, CommittedStatus, BalanceInv
<1>3. ASSUME NEW v \in Workers, NEW p \in Payouts PROVE HandInv(v, p)'
  BY PayoutsAssumption DEF table, worker, transfers, admin, Settle, Begin, IInv, TypeOK, CallInv, RowInv, HandInv, InHand, Fresh, Unborn, Claimed
<1>4. ASSUME NEW p \in Payouts PROVE RowInv(p)'
  BY DEF table, worker, transfers, admin, Settle, Begin, IInv, TypeOK, CallInv, RowInv, HandInv, InHand, Fresh, Unborn
<1>5. MoneyAccounted'
  BY DEF table, worker, transfers, admin, Settle, Begin, IInv, TypeOK, CallInv, RowInv, HandInv, InHand, Claimed, Unborn, Fresh, MoneyAccounted
<1>6. BalanceInv'
  <2>1. Passed' \subseteq Passed
    BY DEF table, worker, transfers, admin, Settle, Begin, IInv, TypeOK, CallInv, RowInv, HandInv, InHand, Claimed, Unborn, Fresh, Passed, Committed, CommittedStatus
  <2>2. \A p \in Passed' : amount'[p] = amount[p]
    BY <2>1 DEF table, worker, transfers, admin, Settle, Begin, IInv, TypeOK, CallInv, Fresh, Passed, Committed
  <2>3. UNCHANGED <<earned, peak>>
    BY DEF Settle, Begin
  <2>4. QED
    BY <1>1, <2>1, <2>2, <2>3, BalanceKept DEF IInv
<1>7. ASSUME NEW p \in Payouts PROVE RightsInv(p)'
  <2>1. Entitled(p)' \subseteq Entitled(p)
    BY DEF table, worker, transfers, admin, Settle, Begin, IInv, TypeOK, CallInv, Entitled
  <2>2. /\ sends'[p] = sends[p] /\ approvals'[p] = approvals[p]
        /\ kind'[p] = "instant" <=> kind[p] = "instant"
        /\ status'[p] = "approved" => status[p] = "approved"
    BY DEF table, worker, transfers, admin, Settle, Begin, IInv, TypeOK, CallInv, Fresh
  <2>3. QED
    BY <1>1, <2>1, <2>2, RightsKept DEF IInv
<1>8. QED
  BY <1>1, <1>2, <1>3, <1>4, <1>5, <1>6, <1>7 DEF IInv

LEMMA OutstandingInv ==
    ASSUME IInv, NEW w \in Workers, Outstanding(w)
    PROVE  IInv'
<1>1. TypeOK'
  BY PayoutsAssumption, TotalNat DEF table, worker, transfers, admin, Outstanding, Return, IInv, TypeOK, CallInv, CommittedStatus
<1>2. ASSUME NEW v \in Workers PROVE CallInv(v)'
  BY PayoutsAssumption DEF table, worker, transfers, admin, Outstanding, Return, IInv, TypeOK, CallInv, RowInv, HandInv, InHand, Fresh, Unborn, Claimed, CommittedStatus
<1>3. ASSUME NEW v \in Workers, NEW p \in Payouts PROVE HandInv(v, p)'
  BY PayoutsAssumption DEF table, worker, transfers, admin, Outstanding, Return, IInv, TypeOK, CallInv, RowInv, HandInv, InHand, Fresh, Unborn, Claimed
<1>4. ASSUME NEW p \in Payouts PROVE RowInv(p)'
  BY DEF table, worker, transfers, admin, Outstanding, Return, IInv, TypeOK, CallInv, RowInv, HandInv, InHand, Fresh, Unborn
<1>5. MoneyAccounted'
  BY DEF table, worker, transfers, admin, Outstanding, Return, IInv, TypeOK, CallInv, RowInv, HandInv, InHand, Claimed, Unborn, Fresh, MoneyAccounted
<1>6. BalanceInv'
  <2>1. Passed' \subseteq Passed
    BY DEF table, worker, transfers, admin, Outstanding, Return, IInv, TypeOK, CallInv, RowInv, HandInv, InHand, Claimed, Unborn, Fresh, Passed, Committed, CommittedStatus
  <2>2. \A p \in Passed' : amount'[p] = amount[p]
    BY <2>1 DEF table, worker, transfers, admin, Outstanding, Return, IInv, TypeOK, CallInv, Fresh, Passed, Committed
  <2>3. UNCHANGED <<earned, peak>>
    BY DEF Outstanding, Return
  <2>4. QED
    BY <1>1, <2>1, <2>2, <2>3, BalanceKept DEF IInv
<1>7. ASSUME NEW p \in Payouts PROVE RightsInv(p)'
  <2>1. Entitled(p)' \subseteq Entitled(p)
    BY DEF table, worker, transfers, admin, Outstanding, Return, IInv, TypeOK, CallInv, Entitled
  <2>2. /\ sends'[p] = sends[p] /\ approvals'[p] = approvals[p]
        /\ kind'[p] = "instant" <=> kind[p] = "instant"
        /\ status'[p] = "approved" => status[p] = "approved"
    BY DEF table, worker, transfers, admin, Outstanding, Return, IInv, TypeOK, CallInv, Fresh
  <2>3. QED
    BY <1>1, <2>1, <2>2, RightsKept DEF IInv
<1>8. QED
  BY <1>1, <1>2, <1>3, <1>4, <1>5, <1>6, <1>7 DEF IInv

LEMMA CutShortInv ==
    ASSUME IInv, NEW w \in Workers, CutShort(w)
    PROVE  IInv'
<1>1. TypeOK'
  BY PayoutsAssumption DEF table, worker, transfers, admin, CutShort, Return, IInv, TypeOK, CallInv, CommittedStatus
<1>2. ASSUME NEW v \in Workers PROVE CallInv(v)'
  BY PayoutsAssumption DEF table, worker, transfers, admin, CutShort, Return, IInv, TypeOK, CallInv, RowInv, HandInv, InHand, Fresh, Unborn, Claimed, CommittedStatus
<1>3. ASSUME NEW v \in Workers, NEW p \in Payouts PROVE HandInv(v, p)'
  BY PayoutsAssumption DEF table, worker, transfers, admin, CutShort, Return, IInv, TypeOK, CallInv, RowInv, HandInv, InHand, Fresh, Unborn, Claimed
<1>4. ASSUME NEW p \in Payouts PROVE RowInv(p)'
  BY DEF table, worker, transfers, admin, CutShort, Return, IInv, TypeOK, CallInv, RowInv, HandInv, InHand, Fresh, Unborn
<1>5. MoneyAccounted'
  BY DEF table, worker, transfers, admin, CutShort, Return, IInv, TypeOK, CallInv, RowInv, HandInv, InHand, Claimed, Unborn, Fresh, MoneyAccounted
<1>6. BalanceInv'
  <2>1. Passed' \subseteq Passed
    BY DEF table, worker, transfers, admin, CutShort, Return, IInv, TypeOK, CallInv, RowInv, HandInv, InHand, Claimed, Unborn, Fresh, Passed, Committed, CommittedStatus
  <2>2. \A p \in Passed' : amount'[p] = amount[p]
    BY <2>1 DEF table, worker, transfers, admin, CutShort, Return, IInv, TypeOK, CallInv, Fresh, Passed, Committed
  <2>3. UNCHANGED <<earned, peak>>
    BY DEF CutShort, Return
  <2>4. QED
    BY <1>1, <2>1, <2>2, <2>3, BalanceKept DEF IInv
<1>7. ASSUME NEW p \in Payouts PROVE RightsInv(p)'
  <2>1. Entitled(p)' \subseteq Entitled(p)
    BY DEF table, worker, transfers, admin, CutShort, Return, IInv, TypeOK, CallInv, Entitled
  <2>2. /\ sends'[p] = sends[p] /\ approvals'[p] = approvals[p]
        /\ kind'[p] = "instant" <=> kind[p] = "instant"
        /\ status'[p] = "approved" => status[p] = "approved"
    BY DEF table, worker, transfers, admin, CutShort, Return, IInv, TypeOK, CallInv, Fresh
  <2>3. QED
    BY <1>1, <2>1, <2>2, RightsKept DEF IInv
<1>8. QED
  BY <1>1, <1>2, <1>3, <1>4, <1>5, <1>6, <1>7 DEF IInv

LEMMA DecideInv ==
    ASSUME IInv, NEW q \in Payouts, NEW decision \in {"approved", "rejected", "paid"}, Decide(q, decision)
    PROVE  IInv'
<1>1. TypeOK'
  BY PayoutsAssumption DEF table, worker, transfers, admin, Decide, Exists, IInv, TypeOK, CallInv, CommittedStatus
<1>2. ASSUME NEW v \in Workers PROVE CallInv(v)'
  BY PayoutsAssumption DEF table, worker, transfers, admin, Decide, Exists, IInv, TypeOK, CallInv, RowInv, HandInv, InHand, Fresh, Unborn, Claimed, CommittedStatus
<1>3. ASSUME NEW v \in Workers, NEW p \in Payouts PROVE HandInv(v, p)'
  BY PayoutsAssumption DEF table, worker, transfers, admin, Decide, Exists, IInv, TypeOK, CallInv, RowInv, HandInv, InHand, Fresh, Unborn, Claimed
<1>4. ASSUME NEW p \in Payouts PROVE RowInv(p)'
  BY DEF table, worker, transfers, admin, Decide, Exists, IInv, TypeOK, CallInv, RowInv, HandInv, InHand, Fresh, Unborn
<1>5. MoneyAccounted'
  BY DEF table, worker, transfers, admin, Decide, Exists, IInv, TypeOK, CallInv, RowInv, HandInv, InHand, Claimed, Unborn, Fresh, MoneyAccounted
<1>6. BalanceInv'
  <2>1. Passed' \subseteq Passed
    BY DEF table, worker, transfers, admin, Decide, Exists, IInv, TypeOK, CallInv, RowInv, HandInv, InHand, Claimed, Unborn, Fresh, Passed, Committed, CommittedStatus
  <2>2. \A p \in Passed' : amount'[p] = amount[p]
    BY <2>1 DEF table, worker, transfers, admin, Decide, Exists, IInv, TypeOK, CallInv, Fresh, Passed, Committed
  <2>3. UNCHANGED <<earned, peak>>
    BY DEF Decide, Exists
  <2>4. QED
    BY <1>1, <2>1, <2>2, <2>3, BalanceKept DEF IInv
<1>7. ASSUME NEW p \in Payouts PROVE RightsInv(p)'
  <2>1. Entitled(p)' = Entitled(p) /\ Entitled(p) \subseteq Workers
    BY DEF table, worker, transfers, admin, Decide, Exists, IInv, TypeOK, CallInv, Entitled
  <2>2. Cardinality(Entitled(p)) \in Nat
    BY <2>1, EntitledFinite
  <2>3. CASE p = q /\ decision = "approved"
    <3>1. UNCHANGED <<sends, kind>> /\ approvals'[p] = approvals[p] + 1
      BY <2>3 DEF table, worker, transfers, admin, Decide, Exists, IInv, TypeOK, CallInv
    <3>2. QED
      BY <2>1, <2>2, <3>1 DEF IInv, TypeOK, RightsInv
  <2>4. CASE ~(p = q /\ decision = "approved")
    <3>1. UNCHANGED <<sends, kind>> /\ approvals'[p] = approvals[p] /\ (status'[p] = "approved" => status[p] = "approved")
      BY <2>4 DEF table, worker, transfers, admin, Decide, Exists, IInv, TypeOK, CallInv
    <3>2. QED
      BY <1>1, <2>1, <3>1, RightsKept DEF IInv
  <2>5. QED
    BY <2>3, <2>4
<1>8. QED
  BY <1>1, <1>2, <1>3, <1>4, <1>5, <1>6, <1>7 DEF IInv

LEMMA RemoveInv ==
    ASSUME IInv, NEW q \in Payouts, Remove(q)
    PROVE  IInv'
<1>1. TypeOK'
  BY PayoutsAssumption DEF table, worker, transfers, admin, Remove, Exists, IInv, TypeOK, CallInv, CommittedStatus
<1>2. ASSUME NEW v \in Workers PROVE CallInv(v)'
  BY PayoutsAssumption DEF table, worker, transfers, admin, Remove, Exists, IInv, TypeOK, CallInv, RowInv, HandInv, InHand, Fresh, Unborn, Claimed, CommittedStatus
<1>3. ASSUME NEW v \in Workers, NEW p \in Payouts PROVE HandInv(v, p)'
  BY PayoutsAssumption DEF table, worker, transfers, admin, Remove, Exists, IInv, TypeOK, CallInv, RowInv, HandInv, InHand, Fresh, Unborn, Claimed
<1>4. ASSUME NEW p \in Payouts PROVE RowInv(p)'
  BY DEF table, worker, transfers, admin, Remove, Exists, IInv, TypeOK, CallInv, RowInv, HandInv, InHand, Fresh, Unborn
<1>5. MoneyAccounted'
  BY DEF table, worker, transfers, admin, Remove, Exists, IInv, TypeOK, CallInv, RowInv, HandInv, InHand, Claimed, Unborn, Fresh, MoneyAccounted
<1>6. BalanceInv'
  <2>1. Passed' \subseteq Passed
    BY DEF table, worker, transfers, admin, Remove, Exists, IInv, TypeOK, CallInv, RowInv, HandInv, InHand, Claimed, Unborn, Fresh, Passed, Committed, CommittedStatus
  <2>2. \A p \in Passed' : amount'[p] = amount[p]
    BY <2>1 DEF table, worker, transfers, admin, Remove, Exists, IInv, TypeOK, CallInv, Fresh, Passed, Committed
  <2>3. UNCHANGED <<earned, peak>>
    BY DEF Remove, Exists
  <2>4. QED
    BY <1>1, <2>1, <2>2, <2>3, BalanceKept DEF IInv
<1>7. ASSUME NEW p \in Payouts PROVE RightsInv(p)'
  <2>1. Entitled(p)' \subseteq Entitled(p)
    BY DEF table, worker, transfers, admin, Remove, Exists, IInv, TypeOK, CallInv, Entitled
  <2>2. /\ sends'[p] = sends[p] /\ approvals'[p] = approvals[p]
        /\ kind'[p] = "instant" <=> kind[p] = "instant"
        /\ status'[p] = "approved" => status[p] = "approved"
    BY DEF table, worker, transfers, admin, Remove, Exists, IInv, TypeOK, CallInv, Fresh
  <2>3. QED
    BY <1>1, <2>1, <2>2, RightsKept DEF IInv
<1>8. QED
  BY <1>1, <1>2, <1>3, <1>4, <1>5, <1>6, <1>7 DEF IInv

LEMMA CreateInv ==
    ASSUME IInv, NEW q \in Payouts, NEW cents \in Amounts, Create(q, cents)
    PROVE  IInv'
<1>1. TypeOK'
  BY PayoutsAssumption DEF table, worker, transfers, admin, Create, IInv, TypeOK, CallInv, CommittedStatus
<1>2. ASSUME NEW v \in Workers PROVE CallInv(v)'
  BY PayoutsAssumption DEF table, worker, transfers, admin, Create, IInv, TypeOK, CallInv, RowInv, HandInv, InHand, Fresh, Unborn, Claimed, CommittedStatus
<1>3. ASSUME NEW v \in Workers, NEW p \in Payouts PROVE HandInv(v, p)'
  BY PayoutsAssumption DEF table, worker, transfers, admin, Create, IInv, TypeOK, CallInv, RowInv, HandInv, InHand, Fresh, Unborn, Claimed
<1>4. ASSUME NEW p \in Payouts PROVE RowInv(p)'
  BY DEF table, worker, transfers, admin, Create, IInv, TypeOK, CallInv, RowInv, HandInv, InHand, Fresh, Unborn
<1>5. MoneyAccounted'
  BY DEF table, worker, transfers, admin, Create, IInv, TypeOK, CallInv, RowInv, HandInv, InHand, Claimed, Unborn, Fresh, MoneyAccounted
<1>6. BalanceInv'
  <2>1. Passed' \subseteq Passed
    BY DEF table, worker, transfers, admin, Create, IInv, TypeOK, CallInv, RowInv, HandInv, InHand, Claimed, Unborn, Fresh, Passed, Committed, CommittedStatus
  <2>2. \A p \in Passed' : amount'[p] = amount[p]
    BY <2>1 DEF table, worker, transfers, admin, Create, IInv, TypeOK, CallInv, Fresh, Passed, Committed
  <2>3. UNCHANGED <<earned, peak>>
    BY DEF Create
  <2>4. QED
    BY <1>1, <2>1, <2>2, <2>3, BalanceKept DEF IInv
<1>7. ASSUME NEW p \in Payouts PROVE RightsInv(p)'
  <2>1. Entitled(p)' \subseteq Entitled(p)
    BY DEF table, worker, transfers, admin, Create, IInv, TypeOK, CallInv, Entitled
  <2>2. /\ sends'[p] = sends[p] /\ approvals'[p] = approvals[p]
        /\ kind'[p] = "instant" <=> kind[p] = "instant"
        /\ status'[p] = "approved" => status[p] = "approved"
    BY DEF table, worker, transfers, admin, Create, IInv, TypeOK, CallInv, Fresh
  <2>3. QED
    BY <1>1, <2>1, <2>2, RightsKept DEF IInv
<1>8. QED
  BY <1>1, <1>2, <1>3, <1>4, <1>5, <1>6, <1>7 DEF IInv

\* Revenue recognized or refunded, and the switch, concern the balance alone.
LEMMA RecognizeInv == ASSUME IInv, Recognize PROVE IInv'
<1>1. TypeOK'
  BY PayoutsAssumption DEF Recognize, table, worker, transfers, admin, IInv, TypeOK
<1>2. Passed' = Passed /\ amount' = amount
  BY DEF Recognize, table, worker, transfers, admin, Passed, Committed
<1>3. peak <= peak' /\ earned' <= peak'
  BY PayoutsAssumption DEF Recognize, IInv, TypeOK
<1>4. BalanceInv'
  <2>1. Total(Passed) \in Nat
    BY SumMonotone DEF IInv, TypeOK, Total, Passed, Committed
  <2>2. Total(Passed)' = Total(Passed)
    BY <1>2 DEF Total
  <2>3. QED
    BY <1>1, <1>3, <2>1, <2>2 DEF IInv, TypeOK, BalanceInv
<1>5. ASSUME NEW w \in Workers PROVE CallInv(w)'
  BY <1>1, <1>3 DEF Recognize, table, worker, transfers, admin, IInv, TypeOK, CallInv, Fresh
<1>6. ASSUME NEW w \in Workers, NEW p \in Payouts PROVE HandInv(w, p)'
  BY DEF Recognize, table, worker, transfers, admin, IInv, HandInv, InHand
<1>7. ASSUME NEW p \in Payouts PROVE RowInv(p)' /\ RightsInv(p)'
  BY DEF Recognize, table, worker, transfers, admin, IInv, RowInv, Fresh, RightsInv, Entitled
<1>8. MoneyAccounted'
  BY DEF Recognize, table, worker, transfers, admin, IInv, MoneyAccounted
<1>9. QED
  BY <1>1, <1>4, <1>5, <1>6, <1>7, <1>8 DEF IInv

\* Nothing of the invariant depends on the switch but its type.
LEMMA SwitchInv ==
    ASSUME IInv, enabled' \in BOOLEAN,
           UNCHANGED <<earned, peak, table, worker, transfers, admin>>
    PROVE  IInv'
<1>1. TypeOK'
  BY DEF table, worker, transfers, admin, IInv, TypeOK
<1>2. BalanceInv' /\ MoneyAccounted'
  BY DEF table, worker, transfers, admin, IInv, BalanceInv, Total, Passed, Committed, MoneyAccounted
<1>3. ASSUME NEW w \in Workers PROVE CallInv(w)'
  BY DEF table, worker, transfers, admin, IInv, CallInv, Fresh
<1>4. ASSUME NEW w \in Workers, NEW p \in Payouts PROVE HandInv(w, p)'
  BY DEF table, worker, transfers, admin, IInv, HandInv, InHand
<1>5. ASSUME NEW p \in Payouts PROVE RowInv(p)' /\ RightsInv(p)'
  BY DEF table, worker, transfers, admin, IInv, RowInv, Fresh, RightsInv, Entitled
<1>6. QED
  BY <1>1, <1>2, <1>3, <1>4, <1>5 DEF IInv

\* The initial state satisfies the invariant.
LEMMA InitInv == ASSUME Init PROVE IInv
<1>1. TypeOK
  BY DEF Init, TypeOK
<1>2. Passed = {}
  BY DEF Init, Passed, Committed, CommittedStatus
<1>3. BalanceInv
  <2>1. SumOf(amount, {}) = 0
    BY FS_EmptySet DEF SumOf
  <2>2. QED
    BY <1>2, <2>1 DEF Init, BalanceInv, Total
<1>4. MoneyAccounted
  BY DEF Init, MoneyAccounted
<1>5. ASSUME NEW w \in Workers PROVE CallInv(w)
  BY DEF Init, CallInv, Unborn
<1>6. ASSUME NEW w \in Workers, NEW p \in Payouts PROVE HandInv(w, p)
  BY PayoutsAssumption DEF Init, HandInv, InHand
<1>7. ASSUME NEW p \in Payouts PROVE RowInv(p) /\ RightsInv(p)
  <2>1. Entitled(p) = {}
    BY DEF Init, Entitled
  <2>2. Cardinality(Entitled(p)) = 0
    BY <2>1, FS_EmptySet
  <2>3. QED
    BY <2>2 DEF Init, RowInv, RightsInv
<1>8. QED
  BY <1>1, <1>3, <1>4, <1>5, <1>6, <1>7 DEF IInv

\* IInv is an inductive invariant of the payout ledger.
THEOREM Invariance == Spec => []IInv
<1>1. ASSUME IInv, [Next]_vars PROVE IInv'
  <2>1. CASE Switch
    BY <1>1, <2>1, SwitchInv DEF Switch, IInv, TypeOK
  <2>2. CASE Recognize
    BY <1>1, <2>2, RecognizeInv
  <2>3. ASSUME NEW p \in Payouts, NEW decision \in {"approved", "rejected", "paid"}, Decide(p, decision)
        PROVE  IInv'
    BY <1>1, <2>3, DecideInv
  <2>4. ASSUME NEW p \in Payouts, Remove(p) PROVE IInv'
    BY <1>1, <2>4, RemoveInv
  <2>5. ASSUME NEW p \in Payouts, NEW cents \in Amounts, Create(p, cents) PROVE IInv'
    BY <1>1, <2>5, CreateInv
  <2>6. ASSUME NEW w \in Workers, WorkerStep(w) PROVE IInv'
    BY <1>1, <2>6, CheckInv, ClaimInv, RereadInv, CompareInv, PayInv, LandInv, LockInv,
       OutstandingInv, CutShortInv DEF WorkerStep
  <2>7. ASSUME NEW w \in Workers, NEW p \in Payouts, ReadApproved(w, p) \/ Settle(w, p) PROVE IInv'
    BY <1>1, <2>7, ReadApprovedInv, SettleInv
  <2>8. ASSUME NEW w \in Workers, NEW p \in Payouts, NEW cents \in Amounts, Request(w, p, cents) PROVE IInv'
    BY <1>1, <2>8, RequestInv
  <2>9. CASE UNCHANGED vars
    BY <1>1, <2>9, SwitchInv DEF vars, IInv, TypeOK
  <2>10. QED
    BY <1>1, <2>1, <2>2, <2>3, <2>4, <2>5, <2>6, <2>7, <2>8, <2>9 DEF Next
<1>2. QED
  BY InitInv, <1>1, PTL DEF Spec

\* Type correctness.
THEOREM TypeCorrect == Spec => []TypeOK
<1>1. IInv => TypeOK
  BY DEF IInv
<1>2. QED
  BY <1>1, Invariance, PTL

\* Withdrawals sent never add up to more than was earned: claim, then verify
\* replaces the person who would approve (request).
THEOREM BalanceHolds == Spec => []NeverOverdrawn
<1>1. IInv => NeverOverdrawn
  <2>1. SUFFICES ASSUME IInv PROVE NeverOverdrawn
    OBVIOUS
  <2>2. Withdrawn \subseteq Passed /\ Passed \subseteq Payouts
    BY DEF Withdrawn, Passed, Committed, IInv, TypeOK
  <2>3. Total(Withdrawn) \in Nat /\ Total(Passed) \in Nat /\ Total(Withdrawn) <= Total(Passed)
    BY <2>1, <2>2, SumMonotone DEF Total, IInv, TypeOK
  <2>4. QED
    BY <2>1, <2>3 DEF IInv, TypeOK, BalanceInv, NeverOverdrawn
<1>2. QED
  BY <1>1, Invariance, PTL

\* One approval pays for one send, however many admins press the button (send).
THEOREM ApprovalsSpentOnce == Spec => []OneSendPerApproval
<1>1. IInv => OneSendPerApproval
  <2>1. SUFFICES ASSUME IInv, NEW p \in Payouts
                 PROVE  sends[p] <= approvals[p] + (IF kind[p] = "instant" THEN 1 ELSE 0)
    BY DEF OneSendPerApproval
  <2>2. Cardinality(Entitled(p)) \in Nat
    BY EntitledFinite DEF Entitled
  <2>3. QED
    BY <2>1, <2>2 DEF IInv, TypeOK, RightsInv
<1>2. QED
  BY <1>1, Invariance, PTL

\* A failure never reads as paid, and money that left stays committed (dispatch).
THEOREM EveryCentAccounted == Spec => []MoneyAccounted
<1>1. IInv => MoneyAccounted
  BY DEF IInv
<1>2. QED
  BY <1>1, Invariance, PTL

-----------------------------------------------------------------------------
\* Deliveries. Rows of a table are numbered as they are made, by meal and day,
\* and a number is not used again.
MadeAt(ids, m, d) == {k \in ids : k[1] = m /\ k[2] = d}
Numbered(ids) == \A i \in ids : i[3] <= Cardinality(MadeAt(ids, i[1], i[2]))
Logged == {l \in Ids : log[l] # Absent}
Minted == Live \subseteq made /\ Numbered(made) /\ Numbered(Logged)

\* Logs that a move or a failed mirror has left behind.
Adrift == torn \cup overtaken

Rows ==
    /\ row \in [Ids -> Row \cup {Absent}] /\ made \subseteq Ids
    /\ log \in [Ids -> Log \cup {Absent}]
    /\ again \subseteq Ids /\ Adrift \subseteq Ids

\* What the two tables are to each other between any two calls.
Linked ==
    \A i \in Live : row[i].record # Absent =>
        row[i].record \in Logged /\ MealOf(row[i].record) = MealOf(i)
OneOwner ==
    \A i, j \in Live : row[i].record = row[j].record /\ row[i].record # Absent => i = j
OneLog ==
    \A k, l \in Logged : MealOf(k) = MealOf(l) /\ log[k].day = log[l].day => k = l
OneUnmarked ==
    \A i, j \in Live :
        /\ row[i].record = Absent /\ row[j].record = Absent
        /\ MealOf(i) = MealOf(j) /\ row[i].day = row[j].day
        => i = j
OnItsDay ==
    \A i \in Live : row[i].record # Absent =>
        row[i].day = log[row[i].record].day \/ i \in again

Tables ==
    /\ Rows /\ Minted
    /\ Linked /\ OneOwner /\ OneLog /\ OneUnmarked /\ OnItsDay
    /\ AdoptedNotDuplicated

\* What a request carries of its row stays true of the row as far as it matters:
\* the row may go, but it never gets another log.
Carries(j) ==
    /\ j.at # "idle" => j.id \in made
    /\ j.at \in {"marking", "moving", "filing"} /\ j.seen.record # Absent =>
          /\ j.seen.record \in Logged /\ MealOf(j.seen.record) = MealOf(j.id)
          /\ j.id \in Live => row[j.id].record = j.seen.record
    /\ j.at = "filing" => j.seen.record # Absent

Carried == \A w \in Servers : Carries(job[w])

DeliveriesInv == DeliveriesTypeOK /\ Tables /\ Carried /\ MirrorAgrees

\* What a step does that takes nothing from what others carry.
Grows ==
    /\ made \subseteq made' /\ Logged \subseteq Logged'
    /\ \A i \in made \cap Live' :
          i \in Live /\ (row[i].record # Absent => row'[i].record = row[i].record)

\* Ids made next are new, and the table stays numbered with them.
LEMMA NextIsNew ==
    ASSUME NEW ids \in SUBSET Ids, Numbered(ids), NEW new \in SUBSET Ids,
           \A i \in new : i = NextId(i[1], i[2], ids)
    PROVE  ids \cap new = {} /\ Numbered(ids \cup new)
<1>1. ASSUME NEW all \in SUBSET Ids, NEW m, NEW d
      PROVE  IsFiniteSet(MadeAt(all, m, d)) /\ Cardinality(MadeAt(all, m, d)) \in Nat
  <2>1. 0 \in Int /\ 1 \in Int /\ MaxBorn \in Int
    BY DeliveriesAssumption
  <2>2. IsFiniteSet(1..MaxBorn) /\ IsFiniteSet({m}) /\ IsFiniteSet({d})
    BY <2>1, FS_Interval, FS_Singleton
  <2>3. IsFiniteSet({m} \X ({d} \X (1..MaxBorn)))
    BY <2>2, FS_Product
  <2> DEFINE P == {m} \X ({d} \X (1..MaxBorn))
             f == [k \in P |-> <<k[1], k[2][1], k[2][2]>>]
  <2>4. MadeAt(all, m, d) \subseteq {f[k] : k \in P}
    <3>1. ASSUME NEW i \in MadeAt(all, m, d) PROVE \E k \in P : i = f[k]
      <4>1. i = <<m, d, i[3]>> /\ i[3] \in 1..MaxBorn
        BY DEF MadeAt, Ids
      <4>2. <<m, <<d, i[3]>>>> \in P /\ f[<<m, <<d, i[3]>>>>] = <<m, d, i[3]>>
        BY <4>1
      <4>3. QED BY <4>1, <4>2
    <3>2. QED BY <3>1
  <2>5. IsFiniteSet({f[k] : k \in P})
    <3>1. f \in [P -> {f[k] : k \in P}] /\ \A y \in {f[k] : k \in P} : \E k \in P : f[k] = y
      OBVIOUS
    <3>2. f \in Surjection(P, {f[k] : k \in P})
      <4> HIDE DEF f, P
      <4> QED BY <3>1 DEF Surjection, Range
    <3> HIDE DEF f, P
    <3>3. QED BY <3>2, <2>3, FS_Surjection DEF P, ExistsSurjection
  <2> HIDE DEF f, P
  <2>6. IsFiniteSet(MadeAt(all, m, d))
    BY <2>4, <2>5, FS_Subset
  <2>7. QED BY <2>6, FS_CardinalityType
<1>2. ASSUME NEW i \in new PROVE i[3] = Cardinality(MadeAt(ids, i[1], i[2])) + 1
  BY <1>2 DEF NextId, MadeAt
<1>3. ids \cap new = {}
  <2>1. SUFFICES ASSUME NEW i \in ids, i \in new PROVE FALSE
    OBVIOUS
  <2>2. Cardinality(MadeAt(ids, i[1], i[2])) \in Nat
    BY <1>1
  <2>3. QED BY <2>1, <2>2, <1>2 DEF Numbered
<1>4. ASSUME NEW i \in ids \cup new
      PROVE  i[3] <= Cardinality(MadeAt(ids \cup new, i[1], i[2]))
  <2> DEFINE A == MadeAt(ids, i[1], i[2])
             B == MadeAt(ids \cup new, i[1], i[2])
  <2>1. IsFiniteSet(A) /\ IsFiniteSet(B) /\ Cardinality(A) \in Nat /\ Cardinality(B) \in Nat
    <3>1. ids \cup new \in SUBSET Ids
      OBVIOUS
    <3>2. QED BY <3>1, <1>1
  <2>2. A \subseteq B /\ i \in B
    BY DEF MadeAt
  <2>3. i \in Ids /\ i[3] \in Nat
    BY DeliveriesAssumption DEF Ids
  <2>4. CASE i \in ids
    <3>1. i[3] <= Cardinality(A)
      BY <2>4 DEF Numbered
    <3> HIDE DEF A, B
    <3>2. Cardinality(A) <= Cardinality(B)
      BY <2>1, <2>2, FS_Subset
    <3>3. i[3] <= Cardinality(B)
      BY <2>1, <2>3, <3>1, <3>2
    <3>4. QED BY <3>3 DEF B
  <2>5. CASE i \in new
    <3>1. i[3] = Cardinality(A) + 1 /\ i \notin A
      BY <2>5, <1>2, <1>3 DEF MadeAt
    <3> HIDE DEF A, B
    <3>2. Cardinality(A \cup {i}) = Cardinality(A) + 1 /\ IsFiniteSet(A \cup {i})
      BY <2>1, <3>1, FS_AddElement
    <3>3. Cardinality(A \cup {i}) <= Cardinality(B)
      BY <2>1, <2>2, FS_Subset
    <3>4. i[3] <= Cardinality(B)
      BY <3>1, <3>2, <3>3
    <3>5. QED BY <3>4 DEF B
  <2>6. QED BY <2>4, <2>5
<1>5. QED BY <1>3, <1>4 DEF Numbered

\* A row that the trigger writes is the one of the log, or else an unmarked one of
\* its day, or else a new one (mirror_legacy_occurrence).
LEMMA MirrorFinds ==
    ASSUME NEW l \in Ids, NEW d \in LogDays, NEW s \in STATUSES, Mirror(l, d, s)
    PROVE  \E i \in Ids :
             /\ row' = [row EXCEPT ![i] = MirroredRow(l, d, s)]
             /\ made' = made \cup {i} /\ Adrift' = Adrift \ {l}
             /\ \/ i \in Own(l)
                \/ Own(l) = {} /\ i \in Unmarked(MealOf(l), d)
                \/ /\ Own(l) = {} /\ Unmarked(MealOf(l), d) = {}
                   /\ i = NextId(MealOf(l), d, made)
<1> DEFINE found == FindOccurrence(l, d)
           first == CHOOSE f \in found : TRUE
<1>1. CASE found # {}
  <2>1. first \in found
    BY <1>1
  <2>2. row' = [row EXCEPT ![first] = MirroredRow(l, d, s)] /\ first \in Ids
        /\ made' = made \cup {first} /\ Adrift' = Adrift \ {l}
    BY <1>1 DEF Mirror, Adrift
  <2>3. first \in Own(l) \/ (Own(l) = {} /\ first \in Unmarked(MealOf(l), d))
    BY <2>1 DEF FindOccurrence
  <2> HIDE DEF first
  <2>4. QED BY <2>2, <2>3
<1>2. CASE found = {}
  <2>1. Own(l) = {} /\ Unmarked(MealOf(l), d) = {}
    BY <1>2 DEF FindOccurrence
  <2> DEFINE i == NextId(MealOf(l), d, made)
  <2>2. row' = [row EXCEPT ![i] = MirroredRow(l, d, s)] /\ i \in Ids
        /\ made' = made \cup {i} /\ Adrift' = Adrift \ {l}
    BY <1>2 DEF Mirror, Adrift
  <2> HIDE DEF i
  <2>3. i = NextId(MealOf(l), d, made)
    BY DEF i
  <2>4. QED BY <2>1, <2>2, <2>3
<1>3. QED BY <1>1, <1>2

\* What a write of a log leaves behind: the row of another log is as it was, and
\* the row of this one agrees with it unless the trigger failed.
WrittenRow(l, i) ==
    \/ row'[i].record = Absent
    \/ /\ row'[i].record = l
       /\ l \in Adrift' \/ (row'[i].day = log'[l].day /\ row'[i].status = log'[l].status)
    \/ /\ row'[i].record # l /\ i \in Live /\ row'[i] = row[i]
       /\ log'[row[i].record] = log[row[i].record]
       /\ row[i].record \in Adrift => row[i].record \in Adrift'

Written(l) == Tables' /\ Grows /\ \A i \in Live' : WrittenRow(l, i)

\* The logs after a write: one of a meal and day, and numbered.
LEMMA LogWritten ==
    ASSUME Tables, NEW l \in Ids, NEW d \in LogDays, NEW s \in STATUSES,
           log' = [log EXCEPT ![l] = [day |-> d, status |-> s]],
           LogsOf(MealOf(l), d) \subseteq {l}, Numbered(Logged \cup {l})
    PROVE  /\ log' \in [Ids -> Log \cup {Absent}]
           /\ Logged' = Logged \cup {l} /\ Numbered(Logged)' /\ OneLog'
           /\ log'[l] = [day |-> d, status |-> s]
           /\ \A k \in Ids : k # l => log'[k] = log[k]
<1>1. [day |-> d, status |-> s] \in Log /\ [day |-> d, status |-> s] # Absent
  BY DeliveriesAssumption DEF Log
<1>2. log' \in [Ids -> Log \cup {Absent}] /\ log'[l] = [day |-> d, status |-> s]
      /\ \A k \in Ids : k # l => log'[k] = log[k]
  BY <1>1 DEF Tables, Rows
<1>3. Logged' = Logged \cup {l}
  BY <1>1, <1>2 DEF Logged
<1>4. Numbered(Logged)'
  <2>1. Numbered(Logged') <=> Numbered(Logged)'
    BY DEF Numbered, MadeAt
  <2>2. Numbered(Logged')
    BY <1>3
  <2>3. QED BY <2>1, <2>2
<1>5. OneLog'
  <2>1. SUFFICES ASSUME NEW j \in Logged', NEW k \in Logged', MealOf(j) = MealOf(k),
                        log'[j].day = log'[k].day
                 PROVE  j = k
    BY DEF OneLog, MealOf
  <2>2. ASSUME NEW k1 \in Logged, k1 # l, MealOf(k1) = MealOf(l), log[k1].day = d PROVE FALSE
    BY <2>2 DEF LogsOf, Logged
  <2>3. CASE j # l /\ k # l
    BY <2>1, <2>3, <1>2, <1>3 DEF OneLog, Tables, Logged
  <2>4. CASE j = l
    BY <2>1, <2>2, <2>4, <1>2, <1>3 DEF Logged
  <2>5. CASE k = l
    BY <2>1, <2>2, <2>5, <1>2, <1>3 DEF Logged
  <2>6. QED BY <2>3, <2>4, <2>5
<1>6. QED BY <1>2, <1>3, <1>4, <1>5

\* The row the trigger writes, beside the others.
LEMMA RowMirrored ==
    ASSUME Tables, NEW l \in Ids, NEW d \in LogDays, NEW s \in STATUSES, NEW i \in Ids,
           row' = [row EXCEPT ![i] = MirroredRow(l, d, s)], made' = made \cup {i},
           \/ i \in Own(l)
           \/ Own(l) = {} /\ i \in Unmarked(MealOf(l), d)
           \/ /\ Own(l) = {} /\ Unmarked(MealOf(l), d) = {}
              /\ i = NextId(MealOf(l), d, made)
    PROVE  /\ row' \in [Ids -> Row \cup {Absent}]
           /\ row'[i] = MirroredRow(l, d, s) /\ \A k \in Ids : k # i => row'[k] = row[k]
           /\ Live' = Live \cup {i} /\ made' \subseteq Ids /\ Numbered(made)'
           /\ MealOf(i) = MealOf(l) /\ (i \in made => i \in Live)
           /\ i \in Live => row[i].record \in {Absent, l}
           /\ \A k \in Live : k # i => row[k].record # l
<1>1. MirroredRow(l, d, s) \in Row /\ MirroredRow(l, d, s) # Absent
  <2>1. ASSUME NEW late \in BOOLEAN
        PROVE  [day |-> d, late |-> late, status |-> s, record |-> l] \in Row
    BY DEF Row
  <2>2. (MealOf(l) \in evening) \in BOOLEAN
    OBVIOUS
  <2>3. MirroredRow(l, d, s) \in Row
    BY <2>1, <2>2, Zenon DEF MirroredRow
  <2>4. QED BY <2>3, DeliveriesAssumption
<1>2. row' \in [Ids -> Row \cup {Absent}]
      /\ row'[i] = MirroredRow(l, d, s) /\ \A k \in Ids : k # i => row'[k] = row[k]
  BY <1>1 DEF Tables, Rows
<1>3. Live' = Live \cup {i}
  BY <1>1, <1>2 DEF Live
<1>4. /\ made' \subseteq Ids /\ Numbered(made)'
      /\ MealOf(i) = MealOf(l) /\ (i \in made => i \in Live)
      /\ i \in Live => row[i].record \in {Absent, l}
  <2>1. CASE i \in Own(l)
    <3>1. i \in Live /\ row[i].record = l
      BY <2>1 DEF Own
    <3>2. i \in made /\ made' = made
      BY <3>1 DEF Tables, Minted
    <3>3. MealOf(i) = MealOf(l)
      BY <3>1, DeliveriesAssumption DEF Tables, Linked
    <3>4. Numbered(made)'
      BY <3>2 DEF Tables, Minted, Numbered, MadeAt
    <3>5. QED BY <3>1, <3>2, <3>3, <3>4 DEF Tables, Rows
  <2>2. CASE i \in Unmarked(MealOf(l), d)
    <3>1. i \in Live /\ row[i].record = Absent /\ MealOf(i) = MealOf(l)
      BY <2>2 DEF Unmarked, Shown
    <3>2. i \in made /\ made' = made
      BY <3>1 DEF Tables, Minted
    <3>4. Numbered(made)'
      BY <3>2 DEF Tables, Minted, Numbered, MadeAt
    <3>5. QED BY <3>1, <3>2, <3>4 DEF Tables, Rows
  <2>3. CASE Own(l) = {} /\ i = NextId(MealOf(l), d, made)
    <3>1. i[1] = MealOf(l) /\ i[2] = d
      BY <2>3 DEF NextId
    <3>2. i = NextId(i[1], i[2], made)
      BY <2>3, <3>1
    <3>3. made \in SUBSET Ids /\ {i} \in SUBSET Ids /\ Numbered(made)
      BY DEF Tables, Rows, Minted
    <3>4. made \cap {i} = {} /\ Numbered(made \cup {i})
      BY <3>2, <3>3, NextIsNew
    <3>5. Numbered(made)'
      BY <3>4 DEF Numbered, MadeAt
    <3>6. i \notin made /\ i \notin Live
      BY <3>4 DEF Tables, Minted
    <3>7. QED BY <3>1, <3>3, <3>5, <3>6 DEF MealOf
  <2>4. QED BY <2>1, <2>2, <2>3
<1>5. ASSUME NEW k \in Live, k # i PROVE row[k].record # l
  <2>1. CASE i \in Own(l)
    BY <1>5, <2>1, DeliveriesAssumption DEF Own, Tables, OneOwner
  <2>2. CASE Own(l) = {}
    BY <2>2 DEF Own
  <2>3. QED BY <2>1, <2>2
<1>6. QED BY <1>2, <1>3, <1>4, <1>5

\* A write of a log keeps the tables in step, if no other log has its meal and
\* day, a new one is numbered next, and a log filed under another day counts its
\* row as moved. Here with its mirror.
LEMMA WriteMirrored ==
    ASSUME Tables, NEW l \in Ids, NEW d \in LogDays, NEW s \in STATUSES,
           log' = [log EXCEPT ![l] = [day |-> d, status |-> s]], Mirror(l, d, s),
           LogsOf(MealOf(l), d) \subseteq {l}, Numbered(Logged \cup {l}),
           again \subseteq again', again' \subseteq Ids,
           l \in Logged => log[l].day = d \/ Own(l) \subseteq again'
    PROVE  Written(l)
<1>1. PICK i \in Ids :
        /\ row' = [row EXCEPT ![i] = MirroredRow(l, d, s)]
        /\ made' = made \cup {i} /\ Adrift' = Adrift \ {l}
        /\ \/ i \in Own(l)
           \/ Own(l) = {} /\ i \in Unmarked(MealOf(l), d)
           \/ /\ Own(l) = {} /\ Unmarked(MealOf(l), d) = {}
              /\ i = NextId(MealOf(l), d, made)
  BY MirrorFinds
<1>2. /\ log' \in [Ids -> Log \cup {Absent}]
      /\ Logged' = Logged \cup {l} /\ Numbered(Logged)' /\ OneLog'
      /\ log'[l] = [day |-> d, status |-> s]
      /\ \A k \in Ids : k # l => log'[k] = log[k]
  BY LogWritten
<1>3. /\ row' \in [Ids -> Row \cup {Absent}]
      /\ row'[i] = MirroredRow(l, d, s) /\ \A k \in Ids : k # i => row'[k] = row[k]
      /\ Live' = Live \cup {i} /\ made' \subseteq Ids /\ Numbered(made)'
      /\ MealOf(i) = MealOf(l) /\ (i \in made => i \in Live)
      /\ i \in Live => row[i].record \in {Absent, l}
      /\ \A k \in Live : k # i => row[k].record # l
  BY <1>1, RowMirrored
<1>4. row'[i].day = d /\ row'[i].status = s /\ row'[i].record = l
  BY <1>3 DEF MirroredRow
<1>5. l # Absent /\ Live \subseteq Ids /\ Live' \subseteq Ids
  BY DeliveriesAssumption DEF Live
<1>6. \A k \in Live : row[k].record # Absent =>
          /\ row[k].record \in Logged /\ row[k].record \in Ids
          /\ MealOf(row[k].record) = MealOf(k)
  BY DEF Tables, Linked, Logged
<1>7. Rows' /\ Minted'
  BY <1>1, <1>2, <1>3 DEF Tables, Rows, Minted
<1>8. Linked'
  <2>1. SUFFICES ASSUME NEW k \in Live', row'[k].record # Absent
                 PROVE  row'[k].record \in Logged' /\ MealOf(row'[k].record) = MealOf(k)
    BY DEF Linked, MealOf
  <2>2. CASE k = i
    BY <2>2, <1>2, <1>3, <1>4
  <2>3. CASE k # i
    BY <2>1, <2>3, <1>2, <1>3, <1>5, <1>6
  <2>4. QED BY <2>2, <2>3
<1>9. OneOwner'
  <2>1. SUFFICES ASSUME NEW j \in Live', NEW k \in Live', row'[j].record = row'[k].record,
                        row'[j].record # Absent
                 PROVE  j = k
    BY DEF OneOwner
  <2>2. CASE j = i \/ k = i
    BY <2>1, <2>2, <1>3, <1>4, <1>5
  <2>3. CASE j # i /\ k # i
    BY <2>1, <2>3, <1>3, <1>5 DEF Tables, OneOwner
  <2>4. QED BY <2>2, <2>3
<1>10. OneUnmarked'
  <2>1. SUFFICES ASSUME NEW j \in Live', NEW k \in Live', row'[j].record = Absent,
                        row'[k].record = Absent, MealOf(j) = MealOf(k),
                        row'[j].day = row'[k].day
                 PROVE  j = k
    BY DEF OneUnmarked, MealOf
  <2>2. j # i /\ k # i
    BY <2>1, <1>4, <1>5
  <2>3. QED BY <2>1, <2>2, <1>3, <1>5 DEF Tables, OneUnmarked
<1>11. OnItsDay'
  <2>1. SUFFICES ASSUME NEW k \in Live', row'[k].record # Absent
                 PROVE  row'[k].day = log'[row'[k].record].day \/ k \in again'
    BY DEF OnItsDay
  <2>2. CASE k = i
    BY <2>2, <1>2, <1>4
  <2>3. CASE k # i
    <3>1. k \in Live /\ row'[k] = row[k] /\ row[k].record # l /\ row[k].record \in Ids
      BY <2>1, <2>3, <1>3, <1>5, <1>6
    <3>2. QED BY <2>1, <3>1, <1>2 DEF Tables, OnItsDay
  <2>4. QED BY <2>2, <2>3
<1>12. AdoptedNotDuplicated'
  <2>1. ASSUME NEW k \in Live, k # i, MealOf(k) = MealOf(i), row[k].day = d
        PROVE  i \in again' \/ k \in again'
    <3>1. CASE i \in Own(l)
      <4>1. i \in Live /\ row[i].record = l /\ l \in Logged
        BY <3>1, <1>5, <1>6 DEF Own
      <4>2. CASE log[l].day = d
        <5>1. row[i].day = d \/ i \in again
          BY <4>1, <4>2, <1>5 DEF Tables, OnItsDay
        <5>2. i \in again \/ k \in again
          BY <5>1, <4>1, <2>1 DEF Tables, AdoptedNotDuplicated
        <5>3. QED BY <5>2
      <4>3. CASE Own(l) \subseteq again'
        BY <3>1, <4>3
      <4>4. QED BY <4>1, <4>2, <4>3
    <3>2. CASE i \in Unmarked(MealOf(l), d)
      <4>1. i \in Live /\ row[i].day = d
        BY <3>2 DEF Unmarked, Shown
      <4>2. i \in again \/ k \in again
        BY <4>1, <2>1 DEF Tables, AdoptedNotDuplicated
      <4>3. QED BY <4>2
    <3>3. CASE Unmarked(MealOf(l), d) = {}
      <4>1. row[k].record # Absent
        BY <2>1, <3>3, <1>3 DEF Unmarked, Shown
      <4>2. row[k].record # l /\ row[k].record \in Logged /\ row[k].record \in Ids
            /\ MealOf(row[k].record) = MealOf(l)
        BY <2>1, <4>1, <1>3, <1>6
      <4>3. log[row[k].record].day # d
        BY <4>2 DEF LogsOf, Logged
      <4>4. k \in again
        BY <2>1, <4>1, <4>3 DEF Tables, OnItsDay
      <4>5. QED BY <4>4
    <3>4. QED BY <3>1, <3>2, <3>3, <1>1
  <2>2. SUFFICES ASSUME NEW j \in Live', NEW k \in Live', MealOf(j) = MealOf(k),
                        row'[j].day = row'[k].day, j # k
                 PROVE  j \in again' \/ k \in again'
    BY DEF AdoptedNotDuplicated, MealOf
  <2>3. CASE j = i
    <3>1. k \in Live /\ row'[k] = row[k]
      BY <2>2, <2>3, <1>3, <1>5
    <3>2. QED BY <2>1, <2>2, <2>3, <3>1, <1>4
  <2>4. CASE k = i
    <3>1. j \in Live /\ row'[j] = row[j]
      BY <2>2, <2>4, <1>3, <1>5
    <3>2. QED BY <2>1, <2>2, <2>4, <3>1, <1>4
  <2>5. CASE j # i /\ k # i
    <3>1. j \in Live /\ row'[j] = row[j] /\ k \in Live /\ row'[k] = row[k]
      BY <2>5, <1>3, <1>5
    <3>2. j \in again \/ k \in again
      BY <2>2, <3>1 DEF Tables, AdoptedNotDuplicated
    <3>3. QED BY <3>2
  <2>6. QED BY <2>3, <2>4, <2>5
<1>13. Grows
  <2>1. ASSUME NEW k \in made, k \in Live'
        PROVE  k \in Live /\ (row[k].record # Absent => row'[k].record = row[k].record)
    <3>1. CASE k = i
      BY <2>1, <3>1, <1>3, <1>4
    <3>2. CASE k # i
      BY <2>1, <3>2, <1>3, <1>5
    <3>3. QED BY <3>1, <3>2
  <2>2. QED BY <2>1, <1>1, <1>2 DEF Grows
<1>14. ASSUME NEW k \in Live' PROVE WrittenRow(l, k)
  <2>1. CASE k = i
    BY <2>1, <1>2, <1>4 DEF WrittenRow
  <2>2. CASE k # i
    <3>1. k \in Live /\ row'[k] = row[k] /\ row[k].record # l
      BY <1>14, <2>2, <1>3, <1>5
    <3>2. CASE row[k].record = Absent
      BY <3>1, <3>2 DEF WrittenRow
    <3>3. CASE row[k].record # Absent
      <4>1. log'[row[k].record] = log[row[k].record]
            /\ (row[k].record \in Adrift => row[k].record \in Adrift')
        BY <3>1, <3>3, <1>1, <1>2, <1>6
      <4>2. QED BY <3>1, <4>1 DEF WrittenRow
    <3>4. QED BY <3>2, <3>3
  <2>3. QED BY <2>1, <2>2
<1>15. Tables'
  BY <1>2, <1>7, <1>8, <1>9, <1>10, <1>11, <1>12 DEF Tables
<1>16. QED BY <1>13, <1>14, <1>15 DEF Written

\* And without its mirror.
LEMMA WriteTorn ==
    ASSUME Tables, NEW l \in Ids, NEW d \in LogDays, NEW s \in STATUSES,
           log' = [log EXCEPT ![l] = [day |-> d, status |-> s]],
           UNCHANGED <<row, made>>, Adrift' = Adrift \cup {l},
           LogsOf(MealOf(l), d) \subseteq {l}, Numbered(Logged \cup {l}),
           again \subseteq again', again' \subseteq Ids,
           l \in Logged => log[l].day = d \/ Own(l) \subseteq again'
    PROVE  Written(l)
<1>1. /\ log' \in [Ids -> Log \cup {Absent}]
      /\ Logged' = Logged \cup {l} /\ Numbered(Logged)' /\ OneLog'
      /\ log'[l] = [day |-> d, status |-> s]
      /\ \A k \in Ids : k # l => log'[k] = log[k]
  BY LogWritten
<1>2. Live' = Live /\ Numbered(made)' /\ Live \subseteq Ids
  BY DEF Live, Tables, Minted, Numbered, MadeAt
<1>3. Rows' /\ Minted'
  BY <1>1, <1>2 DEF Tables, Rows, Minted
<1>4. Linked' /\ OneOwner' /\ OneUnmarked'
  BY <1>1, <1>2 DEF Tables, Linked, OneOwner, OneUnmarked, MealOf
<1>5. OnItsDay'
  <2>1. SUFFICES ASSUME NEW k \in Live, row[k].record # Absent
                 PROVE  row[k].day = log'[row[k].record].day \/ k \in again'
    BY <1>2 DEF OnItsDay
  <2>2. row[k].record \in Logged /\ row[k].record \in Ids
    BY <2>1 DEF Tables, Linked, Logged
  <2>3. row[k].day = log[row[k].record].day \/ k \in again
    BY <2>1 DEF Tables, OnItsDay
  <2>4. CASE row[k].record # l
    BY <2>2, <2>3, <2>4, <1>1
  <2>5. CASE row[k].record = l
    <3>1. k \in Own(l)
      BY <2>1, <2>5, <1>2 DEF Own
    <3>2. QED BY <2>2, <2>3, <2>5, <3>1, <1>1
  <2>6. QED BY <2>4, <2>5
<1>6. AdoptedNotDuplicated'
  <2>1. SUFFICES ASSUME NEW j \in Live, NEW k \in Live, MealOf(j) = MealOf(k),
                        row[j].day = row[k].day, j # k
                 PROVE  j \in again' \/ k \in again'
    BY <1>2 DEF AdoptedNotDuplicated, MealOf
  <2>2. j \in again \/ k \in again
    BY <2>1 DEF Tables, AdoptedNotDuplicated
  <2>3. QED BY <2>2
<1>7. Grows
  BY <1>1, <1>2 DEF Grows
<1>8. ASSUME NEW k \in Live' PROVE WrittenRow(l, k)
  <2>1. CASE row[k].record = Absent
    BY <2>1 DEF WrittenRow
  <2>2. CASE row[k].record = l
    BY <2>2 DEF WrittenRow
  <2>3. CASE row[k].record # Absent /\ row[k].record # l
    <3>1. row[k].record \in Ids
      BY <1>2, <1>8, <2>3 DEF Tables, Linked, Logged
    <3>2. QED BY <1>1, <1>2, <1>8, <2>3, <3>1 DEF WrittenRow
  <2>4. QED BY <2>1, <2>2, <2>3
<1>9. QED BY <1>1, <1>3, <1>4, <1>5, <1>6, <1>7, <1>8 DEF Tables, Written

\* Every write of a log, mirrored or not (upsertFoodLog, its trigger).
LEMMA WriteKeeps ==
    ASSUME Tables, faults \in 0..MaxFaults,
           NEW l \in Ids, NEW d \in LogDays, NEW s \in STATUSES, WriteLog(l, d, s),
           LogsOf(MealOf(l), d) \subseteq {l}, Numbered(Logged \cup {l}),
           again \subseteq again', again' \subseteq Ids,
           l \in Logged => log[l].day = d \/ Own(l) \subseteq again'
    PROVE  Written(l) /\ faults' \in 0..MaxFaults
<1>1. log' = [log EXCEPT ![l] = [day |-> d, status |-> s]]
  BY DEF WriteLog
<1>2. CASE Mirror(l, d, s)
  <2>1. Written(l)
    BY <1>1, <1>2, WriteMirrored
  <2>2. QED BY <1>2, <2>1 DEF Mirror
<1>3. CASE /\ faults < MaxFaults /\ faults' = faults + 1
           /\ Adrift' = Adrift \cup {l} /\ UNCHANGED <<row, made>>
  <2>1. Written(l)
    BY <1>1, <1>3, WriteTorn
  <2>2. faults' \in 0..MaxFaults
    BY <1>3, DeliveriesAssumption
  <2>3. QED BY <2>1, <2>2
<1>4. QED BY <1>2, <1>3 DEF WriteLog, Adrift

\* The day of a log is what it is filed under: another of its meal and day is it.
LEMMA SameDaySameLog ==
    ASSUME Tables, NEW l \in Logged
    PROVE  /\ log[l] \in Log /\ LogsOf(MealOf(l), log[l].day) = {l}
           /\ Numbered(Logged \cup {l})
<1>1. l \in Ids /\ log[l] \in Log
  BY DEF Logged, Tables, Rows
<1>2. LogsOf(MealOf(l), log[l].day) = {l}
  BY <1>1 DEF LogsOf, Logged, Tables, OneLog
<1>3. Logged \cup {l} = Logged
  OBVIOUS
<1>4. QED BY <1>1, <1>2, <1>3 DEF Tables, Minted

\* What a request carries stays true while the tables only grow.
LEMMA StaysCarried ==
    ASSUME Tables, Grows, NEW j \in Jobs, Carries(j)
    PROVE  Carries(j)'
<1>1. CASE j.at \in {"marking", "moving", "filing"} /\ j.seen.record # Absent
  <2>1. j.id \in made /\ j.seen.record \in Logged
        /\ MealOf(j.seen.record) = MealOf(j.id)
        /\ (j.id \in Live => row[j.id].record = j.seen.record)
    BY <1>1 DEF Carries
  <2>2. j.id \in Live' => row'[j.id].record = j.seen.record
    BY <2>1, <1>1 DEF Grows
  <2>3. QED BY <2>1, <2>2, <1>1 DEF Carries, Grows, MealOf
<1>2. CASE j.at \notin {"marking", "moving", "filing"} \/ j.seen.record = Absent
  BY <1>2 DEF Carries, Grows
<1>3. QED BY <1>1, <1>2

\* What a request is at each of its steps.
LEMMA JobTypes ==
    ASSUME NEW j \in Jobs
    PROVE  /\ j.at = "idle" => j = Idle
           /\ j.at # "idle" => j.id \in Ids
           /\ j.at = "marking" =>
                 j.seen \in Row /\ j.mark \in STATUSES /\ j.removes \in BOOLEAN
           /\ j.at \in {"moving", "filing"} => j.seen \in Row /\ j.to \in When
           /\ j.at \in {"idle", "marking", "cancelling", "deleting", "moving", "filing"}
BY DEF Jobs, Idle

\* A record that is not absent is an id.
LEMMA RecordIsId ==
    ASSUME NEW r \in Row
    PROVE  r.record = Absent \/ r.record \in Ids
BY DEF Row

\* The mirror agrees after a write, whoever files the log that was written.
LEMMA WriteAgrees ==
    ASSUME DeliveriesInv, NEW l \in Ids, Written(l), NEW w \in Servers,
           \A v \in Servers : v # w => job'[v] = job[v],
           job[w].at = "filing" => job[w].seen.record = l
    PROVE  MirrorAgrees'
<1>1. SUFFICES ASSUME NEW i \in Live', row'[i].record # Absent
               PROVE  \/ /\ row'[i].day = log'[row'[i].record].day
                         /\ row'[i].status = log'[row'[i].record].status
                      \/ row'[i].record \in Adrift'
                      \/ \E v \in Servers :
                            job'[v].at = "filing" /\ job'[v].seen.record = row'[i].record
  BY DEF MirrorAgrees, At, Adrift
<1>2. WrittenRow(l, i)
  BY DEF Written
<1>3. CASE row'[i].record = l
  BY <1>1, <1>2, <1>3 DEF WrittenRow
<1>4. CASE row'[i].record # l
  <2>1. i \in Live /\ row'[i] = row[i]
        /\ log'[row[i].record] = log[row[i].record]
        /\ (row[i].record \in Adrift => row[i].record \in Adrift')
    BY <1>1, <1>2, <1>4 DEF WrittenRow
  <2>2. \/ row[i].day = log[row[i].record].day /\ row[i].status = log[row[i].record].status
        \/ row[i].record \in Adrift
        \/ \E v \in Servers : job[v].at = "filing" /\ job[v].seen.record = row[i].record
    BY <1>1, <2>1 DEF DeliveriesInv, MirrorAgrees, At, Adrift
  <2>3. ASSUME NEW v \in Servers, job[v].at = "filing", job[v].seen.record = row[i].record
        PROVE  job'[v] = job[v]
    BY <2>3, <2>1, <1>4
  <2>4. QED BY <2>1, <2>2, <2>3
<1>5. QED BY <1>3, <1>4

\* Where a worker's job is replaced, and the tables only grow, what all carry
\* stays true if it is true of the new one.
LEMMA StepCarries ==
    ASSUME DeliveriesInv, Grows, NEW w \in Servers, NEW j \in Jobs, Do(w, j), Carries(j)'
    PROVE  /\ Carried' /\ job' \in [Servers -> Jobs] /\ job'[w] = j
           /\ \A v \in Servers : v # w => job'[v] = job[v]
<1>1. job \in [Servers -> Jobs]
  BY DEF DeliveriesInv, DeliveriesTypeOK
<1>2. /\ job' \in [Servers -> Jobs] /\ job'[w] = j
      /\ \A v \in Servers : v # w => job'[v] = job[v]
  BY <1>1 DEF Do
<1>3. \A k \in Jobs : Carries(k) => Carries(k)'
  BY StaysCarried DEF DeliveriesInv
<1>4. ASSUME NEW v \in Servers PROVE Carries(job[v])'
  <2>1. CASE v = w
    BY <1>2, <2>1 DEF Carries
  <2>2. CASE v # w
    <3>1. Carries(job[v]) /\ job[v] \in Jobs /\ job'[v] = job[v]
      BY <2>2, <1>1, <1>2 DEF DeliveriesInv, Carried
    <3>2. QED BY <3>1, <1>3 DEF Carries
  <2>3. QED BY <2>1, <2>2
<1>5. QED BY <1>2, <1>4 DEF Carried

\* A request that is over carries nothing.
LEMMA IdleCarries == Idle \in Jobs /\ Carries(Idle)'
BY DEF Jobs, Idle, Carries

\* Where the tables stay as they are.
LEMMA TablesStay ==
    ASSUME Tables, UNCHANGED <<tables, again, Adrift>>
    PROVE  Tables' /\ Grows /\ Live' = Live /\ Logged' = Logged
<1>1. Live' = Live /\ Logged' = Logged /\ UNCHANGED <<row, made, log, again, Adrift>>
  BY DEF tables, Live, Logged
<1>2. Rows' /\ Minted' /\ Linked' /\ OneOwner'
  BY <1>1 DEF Tables, Rows, Minted, Numbered, MadeAt, Linked, OneOwner, MealOf
<1>3. OneLog' /\ OneUnmarked' /\ OnItsDay' /\ AdoptedNotDuplicated'
  BY <1>1 DEF Tables, OneLog, OneUnmarked, OnItsDay, AdoptedNotDuplicated, MealOf
<1>4. Grows
  BY <1>1 DEF Grows
<1>5. QED BY <1>1, <1>2, <1>3, <1>4 DEF Tables

\* Where a worker that files no log goes on, the mirror agrees as before.
LEMMA StillAgrees ==
    ASSUME DeliveriesInv, UNCHANGED <<tables, Adrift>>, NEW w \in Servers,
           \A v \in Servers : v # w => job'[v] = job[v], job[w].at # "filing"
    PROVE  MirrorAgrees'
<1>1. Live' = Live /\ UNCHANGED <<row, log, Adrift>>
  BY DEF tables, Live
<1>2. SUFFICES ASSUME NEW i \in Live, row[i].record # Absent
               PROVE  \/ /\ row[i].day = log[row[i].record].day
                         /\ row[i].status = log[row[i].record].status
                      \/ row[i].record \in Adrift
                      \/ \E v \in Servers :
                            job'[v].at = "filing" /\ job'[v].seen.record = row[i].record
  BY <1>1 DEF MirrorAgrees, At, Adrift
<1>3. \/ row[i].day = log[row[i].record].day /\ row[i].status = log[row[i].record].status
      \/ row[i].record \in Adrift
      \/ \E v \in Servers : job[v].at = "filing" /\ job[v].seen.record = row[i].record
  BY <1>2 DEF DeliveriesInv, MirrorAgrees, At, Adrift
<1>4. QED BY <1>3

\* A call that only reads: it goes on with what it loaded.
LEMMA ReadsOn ==
    ASSUME DeliveriesInv, NEW w \in Servers, NEW j \in Jobs, Do(w, j), Carries(j),
           UNCHANGED <<today, evening, tables, again, Adrift, faults>>,
           requests' \in 0..MaxRequests, job[w].at # "filing"
    PROVE  DeliveriesInv'
<1>1. Tables' /\ Grows
  BY TablesStay DEF DeliveriesInv
<1>2. Carries(j)'
  BY <1>1, StaysCarried DEF DeliveriesInv
<1>3. /\ Carried' /\ job' \in [Servers -> Jobs] /\ job'[w] = j
      /\ \A v \in Servers : v # w => job'[v] = job[v]
  BY <1>1, <1>2, StepCarries
<1>4. MirrorAgrees'
  BY <1>3, StillAgrees
<1>5. DeliveriesTypeOK'
  BY <1>3 DEF DeliveriesInv, DeliveriesTypeOK, tables, Adrift
<1>6. QED BY <1>1, <1>3, <1>4, <1>5 DEF DeliveriesInv

\* A row that was just loaded.
LEMMA JustLoaded ==
    ASSUME DeliveriesInv, NEW i \in Live
    PROVE  /\ i \in Ids /\ i \in made /\ row[i] \in Row
           /\ row[i].record # Absent =>
                 row[i].record \in Logged /\ MealOf(row[i].record) = MealOf(i)
BY DEF DeliveriesInv, Tables, Rows, Minted, Linked, Live

LEMMA AsksWell ==
    ASSUME DeliveriesInv, NEW w \in Servers, NEW i \in Ids, Asks(w, i)
    PROVE  i \in Live /\ job[w].at = "idle" /\ requests' \in 0..MaxRequests
BY DeliveriesAssumption DEF DeliveriesInv, DeliveriesTypeOK, Asks, Idle

\* setStatus loads its row.
LEMMA MarkReadInv ==
    ASSUME DeliveriesInv, NEW w \in Servers, NEW i \in Ids, NEW mark \in Marks,
           MarkRead(w, i, mark)
    PROVE  DeliveriesInv'
<1> DEFINE j == [at |-> "marking", id |-> i, seen |-> row[i], mark |-> mark, removes |-> FALSE]
<1>1. i \in Live /\ job[w].at # "filing" /\ requests' \in 0..MaxRequests
  BY AsksWell DEF MarkRead
<1>2. j \in Jobs
  BY <1>1, JustLoaded, DeliveriesAssumption DEF Jobs
<1>3. Carries(j)
  BY <1>1, JustLoaded DEF Carries
<1>4. Do(w, j) /\ UNCHANGED <<today, evening, tables, again, Adrift, faults>>
  BY DEF MarkRead, MarkAs, ghosts, Adrift
<1> HIDE DEF j
<1>5. QED BY <1>1, <1>2, <1>3, <1>4, ReadsOn

\* remove loads its row.
LEMMA RemoveReadInv ==
    ASSUME DeliveriesInv, NEW w \in Servers, NEW i \in Ids, RemoveRead(w, i)
    PROVE  DeliveriesInv'
<1> DEFINE j == [at |-> IF row[i].status = "cancelled" THEN "deleting" ELSE "cancelling",
                 id |-> i]
<1>1. i \in Live /\ job[w].at # "filing" /\ requests' \in 0..MaxRequests
  BY AsksWell DEF RemoveRead
<1>2. j \in Jobs
  BY <1>1 DEF Jobs
<1>3. Carries(j)
  BY <1>1, JustLoaded DEF Carries
<1>4. Do(w, j) /\ UNCHANGED <<today, evening, tables, again, Adrift, faults>>
  BY DEF RemoveRead, ghosts, Adrift
<1> HIDE DEF j
<1>5. QED BY <1>1, <1>2, <1>3, <1>4, ReadsOn

\* setStatus of remove loads the row again.
LEMMA RemoveCancelInv ==
    ASSUME DeliveriesInv, NEW w \in Servers, RemoveCancel(w)
    PROVE  DeliveriesInv'
<1>1. PICK i \in Ids : i = job[w].id
  BY JobTypes DEF DeliveriesInv, DeliveriesTypeOK, RemoveCancel, At
<1> DEFINE j == [at |-> "marking", id |-> i, seen |-> row[i], mark |-> "cancelled",
                 removes |-> TRUE]
<1>2. /\ UNCHANGED <<today, evening, tables, again, Adrift, faults>>
      /\ requests' \in 0..MaxRequests /\ job[w].at # "filing"
  BY DEF RemoveCancel, At, DeliveriesInv, DeliveriesTypeOK, ghosts, Adrift
<1>3. CASE i \in Live
  <2>1. j \in Jobs
    BY <1>3, JustLoaded DEF Jobs, STATUSES
  <2>2. Carries(j)
    BY <1>3, JustLoaded DEF Carries
  <2>3. Do(w, j)
    BY <1>1, <1>3 DEF RemoveCancel, MarkAs
  <2> HIDE DEF j
  <2>4. QED BY <1>2, <2>1, <2>2, <2>3, ReadsOn
<1>4. CASE i \notin Live
  <2>1. Do(w, Idle)
    BY <1>1, <1>4 DEF RemoveCancel, Ends
  <2>2. Idle \in Jobs /\ Carries(Idle)
    BY DEF Jobs, Idle, Carries
  <2>3. QED BY <1>2, <2>1, <2>2, ReadsOn
<1>5. QED BY <1>3, <1>4

\* reschedule loads its row.
LEMMA MoveReadInv ==
    ASSUME DeliveriesInv, NEW w \in Servers, NEW i \in Ids, NEW to \in When,
           MoveRead(w, i, to)
    PROVE  DeliveriesInv'
<1> DEFINE j == [at |-> "moving", id |-> i, seen |-> row[i], to |-> to]
<1>1. i \in Live /\ job[w].at # "filing" /\ requests' \in 0..MaxRequests
  BY AsksWell DEF MoveRead
<1>2. j \in Jobs
  BY <1>1, JustLoaded DEF Jobs
<1>3. Carries(j)
  BY <1>1, JustLoaded DEF Carries
<1>4. Do(w, j) /\ UNCHANGED <<today, evening, tables, again, Adrift, faults>>
  BY DEF MoveRead, ghosts, Adrift
<1> HIDE DEF j
<1>5. QED BY <1>1, <1>2, <1>3, <1>4, ReadsOn

\* A write of the day's log and what the mark wrote: the whole of MarkWrite.
LEMMA MarkWriteInv ==
    ASSUME DeliveriesInv, NEW w \in Servers, MarkWrite(w)
    PROVE  DeliveriesInv'
<1>1. PICK j \in Jobs : j = job[w]
  BY DEF DeliveriesInv, DeliveriesTypeOK
<1>2. j.at = "marking" /\ j.id \in Ids /\ j.seen \in Row /\ j.mark \in STATUSES
      /\ j.removes \in BOOLEAN /\ j.id \in made
  <2>1. j.at = "marking"
    BY <1>1 DEF MarkWrite, At
  <2>2. Carries(j)
    BY <1>1 DEF DeliveriesInv, Carried
  <2>3. QED BY <2>1, <2>2, JobTypes DEF Carries
<1>3. UNCHANGED <<today, evening, again, requests>>
  BY DEF MarkWrite
<1>4. PICK l \in Ids, d \in LogDays :
        /\ WriteLog(l, d, Filed(j.mark))
        /\ LogsOf(MealOf(l), d) \subseteq {l} /\ Numbered(Logged \cup {l})
        /\ l \in Logged => log[l].day = d
  <2>1. CASE j.seen.record # Absent
    <3>1. j.seen.record \in Logged
      BY <1>1, <1>2, <2>1 DEF DeliveriesInv, Carried, Carries
    <3>2. PICK l \in Logged : l = j.seen.record
      BY <3>1
    <3>3. log[l] \in Log /\ LogsOf(MealOf(l), log[l].day) = {l} /\ Numbered(Logged \cup {l})
          /\ l \in Ids
      BY SameDaySameLog DEF DeliveriesInv, Logged
    <3>4. PICK d \in LogDays : d = log[l].day
      BY <3>3 DEF Log
    <3>5. WriteLog(l, d, Filed(j.mark))
      BY <1>1, <2>1, <3>2, <3>4 DEF MarkWrite
    <3>6. QED BY <3>3, <3>4, <3>5
  <2>2. CASE j.seen.record = Absent
    <3> DEFINE m == MealOf(j.id)
               d == UtcDay(j.seen)
    <3>1. m \in Meals
      BY <1>2 DEF MealOf, Ids
    <3>2. \/ \E l \in LogsOf(m, d) : WriteLog(l, d, Filed(j.mark))
          \/ LogsOf(m, d) = {} /\ WriteLog(NextId(m, d, Logged), d, Filed(j.mark))
      BY <1>1, <2>2 DEF MarkWrite, Logged
    <3> HIDE DEF m, d
    <3>3. CASE \E l \in LogsOf(m, d) : WriteLog(l, d, Filed(j.mark))
      <4>1. PICK l \in LogsOf(m, d) : WriteLog(l, d, Filed(j.mark))
        BY <3>3
      <4>2. l \in Logged /\ MealOf(l) = m /\ log[l].day = d
        BY DEF LogsOf, Logged
      <4>3. log[l] \in Log /\ LogsOf(MealOf(l), d) = {l} /\ Numbered(Logged \cup {l})
            /\ l \in Ids
        BY <4>2, SameDaySameLog DEF DeliveriesInv, Logged
      <4>4. d \in LogDays
        BY <4>2, <4>3 DEF Log
      <4>5. QED BY <4>1, <4>2, <4>3, <4>4
    <3>4. CASE LogsOf(m, d) = {} /\ WriteLog(NextId(m, d, Logged), d, Filed(j.mark))
      <4>1. PICK l \in Ids : l = NextId(m, d, Logged)
        BY <3>4 DEF WriteLog
      <4>2. l[1] = m /\ l[2] = d /\ d \in LogDays
        BY <4>1 DEF NextId, Ids
      <4>3. l = NextId(l[1], l[2], Logged) /\ Logged \in SUBSET Ids /\ Numbered(Logged)
        BY <4>1, <4>2 DEF Logged, DeliveriesInv, Tables, Minted
      <4>4. Logged \cap {l} = {} /\ Numbered(Logged \cup {l})
        <5>1. {l} \in SUBSET Ids /\ \A i \in {l} : i = NextId(i[1], i[2], Logged)
          BY <4>3
        <5>2. QED BY <4>3, <5>1, NextIsNew
      <4>5. WriteLog(l, d, Filed(j.mark)) /\ l \notin Logged /\ LogsOf(m, d) \subseteq {l}
        BY <3>4, <4>1, <4>4
      <4>6. MealOf(l) = m
        BY <4>2 DEF MealOf
      <4>7. LogsOf(MealOf(l), d) \subseteq {l}
        BY <4>5, <4>6
      <4>8. QED BY <4>2, <4>4, <4>5, <4>7
    <3>5. QED BY <3>2, <3>3, <3>4
  <2>3. QED BY <2>1, <2>2
<1>5. Written(l) /\ faults' \in 0..MaxFaults
  <2>1. again \subseteq again' /\ again' \subseteq Ids /\ Tables /\ faults \in 0..MaxFaults
    BY <1>3 DEF DeliveriesInv, DeliveriesTypeOK
  <2>2. PICK s \in STATUSES : s = Filed(j.mark)
    BY <1>2 DEF Filed, STATUSES
  <2>3. WriteLog(l, d, s)
    BY <1>4, <2>2
  <2>4. QED BY <1>4, <2>1, <2>3, WriteKeeps
<1>6. Tables' /\ Grows
  BY <1>5 DEF Written
<1>7. PICK n \in Jobs : Do(w, n) /\ Carries(n)'
  <2>1. CASE j.removes
    <3> DEFINE n == [at |-> "deleting", id |-> j.id]
    <3>1. n \in Jobs
      BY <1>2 DEF Jobs
    <3>2. Carries(n)'
      BY <1>2, <1>6 DEF Carries, Grows
    <3>3. Do(w, n)
      BY <1>1, <2>1 DEF MarkWrite
    <3> HIDE DEF n
    <3>4. QED BY <3>1, <3>2, <3>3
  <2>2. CASE ~j.removes
    <3>1. Do(w, Idle)
      BY <1>1, <2>2 DEF MarkWrite, Ends
    <3>2. QED BY <3>1, IdleCarries
  <2>3. QED BY <2>1, <2>2
<1>8. /\ Carried' /\ job' \in [Servers -> Jobs]
      /\ \A v \in Servers : v # w => job'[v] = job[v]
  BY <1>6, <1>7, StepCarries
<1>9. MirrorAgrees'
  <2>1. job[w].at # "filing"
    BY <1>1, <1>2
  <2>2. QED BY <1>5, <1>8, <2>1, WriteAgrees
<1>10. DeliveriesTypeOK'
  BY <1>3, <1>5, <1>6, <1>8 DEF DeliveriesInv, DeliveriesTypeOK, Tables, Rows, Adrift
<1>11. QED BY <1>6, <1>8, <1>9, <1>10 DEF DeliveriesInv

\* A move files the log of its row, or finds the day taken and fails.
LEMMA MoveLogInv ==
    ASSUME DeliveriesInv, NEW w \in Servers, MoveLog(w)
    PROVE  DeliveriesInv'
<1>1. PICK j \in Jobs : j = job[w]
  BY DEF DeliveriesInv, DeliveriesTypeOK
<1>2. j.at = "filing" /\ j.seen \in Row /\ j.to \in When
      /\ j.seen.record \in Logged
  <2>1. j.at = "filing"
    BY <1>1 DEF MoveLog, At
  <2>2. Carries(j)
    BY <1>1 DEF DeliveriesInv, Carried
  <2>3. QED BY <2>1, <2>2, JobTypes DEF Carries
<1>3. PICK l \in Logged : l = j.seen.record
  BY <1>2
<1>4. l \in Ids /\ log[l] \in Log /\ log[l].status \in STATUSES
  BY DEF Logged, DeliveriesInv, Tables, Rows, Log
<1>5. PICK d \in LogDays : d = UtcDay(j.to)
  <2>1. j.to.day \in 1..LastDay
    BY <1>2 DEF When, Days
  <2>2. j.to.day \in LogDays /\ j.to.day + 1 \in LogDays
    BY <2>1, DeliveriesAssumption DEF LogDays
  <2>3. QED BY <2>2 DEF UtcDay
<1>6. again' = again \cup Own(l) /\ Do(w, Idle) /\ UNCHANGED <<today, evening, requests>>
  BY <1>1, <1>3 DEF MoveLog, Ends
<1>7. again \subseteq again' /\ again' \subseteq Ids /\ Own(l) \subseteq again'
      /\ Tables /\ faults \in 0..MaxFaults
  BY <1>6 DEF DeliveriesInv, DeliveriesTypeOK, Own, Live
<1>8. Tables' /\ Grows /\ faults' \in 0..MaxFaults
      /\ \A i \in Live' : WrittenRow(l, i)
  <2>1. CASE LogsOf(MealOf(l), d) \subseteq {l}
    <3>1. WriteLog(l, d, log[l].status)
      BY <2>1, <1>1, <1>3, <1>5 DEF MoveLog
    <3>2. Numbered(Logged \cup {l})
      BY <1>3, SameDaySameLog, <1>7
    <3>3. PICK s \in STATUSES : s = log[l].status
      BY <1>4
    <3>4. WriteLog(l, d, s)
      BY <3>1, <3>3
    <3>5. Written(l) /\ faults' \in 0..MaxFaults
      BY <1>4, <1>7, <2>1, <3>2, <3>4, WriteKeeps
    <3>6. QED BY <3>5 DEF Written
  <2>2. CASE ~(LogsOf(MealOf(l), d) \subseteq {l})
    <3>1. Adrift' = Adrift \cup {l} /\ UNCHANGED <<tables, faults>>
      BY <2>2, <1>1, <1>3, <1>5 DEF MoveLog, Adrift
    <3>2. UNCHANGED <<row, made, log>> /\ Live' = Live /\ Logged' = Logged
      BY <3>1 DEF tables, Live, Logged
    <3>3. Rows' /\ Minted' /\ Linked' /\ OneOwner'
      BY <3>1, <3>2, <1>4, <1>7
         DEF Tables, Rows, Minted, Numbered, MadeAt, Linked, OneOwner, MealOf
    <3>4. OneLog' /\ OneUnmarked' /\ OnItsDay' /\ AdoptedNotDuplicated'
      <4>1. OneLog' /\ OneUnmarked' /\ OnItsDay'
        BY <3>2, <1>7 DEF Tables, OneLog, OneUnmarked, OnItsDay, MealOf
      <4>2. SUFFICES ASSUME NEW i \in Live, NEW k \in Live, MealOf(i) = MealOf(k),
                            row[i].day = row[k].day, i # k
                     PROVE  i \in again' \/ k \in again'
        BY <4>1, <3>2 DEF AdoptedNotDuplicated, MealOf
      <4>3. i \in again \/ k \in again
        BY <4>2, <1>7 DEF Tables, AdoptedNotDuplicated
      <4>4. QED BY <4>3, <1>7
    <3>5. Grows
      BY <3>2 DEF Grows
    <3>6. ASSUME NEW i \in Live' PROVE WrittenRow(l, i)
      BY <3>1, <3>2, <3>6 DEF WrittenRow
    <3>7. QED BY <3>1, <3>3, <3>4, <3>5, <3>6, <1>7 DEF Tables
  <2>3. QED BY <2>1, <2>2
<1>9. /\ Carried' /\ job' \in [Servers -> Jobs]
      /\ \A v \in Servers : v # w => job'[v] = job[v]
  BY <1>6, <1>8, IdleCarries, StepCarries
<1>10. MirrorAgrees'
  <2>1. job[w].seen.record = l /\ Written(l)
    BY <1>1, <1>3, <1>8 DEF Written
  <2>2. QED BY <1>4, <1>9, <2>1, WriteAgrees
<1>11. DeliveriesTypeOK'
  BY <1>6, <1>8, <1>9 DEF DeliveriesInv, DeliveriesTypeOK, Tables, Rows, Adrift
<1>12. QED BY <1>8, <1>9, <1>10, <1>11 DEF DeliveriesInv

\* remove deletes the row; its log stays.
LEMMA RemoveRowInv ==
    ASSUME DeliveriesInv, NEW w \in Servers, RemoveRow(w)
    PROVE  DeliveriesInv'
<1>1. PICK i \in Ids : i = job[w].id
  BY JobTypes DEF DeliveriesInv, DeliveriesTypeOK, RemoveRow, At
<1>2. /\ row' = [row EXCEPT ![i] = Absent] /\ Do(w, Idle) /\ job[w].at # "filing"
      /\ UNCHANGED <<today, evening, made, log, again, Adrift, requests, faults>>
  BY <1>1 DEF RemoveRow, At, Ends, ghosts, Adrift
<1>3. /\ row' \in [Ids -> Row \cup {Absent}] /\ row'[i] = Absent
      /\ \A k \in Ids : k # i => row'[k] = row[k]
  BY <1>2 DEF DeliveriesInv, Tables, Rows
<1>4. Live' = Live \ {i} /\ Logged' = Logged /\ \A k \in Live' : k \in Ids /\ row'[k] = row[k]
  BY <1>2, <1>3 DEF Live, Logged
<1>5. Rows' /\ Minted' /\ Linked'
  BY <1>2, <1>3, <1>4
     DEF DeliveriesInv, Tables, Rows, Minted, Numbered, MadeAt, Linked, MealOf
<1>6. OneOwner' /\ OneLog' /\ OneUnmarked' /\ OnItsDay' /\ AdoptedNotDuplicated'
  <2>1. OneOwner' /\ OneLog' /\ OnItsDay'
    BY <1>2, <1>4 DEF DeliveriesInv, Tables, OneOwner, OneLog, OnItsDay, MealOf
  <2>2. OneUnmarked' /\ AdoptedNotDuplicated'
    BY <1>2, <1>4 DEF DeliveriesInv, Tables, OneUnmarked, AdoptedNotDuplicated, MealOf
  <2>3. QED BY <2>1, <2>2
<1>7. Tables' /\ Grows
  BY <1>2, <1>4, <1>5, <1>6 DEF DeliveriesInv, Tables, Grows
<1>8. /\ Carried' /\ job' \in [Servers -> Jobs]
      /\ \A v \in Servers : v # w => job'[v] = job[v]
  BY <1>2, <1>7, IdleCarries, StepCarries
<1>9. MirrorAgrees'
  <2>1. SUFFICES ASSUME NEW k \in Live', row'[k].record # Absent
                 PROVE  \/ /\ row'[k].day = log'[row'[k].record].day
                           /\ row'[k].status = log'[row'[k].record].status
                        \/ row'[k].record \in Adrift'
                        \/ \E v \in Servers :
                              job'[v].at = "filing" /\ job'[v].seen.record = row'[k].record
    BY DEF MirrorAgrees, At, Adrift
  <2>2. k \in Live /\ row'[k] = row[k]
    BY <2>1, <1>4
  <2>3. \/ row[k].day = log[row[k].record].day /\ row[k].status = log[row[k].record].status
        \/ row[k].record \in Adrift
        \/ \E v \in Servers : job[v].at = "filing" /\ job[v].seen.record = row[k].record
    BY <2>1, <2>2 DEF DeliveriesInv, MirrorAgrees, At, Adrift
  <2>4. QED BY <2>2, <2>3, <1>2, <1>8
<1>10. DeliveriesTypeOK'
  BY <1>2, <1>3, <1>8 DEF DeliveriesInv, DeliveriesTypeOK, Adrift
<1>11. QED BY <1>7, <1>8, <1>9, <1>10 DEF DeliveriesInv

\* A call that is cut short.
LEMMA RequestDiesInv ==
    ASSUME DeliveriesInv, NEW w \in Servers, RequestDies(w)
    PROVE  DeliveriesInv'
<1>1. PICK j \in Jobs : j = job[w]
  BY DEF DeliveriesInv, DeliveriesTypeOK
<1>2. /\ UNCHANGED <<today, evening, tables, again, requests>> /\ Do(w, Idle)
      /\ Adrift' = IF j.at = "filing" THEN Adrift \cup {j.seen.record} ELSE Adrift
  BY <1>1 DEF RequestDies, At, Ends, Adrift
<1>3. faults' \in 0..MaxFaults
  BY DeliveriesAssumption DEF RequestDies, DeliveriesInv, DeliveriesTypeOK
<1>4. Live' = Live /\ Logged' = Logged /\ UNCHANGED <<row, made, log, again>>
  BY <1>2 DEF tables, Live, Logged
<1>5. Adrift \subseteq Adrift' /\ Adrift' \subseteq Ids
  <2>1. j.at = "filing" => j.seen.record \in Ids
    BY <1>1 DEF DeliveriesInv, Carried, Carries, Logged
  <2>2. QED BY <1>2, <2>1 DEF DeliveriesInv, DeliveriesTypeOK, Adrift
<1>6. Rows' /\ Minted' /\ Linked' /\ OneOwner'
  BY <1>4, <1>5
     DEF DeliveriesInv, Tables, Rows, Minted, Numbered, MadeAt, Linked, OneOwner, MealOf
<1>7. OneLog' /\ OneUnmarked' /\ OnItsDay' /\ AdoptedNotDuplicated'
  BY <1>4 DEF DeliveriesInv, Tables, OneLog, OneUnmarked, OnItsDay, AdoptedNotDuplicated, MealOf
<1>8. Tables' /\ Grows
  BY <1>4, <1>6, <1>7 DEF Tables, Grows
<1>9. /\ Carried' /\ job' \in [Servers -> Jobs]
      /\ \A v \in Servers : v # w => job'[v] = job[v]
  BY <1>2, <1>8, IdleCarries, StepCarries
<1>10. MirrorAgrees'
  <2>1. SUFFICES ASSUME NEW k \in Live, row[k].record # Absent
                 PROVE  \/ /\ row[k].day = log[row[k].record].day
                           /\ row[k].status = log[row[k].record].status
                        \/ row[k].record \in Adrift'
                        \/ \E v \in Servers :
                              job'[v].at = "filing" /\ job'[v].seen.record = row[k].record
    BY <1>4 DEF MirrorAgrees, At, Adrift
  <2>2. \/ row[k].day = log[row[k].record].day /\ row[k].status = log[row[k].record].status
        \/ row[k].record \in Adrift
        \/ \E v \in Servers : job[v].at = "filing" /\ job[v].seen.record = row[k].record
    BY <2>1 DEF DeliveriesInv, MirrorAgrees, At, Adrift
  <2>3. ASSUME NEW v \in Servers, job[v].at = "filing", job[v].seen.record = row[k].record
        PROVE  row[k].record \in Adrift' \/ job'[v] = job[v]
    BY <2>3, <1>1, <1>2, <1>9
  <2>4. QED BY <2>2, <2>3, <1>5
<1>11. DeliveriesTypeOK'
  BY <1>2, <1>3, <1>4, <1>5, <1>9 DEF DeliveriesInv, DeliveriesTypeOK, Adrift
<1>12. QED BY <1>8, <1>9, <1>10, <1>11 DEF DeliveriesInv

\* The generator makes a row where a day has none unmarked.
LEMMA GenerateInv ==
    ASSUME DeliveriesInv, Generate
    PROVE  DeliveriesInv'
<1> DEFINE due == {k \in Meals \X (today..LastDay) : Unmarked(k[1], k[2]) = {}}
           new == {NextId(k[1], k[2], made) : k \in due}
<1>1. /\ new \subseteq Ids
      /\ row' = [i \in Ids |->
             IF i \in new
             THEN [day |-> i[2], late |-> i[1] \in evening,
                   status |-> "scheduled", record |-> Absent]
             ELSE row[i]]
      /\ made' = made \cup new
      /\ again' = again \cup {i \in new : Shown(i[1], i[2]) # {}}
      /\ UNCHANGED <<today, evening, log, job, Adrift, requests, faults>>
  BY DEF Generate, Adrift
<1>2. ASSUME NEW i \in new
      PROVE  /\ i = NextId(i[1], i[2], made) /\ Unmarked(i[1], i[2]) = {}
  <2>1. PICK k \in due : i = NextId(k[1], k[2], made)
    OBVIOUS
  <2>2. i[1] = k[1] /\ i[2] = k[2]
    BY <2>1 DEF NextId
  <2>3. QED BY <2>1, <2>2
<1> HIDE DEF due, new
<1>3. made \cap new = {} /\ Numbered(made \cup new)
  <2>1. made \in SUBSET Ids /\ new \in SUBSET Ids /\ Numbered(made)
    BY <1>1 DEF DeliveriesInv, Tables, Rows, Minted
  <2>2. \A i \in new : i = NextId(i[1], i[2], made)
    BY <1>2
  <2>3. QED BY <2>1, <2>2, NextIsNew
<1>4. ASSUME NEW i \in new
      PROVE  /\ i \in Ids /\ i[1] \in Meals /\ i[2] \in LogDays /\ row'[i] \in Row /\ row'[i] # Absent
             /\ row'[i].record = Absent /\ row'[i].day = i[2]
  <2>1. i \in Ids /\ i[1] \in Meals /\ i[2] \in LogDays
    BY <1>1 DEF Ids
  <2>2. row'[i] = [day |-> i[2], late |-> i[1] \in evening, status |-> "scheduled",
                   record |-> Absent]
    BY <2>1, <1>1
  <2>3. ASSUME NEW late \in BOOLEAN
        PROVE  [day |-> i[2], late |-> late, status |-> "scheduled", record |-> Absent] \in Row
    BY <2>1 DEF Row, STATUSES
  <2>4. (i[1] \in evening) \in BOOLEAN
    OBVIOUS
  <2>5. row'[i] \in Row
    BY <2>2, <2>3, <2>4, Zenon
  <2>6. row'[i].record = Absent /\ row'[i].day = i[2]
    BY <2>2
  <2>7. QED BY <2>1, <2>5, <2>6, DeliveriesAssumption
<1>5. \A k \in Ids : k \notin new => row'[k] = row[k]
  BY <1>1
<1>6. row' \in [Ids -> Row \cup {Absent}]
  <2>1. \A k \in Ids : row'[k] \in Row \cup {Absent}
    BY <1>4, <1>5 DEF DeliveriesInv, Tables, Rows
  <2>2. row' = [i \in Ids |-> row'[i]]
    BY <1>1
  <2> QED BY <2>1, <2>2
<1>7. Live \subseteq made /\ Live' = Live \cup new /\ Logged' = Logged
      /\ \A k \in Live : k \in Ids /\ k \notin new /\ row'[k] = row[k]
  <2>1. Live \subseteq made /\ Live \subseteq Ids /\ Logged' = Logged
    BY <1>1 DEF DeliveriesInv, Tables, Minted, Live, Logged
  <2>2. \A k \in Live : k \in Ids /\ k \notin new /\ row'[k] = row[k]
    BY <2>1, <1>3, <1>5
  <2>3. Live' = Live \cup new
    BY <1>1, <1>4, <1>5 DEF Live
  <2>4. QED BY <2>1, <2>2, <2>3
<1>8. Rows' /\ Minted'
  <2>1. again' \subseteq Ids /\ Adrift' \subseteq Ids /\ made' \subseteq Ids
    BY <1>1 DEF DeliveriesInv, Tables, Rows
  <2>2. Rows'
    BY <2>1, <1>1, <1>6 DEF DeliveriesInv, Tables, Rows
  <2>3. Numbered(made)' /\ Numbered(Logged)'
    BY <1>1, <1>3, <1>7 DEF DeliveriesInv, Tables, Minted, Numbered, MadeAt
  <2>4. QED BY <2>2, <2>3, <1>1, <1>7 DEF Minted
<1>9. Linked' /\ OnItsDay'
  <2>1. SUFFICES ASSUME NEW k \in Live', row'[k].record # Absent
                 PROVE  /\ row'[k].record \in Logged' /\ MealOf(row'[k].record) = MealOf(k)
                        /\ row'[k].day = log[row'[k].record].day \/ k \in again'
    BY <1>1 DEF Linked, OnItsDay, MealOf
  <2>2. k \in Live /\ row'[k] = row[k]
    BY <2>1, <1>4, <1>7
  <2>3. QED BY <2>1, <2>2, <1>1, <1>7 DEF DeliveriesInv, Tables, Linked, OnItsDay
<1>10. OneOwner'
  <2>1. SUFFICES ASSUME NEW i \in Live', NEW k \in Live', row'[i].record = row'[k].record,
                        row'[i].record # Absent
                 PROVE  i = k
    BY DEF OneOwner
  <2>2. i \in Live /\ k \in Live
    BY <2>1, <1>4, <1>7
  <2>3. QED BY <2>1, <2>2, <1>7 DEF DeliveriesInv, Tables, OneOwner
<1>11. OneLog'
  BY <1>1, <1>7 DEF DeliveriesInv, Tables, OneLog, MealOf
<1>12. ASSUME NEW i \in new, NEW k \in Live', MealOf(i) = MealOf(k), row'[k].day = i[2], i # k
       PROVE  k \in Live /\ row[k].record # Absent /\ i \in again'
  <2>1. k \notin new
    <3>1. SUFFICES ASSUME k \in new PROVE FALSE
      OBVIOUS
    <3>2. k[2] = i[2] /\ k[1] = i[1]
      BY <3>1, <1>12, <1>4 DEF MealOf
    <3>3. QED BY <3>1, <3>2, <1>2, <1>12
  <2>2. k \in Live /\ row'[k] = row[k]
    BY <2>1, <1>7
  <2>3. k \in Shown(i[1], i[2])
    BY <2>2, <1>12 DEF Shown, MealOf
  <2>4. row[k].record # Absent
    BY <2>3, <1>2 DEF Unmarked
  <2>5. QED BY <2>2, <2>3, <2>4, <1>1
<1>13. OneUnmarked'
  <2>1. SUFFICES ASSUME NEW i \in Live', NEW k \in Live', row'[i].record = Absent,
                        row'[k].record = Absent, MealOf(i) = MealOf(k),
                        row'[i].day = row'[k].day
                 PROVE  i = k
    BY DEF OneUnmarked, MealOf
  <2>2. CASE i \in new \/ k \in new
    BY <2>1, <2>2, <1>4, <1>7, <1>12 DEF MealOf
  <2>3. CASE i \notin new /\ k \notin new
    BY <2>1, <2>3, <1>7 DEF DeliveriesInv, Tables, OneUnmarked
  <2>4. QED BY <2>2, <2>3
<1>14. AdoptedNotDuplicated'
  <2>1. SUFFICES ASSUME NEW i \in Live', NEW k \in Live', MealOf(i) = MealOf(k),
                        row'[i].day = row'[k].day, i # k
                 PROVE  i \in again' \/ k \in again'
    BY DEF AdoptedNotDuplicated, MealOf
  <2>2. CASE i \in new
    BY <2>1, <2>2, <1>4, <1>12
  <2>3. CASE k \in new
    BY <2>1, <2>3, <1>4, <1>12
  <2>4. CASE i \notin new /\ k \notin new
    <3>1. i \in Live /\ k \in Live /\ row'[i] = row[i] /\ row'[k] = row[k]
      BY <2>1, <2>4, <1>7
    <3>2. i \in again \/ k \in again
      BY <2>1, <3>1 DEF DeliveriesInv, Tables, AdoptedNotDuplicated
    <3>3. QED BY <3>2, <1>1
  <2>5. QED BY <2>2, <2>3, <2>4
<1>15. Grows
  <2>1. ASSUME NEW k \in made, k \in Live'
        PROVE  k \in Live /\ row'[k] = row[k]
    BY <2>1, <1>3, <1>7
  <2>2. QED BY <2>1, <1>1, <1>7 DEF Grows
<1>16. Tables'
  BY <1>8, <1>9, <1>10, <1>11, <1>13, <1>14 DEF Tables
<1>17. Carried'
  <2>1. \A k \in Jobs : Carries(k) => Carries(k)'
    BY <1>15, StaysCarried DEF DeliveriesInv
  <2>2. SUFFICES ASSUME NEW w \in Servers PROVE Carries(job[w])'
    BY DEF Carried
  <2>3. Carries(job[w]) /\ job[w] \in Jobs /\ job' = job
    BY <1>1 DEF DeliveriesInv, Carried, DeliveriesTypeOK
  <2>4. QED BY <2>1, <2>3 DEF Carries
<1>18. MirrorAgrees'
  <2>1. SUFFICES ASSUME NEW k \in Live', row'[k].record # Absent
                 PROVE  \/ /\ row'[k].day = log[row'[k].record].day
                           /\ row'[k].status = log[row'[k].record].status
                        \/ row'[k].record \in Adrift
                        \/ \E v \in Servers :
                              job[v].at = "filing" /\ job[v].seen.record = row'[k].record
    BY <1>1 DEF MirrorAgrees, At, Adrift
  <2>2. k \in Live /\ row'[k] = row[k]
    BY <2>1, <1>4, <1>7
  <2>3. QED BY <2>1, <2>2 DEF DeliveriesInv, MirrorAgrees, At, Adrift
<1>19. DeliveriesTypeOK'
  BY <1>1, <1>8 DEF DeliveriesInv, DeliveriesTypeOK, Rows, Adrift
<1>20. QED BY <1>16, <1>17, <1>18, <1>19 DEF DeliveriesInv

\* A move writes its row, whatever its log is by then.
LEMMA MoveRowInv ==
    ASSUME DeliveriesInv, NEW w \in Servers, MoveRow(w)
    PROVE  DeliveriesInv'
<1>1. PICK j \in Jobs : j = job[w]
  BY DEF DeliveriesInv, DeliveriesTypeOK
<1>2. PICK i \in Ids : i = j.id
  BY <1>1, JobTypes DEF MoveRow, At
<1>3. /\ j.at = "moving" /\ j.seen \in Row /\ j.to \in When /\ i \in made
      /\ j.seen.record # Absent =>
            /\ j.seen.record \in Logged /\ MealOf(j.seen.record) = MealOf(i)
            /\ i \in Live => row[i].record = j.seen.record
  <2>1. j.at = "moving"
    BY <1>1 DEF MoveRow, At
  <2>2. Carries(j)
    BY <1>1 DEF DeliveriesInv, Carried
  <2>3. QED BY <2>1, <2>2, <1>2, JobTypes DEF Carries
<1> DEFINE refused == /\ i \in Live /\ row[i].record = Absent
                      /\ Unmarked(MealOf(i), j.to.day) \ {i} # {}
           moves == i \in Live /\ ~refused
           next == IF Files(j.seen) /\ ~refused THEN [j EXCEPT !.at = "filing"] ELSE Idle
<1>4. /\ Do(w, next)
      /\ UNCHANGED <<today, evening, made, log, requests, faults>>
      /\ ~moves => UNCHANGED <<row, again, Adrift>>
      /\ moves => /\ row' = [row EXCEPT ![i].day = j.to.day, ![i].late = j.to.late,
                                        ![i].status = j.seen.status]
                  /\ again' = again \cup {i}
                  /\ Adrift' = IF j.seen.record = Absent THEN Adrift \cup ({row[i].record} \ {Absent})
                             ELSE Adrift
  <2>1. UNCHANGED torn /\ (~moves => UNCHANGED <<row, again, overtaken>>)
    BY <1>1, <1>2, Zenon DEF MoveRow
  <2>2. moves => overtaken' = IF j.seen.record = Absent
                              THEN overtaken \cup ({row[i].record} \ {Absent})
                              ELSE overtaken
    BY <1>1, <1>2, Zenon DEF MoveRow
  <2>3. /\ Do(w, next)
        /\ UNCHANGED <<today, evening, made, log, requests, faults>>
        /\ moves => /\ row' = [row EXCEPT ![i].day = j.to.day, ![i].late = j.to.late,
                                          ![i].status = j.seen.status]
                    /\ again' = again \cup {i}
    BY <1>1, <1>2, Zenon DEF MoveRow, Ends
  <2> HIDE DEF moves, next
  <2>4. QED
    BY <2>1, <2>2, <2>3 DEF Adrift
<1>5. next \in Jobs
  <2>1. Idle \in Jobs
    BY DEF Jobs
  <2>2. [j EXCEPT !.at = "filing"] \in Jobs
    BY <1>3 DEF Jobs, Idle
  <2>3. QED BY <2>1, <2>2
<1>6. PICK n \in Jobs : n = next
  BY <1>5
<1>7. n = Idle => refused \/ j.seen.record = Absent
  BY <1>3, <1>6 DEF Files, Idle, Jobs
<1>8. /\ n.at # "idle" => n.at = "filing" /\ n.id = i /\ n.seen = j.seen
      /\ n # Idle => j.seen.record # Absent
  BY <1>2, <1>3, <1>6 DEF Jobs, Idle, Files
<1> HIDE DEF next
<1>9. /\ row' \in [Ids -> Row \cup {Absent}]
      /\ \A k \in Ids : k # i => row'[k] = row[k]
      /\ ~moves => row'[i] = row[i]
      /\ moves => /\ row[i] \in Row /\ row'[i] \in Row /\ row'[i].record = row[i].record
                  /\ row'[i].day = j.to.day
  <2>1. CASE ~moves
    BY <2>1, <1>4 DEF DeliveriesInv, Tables, Rows
  <2>2. CASE moves
    <3>1. row \in [Ids -> Row \cup {Absent}] /\ row[i] \in Row
      BY <2>2 DEF DeliveriesInv, Tables, Rows, Live
    <3>2. row' = [row EXCEPT ![i] =
                    [row[i] EXCEPT !.day = j.to.day, !.late = j.to.late, !.status = j.seen.status]]
      BY <2>2, <1>4
    <3>3. j.to.day \in LogDays /\ j.to.late \in BOOLEAN /\ j.seen.status \in STATUSES
      <4>1. j.to.day \in 1..LastDay /\ j.to.late \in BOOLEAN
        BY <1>3 DEF When, Days
      <4>2. QED BY <4>1, <1>3, DeliveriesAssumption DEF LogDays, Row
    <3> DEFINE r == [row[i] EXCEPT !.day = j.to.day, !.late = j.to.late, !.status = j.seen.status]
    <3>4. r \in Row /\ r.record = row[i].record /\ r.day = j.to.day
      BY <3>1, <3>3 DEF Row
    <3> HIDE DEF r
    <3>5. row' = [row EXCEPT ![i] = r]
      BY <3>2 DEF r
    <3>6. QED BY <2>2, <3>1, <3>4, <3>5
  <2>3. QED BY <2>1, <2>2
<1>10. Live' = Live /\ Logged' = Logged /\ again \subseteq again' /\ again' \subseteq Ids
       /\ Adrift \subseteq Adrift' /\ Adrift' \subseteq Ids /\ (moves => i \in again')
  <2>1. Live' = Live
    BY <1>9, DeliveriesAssumption DEF Live
  <2>2. i \in Live /\ row[i].record # Absent => row[i].record \in Ids
    BY DEF DeliveriesInv, Tables, Linked, Logged
  <2>3. QED BY <2>1, <2>2, <1>4 DEF Logged, DeliveriesInv, Tables, Rows
<1>11. \A k \in Live : k \in Ids /\ row'[k].record = row[k].record
  BY <1>9 DEF Live
<1>12. \A k \in Live : row'[k] = row[k] \/ (k = i /\ moves)
  BY <1>9 DEF Live
<1> HIDE DEF moves
<1>13. Rows' /\ Minted'
  BY <1>4, <1>9, <1>10 DEF DeliveriesInv, Tables, Rows, Minted, Numbered, MadeAt
<1>14. Linked' /\ OneOwner' /\ OneLog'
  BY <1>4, <1>10, <1>11 DEF DeliveriesInv, Tables, Linked, OneOwner, OneLog, MealOf
<1>15. OnItsDay'
  <2>1. SUFFICES ASSUME NEW k \in Live, row[k].record # Absent
                 PROVE  row'[k].day = log[row[k].record].day \/ k \in again'
    BY <1>4, <1>10, <1>11 DEF OnItsDay
  <2>2. row[k].day = log[row[k].record].day \/ k \in again
    BY <2>1 DEF DeliveriesInv, Tables, OnItsDay
  <2>3. QED BY <2>2, <1>10, <1>12
<1>16. OneUnmarked'
  <2>1. ASSUME NEW k \in Live, moves, k # i, row[i].record = Absent, row[k].record = Absent,
               MealOf(k) = MealOf(i), row[k].day = j.to.day
        PROVE  FALSE
    <3>1. k \in Unmarked(MealOf(i), j.to.day) \ {i}
      BY <2>1 DEF Unmarked, Shown
    <3>2. QED BY <2>1, <3>1 DEF moves
  <2>2. SUFFICES ASSUME NEW a \in Live, NEW b \in Live, row[a].record = Absent,
                        row[b].record = Absent, MealOf(a) = MealOf(b),
                        row'[a].day = row'[b].day, a # b
                 PROVE  FALSE
    BY <1>10, <1>11 DEF OneUnmarked, MealOf
  <2>3. CASE a = i /\ moves
    <3>1. row'[a].day = j.to.day /\ row'[b] = row[b]
      BY <2>2, <2>3, <1>9, <1>12
    <3>2. QED BY <2>1, <2>2, <2>3, <3>1
  <2>4. CASE b = i /\ moves
    <3>1. row'[b].day = j.to.day /\ row'[a] = row[a]
      BY <2>2, <2>4, <1>9, <1>12
    <3>2. QED BY <2>1, <2>2, <2>4, <3>1
  <2>5. CASE row'[a] = row[a] /\ row'[b] = row[b]
    BY <2>2, <2>5 DEF DeliveriesInv, Tables, OneUnmarked
  <2>6. QED BY <2>2, <2>3, <2>4, <2>5, <1>12
<1>17. AdoptedNotDuplicated'
  <2>1. SUFFICES ASSUME NEW a \in Live, NEW b \in Live, MealOf(a) = MealOf(b),
                        row'[a].day = row'[b].day, a # b
                 PROVE  a \in again' \/ b \in again'
    BY <1>10 DEF AdoptedNotDuplicated, MealOf
  <2>2. CASE row'[a] = row[a] /\ row'[b] = row[b]
    <3>1. a \in again \/ b \in again
      BY <2>1, <2>2 DEF DeliveriesInv, Tables, AdoptedNotDuplicated
    <3>2. QED BY <3>1, <1>10
  <2>3. QED BY <2>1, <2>2, <1>10, <1>12
<1>18. Tables' /\ Grows
  BY <1>4, <1>10, <1>11, <1>13, <1>14, <1>15, <1>16, <1>17 DEF Tables, Grows
<1>19. Carries(n)'
  <2>1. CASE n.at = "idle"
    BY <2>1 DEF Carries
  <2>2. CASE n.at # "idle"
    BY <2>2, <1>3, <1>4, <1>8, <1>10, <1>11 DEF Carries, MealOf, Idle
  <2>3. QED BY <2>1, <2>2
<1>20. /\ Carried' /\ job' \in [Servers -> Jobs] /\ job'[w] = n
       /\ \A v \in Servers : v # w => job'[v] = job[v]
  BY <1>4, <1>6, <1>18, <1>19, StepCarries
<1>21. MirrorAgrees'
  <2>1. SUFFICES ASSUME NEW k \in Live, row[k].record # Absent
                 PROVE  \/ /\ row'[k].day = log[row[k].record].day
                           /\ row'[k].status = log[row[k].record].status
                        \/ row[k].record \in Adrift'
                        \/ \E v \in Servers :
                              job'[v].at = "filing" /\ job'[v].seen.record = row[k].record
    BY <1>4, <1>10, <1>11 DEF MirrorAgrees, At, Adrift
  <2>2. CASE row'[k] = row[k]
    <3>1. \/ row[k].day = log[row[k].record].day /\ row[k].status = log[row[k].record].status
          \/ row[k].record \in Adrift
          \/ \E v \in Servers : job[v].at = "filing" /\ job[v].seen.record = row[k].record
      BY <2>1 DEF DeliveriesInv, MirrorAgrees, At, Adrift
    <3>2. job[w].at # "filing"
      BY <1>1, <1>3
    <3>3. QED BY <2>2, <3>1, <3>2, <1>10, <1>20
  <2>3. CASE k = i /\ moves
    <3>1. CASE j.seen.record = Absent
      BY <2>1, <2>3, <3>1, <1>4
    <3>2. CASE j.seen.record # Absent
      <4>1. row[i].record = j.seen.record /\ ~refused
        BY <2>3, <3>2, <1>3 DEF moves
      <4>2. n # Idle
        BY <3>2, <4>1, <1>7
      <4>3. n.at # "idle"
        BY <4>2, JobTypes
      <4>4. job'[w].at = "filing" /\ job'[w].seen.record = row[k].record
        BY <2>3, <4>1, <4>3, <1>8, <1>20
      <4>5. QED BY <4>4
    <3>3. QED BY <3>1, <3>2
  <2>4. QED BY <2>1, <2>2, <2>3, <1>12
<1>22. DeliveriesTypeOK'
  BY <1>4, <1>9, <1>10, <1>20 DEF DeliveriesInv, DeliveriesTypeOK, Adrift
<1>23. QED BY <1>18, <1>20, <1>21, <1>22 DEF DeliveriesInv

LEMMA NewDayInv ==
    ASSUME DeliveriesInv, NewDay
    PROVE  DeliveriesInv'
<1>1. UNCHANGED <<evening, tables, job, again, Adrift, requests, faults>> /\ today' \in Days
  BY DeliveriesAssumption DEF NewDay, DeliveriesInv, DeliveriesTypeOK, Days, ghosts, Adrift
<1>2. UNCHANGED <<row, made, log>>
  BY <1>1 DEF tables
<1>3. Tables' /\ Grows /\ Live' = Live /\ Logged' = Logged
  BY <1>1, TablesStay DEF DeliveriesInv
<1>4. Carried' /\ MirrorAgrees'
  BY <1>1, <1>2, <1>3 DEF DeliveriesInv, Carried, Carries, MirrorAgrees, At, MealOf, Adrift
<1>5. DeliveriesTypeOK'
  BY <1>1, <1>2 DEF DeliveriesInv, DeliveriesTypeOK, NewDay, ghosts
<1>6. QED BY <1>3, <1>4, <1>5 DEF DeliveriesInv

LEMMA DeliveriesStarts == ASSUME DeliveriesInit PROVE DeliveriesInv
<1>1. Live = {} /\ Logged = {} /\ made = {} /\ again = {} /\ Adrift = {}
  BY DEF DeliveriesInit, Live, Logged, Adrift
<1>2. Rows /\ Minted
  BY <1>1 DEF DeliveriesInit, Rows, Minted, Numbered
<1>3. Tables
  BY <1>1, <1>2
     DEF Tables, Linked, OneOwner, OneLog, OneUnmarked, OnItsDay, AdoptedNotDuplicated
<1>4. Carried /\ MirrorAgrees
  BY <1>1 DEF DeliveriesInit, Carried, Carries, Idle, MirrorAgrees
<1>5. DeliveriesTypeOK
  BY <1>2, DeliveriesAssumption DEF DeliveriesInit, DeliveriesTypeOK, Rows, Days, Jobs, Adrift
<1>6. QED BY <1>3, <1>4, <1>5 DEF DeliveriesInv

\* The tables, and what the calls carry between two awaits, stay in step.
THEOREM DeliveriesInvariance == DeliveriesSpec => []DeliveriesInv
<1>1. DeliveriesInit => DeliveriesInv
  BY DeliveriesStarts
<1>2. DeliveriesInv /\ [DeliveriesNext]_deliveryVars => DeliveriesInv'
  <2>1. SUFFICES ASSUME DeliveriesInv, [DeliveriesNext]_deliveryVars PROVE DeliveriesInv'
    OBVIOUS
  <2>2. CASE NewDay
    BY <2>1, <2>2, NewDayInv
  <2>3. CASE Generate
    BY <2>1, <2>3, GenerateInv
  <2>4. ASSUME NEW w \in Servers,
               MarkWrite(w) \/ RemoveCancel(w) \/ RemoveRow(w) \/ MoveRow(w) \/ MoveLog(w)
               \/ RequestDies(w)
        PROVE  DeliveriesInv'
    BY <2>1, <2>4, MarkWriteInv, RemoveCancelInv, RemoveRowInv, MoveRowInv, MoveLogInv,
       RequestDiesInv
  <2>5. ASSUME NEW w \in Servers, NEW i \in Ids,
               (\E mark \in Marks : MarkRead(w, i, mark)) \/ RemoveRead(w, i)
               \/ (\E to \in When : MoveRead(w, i, to))
        PROVE  DeliveriesInv'
    BY <2>1, <2>5, MarkReadInv, RemoveReadInv, MoveReadInv
  <2>6. CASE UNCHANGED deliveryVars
    <3>1. UNCHANGED <<today, evening, tables, job, again, Adrift, requests, faults>>
          /\ UNCHANGED <<row, made, log>>
      BY <2>6 DEF deliveryVars, tables, ghosts, Adrift
    <3>2. Tables' /\ Grows /\ Live' = Live /\ Logged' = Logged
      BY <2>1, <3>1, TablesStay DEF DeliveriesInv
    <3>3. Carried' /\ MirrorAgrees'
      BY <2>1, <3>1, <3>2 DEF DeliveriesInv, Carried, Carries, MirrorAgrees, At, MealOf, Adrift
    <3>4. DeliveriesTypeOK'
      BY <2>1, <2>6 DEF DeliveriesInv, DeliveriesTypeOK, deliveryVars, tables, ghosts
    <3>5. QED BY <3>2, <3>3, <3>4 DEF DeliveriesInv
  <2>7. QED BY <2>1, <2>2, <2>3, <2>4, <2>5, <2>6 DEF DeliveriesNext
<1>3. QED BY <1>1, <1>2, PTL DEF DeliveriesSpec

\* Every row, log and request is one the program can have.
THEOREM DeliveriesTyped == DeliveriesSpec => []DeliveriesTypeOK
<1>1. DeliveriesInv => DeliveriesTypeOK
  BY DEF DeliveriesInv
<1>2. QED BY <1>1, DeliveriesInvariance, PTL

\* A marked delivery says what its log says, on its day, but for a move torn between
\* its two writes, a mirror that failed, and a mark made while a move had the row
\* loaded (mirror_legacy_occurrence and reschedule beside each other).
THEOREM LogAndListAgree == DeliveriesSpec => []MirrorAgrees
<1>1. DeliveriesInv => MirrorAgrees
  BY DEF DeliveriesInv
<1>2. QED BY <1>1, DeliveriesInvariance, PTL

\* A day shows a meal twice only where it was generated again or moved there.
THEOREM LogsAdopt == DeliveriesSpec => []AdoptedNotDuplicated
<1>1. DeliveriesInv => AdoptedNotDuplicated
  BY DEF DeliveriesInv, Tables
<1>2. QED BY <1>1, DeliveriesInvariance, PTL

\* The trigger brings a mark back to the row it was made on: that row is the one
\* it finds.
LEMMA MarkComesBack ==
    ASSUME DeliveriesInv, NEW w \in Servers, MarkWrite(w), faults' = faults,
           NEW i \in Live, i = job[w].id, row[i].day = job[w].seen.day, ~job[w].seen.late,
           \A l \in LogsOf(MealOf(i), job[w].seen.day) : Own(l) \subseteq {i},
           row[i].record # Absent => log[row[i].record].day = job[w].seen.day,
           job[w].mark # "rescheduled"
    PROVE  row'[i].status = job[w].mark
<1>1. PICK j \in Jobs : j = job[w]
  BY DEF DeliveriesInv, DeliveriesTypeOK
<1>2. j.at = "marking" /\ j.id = i /\ j.seen \in Row /\ j.mark \in STATUSES
      /\ Carries(j) /\ Filed(j.mark) = j.mark
  <2>1. j.at = "marking"
    BY <1>1 DEF MarkWrite, At
  <2>2. QED BY <1>1, <2>1, JobTypes DEF DeliveriesInv, Carried, Filed
<1>3. PICK d \in LogDays : d = j.seen.day /\ UtcDay(j.seen) = d
  BY <1>1, <1>2 DEF UtcDay, Row
<1>4. /\ i \in Ids /\ row[i] \in Row /\ MealOf(i) \in Meals
      /\ row[i].record # Absent => row[i].record \in LogsOf(MealOf(i), d)
  <2>1. i \in Ids /\ row[i] \in Row
    BY JustLoaded
  <2>2. MealOf(i) \in Meals
    BY <2>1 DEF MealOf, Ids
  <2>3. row[i].record # Absent => row[i].record \in LogsOf(MealOf(i), d)
    BY <1>1, <1>3, JustLoaded DEF LogsOf, Logged
  <2>4. QED BY <2>1, <2>2, <2>3
<1>5. ASSUME NEW l \in Ids, NEW e \in LogDays, WriteLog(l, e, j.mark),
             Own(l) = {i} \/ (Own(l) = {} /\ Unmarked(MealOf(l), e) = {i})
      PROVE  row'[i].status = j.mark
  <2>1. Mirror(l, e, j.mark)
    <3>1. faults' # faults + 1
      BY DEF DeliveriesInv, DeliveriesTypeOK
    <3>2. QED BY <1>5, <3>1 DEF WriteLog
  <2>2. PICK k \in Ids :
          /\ row' = [row EXCEPT ![k] = MirroredRow(l, e, j.mark)]
          /\ \/ k \in Own(l)
             \/ Own(l) = {} /\ k \in Unmarked(MealOf(l), e)
             \/ Own(l) = {} /\ Unmarked(MealOf(l), e) = {}
    BY <1>2, <2>1, MirrorFinds
  <2>3. k = i
    BY <1>5, <2>2
  <2>4. row'[i] = MirroredRow(l, e, j.mark)
    BY <2>2, <2>3 DEF DeliveriesInv, Tables, Rows
  <2>5. QED BY <2>4 DEF MirroredRow
<1>6. ASSUME NEW l \in Ids, row[i].record = l PROVE Own(l) = {i}
  BY <1>6, DeliveriesAssumption DEF Own, Live, DeliveriesInv, Tables, OneOwner
<1>7. row[i].record = Absent => Unmarked(MealOf(i), d) = {i}
  <2>1. SUFFICES ASSUME row[i].record = Absent PROVE Unmarked(MealOf(i), d) = {i}
    OBVIOUS
  <2>2. i \in Unmarked(MealOf(i), d)
    BY <1>1, <1>3, <2>1 DEF Unmarked, Shown
  <2>3. \A k \in Unmarked(MealOf(i), d) : k = i
    BY <1>1, <1>3, <2>1 DEF Unmarked, Shown, DeliveriesInv, Tables, OneUnmarked
  <2>4. QED BY <2>2, <2>3
<1>8. CASE j.seen.record # Absent
  <2>1. PICK l \in Logged : l = j.seen.record
    BY <1>2, <1>8 DEF Carries
  <2>2. row[i].record = l /\ l \in Ids /\ log[l] \in Log
    BY <1>2, <1>8, <2>1, SameDaySameLog DEF Carries, Logged, DeliveriesInv
  <2>3. PICK e \in LogDays : e = log[l].day
    BY <2>2 DEF Log
  <2>4. WriteLog(l, e, j.mark)
    BY <1>1, <1>2, <1>8, <2>1, <2>3 DEF MarkWrite
  <2>5. Own(l) = {i}
    BY <1>6, <2>2
  <2>6. QED BY <1>1, <1>5, <2>2, <2>4, <2>5
<1>9. CASE j.seen.record = Absent
  <2>1. PICK m \in Meals : m = MealOf(i)
    BY <1>4
  <2>2. \/ \E l \in LogsOf(m, d) : WriteLog(l, d, j.mark)
        \/ LogsOf(m, d) = {} /\ WriteLog(NextId(m, d, Logged), d, j.mark)
    BY <1>1, <1>2, <1>3, <1>9, <2>1 DEF MarkWrite, Logged
  <2>3. CASE \E l \in LogsOf(m, d) : WriteLog(l, d, j.mark)
    <3>1. PICK l \in LogsOf(m, d) : WriteLog(l, d, j.mark)
      BY <2>3
    <3>2. l \in Logged /\ MealOf(l) = m /\ log[l].day = d /\ l \in Ids
      BY DEF LogsOf, Logged
    <3>3. LogsOf(m, d) = {l}
      BY <3>2, SameDaySameLog DEF DeliveriesInv
    <3>4. Own(l) \subseteq {i}
      BY <1>1, <1>3, <2>1, <3>1
    <3>5. CASE row[i].record = Absent
      <4>1. i \notin Own(l)
        BY <3>2, <3>5, DeliveriesAssumption DEF Own
      <4>2. Own(l) = {}
        BY <3>4, <4>1
      <4>3. Unmarked(MealOf(l), d) = {i}
        BY <1>7, <2>1, <3>2, <3>5
      <4>4. QED BY <1>1, <1>5, <3>1, <3>2, <4>2, <4>3
    <3>6. CASE row[i].record # Absent
      <4>1. row[i].record = l
        BY <1>4, <2>1, <3>3, <3>6
      <4>2. Own(l) = {i}
        BY <1>6, <3>2, <4>1
      <4>3. QED BY <1>1, <1>5, <3>1, <3>2, <4>2
    <3>7. QED BY <3>5, <3>6
  <2>4. CASE LogsOf(m, d) = {} /\ WriteLog(NextId(m, d, Logged), d, j.mark)
    <3>1. PICK l \in Ids : l = NextId(m, d, Logged)
      BY <2>4 DEF WriteLog
    <3>2. l[1] = m /\ l[2] = d /\ WriteLog(l, d, j.mark)
      BY <2>4, <3>1 DEF NextId
    <3>3. Logged \cap {l} = {}
      <4>1. {l} \in SUBSET Ids /\ \A k \in {l} : k = NextId(k[1], k[2], Logged)
        BY <3>1, <3>2
      <4>2. Logged \in SUBSET Ids /\ Numbered(Logged)
        BY DEF Logged, DeliveriesInv, Tables, Minted
      <4>3. QED BY <4>1, <4>2, NextIsNew
    <3>4. Own(l) = {}
      BY <3>1, <3>3, DeliveriesAssumption DEF Own, DeliveriesInv, Tables, Linked
    <3>5. row[i].record = Absent
      BY <1>4, <2>1, <2>4
    <3>6. MealOf(l) = MealOf(i)
      BY <2>1, <3>2 DEF MealOf
    <3>7. Unmarked(MealOf(l), d) = {i}
      BY <1>7, <3>5, <3>6
    <3>8. QED BY <1>1, <1>5, <3>2, <3>4, <3>7
  <2>5. QED BY <2>2, <2>3, <2>4
<1>10. QED BY <1>8, <1>9

\* A mark is seen where it was made (setStatus and what the trigger does with it).
THEOREM MarksLand == DeliveriesSpec => MarkLands
<1> DEFINE Lands(w) ==
      LET i == job[w].id
          read == job[w].seen
          own == /\ \A l \in LogsOf(MealOf(i), read.day) : Own(l) \subseteq {i}
                 /\ row[i].record # Absent => log[row[i].record].day = read.day
      IN  /\ MarkWrite(w) /\ faults' = faults
          /\ i \in Live /\ row[i].day = read.day /\ ~read.late
          /\ own /\ job[w].mark # "rescheduled"
          => row'[i].status = job[w].mark
<1>1. DeliveriesInv => \A w \in Servers : Lands(w)
  <2>1. SUFFICES ASSUME DeliveriesInv, NEW w \in Servers, MarkWrite(w), faults' = faults,
                        job[w].id \in Live, row[job[w].id].day = job[w].seen.day,
                        ~job[w].seen.late,
                        \A l \in LogsOf(MealOf(job[w].id), job[w].seen.day) :
                            Own(l) \subseteq {job[w].id},
                        row[job[w].id].record # Absent =>
                            log[row[job[w].id].record].day = job[w].seen.day,
                        job[w].mark # "rescheduled"
                 PROVE  row'[job[w].id].status = job[w].mark
    OBVIOUS
  <2>2. PICK i \in Live : i = job[w].id
    BY <2>1
  <2>3. row'[i].status = job[w].mark
    BY <2>1, <2>2, MarkComesBack
  <2>4. QED BY <2>2, <2>3
<1>2. DeliveriesInv => [\A w \in Servers : Lands(w)]_deliveryVars
  BY <1>1
<1> HIDE DEF Lands
<1>3. DeliveriesSpec => [][\A w \in Servers : Lands(w)]_deliveryVars
  BY <1>2, DeliveriesInvariance, PTL DEF DeliveriesSpec
<1>4. QED BY <1>3 DEF MarkLands, Lands
=============================================================================
