---------------------------- MODULE CreditsProofs ----------------------------
(* Proofs about Credits, for any customers, orders, requests and settings:      *)
(* first who gets a row of the ledger and how often, then what the rows add up  *)
(* to. Sums are counted cent by cent, so that what one row does to a sum        *)
(* follows from the cardinality of a union.                                     *)
EXTENDS Credits, FiniteSetTheorems, TLAPS

\* The types of all but the ledger.
Shape ==
    /\ order \in [Orders -> Order \cup {None}]
    /\ referrer \in [Users -> Users \cup {None}]
    /\ referral \in [Users -> {"none", "pending", "qualified"}]
    /\ redeemed \in [Orders -> Nat]
    /\ job \in [Workers -> Jobs]
    /\ paidOnce \subseteq Orders

Holds(w, o) == job[w].at \in {"ordering", "paying"} /\ job[w].order = o

\* An order is in one transaction's hands; the one that writes it finds none yet.
OneTransaction ==
    /\ \A o \in Orders :
          /\ \A v, w \in Workers : Holds(v, o) /\ Holds(w, o) => v = w
          /\ \A w \in Workers :
                Holds(w, o) => (order[o] = None <=> job[w].at = "ordering")
    /\ \A o \in paidOnce : order[o] # None

\* The three parts of RewardOnce: a row a side, both or none, for money.
OneRowASide ==
    \A e, f \in ledger :
        e.reason \in Rewarding /\ e.reason = f.reason /\ e.of = f.of => e = f

BothSides ==
    \A u \in Users :
        /\ Reward > 0 /\ referral[u] = "qualified" <=> Rewarded(u, "referral_reward")
        /\ Welcome > 0 /\ referral[u] = "qualified" <=> Rewarded(u, "referral_welcome")

ForMoney ==
    \A u \in Users : referral[u] = "qualified" => \E o \in paidOnce : order[o].user = u

\* The inductive invariant.
IInv == Shape /\ OneTransaction /\ OneRowASide /\ BothSides /\ ForMoney /\ RedeemedOnce

USE DEF Do, Starts, Ends

\* The initial state satisfies the invariant.
LEMMA InitInv == ASSUME Init PROVE IInv
BY DEF Init, IInv, Shape, OneTransaction, Holds, OneRowASide, BothSides, ForMoney, RedeemedOnce,
       Rewarded, Jobs, Idle

\* What a job at work holds.
LEMMA Hands ==
    ASSUME Shape, NEW w \in Workers
    PROVE  /\ job[w].at \in {"ordering", "paying"} => job[w].order \in Orders
           /\ job[w].at = "ordering" => /\ job[w].user \in Users
                                        /\ job[w].applied \in 0..Price
                                        /\ job[w].discount \in 0..Price
           /\ job[w].at = "claiming" => job[w].user \in Users /\ job[w].by \in Users
<1>1. job[w] \in Jobs
  BY DEF Shape
<1>2. CASE job[w] \in {Idle}
  BY <1>2 DEF Idle
<1>3. CASE job[w] \in [at: {"ordering"}, order: Orders, user: Users,
                       applied: 0..Price, discount: 0..Price]
  BY <1>3
<1>4. CASE job[w] \in [at: {"paying"}, order: Orders, qualifies: BOOLEAN]
  BY <1>4
<1>5. CASE job[w] \in [at: {"debiting"}, user: Users]
  BY <1>5
<1>6. CASE job[w] \in [at: {"claiming"}, user: Users, by: Users]
  BY <1>6
<1>7. CASE job[w] \in [at: {"deleting"}]
  BY <1>7
<1>8. QED
  BY <1>1, <1>2, <1>3, <1>4, <1>5, <1>6, <1>7 DEF Jobs

\* A row of the ledger that is added says what it is for.
LEMMA RowsSay ==
    ASSUME NEW c, NEW u, NEW amount, NEW of, NEW reason,
           NEW e \in RowIf(c, Row(u, amount, of, reason))
    PROVE  e.reason = reason /\ e.of = of
BY DEF RowIf, Row

\* Rows other than rewards disturb no reward.
Unrewarding ==
    /\ ledger \subseteq ledger'
    /\ \A e \in ledger' : e \in ledger \/ e.reason \notin Rewarding
    /\ UNCHANGED referral

\* ... which is what such a step does to the three parts.
LEMMA KeepsRewards == ASSUME IInv, Unrewarding PROVE OneRowASide' /\ BothSides'
<1>1. OneRowASide'
  BY DEF IInv, OneRowASide, Unrewarding
<1>2. \A u \in Users, reason \in Rewarding : Rewarded(u, reason)' <=> Rewarded(u, reason)
  BY DEF Unrewarding, Rewarded
<1>3. BothSides'
  BY <1>2 DEF IInv, BothSides, Unrewarding, Rewarding
<1>4. QED
  BY <1>1, <1>3

\* A step that writes no order, and at most gives one back.
Aside ==
    /\ UNCHANGED <<order, paidOnce>>
    /\ \A w \in Workers : job'[w] = job[w] \/ job'[w].at \notin {"ordering", "paying"}

\* ... which moves no lock.
LEMMA KeepsTransactions == ASSUME IInv, Aside PROVE OneTransaction'
BY DEF IInv, OneTransaction, Holds, Aside


\* An edge changes the status of one order, and not whose it is.
LEMMA StatusOnly ==
    ASSUME IInv, NEW o \in Orders, order[o] # None, NEW st \in Statuses,
           order' = [order EXCEPT ![o].status = st]
    PROVE  \A x \in Orders :
             /\ order'[x] = None <=> order[x] = None
             /\ order[x] # None =>
                  order'[x].user = order[x].user /\ order'[x].discount = order[x].discount
<1>1. order[o] \in Order
  BY DEF IInv, Shape
<1>2. order' = [order EXCEPT ![o] = [order[o] EXCEPT !.status = st]]
  OBVIOUS
<1>3. [order[o] EXCEPT !.status = st] \in Order
  BY <1>1 DEF Order
<1>4. order'[o] \in Order /\ order'[o].user = order[o].user /\ order'[o].discount = order[o].discount
  BY <1>1, <1>2, <1>3 DEF IInv, Shape, Order
<1>5. \A x \in Orders : x # o => order'[x] = order[x]
  BY <1>2 DEF IInv, Shape
<1>6. QED
  BY <1>4, <1>5, CreditsAssumption

\* Types are kept.
LEMMA NextShape == ASSUME IInv, [Next]_vars PROVE Shape'
<1>1. CASE Toggle
  BY <1>1 DEF IInv, Shape, tables, ghosts, Toggle
<1>2. ASSUME NEW u \in Users, AdjustGrant(u)
      PROVE  Shape'
  BY <1>2 DEF IInv, Shape, tables, ghosts, AdjustGrant
<1>3. ASSUME NEW o \in Orders, NEW st \in Statuses, NEW fails \in BOOLEAN, Close(o, st, fails)
      PROVE  Shape'
  <2>1. order[o] \in Order
    BY <1>3 DEF IInv, Shape, Close
  <2>2. [order[o] EXCEPT !.status = st] \in Order
    BY <2>1 DEF Order
  <2>3. order' = [order EXCEPT ![o] = [order[o] EXCEPT !.status = st]]
    BY <1>3 DEF Close
  <2>4. order' \in [Orders -> Order \cup {None}]
    BY <2>2, <2>3 DEF IInv, Shape
  <2>5. QED
    BY <1>3, <2>4 DEF IInv, Shape, Close
<1>4. ASSUME NEW w \in Workers, PlaceCommit(w)
      PROVE  Shape'
  <2>1. job' \in [Workers -> Jobs]
    BY <1>4 DEF IInv, Shape, Jobs, PlaceCommit
  <2> DEFINE new == [user |-> job[w].user, status |-> "pending",
                     applied |-> job[w].applied, discount |-> job[w].discount]
  <2>2. new \in Order /\ job[w].order \in Orders
    BY <1>4, Hands DEF IInv, PlaceCommit, Order, Statuses
  <2>3. order' = [order EXCEPT ![job[w].order] = new]
    BY <1>4 DEF PlaceCommit
  <2>4. order' \in [Orders -> Order \cup {None}]
    BY <2>2, <2>3 DEF IInv, Shape
  <2>5. QED
    BY <1>4, <2>1, <2>4 DEF IInv, Shape, tables, ghosts, PlaceCommit
<1>5. ASSUME NEW w \in Workers, DebitCommit(w)
      PROVE  Shape'
  <2>1. job' \in [Workers -> Jobs]
    BY <1>5 DEF IInv, Shape, Jobs, DebitCommit
  <2>2. QED
    BY <1>5, <2>1, Hands, CreditsAssumption DEF IInv, Shape, tables, ghosts, DebitCommit
<1>6. ASSUME NEW w \in Workers, ClaimInsert(w)
      PROVE  Shape'
  <2>1. job' \in [Workers -> Jobs]
    BY <1>6 DEF IInv, Shape, Jobs, ClaimInsert
  <2>2. job[w].user \in Users /\ job[w].by \in Users
    BY <1>6, Hands DEF IInv, ClaimInsert
  <2>3. QED
    BY <1>6, <2>1, <2>2 DEF IInv, Shape, tables, ghosts, ClaimInsert
<1>7. ASSUME NEW w \in Workers, RemoveRead(w)
      PROVE  Shape'
  <2> DEFINE j == [at |-> "deleting"]
  <2>1. j \in Jobs
    BY <1>7, CreditsAssumption DEF Jobs, IInv, Shape
  <2>2. job' = [job EXCEPT ![w] = j]
    BY <1>7 DEF RemoveRead
  <2>3. job' \in [Workers -> Jobs]
    BY <2>1, <2>2 DEF IInv, Shape
  <2>4. QED
    BY <1>7, <2>3 DEF IInv, Shape, tables, ghosts, RemoveRead
<1>8. ASSUME NEW w \in Workers, RemoveDelete(w)
      PROVE  Shape'
  <2>1. job' \in [Workers -> Jobs]
    BY <1>8 DEF IInv, Shape, Jobs, RemoveDelete
  <2>2. QED
    BY <1>8, <2>1, Hands, CreditsAssumption DEF IInv, Shape, tables, ghosts, RemoveDelete
<1>9. ASSUME NEW w \in Workers, CutShort(w)
      PROVE  Shape'
  <2>1. job' \in [Workers -> Jobs]
    BY <1>9 DEF IInv, Shape, Jobs, CutShort
  <2>2. QED
    BY <1>9, <2>1, Hands, CreditsAssumption DEF IInv, Shape, tables, ghosts, CutShort
<1>10. ASSUME NEW w \in Workers, NEW failing \in SUBSET Triggers, PayCommit(w, failing)
      PROVE  Shape'
  <2>a. PICK o \in Orders : o = job[w].order
    BY <1>10, Hands DEF IInv, PayCommit
  <2>b. order[o] # None /\ Holds(w, o)
    BY <1>10, <2>a DEF IInv, OneTransaction, Holds, PayCommit
  <2>1. order[o] \in Order
    BY <2>b DEF IInv, Shape
  <2>2. [order[o] EXCEPT !.status = "paid"] \in Order
    BY <2>1 DEF Order, Statuses
  <2>3. order' = [order EXCEPT ![o] = [order[o] EXCEPT !.status = "paid"]]
    BY <1>10, <2>a DEF PayCommit
  <2>4. order' \in [Orders -> Order \cup {None}]
    BY <2>2, <2>3 DEF IInv, Shape
  <2>5. job' \in [Workers -> Jobs]
    BY <1>10 DEF IInv, Shape, Jobs, PayCommit
  <2>6. /\ referrer' \in [Users -> Users \cup {None}]
        /\ referral' \in [Users -> {"none", "pending", "qualified"}]
    BY <1>10 DEF IInv, Shape, PayCommit
  <2>7. redeemed' \in [Orders -> Nat] /\ paidOnce' \subseteq Orders
    BY <1>10, <2>a DEF IInv, Shape, PayCommit, Redeem
  <2>8. QED
    BY <2>4, <2>5, <2>6, <2>7 DEF Shape
<1>11. ASSUME NEW w \in Workers, NEW o \in Orders, PayRead(w, o)
      PROVE  Shape'
  <2> DEFINE j == [at |-> "paying", order |-> o, qualifies |-> Qualifies(order[o].user)]
  <2>1. j \in Jobs
    BY <1>11, CreditsAssumption DEF Jobs, IInv, Shape, Qualifies
  <2>2. job' = [job EXCEPT ![w] = j]
    BY <1>11 DEF PayRead
  <2>3. job' \in [Workers -> Jobs]
    BY <2>1, <2>2 DEF IInv, Shape
  <2>4. QED
    BY <1>11, <2>3 DEF IInv, Shape, tables, ghosts, PayRead
<1>12. ASSUME NEW w \in Workers, NEW u \in Users, DebitCheck(w, u)
      PROVE  Shape'
  <2> DEFINE j == [at |-> "debiting", user |-> u]
  <2>1. j \in Jobs
    BY <1>12, CreditsAssumption DEF Jobs, IInv, Shape
  <2>2. job' = [job EXCEPT ![w] = j]
    BY <1>12 DEF DebitCheck
  <2>3. job' \in [Workers -> Jobs]
    BY <2>1, <2>2 DEF IInv, Shape
  <2>4. QED
    BY <1>12, <2>3 DEF IInv, Shape, tables, ghosts, DebitCheck
<1>13. ASSUME NEW w \in Workers, NEW u \in Users, NEW v \in Users, NEW answers \in BOOLEAN,
              ClaimRead(w, u, v, answers)
      PROVE  Shape'
  <2> DEFINE j == [at |-> "claiming", user |-> u, by |-> v]
  <2>1. j \in Jobs
    BY <1>13, CreditsAssumption DEF Jobs, IInv, Shape
  <2>2. job' = [job EXCEPT ![w] = j]
    BY <1>13 DEF ClaimRead
  <2>3. job' \in [Workers -> Jobs]
    BY <2>1, <2>2 DEF IInv, Shape
  <2>4. QED
    BY <1>13, <2>3 DEF IInv, Shape, tables, ghosts, ClaimRead
<1>14. ASSUME NEW w \in Workers, NEW o \in Orders, NEW u \in Users, NEW c \in 0..Price,
              NEW d \in 0..Discount, PlaceCheck(w, o, u, c, d)
      PROVE  Shape'
  <2> DEFINE j == [at |-> "ordering", order |-> o, user |-> u, applied |-> c, discount |-> d]
  <2>1. j \in Jobs
    BY <1>14, CreditsAssumption DEF Jobs, IInv, Shape
  <2>2. job' = [job EXCEPT ![w] = j]
    BY <1>14 DEF PlaceCheck
  <2>3. job' \in [Workers -> Jobs]
    BY <2>1, <2>2 DEF IInv, Shape
  <2>4. QED
    BY <1>14, <2>3 DEF IInv, Shape, tables, ghosts, PlaceCheck
<1>15. CASE UNCHANGED vars
  BY <1>15 DEF IInv, Shape, vars, tables, ghosts
<1>16. QED
  BY <1>1, <1>2, <1>3, <1>4, <1>5, <1>6, <1>7, <1>8, <1>9,
     <1>10, <1>11, <1>12, <1>13, <1>14, <1>15 DEF Next

\* The lock of a row keeps two transactions apart.
LEMMA NextTransaction == ASSUME IInv, [Next]_vars PROVE OneTransaction'
<1>1. CASE Toggle
  BY <1>1, KeepsTransactions DEF Aside, IInv, Shape, Idle, tables, ghosts, Toggle
<1>2. ASSUME NEW u \in Users, AdjustGrant(u)
      PROVE  OneTransaction'
  BY <1>2, KeepsTransactions DEF Aside, IInv, Shape, Idle, tables, ghosts, AdjustGrant
<1>3. ASSUME NEW o \in Orders, NEW st \in Statuses, NEW fails \in BOOLEAN, Close(o, st, fails)
      PROVE  OneTransaction'
  <2>1. \A x \in Orders :
            /\ order'[x] = None <=> order[x] = None
            /\ order[x] # None =>
                  order'[x].user = order[x].user /\ order'[x].discount = order[x].discount
    BY <1>3, StatusOnly DEF Close
  <2>2. job' = job /\ paidOnce' = paidOnce
    BY <1>3 DEF Close
  <2>3. QED
    BY <2>1, <2>2 DEF IInv, Shape, OneTransaction, Holds
<1>4. ASSUME NEW w \in Workers, PlaceCommit(w)
      PROVE  OneTransaction'
  <2> DEFINE x == job[w].order
  <2>1. x \in Orders /\ order[x] = None /\ x \notin paidOnce /\ Holds(w, x)
    BY <1>4, Hands DEF IInv, OneTransaction, Holds, PlaceCommit
  <2>2. \A o \in Orders : o # x => order'[o] = order[o]
    BY <1>4, <2>1 DEF IInv, Shape, PlaceCommit
  <2>3. order'[x] # None
    <3>1. job[w].user \in Users /\ job[w].applied \in 0..Price /\ job[w].discount \in 0..Price
      BY <1>4, Hands DEF IInv, PlaceCommit
    <3>2. order'[x] \in Order
      BY <1>4, <2>1, <3>1 DEF IInv, Shape, PlaceCommit, Order, Statuses
    <3>3. QED
      BY <3>2, CreditsAssumption
  <2>4. \A v \in Workers : (job'[v] = job[v] /\ v # w) \/ job'[v].at = "idle"
    BY <1>4 DEF IInv, Shape, Idle, PlaceCommit
  <2>5. \A v \in Workers, o \in Orders : Holds(v, o)' => Holds(v, o) /\ o # x /\ job'[v] = job[v]
    <3>1. ASSUME NEW v \in Workers, NEW o \in Orders, Holds(v, o)'
          PROVE  Holds(v, o) /\ v # w /\ job'[v] = job[v]
      BY <2>4, <3>1 DEF Holds
    <3>2. QED
      BY <2>1, <3>1 DEF IInv, OneTransaction
  <2>6. paidOnce' = paidOnce
    BY <1>4 DEF PlaceCommit, ghosts
  <2>7. ASSUME NEW o \in Orders
        PROVE  /\ \A v, u \in Workers : Holds(v, o)' /\ Holds(u, o)' => v = u
               /\ \A v \in Workers : Holds(v, o)' => (order'[o] = None <=> job'[v].at = "ordering")
    BY <2>2, <2>5 DEF IInv, OneTransaction
  <2>8. \A o \in paidOnce' : order'[o] # None
    BY <2>1, <2>2, <2>6 DEF IInv, OneTransaction, Shape
  <2>9. QED
    BY <2>7, <2>8 DEF OneTransaction, Holds
<1>5. ASSUME NEW w \in Workers, DebitCommit(w)
      PROVE  OneTransaction'
  BY <1>5, KeepsTransactions DEF Aside, IInv, Shape, Idle, tables, ghosts, DebitCommit
<1>6. ASSUME NEW w \in Workers, ClaimInsert(w)
      PROVE  OneTransaction'
  BY <1>6, KeepsTransactions DEF Aside, IInv, Shape, Idle, tables, ghosts, ClaimInsert
<1>7. ASSUME NEW w \in Workers, RemoveRead(w)
      PROVE  OneTransaction'
  BY <1>7, KeepsTransactions DEF Aside, IInv, Shape, Idle, tables, ghosts, RemoveRead
<1>8. ASSUME NEW w \in Workers, RemoveDelete(w)
      PROVE  OneTransaction'
  BY <1>8, KeepsTransactions DEF Aside, IInv, Shape, Idle, tables, ghosts, RemoveDelete
<1>9. ASSUME NEW w \in Workers, CutShort(w)
      PROVE  OneTransaction'
  BY <1>9, KeepsTransactions DEF Aside, IInv, Shape, Idle, tables, ghosts, CutShort
<1>10. ASSUME NEW w \in Workers, NEW failing \in SUBSET Triggers, PayCommit(w, failing)
      PROVE  OneTransaction'
  <2>a. PICK o \in Orders : o = job[w].order
    BY <1>10, Hands DEF IInv, PayCommit
  <2>b. order[o] # None /\ Holds(w, o)
    BY <1>10, <2>a DEF IInv, OneTransaction, Holds, PayCommit
  <2>1. \A x \in Orders :
            /\ order'[x] = None <=> order[x] = None
            /\ order[x] # None =>
                  order'[x].user = order[x].user /\ order'[x].discount = order[x].discount
    BY <1>10, <2>a, <2>b, StatusOnly DEF PayCommit, Statuses
  <2>2. \A v \in Workers : job'[v] = job[v] \/ job'[v].at = "idle"
    BY <1>10 DEF IInv, Shape, Idle, PayCommit
  <2>3. paidOnce' = paidOnce \cup {o}
    BY <1>10, <2>a DEF PayCommit
  <2>4. \A x \in Orders, v \in Workers : Holds(v, x)' => Holds(v, x) /\ job'[v] = job[v]
    BY <2>2 DEF Holds
  <2>5. \A x \in Orders : \A v, u \in Workers : Holds(v, x)' /\ Holds(u, x)' => v = u
    BY <2>4 DEF IInv, OneTransaction
  <2>6. \A x \in Orders, v \in Workers :
            Holds(v, x)' => (order'[x] = None <=> job'[v].at = "ordering")
    BY <2>1, <2>4 DEF IInv, OneTransaction
  <2>7. \A x \in paidOnce' : order'[x] # None
    BY <2>b, <2>1, <2>3 DEF IInv, OneTransaction, Shape
  <2>8. QED
    BY <2>5, <2>6, <2>7 DEF OneTransaction, Holds
<1>11. ASSUME NEW w \in Workers, NEW o \in Orders, PayRead(w, o)
      PROVE  OneTransaction'
  <2>1. \A v \in Workers : ~Holds(v, o)
    BY <1>11 DEF PayRead, Locked, Holds
  <2>2. \A v \in Workers : v # w => job'[v] = job[v]
    BY <1>11 DEF IInv, Shape, PayRead
  <2>3. job'[w].at = "paying" /\ job'[w].order = o /\ ~(order[o] = None)
    BY <1>11 DEF IInv, Shape, PayRead
  <2>4. order' = order /\ paidOnce' = paidOnce
    BY <1>11 DEF PayRead, tables
  <2>5. \A v \in Workers, x \in Orders :
            Holds(v, x)' <=> (v = w /\ x = o) \/ (v # w /\ Holds(v, x))
    BY <2>2, <2>3 DEF Holds
  <2>6. \A x \in Orders : \A v, t \in Workers : Holds(v, x)' /\ Holds(t, x)' => v = t
    BY <2>1, <2>5 DEF IInv, OneTransaction
  <2>7. \A x \in Orders, v \in Workers :
            Holds(v, x)' => (order'[x] = None <=> job'[v].at = "ordering")
    BY <2>2, <2>3, <2>4, <2>5 DEF IInv, OneTransaction
  <2>8. QED
    BY <2>4, <2>6, <2>7 DEF IInv, OneTransaction, Holds
<1>12. ASSUME NEW w \in Workers, NEW u \in Users, DebitCheck(w, u)
      PROVE  OneTransaction'
  BY <1>12, KeepsTransactions DEF Aside, IInv, Shape, Idle, tables, ghosts, DebitCheck
<1>13. ASSUME NEW w \in Workers, NEW u \in Users, NEW v \in Users, NEW answers \in BOOLEAN,
              ClaimRead(w, u, v, answers)
      PROVE  OneTransaction'
  BY <1>13, KeepsTransactions DEF Aside, IInv, Shape, Idle, tables, ghosts, ClaimRead
<1>14. ASSUME NEW w \in Workers, NEW o \in Orders, NEW u \in Users, NEW c \in 0..Price,
              NEW d \in 0..Discount, PlaceCheck(w, o, u, c, d)
      PROVE  OneTransaction'
  <2>1. \A v \in Workers : ~Holds(v, o)
    BY <1>14 DEF PlaceCheck, Locked, Holds
  <2>2. \A v \in Workers : v # w => job'[v] = job[v]
    BY <1>14 DEF IInv, Shape, PlaceCheck
  <2>3. job'[w].at = "ordering" /\ job'[w].order = o /\ (order[o] = None)
    BY <1>14 DEF IInv, Shape, PlaceCheck
  <2>4. order' = order /\ paidOnce' = paidOnce
    BY <1>14 DEF PlaceCheck, tables
  <2>5. \A v \in Workers, x \in Orders :
            Holds(v, x)' <=> (v = w /\ x = o) \/ (v # w /\ Holds(v, x))
    BY <2>2, <2>3 DEF Holds
  <2>6. \A x \in Orders : \A v, t \in Workers : Holds(v, x)' /\ Holds(t, x)' => v = t
    BY <2>1, <2>5 DEF IInv, OneTransaction
  <2>7. \A x \in Orders, v \in Workers :
            Holds(v, x)' => (order'[x] = None <=> job'[v].at = "ordering")
    BY <2>2, <2>3, <2>4, <2>5 DEF IInv, OneTransaction
  <2>8. QED
    BY <2>4, <2>6, <2>7 DEF IInv, OneTransaction, Holds
<1>15. CASE UNCHANGED vars
  BY <1>15, KeepsTransactions DEF Aside, vars, tables, ghosts
<1>16. QED
  BY <1>1, <1>2, <1>3, <1>4, <1>5, <1>6, <1>7, <1>8, <1>9,
     <1>10, <1>11, <1>12, <1>13, <1>14, <1>15 DEF Next

\* Rows of rewards come with the status, one a side.
LEMMA NextRewards == ASSUME IInv, [Next]_vars PROVE (OneRowASide /\ BothSides)'
<1>1. CASE Toggle
  BY <1>1, KeepsRewards DEF Unrewarding, tables, ghosts, Toggle
<1>2. ASSUME NEW u \in Users, AdjustGrant(u)
      PROVE  (OneRowASide /\ BothSides)'
  <2>1. Unrewarding
    BY <1>2 DEF Unrewarding, Row, Rewarding, AdjustGrant
  <2>2. QED
    BY <2>1, KeepsRewards
<1>3. ASSUME NEW o \in Orders, NEW st \in Statuses, NEW fails \in BOOLEAN, Close(o, st, fails)
      PROVE  (OneRowASide /\ BothSides)'
  <2>1. Unrewarding
    BY <1>3, RowsSay DEF Unrewarding, Rewarding, Close, Returned
  <2>2. QED
    BY <2>1, KeepsRewards
<1>4. ASSUME NEW w \in Workers, PlaceCommit(w)
      PROVE  (OneRowASide /\ BothSides)'
  <2>1. Unrewarding
    BY <1>4, RowsSay DEF Unrewarding, Rewarding, PlaceCommit
  <2>2. QED
    BY <2>1, KeepsRewards
<1>5. ASSUME NEW w \in Workers, DebitCommit(w)
      PROVE  (OneRowASide /\ BothSides)'
  <2>1. Unrewarding
    BY <1>5 DEF Unrewarding, Row, Rewarding, DebitCommit
  <2>2. QED
    BY <2>1, KeepsRewards
<1>6. ASSUME NEW w \in Workers, ClaimInsert(w)
      PROVE  (OneRowASide /\ BothSides)'
  <2>1. ledger' = ledger
    BY <1>6 DEF ClaimInsert
  <2>2. \A u \in Users : referral'[u] = "qualified" <=> referral[u] = "qualified"
    BY <1>6 DEF IInv, Shape, ClaimInsert
  <2>3. \A u \in Users, reason \in Rewarding : Rewarded(u, reason)' <=> Rewarded(u, reason)
    BY <2>1 DEF Rewarded
  <2>4. QED
    BY <2>1, <2>2, <2>3 DEF IInv, OneRowASide, BothSides, Rewarding
<1>7. ASSUME NEW w \in Workers, RemoveRead(w)
      PROVE  (OneRowASide /\ BothSides)'
  BY <1>7, KeepsRewards DEF Unrewarding, tables, ghosts, RemoveRead
<1>8. ASSUME NEW w \in Workers, RemoveDelete(w)
      PROVE  (OneRowASide /\ BothSides)'
  BY <1>8, KeepsRewards DEF Unrewarding, tables, ghosts, RemoveDelete
<1>9. ASSUME NEW w \in Workers, CutShort(w)
      PROVE  (OneRowASide /\ BothSides)'
  BY <1>9, KeepsRewards DEF Unrewarding, tables, ghosts, CutShort
<1>10. ASSUME NEW w \in Workers, NEW failing \in SUBSET Triggers, PayCommit(w, failing)
      PROVE  (OneRowASide /\ BothSides)'
  <2>a. PICK o \in Orders : o = job[w].order
    BY <1>10, Hands DEF IInv, PayCommit
  <2>b. order[o] # None /\ Holds(w, o)
    BY <1>10, <2>a DEF IInv, OneTransaction, Holds, PayCommit
  <2>1. PICK u \in Users : u = order[o].user
    BY <2>b DEF IInv, Shape, Order
  <2>2. \A e \in Cashback(o) : e.reason \notin Rewarding
    BY RowsSay DEF Cashback, Rewarding
  <2>3. CASE job[w].qualifies /\ "referral" \notin failing
    <3>1. referral' = [referral EXCEPT ![u] = "qualified"]
      BY <1>10, <2>a, <2>1, <2>3 DEF PayCommit
    <3>2. \A e \in ledger' : e \in ledger \/ e \in Rewards(u) \/ e.reason \notin Rewarding
      BY <1>10, <2>a, <2>1, <2>2, <2>3 DEF PayCommit
    <3>3. ledger \subseteq ledger' /\ Rewards(u) \subseteq ledger'
      BY <1>10, <2>a, <2>1, <2>3 DEF PayCommit
    <3>4. PICK e1, e2 :
              /\ e1.of = u /\ e1.reason = "referral_reward"
              /\ e2.of = u /\ e2.reason = "referral_welcome"
              /\ Rewards(u) = (IF Reward > 0 /\ ~Rewarded(u, "referral_reward") THEN {e1} ELSE {})
                        \cup (IF Welcome > 0 /\ ~Rewarded(u, "referral_welcome") THEN {e2} ELSE {})
      <4>1. /\ Row(referrer[u], Reward, u, "referral_reward").of = u
            /\ Row(referrer[u], Reward, u, "referral_reward").reason = "referral_reward"
            /\ Row(u, Welcome, u, "referral_welcome").of = u
            /\ Row(u, Welcome, u, "referral_welcome").reason = "referral_welcome"
        BY DEF Row
      <4>2. QED
        BY <4>1 DEF Rewards, RowIf
    <3>5. OneRowASide'
      BY <3>2, <3>4 DEF IInv, OneRowASide, Rewarded, Rewarding
    <3>6. \A t \in Users, reason \in Rewarding :
              t # u => (Rewarded(t, reason)' <=> Rewarded(t, reason))
      BY <3>2, <3>3, <3>4 DEF Rewarded
    <3>7. \A reason \in Rewarding :
              Rewarded(u, reason)' <=>
                  Rewarded(u, reason) \/ \E e \in Rewards(u) : e.reason = reason
      <4>1. ASSUME NEW reason \in Rewarding, Rewarded(u, reason)'
            PROVE  Rewarded(u, reason) \/ \E e \in Rewards(u) : e.reason = reason
        <5>1. PICK e \in ledger' : e.of = u /\ e.reason = reason
          BY <4>1 DEF Rewarded
        <5>2. QED
          BY <3>2, <5>1 DEF Rewarded
      <4>2. ASSUME NEW reason \in Rewarding,
                   Rewarded(u, reason) \/ \E e \in Rewards(u) : e.reason = reason
            PROVE  Rewarded(u, reason)'
        BY <3>3, <3>4, <4>2 DEF Rewarded
      <4>3. QED
        BY <4>1, <4>2
    <3>8. /\ Rewarded(u, "referral_reward")' <=> Reward > 0
          /\ Rewarded(u, "referral_welcome")' <=> Welcome > 0
      <4>1. /\ Rewarded(u, "referral_reward") => Reward > 0
            /\ Rewarded(u, "referral_welcome") => Welcome > 0
        BY <2>1 DEF IInv, BothSides
      <4>2. /\ Rewarded(u, "referral_reward")' <=>
                  Rewarded(u, "referral_reward") \/ Reward > 0
            /\ Rewarded(u, "referral_welcome")' <=>
                  Rewarded(u, "referral_welcome") \/ Welcome > 0
        BY <3>4, <3>7 DEF Rewarding
      <4>3. QED
        BY <4>1, <4>2
    <3>9. \A t \in Users : referral'[t] = IF t = u THEN "qualified" ELSE referral[t]
      BY <2>1, <3>1 DEF IInv, Shape
    <3>10. BothSides'
      <4>1. ASSUME NEW t \in Users
            PROVE  /\ Reward > 0 /\ referral'[t] = "qualified" <=> Rewarded(t, "referral_reward")'
                   /\ Welcome > 0 /\ referral'[t] = "qualified" <=> Rewarded(t, "referral_welcome")'
        <5>1. CASE t = u
          BY <3>8, <3>9, <5>1
        <5>2. CASE t # u
          BY <3>6, <3>9, <5>2 DEF IInv, BothSides, Rewarding
        <5>3. QED
          BY <5>1, <5>2
      <4>2. QED
        BY <4>1 DEF BothSides
    <3>11. QED
      BY <3>5, <3>10
  <2>4. CASE ~(job[w].qualifies /\ "referral" \notin failing)
    <3>1. Unrewarding
      BY <1>10, <2>a, <2>2, <2>4 DEF Unrewarding, PayCommit
    <3>2. QED
      BY <3>1, KeepsRewards
  <2>5. QED
    BY <2>3, <2>4
<1>11. ASSUME NEW w \in Workers, NEW o \in Orders, PayRead(w, o)
      PROVE  (OneRowASide /\ BothSides)'
  BY <1>11, KeepsRewards DEF Unrewarding, tables, ghosts, PayRead
<1>12. ASSUME NEW w \in Workers, NEW u \in Users, DebitCheck(w, u)
      PROVE  (OneRowASide /\ BothSides)'
  BY <1>12, KeepsRewards DEF Unrewarding, tables, ghosts, DebitCheck
<1>13. ASSUME NEW w \in Workers, NEW u \in Users, NEW v \in Users, NEW answers \in BOOLEAN,
              ClaimRead(w, u, v, answers)
      PROVE  (OneRowASide /\ BothSides)'
  BY <1>13, KeepsRewards DEF Unrewarding, tables, ghosts, ClaimRead
<1>14. ASSUME NEW w \in Workers, NEW o \in Orders, NEW u \in Users, NEW c \in 0..Price,
              NEW d \in 0..Discount, PlaceCheck(w, o, u, c, d)
      PROVE  (OneRowASide /\ BothSides)'
  BY <1>14, KeepsRewards DEF Unrewarding, tables, ghosts, PlaceCheck
<1>15. CASE UNCHANGED vars
  BY <1>15, KeepsRewards DEF Unrewarding, vars, tables, ghosts
<1>16. QED
  BY <1>1, <1>2, <1>3, <1>4, <1>5, <1>6, <1>7, <1>8, <1>9,
     <1>10, <1>11, <1>12, <1>13, <1>14, <1>15 DEF Next

\* Who qualifies has paid, and an order stays its customer's.
LEMMA NextMoney == ASSUME IInv, [Next]_vars PROVE ForMoney'
<1>1. CASE Toggle
  BY <1>1 DEF IInv, ForMoney, tables, ghosts, Toggle
<1>2. ASSUME NEW u \in Users, AdjustGrant(u)
      PROVE  ForMoney'
  BY <1>2 DEF IInv, ForMoney, tables, ghosts, AdjustGrant
<1>3. ASSUME NEW o \in Orders, NEW st \in Statuses, NEW fails \in BOOLEAN, Close(o, st, fails)
      PROVE  ForMoney'
  <2>1. \A x \in Orders :
            /\ order'[x] = None <=> order[x] = None
            /\ order[x] # None =>
                  order'[x].user = order[x].user /\ order'[x].discount = order[x].discount
    BY <1>3, StatusOnly DEF Close
  <2>2. paidOnce' = paidOnce /\ referral' = referral
    BY <1>3 DEF Close
  <2>3. QED
    BY <2>1, <2>2 DEF IInv, Shape, OneTransaction, ForMoney
<1>4. ASSUME NEW w \in Workers, PlaceCommit(w)
      PROVE  ForMoney'
  <2> DEFINE x == job[w].order
  <2>1. x \in Orders /\ order[x] = None /\ x \notin paidOnce /\ Holds(w, x)
    BY <1>4, Hands DEF IInv, OneTransaction, Holds, PlaceCommit
  <2>2. \A o \in Orders : o # x => order'[o] = order[o]
    BY <1>4, <2>1 DEF IInv, Shape, PlaceCommit
  <2>3. paidOnce' = paidOnce /\ referral' = referral
    BY <1>4 DEF PlaceCommit, ghosts
  <2>4. QED
    BY <2>1, <2>2, <2>3 DEF IInv, Shape, ForMoney
<1>5. ASSUME NEW w \in Workers, DebitCommit(w)
      PROVE  ForMoney'
  BY <1>5 DEF IInv, ForMoney, tables, ghosts, DebitCommit
<1>6. ASSUME NEW w \in Workers, ClaimInsert(w)
      PROVE  ForMoney'
  <2>1. \A u \in Users : referral'[u] = "qualified" => referral[u] = "qualified"
    BY <1>6 DEF IInv, Shape, ClaimInsert
  <2>2. order' = order /\ paidOnce' = paidOnce
    BY <1>6 DEF ClaimInsert, ghosts
  <2>3. QED
    BY <2>1, <2>2 DEF IInv, ForMoney
<1>7. ASSUME NEW w \in Workers, RemoveRead(w)
      PROVE  ForMoney'
  BY <1>7 DEF IInv, ForMoney, tables, ghosts, RemoveRead
<1>8. ASSUME NEW w \in Workers, RemoveDelete(w)
      PROVE  ForMoney'
  BY <1>8 DEF IInv, ForMoney, tables, ghosts, RemoveDelete
<1>9. ASSUME NEW w \in Workers, CutShort(w)
      PROVE  ForMoney'
  BY <1>9 DEF IInv, ForMoney, tables, ghosts, CutShort
<1>10. ASSUME NEW w \in Workers, NEW failing \in SUBSET Triggers, PayCommit(w, failing)
      PROVE  ForMoney'
  <2>a. PICK o \in Orders : o = job[w].order
    BY <1>10, Hands DEF IInv, PayCommit
  <2>b. order[o] # None /\ Holds(w, o)
    BY <1>10, <2>a DEF IInv, OneTransaction, Holds, PayCommit
  <2>1. \A x \in Orders :
            /\ order'[x] = None <=> order[x] = None
            /\ order[x] # None =>
                  order'[x].user = order[x].user /\ order'[x].discount = order[x].discount
    BY <1>10, <2>a, <2>b, StatusOnly DEF PayCommit, Statuses
  <2>2. \A u \in Users : referral'[u] = "qualified" => referral[u] = "qualified" \/ u = order[o].user
    BY <1>10, <2>a DEF IInv, Shape, PayCommit
  <2>3. paidOnce' = paidOnce \cup {o}
    BY <1>10, <2>a DEF PayCommit
  <2>4. QED
    BY <2>b, <2>1, <2>2, <2>3 DEF IInv, Shape, OneTransaction, ForMoney
<1>11. ASSUME NEW w \in Workers, NEW o \in Orders, PayRead(w, o)
      PROVE  ForMoney'
  BY <1>11 DEF IInv, ForMoney, tables, ghosts, PayRead
<1>12. ASSUME NEW w \in Workers, NEW u \in Users, DebitCheck(w, u)
      PROVE  ForMoney'
  BY <1>12 DEF IInv, ForMoney, tables, ghosts, DebitCheck
<1>13. ASSUME NEW w \in Workers, NEW u \in Users, NEW v \in Users, NEW answers \in BOOLEAN,
              ClaimRead(w, u, v, answers)
      PROVE  ForMoney'
  BY <1>13 DEF IInv, ForMoney, tables, ghosts, ClaimRead
<1>14. ASSUME NEW w \in Workers, NEW o \in Orders, NEW u \in Users, NEW c \in 0..Price,
              NEW d \in 0..Discount, PlaceCheck(w, o, u, c, d)
      PROVE  ForMoney'
  BY <1>14 DEF IInv, ForMoney, tables, ghosts, PlaceCheck
<1>15. CASE UNCHANGED vars
  BY <1>15 DEF IInv, ForMoney, vars, tables, ghosts
<1>16. QED
  BY <1>1, <1>2, <1>3, <1>4, <1>5, <1>6, <1>7, <1>8, <1>9,
     <1>10, <1>11, <1>12, <1>13, <1>14, <1>15 DEF Next

\* A code is redeemed by an order that was paid with it.
LEMMA NextRedeemed == ASSUME IInv, [Next]_vars PROVE RedeemedOnce'
<1>1. CASE Toggle
  BY <1>1 DEF IInv, RedeemedOnce, tables, ghosts, Toggle
<1>2. ASSUME NEW u \in Users, AdjustGrant(u)
      PROVE  RedeemedOnce'
  BY <1>2 DEF IInv, RedeemedOnce, tables, ghosts, AdjustGrant
<1>3. ASSUME NEW o \in Orders, NEW st \in Statuses, NEW fails \in BOOLEAN, Close(o, st, fails)
      PROVE  RedeemedOnce'
  <2>1. \A x \in Orders :
            /\ order'[x] = None <=> order[x] = None
            /\ order[x] # None =>
                  order'[x].user = order[x].user /\ order'[x].discount = order[x].discount
    BY <1>3, StatusOnly DEF Close
  <2>2. paidOnce' = paidOnce /\ redeemed' = redeemed /\ promo' = promo
    BY <1>3 DEF Close
  <2>3. QED
    BY <2>1, <2>2 DEF IInv, Shape, OneTransaction, RedeemedOnce
<1>4. ASSUME NEW w \in Workers, PlaceCommit(w)
      PROVE  RedeemedOnce'
  <2> DEFINE x == job[w].order
  <2>1. x \in Orders /\ order[x] = None /\ x \notin paidOnce /\ Holds(w, x)
    BY <1>4, Hands DEF IInv, OneTransaction, Holds, PlaceCommit
  <2>2. \A o \in Orders : o # x => order'[o] = order[o]
    BY <1>4, <2>1 DEF IInv, Shape, PlaceCommit
  <2>3. paidOnce' = paidOnce /\ redeemed' = redeemed /\ promo' = promo
    BY <1>4 DEF PlaceCommit, ghosts
  <2>4. QED
    BY <2>1, <2>2, <2>3 DEF IInv, Shape, RedeemedOnce
<1>5. ASSUME NEW w \in Workers, DebitCommit(w)
      PROVE  RedeemedOnce'
  BY <1>5 DEF IInv, RedeemedOnce, tables, ghosts, DebitCommit
<1>6. ASSUME NEW w \in Workers, ClaimInsert(w)
      PROVE  RedeemedOnce'
  BY <1>6 DEF IInv, RedeemedOnce, tables, ghosts, ClaimInsert
<1>7. ASSUME NEW w \in Workers, RemoveRead(w)
      PROVE  RedeemedOnce'
  BY <1>7 DEF IInv, RedeemedOnce, tables, ghosts, RemoveRead
<1>8. ASSUME NEW w \in Workers, RemoveDelete(w)
      PROVE  RedeemedOnce'
  BY <1>8 DEF RedeemedOnce, RemoveDelete
<1>9. ASSUME NEW w \in Workers, CutShort(w)
      PROVE  RedeemedOnce'
  BY <1>9 DEF IInv, RedeemedOnce, tables, ghosts, CutShort
<1>10. ASSUME NEW w \in Workers, NEW failing \in SUBSET Triggers, PayCommit(w, failing)
      PROVE  RedeemedOnce'
  <2>a. PICK o \in Orders : o = job[w].order
    BY <1>10, Hands DEF IInv, PayCommit
  <2>b. order[o] # None /\ Holds(w, o)
    BY <1>10, <2>a DEF IInv, OneTransaction, Holds, PayCommit
  <2>1. \A x \in Orders :
            /\ order'[x] = None <=> order[x] = None
            /\ order[x] # None =>
                  order'[x].user = order[x].user /\ order'[x].discount = order[x].discount
    BY <1>10, <2>a, <2>b, StatusOnly DEF PayCommit, Statuses
  <2>2. paidOnce' = paidOnce \cup {o} /\ promo' = promo
    BY <1>10, <2>a DEF PayCommit
  <2>3. \/ redeemed' = redeemed
        \/ /\ promo # "deleted" /\ order[o].discount > 0
           /\ redeemed' = [redeemed EXCEPT ![o] = 1]
    BY <1>10, <2>a DEF PayCommit, Redeem
  <2>4. CASE redeemed' = redeemed
    BY <2>b, <2>1, <2>2, <2>4 DEF IInv, Shape, OneTransaction, RedeemedOnce
  <2>5. CASE /\ promo # "deleted" /\ order[o].discount > 0
             /\ redeemed' = [redeemed EXCEPT ![o] = 1]
    <3>1. \A x \in Orders : redeemed'[x] = IF x = o THEN 1 ELSE redeemed[x]
      BY <2>5 DEF IInv, Shape
    <3>2. QED
      BY <2>b, <2>1, <2>2, <2>5, <3>1 DEF IInv, Shape, OneTransaction, RedeemedOnce
  <2>6. QED
    BY <2>3, <2>4, <2>5
<1>11. ASSUME NEW w \in Workers, NEW o \in Orders, PayRead(w, o)
      PROVE  RedeemedOnce'
  BY <1>11 DEF IInv, RedeemedOnce, tables, ghosts, PayRead
<1>12. ASSUME NEW w \in Workers, NEW u \in Users, DebitCheck(w, u)
      PROVE  RedeemedOnce'
  BY <1>12 DEF IInv, RedeemedOnce, tables, ghosts, DebitCheck
<1>13. ASSUME NEW w \in Workers, NEW u \in Users, NEW v \in Users, NEW answers \in BOOLEAN,
              ClaimRead(w, u, v, answers)
      PROVE  RedeemedOnce'
  BY <1>13 DEF IInv, RedeemedOnce, tables, ghosts, ClaimRead
<1>14. ASSUME NEW w \in Workers, NEW o \in Orders, NEW u \in Users, NEW c \in 0..Price,
              NEW d \in 0..Discount, PlaceCheck(w, o, u, c, d)
      PROVE  RedeemedOnce'
  BY <1>14 DEF IInv, RedeemedOnce, tables, ghosts, PlaceCheck
<1>15. CASE UNCHANGED vars
  BY <1>15 DEF IInv, RedeemedOnce, vars, tables, ghosts
<1>16. QED
  BY <1>1, <1>2, <1>3, <1>4, <1>5, <1>6, <1>7, <1>8, <1>9,
     <1>10, <1>11, <1>12, <1>13, <1>14, <1>15 DEF Next

-----------------------------------------------------------------------------
\* Cents: finitely many, for finitely many rows.
LEMMA CentsFinite ==
    ASSUME NEW rows, IsFiniteSet(rows), \A e \in rows : e.amount \in Int
    PROVE  IsFiniteSet(In(rows)) /\ IsFiniteSet(Out(rows))
<1> DEFINE C == {{e} \X (1 .. e.amount) : e \in rows}
           D == {{e} \X (1 .. -e.amount) : e \in rows}
           c == [e \in rows |-> {e} \X (1 .. e.amount)]
           d == [e \in rows |-> {e} \X (1 .. -e.amount)]
<1>1. c \in Surjection(rows, C) /\ d \in Surjection(rows, D)
  BY DEF Surjection, Range
<1>2. IsFiniteSet(C) /\ IsFiniteSet(D)
  <2> HIDE DEF C, D, c, d
  <2> QED BY <1>1, FS_Surjection DEF ExistsSurjection
<1>3. ASSUME NEW e \in rows, NEW n \in Int PROVE IsFiniteSet({e} \X (1 .. n))
  <2>1. IsFiniteSet({e})
    BY FS_Singleton
  <2>2. IsFiniteSet(1 .. n)
    BY FS_Interval
  <2>3. QED
    BY <2>1, <2>2, FS_Product
<1>4. ASSUME NEW t \in C PROVE IsFiniteSet(t)
  BY <1>3
<1>5. ASSUME NEW t \in D PROVE IsFiniteSet(t)
  <2>1. PICK e \in rows : t = {e} \X (1 .. -e.amount)
    OBVIOUS
  <2>2. -e.amount \in Int
    OBVIOUS
  <2>3. QED
    BY <1>3, <2>1, <2>2
<1>6. IsFiniteSet(UNION C) /\ IsFiniteSet(UNION D)
  <2> HIDE DEF C, D
  <2> QED BY <1>2, <1>4, <1>5, FS_UNION
<1>7. QED
  BY <1>6 DEF In, Out

\* Their sum is a number.
LEMMA SumInt ==
    ASSUME NEW rows, IsFiniteSet(rows), \A e \in rows : e.amount \in Int
    PROVE  Sum(rows) \in Int
<1>1. Cardinality(In(rows)) \in Nat /\ Cardinality(Out(rows)) \in Nat
  BY CentsFinite, FS_CardinalityType
<1>2. QED
  BY <1>1 DEF Sum

\* The cents of one row.
LEMMA CentsOf ==
    ASSUME NEW e, NEW n \in Int
    PROVE  /\ IsFiniteSet({e} \X (1 .. n))
           /\ Cardinality({e} \X (1 .. n)) = IF n > 0 THEN n ELSE 0
<1>1. IsFiniteSet({e}) /\ Cardinality({e}) = 1
  BY FS_Singleton
<1>2. IsFiniteSet(1 .. n) /\ Cardinality(1 .. n) = IF 1 > n THEN 0 ELSE n - 1 + 1
  BY FS_Interval
<1>3. /\ IsFiniteSet({e} \X (1 .. n))
      /\ Cardinality({e} \X (1 .. n)) = 1 * Cardinality(1 .. n)
  BY <1>1, <1>2, FS_Product
<1>4. QED
  BY <1>2, <1>3

\* A row that is new adds its amount.
LEMMA SumPlus ==
    ASSUME NEW rows, IsFiniteSet(rows), \A f \in rows : f.amount \in Int,
           NEW e, e \notin rows, e.amount \in Int
    PROVE  Sum(rows \cup {e}) = Sum(rows) + e.amount
<1> DEFINE c == {e} \X (1 .. e.amount)
           d == {e} \X (1 .. -e.amount)
<1>1. /\ In(rows \cup {e}) = In(rows) \cup c /\ In(rows) \cap c = {}
      /\ Out(rows \cup {e}) = Out(rows) \cup d /\ Out(rows) \cap d = {}
  BY DEF In, Out
<1>2. -e.amount \in Int
  OBVIOUS
<1>3. /\ IsFiniteSet(c) /\ Cardinality(c) = IF e.amount > 0 THEN e.amount ELSE 0
      /\ IsFiniteSet(d) /\ Cardinality(d) = IF -e.amount > 0 THEN -e.amount ELSE 0
  BY <1>2, CentsOf
<1>4. /\ IsFiniteSet(In(rows)) /\ Cardinality(In(rows)) \in Nat
      /\ IsFiniteSet(Out(rows)) /\ Cardinality(Out(rows)) \in Nat
  BY CentsFinite, FS_CardinalityType
<1>5. /\ Cardinality(In(rows \cup {e})) = Cardinality(In(rows)) + Cardinality(c)
      /\ Cardinality(Out(rows \cup {e})) = Cardinality(Out(rows)) + Cardinality(d)
  <2> HIDE DEF c, d
  <2>1. Cardinality({}) = 0
    BY FS_EmptySet
  <2>2. Cardinality(In(rows) \cup c) = Cardinality(In(rows)) + Cardinality(c) - Cardinality(In(rows) \cap c)
    BY <1>3, <1>4, FS_Union
  <2>3. Cardinality(Out(rows) \cup d) = Cardinality(Out(rows)) + Cardinality(d) - Cardinality(Out(rows) \cap d)
    BY <1>3, <1>4, FS_Union
  <2>4. Cardinality(c) \in Nat /\ Cardinality(d) \in Nat
    BY <1>3, FS_CardinalityType
  <2>5. Cardinality(In(rows) \cap c) = 0 /\ Cardinality(Out(rows) \cap d) = 0
    BY <1>1, <2>1
  <2>6. /\ Cardinality(In(rows \cup {e})) = Cardinality(In(rows) \cup c)
        /\ Cardinality(Out(rows \cup {e})) = Cardinality(Out(rows) \cup d)
    BY <1>1
  <2>7. QED
    BY <1>4, <2>2, <2>3, <2>4, <2>5, <2>6
<1>6. QED
  <2> HIDE DEF c, d
  <2> QED BY <1>3, <1>4, <1>5 DEF Sum

\* Rows that take nothing take nothing from the sum.
LEMMA SumGains ==
    ASSUME NEW rows, IsFiniteSet(rows), \A f \in rows : f.amount \in Int,
           NEW new, IsFiniteSet(new), \A f \in new : f.amount \in Nat
    PROVE  Sum(rows) \in Int /\ Sum(rows \cup new) \in Int /\ Sum(rows \cup new) >= Sum(rows)
<1> DEFINE all == rows \cup new
<1>1. IsFiniteSet(all) /\ \A f \in all : f.amount \in Int
  <2>1. IsFiniteSet(all)
    BY FS_Union
  <2>2. QED
    BY <2>1
<1>2. In(rows) \subseteq In(all)
  BY DEF In
<1>3. Out(rows) = Out(all)
  <2>1. \A f \in new : 1 .. -f.amount = {}
    OBVIOUS
  <2>2. QED
    BY <2>1 DEF Out
<1>4. /\ IsFiniteSet(In(rows)) /\ Cardinality(In(rows)) \in Nat
      /\ IsFiniteSet(In(all)) /\ Cardinality(In(all)) \in Nat
      /\ Cardinality(Out(rows)) \in Nat
  BY <1>1, CentsFinite, FS_CardinalityType
<1>5. Cardinality(In(rows)) <= Cardinality(In(all))
  <2> HIDE DEF all
  <2> QED BY <1>2, <1>4, FS_Subset
<1>6. QED
  <2> HIDE DEF all
  <2>1. QED
    BY <1>3, <1>4, <1>5 DEF Sum, all
-----------------------------------------------------------------------------
\* Rows are alike that differ in amount and number only.
Alike(rows, e) == {f \in rows : f.user = e.user /\ f.of = e.of /\ f.reason = e.reason}
Spends == {"spend", "spend_returned"}
Reasons == Rewarding \cup Spends \cup {"cashback", "admin_adjustment"}
Targets == Users \cup Orders \cup {None}

\* The ledger: rows alike are numbered, so that a new one is never an old one.
Books ==
    /\ ledger \subseteq Entry /\ IsFiniteSet(ledger)
    /\ \A e \in ledger : e.nth < Cardinality(Alike(ledger, e))

\* What a transaction goes by of a referral stays so until it commits.
Referred ==
    /\ \A u \in Users : referral[u] # "none" => referrer[u] \in Users
    /\ \A w \in Workers :
          job[w].at = "paying" /\ job[w].qualifies =>
              referral[order[job[w].order].user] # "none"

\* SpendFollowsOrder, and nothing is spent on an order that is not written.
SpentRight ==
    \A o \in Orders :
        /\ order[o] = None => Spent(o) = 0
        /\ order[o] # None => Spent(o) \in {0, order[o].applied}
        /\ order[o] # None /\ order[o].status \in Dead /\ o \notin unreturned => Spent(o) = 0

\* A worker holds a debit of u that is not in the ledger yet.
Debits(w, u) ==
    \/ job[w].at = "debiting" /\ job[w].user = u
    \/ job[w].at = "ordering" /\ job[w].user = u /\ job[w].applied > 0
Debit(w) == IF job[w].at = "debiting" THEN Grant ELSE job[w].applied

\* Without a race, the one debit in flight is covered still: nothing but a debit
\* makes a balance smaller.
Funded ==
    \A u \in Users \ raced :
        /\ Balance(u) >= 0
        /\ \A w \in Workers : Debits(w, u) =>
              /\ Debit(w) <= Balance(u)
              /\ \A v \in Workers : Debits(v, u) => v = w

\* The types that Shape and Books leave out.
Rest ==
    /\ promo \in {"active", "inactive", "deleted"}
    /\ raced \subseteq Users /\ unreturned \subseteq Orders /\ edits \in 0..MaxEdits

Accounts == Books /\ Referred /\ SpentRight /\ Funded /\ Rest

\* Some rows of a finite ledger are finitely many, with amounts.
LEMMA SomeRows ==
    ASSUME Books, NEW rows \in SUBSET ledger
    PROVE  /\ IsFiniteSet(rows) /\ \A e \in rows : e.amount \in Int
           /\ Cardinality(rows) \in Nat
BY FS_Subset, FS_CardinalityType DEF Books, Entry

\* A row to be written: its fields, and that it is none of those written.
LEMMA RowNew ==
    ASSUME Books, NEW u \in Users, NEW amount \in Int,
           NEW of \in Targets,
           NEW reason \in Reasons
    PROVE  \A e : e = Row(u, amount, of, reason) =>
              /\ e.user = u /\ e.amount = amount /\ e.of = of /\ e.reason = reason
              /\ e.nth = Cardinality(Alike(ledger, e))
              /\ e \in Entry /\ e \notin ledger
<1> SUFFICES ASSUME NEW e, e = Row(u, amount, of, reason)
             PROVE  /\ e.user = u /\ e.amount = amount /\ e.of = of /\ e.reason = reason
                    /\ e.nth = Cardinality(Alike(ledger, e))
                    /\ e \in Entry /\ e \notin ledger
  OBVIOUS
<1>1. /\ e.user = u /\ e.amount = amount /\ e.of = of /\ e.reason = reason
      /\ e.nth = Cardinality({f \in ledger : f.user = u /\ f.of = of /\ f.reason = reason})
  BY DEF Row
<1>2. e.nth = Cardinality(Alike(ledger, e))
  BY <1>1 DEF Alike
<1>3. Alike(ledger, e) \in SUBSET ledger
  BY DEF Alike
<1>4. e.nth \in Nat
  BY <1>2, <1>3, SomeRows
<1>5. e \in Entry
  BY <1>4 DEF Row, Entry, Reasons, Targets, Rewarding, Spends
<1>6. e \notin ledger
  BY <1>2, <1>4 DEF Books
<1>7. QED
  BY <1>1, <1>2, <1>5, <1>6

\* Rows are written, of one kind each: they are new and numbered.
Writes(new) ==
    /\ ledger' = ledger \cup new
    /\ new \subseteq Entry /\ IsFiniteSet(new)
    /\ \A e \in new : e.nth = Cardinality(Alike(ledger, e))

\* ... and the ledger stays numbered.
LEMMA BooksKept == ASSUME Books, NEW new, Writes(new) PROVE Books'
<1>1. ledger' \subseteq Entry /\ IsFiniteSet(ledger')
  BY FS_Union DEF Books, Writes
<1>2. ASSUME NEW e \in ledger' PROVE e.nth < Cardinality(Alike(ledger', e))
  <2>1. Alike(ledger, e) \in SUBSET ledger /\ Alike(ledger', e) \in SUBSET ledger'
    BY DEF Alike
  <2>2. Alike(ledger, e) \in SUBSET Alike(ledger', e)
    BY DEF Alike, Writes
  <2>3. IsFiniteSet(Alike(ledger, e)) /\ IsFiniteSet(Alike(ledger', e))
    BY <1>1, <2>1, FS_Subset, SomeRows
  <2>4. Cardinality(Alike(ledger, e)) \in Nat /\ Cardinality(Alike(ledger', e)) \in Nat
    BY <2>3, FS_CardinalityType
  <2>5. /\ Cardinality(Alike(ledger, e)) <= Cardinality(Alike(ledger', e))
        /\ Cardinality(Alike(ledger, e)) = Cardinality(Alike(ledger', e)) =>
              Alike(ledger, e) = Alike(ledger', e)
    BY <2>2, <2>3, FS_Subset
  <2>6. e.nth \in Nat
    BY <1>1 DEF Entry
  <2>7. CASE e \in ledger
    BY <2>4, <2>5, <2>6, <2>7 DEF Books
  <2>8. CASE e \notin ledger
    <3>1. e.nth = Cardinality(Alike(ledger, e))
      BY <2>8 DEF Writes
    <3>2. e \in Alike(ledger', e) /\ e \notin Alike(ledger, e)
      BY <2>8 DEF Alike
    <3>3. QED
      BY <2>4, <2>5, <3>1, <3>2
  <2>9. QED
    BY <2>7, <2>8
<1>3. QED
  BY <1>1, <1>2 DEF Books

\* One row: it moves the balance of its customer, and what its order has spent.
LEMMA OneRow ==
    ASSUME Books, NEW u \in Users, NEW amount \in Int,
           NEW of \in Targets,
           NEW reason \in Reasons,
           ledger' = ledger \cup {Row(u, amount, of, reason)}
    PROVE  /\ Books'
           /\ \A x : /\ Balance(x) \in Int
                     /\ Balance(x)' = IF x = u THEN Balance(x) + amount ELSE Balance(x)
           /\ \A o : /\ Spent(o) \in Int
                     /\ Spent(o)' = IF o = of /\ reason \in Spends THEN Spent(o) - amount
                                    ELSE Spent(o)
<1>1. PICK e : e = Row(u, amount, of, reason)
  OBVIOUS
<1>2. /\ e.user = u /\ e.amount = amount /\ e.of = of /\ e.reason = reason
      /\ e.nth = Cardinality(Alike(ledger, e))
      /\ e \in Entry /\ e \notin ledger
  <2>1. \A f : f = Row(u, amount, of, reason) =>
              /\ f.user = u /\ f.amount = amount /\ f.of = of /\ f.reason = reason
              /\ f.nth = Cardinality(Alike(ledger, f))
              /\ f \in Entry /\ f \notin ledger
    BY RowNew
  <2>2. QED
    BY <1>1, <2>1
<1>3. ledger' = ledger \cup {e}
  BY <1>1
<1>4. Books'
  <2>1. Writes({e})
    BY <1>2, <1>3, FS_Singleton DEF Writes
  <2>2. QED
    BY <2>1, BooksKept
<1>5. ASSUME NEW x
      PROVE  /\ Balance(x) \in Int
             /\ Balance(x)' = IF x = u THEN Balance(x) + amount ELSE Balance(x)
  <2> DEFINE rows == {f \in ledger : f.user = x}
  <2>1. /\ rows \in SUBSET ledger
        /\ Balance(x) = Sum(rows)
    BY DEF Balance
  <2>2. IsFiniteSet(rows) /\ \A f \in rows : f.amount \in Int
    BY <2>1, SomeRows
  <2>3. Sum(rows) \in Int
    <3> HIDE DEF rows
    <3> QED BY <2>2, SumInt
  <2>4. CASE x = u
    <3>1. {f \in ledger' : f.user = x} = rows \cup {e} /\ e \notin rows
      BY <1>2, <1>3, <2>4
    <3>2. Sum(rows \cup {e}) = Sum(rows) + e.amount
      <4> HIDE DEF rows
      <4> QED BY <1>2, <2>2, <3>1, SumPlus
    <3>3. Balance(x)' = Sum(rows \cup {e})
      BY <3>1 DEF Balance, Sum, In, Out
    <3>4. QED
      BY <1>2, <2>1, <2>3, <2>4, <3>2, <3>3
  <2>5. CASE x # u
    <3>1. {f \in ledger' : f.user = x} = rows
      BY <1>2, <1>3, <2>5
    <3>2. Balance(x)' = Sum(rows)
      BY <3>1 DEF Balance, Sum, In, Out
    <3>3. QED
      BY <2>1, <2>3, <2>5, <3>2
  <2>6. QED
    BY <2>4, <2>5
<1>6. ASSUME NEW o
      PROVE  /\ Spent(o) \in Int
             /\ Spent(o)' = IF o = of /\ reason \in Spends THEN Spent(o) - amount
                            ELSE Spent(o)
  <2> DEFINE rows == {f \in ledger : f.of = o /\ f.reason \in {"spend", "spend_returned"}}
  <2>1. /\ rows \in SUBSET ledger
        /\ Spent(o) = -Sum(rows)
    BY DEF Spent
  <2>2. IsFiniteSet(rows) /\ \A f \in rows : f.amount \in Int
    BY <2>1, SomeRows
  <2>3. Sum(rows) \in Int
    <3> HIDE DEF rows
    <3> QED BY <2>2, SumInt
  <2>4. CASE o = of /\ reason \in Spends
    <3>1. /\ {f \in ledger' : f.of = o /\ f.reason \in {"spend", "spend_returned"}} = rows \cup {e}
          /\ e \notin rows
      BY <1>2, <1>3, <2>4 DEF Spends
    <3>2. Sum(rows \cup {e}) = Sum(rows) + e.amount
      <4> HIDE DEF rows
      <4> QED BY <1>2, <2>2, <3>1, SumPlus
    <3>3. Spent(o)' = -Sum(rows \cup {e})
      BY <3>1 DEF Spent, Sum, In, Out
    <3>4. QED
      BY <1>2, <2>1, <2>3, <2>4, <3>2, <3>3
  <2>5. CASE ~(o = of /\ reason \in Spends)
    <3>1. {f \in ledger' : f.of = o /\ f.reason \in {"spend", "spend_returned"}} = rows
      BY <1>2, <1>3, <2>5 DEF Spends
    <3>2. Spent(o)' = -Sum(rows)
      BY <3>1 DEF Spent, Sum, In, Out
    <3>3. QED
      BY <2>1, <2>3, <2>5, <3>2
  <2>6. QED
    BY <2>4, <2>5
<1>7. QED
  BY <1>4, <1>5, <1>6

\* Rows that are granted take nothing, and spend nothing.
LEMMA Granted ==
    ASSUME Books, NEW new, Writes(new),
           \A e \in new : e.amount \in Nat /\ e.reason \notin Spends
    PROVE  /\ \A x : Balance(x) \in Int /\ Balance(x)' \in Int /\ Balance(x)' >= Balance(x)
           /\ \A o : Spent(o)' = Spent(o)
<1>1. ASSUME NEW x
      PROVE  Balance(x) \in Int /\ Balance(x)' \in Int /\ Balance(x)' >= Balance(x)
  <2> DEFINE rows == {f \in ledger : f.user = x}
             more == {f \in new : f.user = x}
  <2>1. rows \in SUBSET ledger /\ more \in SUBSET new
    OBVIOUS
  <2>2. IsFiniteSet(rows) /\ \A f \in rows : f.amount \in Int
    BY <2>1, SomeRows
  <2>3. IsFiniteSet(more) /\ \A f \in more : f.amount \in Nat
    BY <2>1, FS_Subset DEF Writes
  <2>4. {f \in ledger' : f.user = x} = rows \cup more
    BY DEF Writes
  <2>5. Balance(x) = Sum(rows)
    BY DEF Balance
  <2>6. Balance(x)' = Sum(rows \cup more)
    BY <2>4 DEF Balance, Sum, In, Out
  <2>7. QED
    <3> HIDE DEF rows, more
    <3> QED BY <2>2, <2>3, <2>5, <2>6, SumGains
<1>2. ASSUME NEW o
      PROVE  Spent(o)' = Spent(o)
  <2>1. {f \in ledger' : f.of = o /\ f.reason \in {"spend", "spend_returned"}}
          = {f \in ledger : f.of = o /\ f.reason \in {"spend", "spend_returned"}}
    BY DEF Writes, Spends
  <2>2. QED
    BY <2>1 DEF Spent, Sum, In, Out
<1>3. QED
  BY <1>1, <1>2

\* What moves no row, no order and no referral, and puts nobody to paying or to a
\* debit, keeps the accounts.
Quiet ==
    /\ UNCHANGED <<ledger, order, referrer, referral, unreturned>>
    /\ raced \subseteq raced'
    /\ \A w \in Workers :
          job'[w] = job[w] \/ job'[w].at \notin {"ordering", "paying", "debiting"}

\* ... the debits in flight: no fewer can be afforded than before.
Affords ==
    /\ \A x \in Users : Balance(x) \in Int /\ Balance(x)' \in Int /\ Balance(x)' >= Balance(x)
    /\ raced \subseteq raced'
    /\ \A w \in Workers :
          job'[w] = job[w] \/ job'[w].at \notin {"ordering", "debiting"}

\* What a debit in flight takes.
LEMMA DebitNat ==
    ASSUME Shape, NEW w \in Workers, NEW u, Debits(w, u) PROVE Debit(w) \in Nat \ {0}
<1>1. CASE job[w].at = "debiting"
  BY <1>1, CreditsAssumption DEF Debit
<1>2. CASE job[w].at = "ordering"
  BY <1>2, Hands, CreditsAssumption DEF Debit, Debits
<1>3. QED
  BY <1>1, <1>2 DEF Debits

\* ... so that what was covered stays covered.
LEMMA FundedKept == ASSUME Shape, Funded, Affords PROVE Funded'
<1>1. ASSUME NEW u \in Users, u \notin raced'
      PROVE  /\ Balance(u)' >= 0
             /\ \A w \in Workers : Debits(w, u)' =>
                   /\ Debit(w)' <= Balance(u)'
                   /\ \A v \in Workers : Debits(v, u)' => v = w
  <2>1. /\ Balance(u) >= 0 /\ Balance(u) \in Int /\ Balance(u)' \in Int /\ Balance(u)' >= Balance(u)
        /\ \A w \in Workers : Debits(w, u) =>
              /\ Debit(w) <= Balance(u)
              /\ \A v \in Workers : Debits(v, u) => v = w
    BY <1>1 DEF Funded, Affords
  <2>2. \A w \in Workers : Debits(w, u)' => Debits(w, u) /\ Debit(w)' = Debit(w)
    BY DEF Affords, Debits, Debit
  <2>3. Balance(u)' >= 0
    BY <2>1
  <2>4. ASSUME NEW w \in Workers, Debits(w, u)'
        PROVE  Debit(w)' <= Balance(u)' /\ \A v \in Workers : Debits(v, u)' => v = w
    <3>1. Debit(w) \in Nat /\ Debit(w) <= Balance(u) /\ Debit(w)' = Debit(w)
      BY <2>1, <2>2, <2>4, DebitNat
    <3>2. Debit(w)' <= Balance(u)'
      BY <2>1, <3>1
    <3>3. QED
      BY <2>1, <2>2, <2>4, <3>2
  <2>5. QED
    BY <2>3, <2>4
<1>2. QED
  BY <1>1 DEF Funded

\* The ledger as it is has balances, and keeps them.
LEMMA SameRows ==
    ASSUME Books, ledger' = ledger
    PROVE  /\ Books'
           /\ \A x : Balance(x) \in Int /\ Balance(x)' = Balance(x)
           /\ \A o : Spent(o)' = Spent(o)
<1>1. ASSUME NEW x PROVE Balance(x) \in Int
  <2> DEFINE rows == {f \in ledger : f.user = x}
  <2>1. IsFiniteSet(rows) /\ \A f \in rows : f.amount \in Int
    BY SomeRows
  <2>2. Balance(x) = Sum(rows)
    BY DEF Balance
  <2>3. QED
    <3> HIDE DEF rows
    <3> QED BY <2>1, <2>2, SumInt
<1>2. QED
  BY <1>1 DEF Books, Balance, Spent, Sum, In, Out, Alike

\* A quiet step keeps them all.
LEMMA QuietAccounts ==
    ASSUME IInv, Accounts, Quiet PROVE (Books /\ Referred /\ SpentRight /\ Funded)'
<1>1. /\ Books'
      /\ \A x : Balance(x) \in Int /\ Balance(x)' = Balance(x)
      /\ \A o : Spent(o)' = Spent(o)
  BY SameRows DEF Accounts, Quiet
<1>2. Referred'
  BY DEF Accounts, Referred, Quiet
<1>3. SpentRight'
  BY <1>1 DEF Accounts, SpentRight, Quiet
<1>4. Affords
  BY <1>1 DEF Affords, Quiet
<1>5. QED
  BY <1>1, <1>2, <1>3, <1>4, FundedKept DEF Accounts, IInv

\* An order that is spent on as before, and lives as before.
LEMMA SpentKept ==
    ASSUME SpentRight, \A o : Spent(o)' = Spent(o),
           UNCHANGED <<order, unreturned>>
    PROVE  SpentRight'
BY DEF SpentRight

\* What is said of the referrals of orders that stay.
LEMMA ReferredKept ==
    ASSUME IInv, Referred, referrer' = referrer,
           \A u \in Users : referral'[u] = "none" <=> referral[u] = "none",
           \A o \in Orders : order[o] # None =>
               order'[o] # None /\ order'[o].user = order[o].user,
           \A w \in Workers : job'[w] = job[w] \/ job'[w].at # "paying"
    PROVE  Referred'
<1>1. \A u \in Users : referral'[u] # "none" => referrer'[u] \in Users
  BY DEF Referred
<1>2. ASSUME NEW w \in Workers, job'[w].at = "paying", job'[w].qualifies
      PROVE  referral'[order'[job'[w].order].user] # "none"
  <2>1. job'[w] = job[w]
    BY <1>2
  <2>2. Holds(w, job[w].order) /\ job[w].order \in Orders
    BY <1>2, <2>1, Hands DEF Holds, IInv
  <2>3. order[job[w].order] # None
    BY <1>2, <2>1, <2>2 DEF IInv, OneTransaction
  <2>4. order[job[w].order] \in Order
    BY <2>2, <2>3 DEF IInv, Shape
  <2>5. order[job[w].order].user \in Users
    BY <2>4 DEF Order
  <2>6. order'[job[w].order].user = order[job[w].order].user
    BY <2>2, <2>3
  <2>7. QED
    BY <1>2, <2>1, <2>5, <2>6 DEF Referred
<1>3. QED
  BY <1>1, <1>2 DEF Referred

\* The types that are left.
LEMMA NextRest == ASSUME IInv, Rest, [Next]_vars PROVE Rest'
<1>1. CASE Toggle
  BY <1>1 DEF Rest, tables, ghosts, Toggle
<1>2. ASSUME NEW u \in Users, AdjustGrant(u)
      PROVE  Rest'
  BY <1>2, CreditsAssumption DEF Rest, Counted, AdjustGrant
<1>3. ASSUME NEW o \in Orders, NEW st \in Statuses, NEW fails \in BOOLEAN, Close(o, st, fails)
      PROVE  Rest'
  BY <1>3, CreditsAssumption DEF Rest, Counted, Close
<1>4. ASSUME NEW w \in Workers, PlaceCommit(w)
      PROVE  Rest'
  BY <1>4 DEF Rest, ghosts, PlaceCommit
<1>5. ASSUME NEW w \in Workers, DebitCommit(w)
      PROVE  Rest'
  BY <1>5 DEF Rest, ghosts, DebitCommit
<1>6. ASSUME NEW w \in Workers, ClaimInsert(w)
      PROVE  Rest'
  BY <1>6 DEF Rest, ghosts, ClaimInsert
<1>7. ASSUME NEW w \in Workers, RemoveRead(w) \/ RemoveDelete(w) \/ CutShort(w)
      PROVE  Rest'
  BY <1>7 DEF Rest, tables, ghosts, RemoveRead, RemoveDelete, CutShort
<1>8. ASSUME NEW w \in Workers, NEW failing \in SUBSET Triggers, PayCommit(w, failing)
      PROVE  Rest'
  BY <1>8 DEF Rest, PayCommit
<1>9. ASSUME NEW w \in Workers, NEW o \in Orders, PayRead(w, o)
      PROVE  Rest'
  BY <1>9, CreditsAssumption DEF Rest, Counted, tables, PayRead
<1>10. ASSUME NEW w \in Workers, NEW u \in Users, DebitCheck(w, u)
      PROVE  Rest'
  BY <1>10, CreditsAssumption DEF Rest, Counted, tables, RacedIf, DebitCheck
<1>11. ASSUME NEW w \in Workers, NEW u \in Users, NEW v \in Users, NEW answers \in BOOLEAN,
              ClaimRead(w, u, v, answers)
      PROVE  Rest'
  BY <1>11 DEF Rest, tables, ghosts, ClaimRead
<1>12. ASSUME NEW w \in Workers, NEW o \in Orders, NEW u \in Users, NEW c \in 0..Price,
              NEW d \in 0..Discount, PlaceCheck(w, o, u, c, d)
      PROVE  Rest'
  BY <1>12 DEF Rest, tables, RacedIf, PlaceCheck
<1>13. CASE UNCHANGED vars
  BY <1>13 DEF Rest, vars, tables, ghosts
<1>14. QED
  BY <1>1, <1>2, <1>3, <1>4, <1>5, <1>6, <1>7, <1>8, <1>9,
     <1>10, <1>11, <1>12, <1>13 DEF Next

Sound == Books /\ Referred /\ SpentRight /\ Funded

\* A debit that is checked is covered; if it is the only one, it stays so.
LEMMA DebitTaken ==
    ASSUME Shape, Accounts, NEW w \in Workers, NEW u \in Users, NEW d \in Nat, d <= Balance(u),
           ledger' = ledger, RacedIf(u, TRUE),
           \A v \in Workers : v # w => job'[v] = job[v],
           Debit(w)' = d, \A x \in Users : Debits(w, x)' => x = u
    PROVE  Funded'
<1>1. \A x : Balance(x) \in Int /\ Balance(x)' = Balance(x)
  BY SameRows DEF Accounts
<1>2. \A x : \A v \in Workers : v # w => (Debits(v, x)' <=> Debits(v, x)) /\ Debit(v)' = Debit(v)
  BY DEF Debits, Debit
<1>3. ASSUME NEW x \in Users, x \notin raced'
      PROVE  /\ Balance(x)' >= 0
             /\ \A v \in Workers : Debits(v, x)' =>
                   /\ Debit(v)' <= Balance(x)'
                   /\ \A z \in Workers : Debits(z, x)' => z = v
  <2>1. /\ x \notin raced
        /\ Balance(x) >= 0
        /\ \A v \in Workers : Debits(v, x) =>
              /\ Debit(v) <= Balance(x)
              /\ \A z \in Workers : Debits(z, x) => z = v
    BY <1>3 DEF Accounts, Funded, RacedIf
  <2>2. CASE x = u
    <3>1. \A v \in Workers : ~Debits(v, u)
      BY <1>3, <2>2 DEF RacedIf, InFlight, Debits
    <3>2. \A v \in Workers : Debits(v, u)' => v = w
      BY <1>2, <3>1
    <3>3. QED
      BY <1>1, <2>1, <2>2, <3>2
  <2>3. CASE x # u
    <3>1. ~Debits(w, x)'
      BY <2>3
    <3>2. QED
      BY <1>1, <1>2, <2>1, <3>1
  <2>4. QED
    BY <2>2, <2>3
<1>4. QED
  BY <1>3 DEF Funded

\* A debit that is written was covered.
LEMMA DebitWritten ==
    ASSUME Shape, Accounts, NEW w \in Workers, NEW u \in Users, Debits(w, u),
           \A x : /\ Balance(x) \in Int
                  /\ Balance(x)' = IF x = u THEN Balance(x) - Debit(w) ELSE Balance(x),
           raced' = raced,
           \A v \in Workers : v # w => job'[v] = job[v],
           job'[w].at \notin {"ordering", "debiting"}
    PROVE  Funded'
<1>1. \A x : \A v \in Workers : Debits(v, x)' => v # w /\ Debits(v, x) /\ Debit(v)' = Debit(v)
  BY DEF Debits, Debit
<1>2. Debit(w) \in Nat
  BY DebitNat
<1>3. ASSUME NEW x \in Users, x \notin raced'
      PROVE  /\ Balance(x)' >= 0
             /\ \A v \in Workers : Debits(v, x)' =>
                   /\ Debit(v)' <= Balance(x)'
                   /\ \A z \in Workers : Debits(z, x)' => z = v
  <2>1. /\ Balance(x) >= 0 /\ Balance(x) \in Int
        /\ \A v \in Workers : Debits(v, x) =>
              /\ Debit(v) <= Balance(x)
              /\ \A z \in Workers : Debits(z, x) => z = v
    BY <1>3 DEF Accounts, Funded
  <2>2. CASE x = u
    <3>1. Debit(w) <= Balance(u) /\ \A v \in Workers : ~Debits(v, u)'
      BY <1>1, <2>1, <2>2
    <3>2. Balance(u)' = Balance(u) - Debit(w)
      OBVIOUS
    <3>3. Balance(u)' >= 0
      BY <1>2, <2>1, <2>2, <3>1, <3>2
    <3>4. QED
      BY <2>2, <3>1, <3>3
  <2>3. CASE x # u
    <3>1. Balance(x)' = Balance(x)
      BY <2>3
    <3>2. QED
      BY <1>1, <2>1, <3>1
  <2>4. QED
    BY <2>2, <2>3
<1>4. QED
  BY <1>3 DEF Funded

\* The desk grants credit.
LEMMA GrantSound ==
    ASSUME IInv, Accounts, NEW u \in Users, AdjustGrant(u) PROVE Sound'
<1>1. /\ Books'
      /\ \A x : /\ Balance(x) \in Int
                /\ Balance(x)' = IF x = u THEN Balance(x) + Grant ELSE Balance(x)
      /\ \A o : /\ Spent(o) \in Int
                /\ Spent(o)' = IF o = None /\ "admin_adjustment" \in Spends
                               THEN Spent(o) - Grant ELSE Spent(o)
  BY OneRow, CreditsAssumption DEF Accounts, AdjustGrant, Targets, Reasons
<1>2. \A o : Spent(o)' = Spent(o)
  BY <1>1 DEF Spends
<1>3. Affords
  BY <1>1, CreditsAssumption DEF Affords, AdjustGrant
<1>4. Referred'
  BY DEF AdjustGrant, Accounts, Referred
<1>5. QED
  BY <1>1, <1>2, <1>3, <1>4, SpentKept, FundedKept DEF Sound, Accounts, IInv, AdjustGrant

\* The desk finds enough to take back ...
LEMMA DebitCheckSound ==
    ASSUME IInv, Accounts, NEW w \in Workers, NEW u \in Users, DebitCheck(w, u) PROVE Sound'
<1>1. /\ \A v \in Workers : v # w => job'[v] = job[v]
      /\ job'[w] = [at |-> "debiting", user |-> u]
  BY DEF DebitCheck, IInv, Shape
<1>2. UNCHANGED <<ledger, order, referrer, referral>>
  BY DEF DebitCheck, tables
<1>3. Funded'
  <2>1. Debit(w)' = Grant /\ \A x \in Users : Debits(w, x)' => x = u
    BY <1>1 DEF Debit, Debits
  <2>2. Grant \in Nat /\ Grant <= Balance(u)
    <3>1. Balance(u) \in Int /\ Balance(u) >= Grant
      BY <1>2, SameRows DEF DebitCheck, Accounts
    <3>2. QED
      BY <3>1, CreditsAssumption
  <2>3. QED
    BY <1>1, <1>2, <2>1, <2>2, DebitTaken DEF IInv, DebitCheck
<1>4. Books' /\ SpentRight'
  BY <1>2, SameRows, SpentKept DEF Accounts, tables, DebitCheck
<1>5. Referred'
  BY <1>1, <1>2, ReferredKept DEF Accounts
<1>6. QED
  BY <1>3, <1>4, <1>5 DEF Sound

\* ... and takes it.
LEMMA DebitCommitSound ==
    ASSUME IInv, Accounts, NEW w \in Workers, DebitCommit(w) PROVE Sound'
<1>1. PICK u \in Users : u = job[w].user
  <2>1. job[w] \in Jobs /\ job[w].at = "debiting"
    BY DEF IInv, Shape, DebitCommit
  <2>2. job[w].user \in Users
    BY <2>1 DEF Jobs, Idle
  <2>3. QED
    BY <2>2
<1>2. /\ \A v \in Workers : v # w => job'[v] = job[v]
      /\ job'[w] = Idle
  BY DEF DebitCommit, IInv, Shape
<1>3. PICK g \in Int : g = -Grant /\ Grant \in Nat
  BY CreditsAssumption
<1>4. /\ Books'
      /\ \A x : /\ Balance(x) \in Int
                /\ Balance(x)' = IF x = u THEN Balance(x) + g ELSE Balance(x)
      /\ \A o : /\ Spent(o) \in Int
                /\ Spent(o)' = IF o = None /\ "admin_adjustment" \in Spends
                               THEN Spent(o) - g ELSE Spent(o)
  <2>1. ledger' = ledger \cup {Row(u, g, None, "admin_adjustment")}
    BY <1>1, <1>3 DEF DebitCommit
  <2>2. None \in Targets /\ "admin_adjustment" \in Reasons
    BY DEF Targets, Reasons
  <2>3. QED
    BY <2>1, <2>2, OneRow DEF Accounts
<1>5. \A o : Spent(o)' = Spent(o)
  BY <1>4 DEF Spends
<1>6. Funded'
  <2>1. Debits(w, u) /\ Debit(w) = Grant
    BY <1>1 DEF DebitCommit, Debits, Debit
  <2>2. \A x : /\ Balance(x) \in Int
               /\ Balance(x)' = IF x = u THEN Balance(x) - Debit(w) ELSE Balance(x)
    BY <1>3, <1>4, <2>1
  <2>3. QED
    BY <1>2, <2>1, <2>2, DebitWritten DEF IInv, DebitCommit, ghosts, Idle
<1>7. SpentRight'
  BY <1>5, SpentKept DEF Accounts, DebitCommit, ghosts
<1>8. Referred'
  BY <1>2, ReferredKept DEF Accounts, DebitCommit, Idle
<1>9. QED
  BY <1>4, <1>6, <1>7, <1>8 DEF Sound

\* An order and its credit are checked ...
LEMMA PlaceCheckSound ==
    ASSUME IInv, Accounts, NEW w \in Workers, NEW o \in Orders, NEW u \in Users,
           NEW c \in 0..Price, NEW d \in 0..Discount, PlaceCheck(w, o, u, c, d)
    PROVE  Sound'
<1>1. /\ \A v \in Workers : v # w => job'[v] = job[v]
      /\ job'[w] = [at |-> "ordering", order |-> o, user |-> u, applied |-> c, discount |-> d]
  BY DEF PlaceCheck, IInv, Shape
<1>2. UNCHANGED <<ledger, order, referrer, referral>>
  BY DEF PlaceCheck, tables
<1>3. /\ Books'
      /\ \A x : Balance(x) \in Int /\ Balance(x)' = Balance(x)
      /\ \A x : Spent(x)' = Spent(x)
  BY <1>2, SameRows DEF Accounts
<1>4. c \in Nat
  BY CreditsAssumption
<1>5. Funded'
  <2>1. CASE c > 0
    <3>1. Debit(w)' = c /\ \A x \in Users : Debits(w, x)' => x = u
      BY <1>1 DEF Debit, Debits
    <3>2. c <= Balance(u) /\ RacedIf(u, TRUE)
      BY <2>1 DEF PlaceCheck, Covered, RacedIf
    <3>3. QED
      BY <1>1, <1>2, <1>4, <3>1, <3>2, DebitTaken DEF IInv
  <2>2. CASE ~(c > 0)
    <3>1. /\ \A x \in Users : ~Debits(w, x)'
          /\ raced' = raced
      BY <1>1, <2>2 DEF Debits, PlaceCheck, RacedIf
    <3>2. \A x : \A v \in Workers :
              v # w => (Debits(v, x)' <=> Debits(v, x)) /\ Debit(v)' = Debit(v)
      BY <1>1 DEF Debits, Debit
    <3>3. QED
      BY <1>3, <3>1, <3>2 DEF Accounts, Funded
  <2>3. QED
    BY <2>1, <2>2
<1>6. SpentRight'
  BY <1>2, <1>3, SpentKept DEF Accounts, PlaceCheck
<1>7. Referred'
  BY <1>1, <1>2, ReferredKept DEF Accounts
<1>8. QED
  BY <1>3, <1>5, <1>6, <1>7 DEF Sound

\* ... and committed, with the row that pays for it.
LEMMA PlaceCommitSound ==
    ASSUME IInv, Accounts, NEW w \in Workers, PlaceCommit(w) PROVE Sound'
<1>1. PICK x \in Orders, u \in Users, c \in Nat :
          x = job[w].order /\ u = job[w].user /\ c = job[w].applied /\ c \in 0..Price
  BY Hands, CreditsAssumption DEF IInv, PlaceCommit
<1>2. order[x] = None
  BY <1>1 DEF IInv, OneTransaction, Holds, PlaceCommit
<1>3. /\ \A v \in Workers : v # w => job'[v] = job[v]
      /\ job'[w] = Idle
  BY DEF PlaceCommit, IInv, Shape
<1>4. /\ \A o \in Orders : o # x => order'[o] = order[o]
      /\ order'[x] # None /\ order'[x].applied = c /\ order'[x].status = "pending"
  <2>1. \A o \in Orders : o # x => order'[o] = order[o]
    BY <1>1 DEF PlaceCommit, IInv, Shape
  <2>2. order'[x] = [user |-> u, status |-> "pending", applied |-> c, discount |-> job[w].discount]
    BY <1>1 DEF PlaceCommit, IInv, Shape
  <2>3. order'[x] \in Order
    BY <1>1, <2>2, Hands, CreditsAssumption DEF IInv, PlaceCommit, Order, Statuses
  <2>4. QED
    BY <2>1, <2>2, <2>3, CreditsAssumption
<1>5. UNCHANGED <<referrer, referral, raced>>
  BY DEF PlaceCommit, ghosts
<1>6. Referred'
  <2>1. \A o \in Orders : order[o] # None => order'[o] # None /\ order'[o].user = order[o].user
    BY <1>2, <1>4
  <2>2. QED
    BY <1>3, <1>5, <2>1, ReferredKept DEF Accounts, Idle
<1>7. Books' /\ Funded' /\ \A o \in Orders : Spent(o)' = IF o = x THEN c ELSE Spent(o)
  <2>0. Spent(x) = 0
    BY <1>2 DEF Accounts, SpentRight
  <2>1. CASE c > 0
    <3>1. PICK g \in Int : g = -c
      OBVIOUS
    <3>2. ledger' = ledger \cup {Row(u, g, x, "spend")}
      BY <1>1, <2>1, <3>1 DEF PlaceCommit, RowIf
    <3>3. x \in Targets /\ "spend" \in Reasons
      BY DEF Targets, Reasons, Spends
    <3>4. /\ Books'
          /\ \A y : /\ Balance(y) \in Int
                    /\ Balance(y)' = IF y = u THEN Balance(y) + g ELSE Balance(y)
          /\ \A o : /\ Spent(o) \in Int
                    /\ Spent(o)' = IF o = x /\ "spend" \in Spends THEN Spent(o) - g ELSE Spent(o)
      BY <3>2, <3>3, OneRow DEF Accounts
    <3>5. Debits(w, u) /\ Debit(w) = c
      BY <1>1, <2>1 DEF PlaceCommit, Debits, Debit
    <3>6. \A y : /\ Balance(y) \in Int
                 /\ Balance(y)' = IF y = u THEN Balance(y) - Debit(w) ELSE Balance(y)
      BY <3>1, <3>4, <3>5
    <3>7. Funded'
      BY <1>3, <1>5, <3>5, <3>6, DebitWritten DEF IInv, Idle
    <3>8. \A o \in Orders : Spent(o)' = IF o = x THEN c ELSE Spent(o)
      BY <2>0, <3>1, <3>4 DEF Spends
    <3>9. QED
      BY <3>4, <3>7, <3>8
  <2>2. CASE ~(c > 0)
    <3>1. ledger' = ledger /\ c = 0
      BY <1>1, <2>2 DEF PlaceCommit, RowIf
    <3>2. /\ Books'
          /\ \A y : Balance(y) \in Int /\ Balance(y)' = Balance(y)
          /\ \A o : Spent(o)' = Spent(o)
      BY <3>1, SameRows DEF Accounts
    <3>3. Affords
      BY <1>3, <1>5, <3>2 DEF Affords, Idle
    <3>4. QED
      BY <2>0, <3>1, <3>2, <3>3, FundedKept DEF Accounts, IInv
  <2>3. QED
    BY <2>1, <2>2
<1>8. SpentRight'
  BY <1>4, <1>7 DEF Accounts, SpentRight, Dead, PlaceCommit, ghosts
<1>9. QED
  BY <1>6, <1>7, <1>8 DEF Sound

\* An order closes; if it dies, what it holds is returned.
LEMMA CloseSound ==
    ASSUME IInv, Accounts, NEW o \in Orders, NEW st \in Statuses, NEW fails \in BOOLEAN,
           Close(o, st, fails)
    PROVE  Sound'
<1>1. order[o] # None /\ order[o] \in Order
  BY DEF Close, IInv, Shape
<1>2. /\ \A x \in Orders : x # o => order'[x] = order[x]
      /\ order'[o] # None /\ order'[o].user = order[o].user
      /\ order'[o].applied = order[o].applied /\ order'[o].status = st
  <2>1. order'[o] = [order[o] EXCEPT !.status = st] /\ \A x \in Orders : x # o => order'[x] = order[x]
    BY DEF Close, IInv, Shape
  <2>2. [order[o] EXCEPT !.status = st] \in Order
    BY <1>1 DEF Order
  <2>3. QED
    BY <1>1, <2>1, <2>2, CreditsAssumption DEF Order
<1>3. UNCHANGED <<referrer, referral, job, raced>>
  BY DEF Close
<1>4. Referred'
  BY <1>2, <1>3, ReferredKept DEF Accounts
<1>5. PICK u \in Users, a \in Nat : u = order[o].user /\ a = order[o].applied
  BY <1>1, CreditsAssumption DEF Order
<1>6. Spent(o) \in {0, a}
  BY <1>1, <1>5 DEF Accounts, SpentRight
<1>7. CASE ~fails /\ st \in Dead /\ a > 0 /\ Spent(o) > 0
  <2>1. ledger' = ledger \cup {Row(u, a, o, "spend_returned")}
    BY <1>5, <1>6, <1>7 DEF Close, Returned, RowIf
  <2>2. o \in Targets /\ "spend_returned" \in Reasons
    BY DEF Targets, Reasons, Spends
  <2>3. /\ Books'
        /\ \A y : /\ Balance(y) \in Int
                  /\ Balance(y)' = IF y = u THEN Balance(y) + a ELSE Balance(y)
        /\ \A x : /\ Spent(x) \in Int
                  /\ Spent(x)' = IF x = o /\ "spend_returned" \in Spends
                                 THEN Spent(x) - a ELSE Spent(x)
    BY <2>1, <2>2, OneRow DEF Accounts
  <2>4. Affords
    BY <1>3, <2>3 DEF Affords
  <2>5. /\ Spent(o)' = 0 /\ \A x \in Orders : x # o => Spent(x)' = Spent(x)
        /\ unreturned' = unreturned \ {o}
    BY <1>6, <1>7, <2>3 DEF Spends, Close
  <2>6. SpentRight'
    BY <1>2, <2>5 DEF Accounts, SpentRight
  <2>7. QED
    BY <1>4, <2>3, <2>4, <2>6, FundedKept DEF Sound, Accounts, IInv
<1>8. CASE fails \/ ~(st \in Dead /\ a > 0 /\ Spent(o) > 0)
  <2>1. ledger' = ledger
    BY <1>5, <1>8 DEF Close, Returned, RowIf
  <2>2. /\ Books'
        /\ \A y : Balance(y) \in Int /\ Balance(y)' = Balance(y)
        /\ \A x : Spent(x)' = Spent(x)
    BY <2>1, SameRows DEF Accounts
  <2>3. Affords
    BY <1>3, <2>2 DEF Affords
  <2>4. /\ st \in Dead /\ o \notin unreturned' => Spent(o) = 0
        /\ \A x \in Orders : x # o => (x \in unreturned' <=> x \in unreturned)
    BY <1>6, <1>8 DEF Close
  <2>5. SpentRight'
    BY <1>1, <1>2, <2>2, <2>4 DEF Accounts, SpentRight
  <2>6. QED
    BY <1>4, <2>2, <2>3, <2>5, FundedKept DEF Sound, Accounts, IInv
<1>9. QED
  BY <1>7, <1>8

\* A payment reads whether its customer's referral is pending ...
LEMMA PayReadSound ==
    ASSUME IInv, Accounts, NEW w \in Workers, NEW o \in Orders, PayRead(w, o) PROVE Sound'
<1>1. /\ \A v \in Workers : v # w => job'[v] = job[v]
      /\ job'[w] = [at |-> "paying", order |-> o, qualifies |-> Qualifies(order[o].user)]
  BY DEF PayRead, IInv, Shape
<1>2. UNCHANGED <<ledger, order, referrer, referral, raced>>
  BY DEF PayRead, tables
<1>3. /\ Books'
      /\ \A x : Balance(x) \in Int /\ Balance(x)' = Balance(x)
      /\ \A x : Spent(x)' = Spent(x)
  BY <1>2, SameRows DEF Accounts
<1>4. Affords
  BY <1>1, <1>2, <1>3 DEF Affords
<1>5. Referred'
  <2>1. ASSUME NEW v \in Workers, job'[v].at = "paying", job'[v].qualifies
        PROVE  referral'[order'[job'[v].order].user] # "none"
    <3>1. CASE v = w
      <4>1. job'[w].order = o /\ job'[w].qualifies = Qualifies(order[o].user)
        BY <1>1
      <4>2. Qualifies(order[o].user)
        BY <2>1, <3>1, <4>1
      <4>3. referral[order[o].user] = "pending"
        BY <4>2 DEF Qualifies
      <4>4. QED
        BY <1>2, <3>1, <4>1, <4>3
    <3>2. CASE v # w
      BY <1>1, <1>2, <2>1, <3>2 DEF Accounts, Referred
    <3>3. QED
      BY <3>1, <3>2
  <2>2. QED
    BY <1>2, <2>1 DEF Accounts, Referred
<1>6. SpentRight'
  BY <1>2, <1>3, SpentKept DEF Accounts, PayRead
<1>7. QED
  BY <1>3, <1>4, <1>5, <1>6, FundedKept DEF Sound, Accounts, IInv

\* A row or none, of what is granted.
LEMMA GrantedRow ==
    ASSUME Books, NEW u \in Users, NEW amount \in Nat, NEW of \in Targets,
           NEW reason \in Reasons \ Spends, NEW c
    PROVE  LET new == RowIf(c, Row(u, amount, of, reason))
           IN  /\ new \subseteq Entry /\ IsFiniteSet(new)
               /\ \A e \in new : /\ e.nth = Cardinality(Alike(ledger, e))
                                 /\ e.amount \in Nat /\ e.reason \notin Spends
<1>1. \A e : e = Row(u, amount, of, reason) =>
              /\ e.user = u /\ e.amount = amount /\ e.of = of /\ e.reason = reason
              /\ e.nth = Cardinality(Alike(ledger, e))
              /\ e \in Entry /\ e \notin ledger
  BY RowNew
<1>2. IsFiniteSet(RowIf(c, Row(u, amount, of, reason)))
  BY FS_Singleton, FS_EmptySet DEF RowIf
<1>3. QED
  BY <1>1, <1>2 DEF RowIf

\* ... and commits what it grants.
LEMMA PayCommitSound ==
    ASSUME IInv, Accounts, NEW w \in Workers, NEW failing \in SUBSET Triggers,
           PayCommit(w, failing)
    PROVE  Sound'
<1>1. PICK o \in Orders : o = job[w].order
  BY Hands DEF IInv, PayCommit
<1>2. order[o] # None /\ order[o] \in Order
  BY <1>1 DEF IInv, Shape, OneTransaction, Holds, PayCommit
<1>3. PICK u \in Users : u = order[o].user
  BY <1>2 DEF Order
<1>4. /\ \A x \in Orders : x # o => order'[x] = order[x]
      /\ order'[o] # None /\ order'[o].user = u
      /\ order'[o].applied = order[o].applied /\ order'[o].status = "paid"
  <2>1. /\ order'[o] = [order[o] EXCEPT !.status = "paid"]
        /\ \A x \in Orders : x # o => order'[x] = order[x]
    BY <1>1 DEF PayCommit, IInv, Shape
  <2>2. [order[o] EXCEPT !.status = "paid"] \in Order
    BY <1>2 DEF Order, Statuses
  <2>3. QED
    BY <1>2, <1>3, <2>1, <2>2, CreditsAssumption DEF Order
<1>5. /\ \A v \in Workers : v # w => job'[v] = job[v]
      /\ job'[w] = Idle
  BY DEF PayCommit, IInv, Shape
<1>6. job[w].qualifies => referral[u] # "none" /\ referrer[u] \in Users
  BY <1>1, <1>3 DEF Accounts, Referred, PayCommit
<1>7. Referred'
  <2>1. \A t \in Users : referral'[t] = "none" <=> referral[t] = "none"
    BY <1>1, <1>3, <1>6 DEF PayCommit, IInv, Shape
  <2>2. \A x \in Orders : order[x] # None => order'[x] # None /\ order'[x].user = order[x].user
    BY <1>3, <1>4
  <2>3. \A v \in Workers : job'[v] = job[v] \/ job'[v].at # "paying"
    BY <1>5 DEF Idle
  <2>4. QED
    BY <2>1, <2>2, <2>3, ReferredKept DEF PayCommit, Accounts
<1> DEFINE rewards == IF job[w].qualifies /\ "referral" \notin failing THEN Rewards(u) ELSE {}
           back == IF "cashback" \in failing THEN {} ELSE Cashback(o)
           new == rewards \cup back
<1>8. /\ rewards \subseteq Entry /\ IsFiniteSet(rewards)
      /\ \A e \in rewards : /\ e.nth = Cardinality(Alike(ledger, e))
                            /\ e.amount \in Nat /\ e.reason \notin Spends
  <2>1. CASE job[w].qualifies /\ "referral" \notin failing
    <3> DEFINE inviter == RowIf(Reward > 0 /\ ~Rewarded(u, "referral_reward"),
                                Row(referrer[u], Reward, u, "referral_reward"))
               invited == RowIf(Welcome > 0 /\ ~Rewarded(u, "referral_welcome"),
                                Row(u, Welcome, u, "referral_welcome"))
    <3>1. /\ "referral_reward" \in Reasons \ Spends /\ "referral_welcome" \in Reasons \ Spends
          /\ u \in Targets /\ Reward \in Nat /\ Welcome \in Nat /\ referrer[u] \in Users
      BY <1>6, <2>1, CreditsAssumption DEF Reasons, Spends, Rewarding, Targets
    <3>2. /\ inviter \subseteq Entry /\ IsFiniteSet(inviter)
          /\ \A e \in inviter : /\ e.nth = Cardinality(Alike(ledger, e))
                                /\ e.amount \in Nat /\ e.reason \notin Spends
      BY <3>1, GrantedRow DEF Accounts
    <3>3. /\ invited \subseteq Entry /\ IsFiniteSet(invited)
          /\ \A e \in invited : /\ e.nth = Cardinality(Alike(ledger, e))
                                /\ e.amount \in Nat /\ e.reason \notin Spends
      BY <3>1, GrantedRow DEF Accounts
    <3>4. rewards = inviter \cup invited
      BY <2>1 DEF Rewards
    <3>5. QED
      <4> HIDE DEF inviter, invited, rewards
      <4> QED BY <3>2, <3>3, <3>4, FS_Union
  <2>2. CASE ~(job[w].qualifies /\ "referral" \notin failing)
    BY <2>2, FS_EmptySet
  <2>3. QED
    BY <2>1, <2>2
<1>9. /\ back \subseteq Entry /\ IsFiniteSet(back)
      /\ \A e \in back : /\ e.nth = Cardinality(Alike(ledger, e))
                         /\ e.amount \in Nat /\ e.reason \notin Spends
  <2>1. CASE "cashback" \notin failing
    <3> DEFINE base == Price - order[o].discount - order[o].applied
               earned == IF base > 0 THEN (base * CashbackPct) \div 100 ELSE 0
    <3>1. base \in Int
      BY <1>2, CreditsAssumption DEF Order
    <3>2. earned \in Nat
      <4> HIDE DEF base
      <4>1. CASE base > 0
        <5>1. base * CashbackPct \in Nat
          BY <3>1, <4>1, CreditsAssumption
        <5> DEFINE part == base * CashbackPct
        <5>2. part \div 100 \in Nat
          <6> HIDE DEF part
          <6>1. part \in Nat
            BY <5>1 DEF part
          <6>2. QED
            BY <6>1
        <5>3. QED
          BY <4>1, <5>2
      <4>2. CASE ~(base > 0)
        BY <4>2
      <4>3. QED
        BY <4>1, <4>2
    <3>3. back = RowIf(earned > 0, Row(u, earned, o, "cashback"))
      BY <1>3, <2>1 DEF Cashback
    <3>4. "cashback" \in Reasons \ Spends /\ o \in Targets
      BY DEF Reasons, Spends, Targets, Rewarding
    <3>5. QED
      <4> HIDE DEF earned, back
      <4> QED BY <3>2, <3>3, <3>4, GrantedRow DEF Accounts
  <2>2. CASE "cashback" \in failing
    BY <2>2, FS_EmptySet
  <2>3. QED
    BY <2>1, <2>2
<1>10. /\ Writes(new)
       /\ \A e \in new : e.amount \in Nat /\ e.reason \notin Spends
  <2>1. ledger' = ledger \cup new
    BY <1>1, <1>3 DEF PayCommit
  <2>2. QED
    <3> HIDE DEF rewards, back
    <3>1. IsFiniteSet(new)
      BY <1>8, <1>9, FS_Union
    <3>2. QED
      BY <1>8, <1>9, <2>1, <3>1 DEF Writes
<1>11. /\ Books'
       /\ \A x : Balance(x) \in Int /\ Balance(x)' \in Int /\ Balance(x)' >= Balance(x)
       /\ \A x : Spent(x)' = Spent(x)
  <2> HIDE DEF new
  <2> QED BY <1>10, BooksKept, Granted DEF Accounts
<1>12. Affords
  BY <1>5, <1>11 DEF Affords, PayCommit, Idle
<1>13. SpentRight'
  BY <1>2, <1>4, <1>11 DEF Accounts, SpentRight, Dead, PayCommit
<1>14. QED
  BY <1>7, <1>11, <1>12, <1>13, FundedKept DEF Sound, Accounts, IInv

\* A code is claimed once.
LEMMA ClaimInsertSound ==
    ASSUME IInv, Accounts, NEW w \in Workers, ClaimInsert(w) PROVE Sound'
<1>1. PICK u \in Users, v \in Users : u = job[w].user /\ v = job[w].by
  BY Hands DEF IInv, ClaimInsert
<1>2. UNCHANGED <<ledger, order, raced>>
  BY DEF ClaimInsert, ghosts
<1>3. \A x \in Workers : job'[x] = job[x] \/ job'[x].at = "idle"
  BY DEF ClaimInsert, IInv, Shape, Idle
<1>4. /\ Books'
      /\ \A x : Balance(x) \in Int /\ Balance(x)' = Balance(x)
      /\ \A x : Spent(x)' = Spent(x)
  BY <1>2, SameRows DEF Accounts
<1>5. Affords
  BY <1>2, <1>3, <1>4 DEF Affords
<1>6. Referred'
  <2>1. CASE referral[u] = "none"
    <3>1. \A t \in Users : /\ referral'[t] = IF t = u THEN "pending" ELSE referral[t]
                           /\ referrer'[t] = IF t = u THEN v ELSE referrer[t]
      BY <1>1, <2>1 DEF ClaimInsert, IInv, Shape
    <3>2. \A t \in Users : referral'[t] # "none" => referrer'[t] \in Users
      BY <3>1 DEF Accounts, Referred
    <3>3. ASSUME NEW x \in Workers, job'[x].at = "paying", job'[x].qualifies
          PROVE  referral'[order'[job'[x].order].user] # "none"
      <4>1. job'[x] = job[x]
        BY <1>3, <3>3
      <4>2. job[x].order \in Orders /\ Holds(x, job[x].order)
        BY <3>3, <4>1, Hands DEF IInv, Holds
      <4>3. order[job[x].order] \in Order
        BY <3>3, <4>1, <4>2 DEF IInv, Shape, OneTransaction
      <4>4. order[job[x].order].user \in Users
        BY <4>3 DEF Order
      <4>5. QED
        BY <1>2, <3>1, <3>3, <4>1, <4>4 DEF Accounts, Referred
    <3>4. QED
      BY <3>2, <3>3 DEF Referred
  <2>2. CASE referral[u] # "none"
    <3>1. UNCHANGED <<referrer, referral>>
      BY <1>1, <2>2 DEF ClaimInsert
    <3>2. QED
      BY <1>2, <1>3, <3>1, ReferredKept DEF Accounts
  <2>3. QED
    BY <2>1, <2>2
<1>7. SpentRight'
  BY <1>2, <1>4, SpentKept DEF Accounts, ClaimInsert, ghosts
<1>8. QED
  BY <1>4, <1>5, <1>6, <1>7, FundedKept DEF Sound, Accounts, IInv

\* The accounts are kept.
LEMMA NextAccounts == ASSUME IInv, Accounts, [Next]_vars PROVE Accounts'
<1> SUFFICES Sound'
  BY NextRest DEF Sound, Accounts
<1>1. CASE Toggle
  BY <1>1, QuietAccounts DEF Sound, Quiet, ghosts, Toggle
<1>2. ASSUME NEW w \in Workers, RemoveRead(w) PROVE Sound'
  BY <1>2, QuietAccounts DEF Sound, Quiet, tables, ghosts, RemoveRead, IInv, Shape
<1>3. ASSUME NEW w \in Workers, RemoveDelete(w) PROVE Sound'
  BY <1>3, QuietAccounts DEF Sound, Quiet, ghosts, RemoveDelete, IInv, Shape, Idle
<1>4. ASSUME NEW w \in Workers, CutShort(w) PROVE Sound'
  BY <1>4, QuietAccounts DEF Sound, Quiet, tables, ghosts, CutShort, IInv, Shape, Idle
<1>5. ASSUME NEW w \in Workers, NEW u \in Users, NEW v \in Users, NEW answers \in BOOLEAN,
             ClaimRead(w, u, v, answers)
      PROVE  Sound'
  BY <1>5, QuietAccounts DEF Sound, Quiet, tables, ghosts, ClaimRead, IInv, Shape
<1>6. CASE UNCHANGED vars
  BY <1>6, QuietAccounts DEF Sound, Quiet, vars, tables, ghosts
<1>7. QED
  BY <1>1, <1>2, <1>3, <1>4, <1>5, <1>6, GrantSound, CloseSound, PlaceCommitSound,
     DebitCommitSound, ClaimInsertSound, PayCommitSound, PayReadSound, DebitCheckSound,
     PlaceCheckSound DEF Next

\* Nothing is written to begin with.
LEMMA InitAccounts == ASSUME Init PROVE Accounts
<1>1. ledger = {} /\ IsFiniteSet(ledger)
  BY FS_EmptySet DEF Init
<1>2. Books
  BY <1>1 DEF Books
<1>3. In({}) = {} /\ Out({}) = {}
  BY DEF In, Out
<1>4. Sum({}) = 0
  BY <1>3, FS_EmptySet DEF Sum
<1>5. \A u : Balance(u) = 0
  <2>1. \A u : {e \in ledger : e.user = u} = {}
    BY <1>1
  <2>2. QED
    BY <1>4, <2>1 DEF Balance
<1>6. \A o : Spent(o) = 0
  <2>1. \A o : {e \in ledger : e.of = o /\ e.reason \in {"spend", "spend_returned"}} = {}
    BY <1>1
  <2>2. \A o : Spent(o) = -0
    BY <1>4, <2>1 DEF Spent
  <2>3. QED
    BY <2>2
<1>7. \A w \in Workers : job[w].at = "idle"
  BY DEF Init, Idle
<1>8. Funded
  BY <1>5, <1>7 DEF Funded, Debits
<1>9. Referred /\ SpentRight /\ Rest
  BY <1>6, <1>7, CreditsAssumption DEF Init, Referred, SpentRight, Rest
<1>10. QED
  BY <1>2, <1>8, <1>9 DEF Accounts

\* The invariant holds in every reachable state.
THEOREM Invariance == Spec => []IInv
<1>1. IInv /\ [Next]_vars => IInv'
  BY NextShape, NextTransaction, NextRewards, NextMoney, NextRedeemed DEF IInv
<1>2. QED
  BY <1>1, InitInv, PTL DEF Spec

\* A referral pays each side once, both or none, and only for money, however
\* often and by whomever the customer's orders are paid.
THEOREM ReferralsPayOnce == Spec => []RewardOnce
<1>1. IInv => RewardOnce
  BY DEF IInv, OneRowASide, BothSides, ForMoney, RewardOnce
<1>2. QED
  BY <1>1, Invariance, PTL

\* A promo code is used up by the orders it was paid with, once each.
THEOREM CodesRedeemOnce == Spec => []RedeemedOnce
BY Invariance, PTL DEF IInv

\* The accounts are sound in every reachable state.
THEOREM AccountsHold == Spec => [](IInv /\ Accounts)
<1>1. IInv /\ Accounts /\ [Next]_vars => Accounts'
  BY NextAccounts
<1>2. Init => Accounts
  BY InitAccounts
<1>3. QED
  BY <1>1, <1>2, Invariance, PTL DEF Spec

\* Every variable keeps its type; the rows of the ledger, too.
THEOREM TypeCorrect == Spec => []TypeOK
<1>1. IInv /\ Accounts => TypeOK
  BY DEF IInv, Accounts, Shape, Books, Rest, TypeOK
<1>2. QED
  BY <1>1, AccountsHold, PTL

\* The credit an order took is given back when it dies, all of it and once (unless
\* the row that gives it back could not be written), by
\* whatever path it dies, comes back and dies again.
THEOREM CreditFollowsOrders == Spec => []SpendFollowsOrder
<1>1. IInv /\ Accounts => SpendFollowsOrder
  BY DEF Accounts, SpentRight, SpendFollowsOrder
<1>2. QED
  BY <1>1, AccountsHold, PTL

\* A balance below zero is the work of two debits in flight at once: with one at a
\* time the two guards, which only read, are enough.
THEOREM RacesOverdraw == Spec => []OverdrawnByRaceOnly
<1>1. IInv /\ Accounts => OverdrawnByRaceOnly
  <2>1. ASSUME Books, NEW u PROVE Balance(u) \in Int
    <3> DEFINE rows == {f \in ledger : f.user = u}
    <3>1. IsFiniteSet(rows) /\ \A f \in rows : f.amount \in Int
      BY <2>1, SomeRows
    <3>2. Balance(u) = Sum(rows)
      BY DEF Balance
    <3>3. QED
      <4> HIDE DEF rows
      <4> QED BY <3>1, <3>2, SumInt
  <2>2. QED
    BY <2>1 DEF Accounts, Funded, OverdrawnByRaceOnly
<1>2. QED
  BY <1>1, AccountsHold, PTL
=============================================================================
