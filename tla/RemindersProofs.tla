--------------------------- MODULE RemindersProofs ---------------------------
(* Proofs about Reminders, for any subscriptions, runs, days and failures. *)
EXTENDS Reminders, TLAPS

Has(w, ats, m) == job[w].at \in ats /\ job[w].msg = m

\* A claimed message is in one run's hands, which has neither mailed nor noticed it
\* unless an answer was lost or a mail refused before; what was mailed, once, is
\* claimed; a message without a claim is a visit's, and one that failed a daily one.
ClaimHolds(m) ==
    /\ m \notin unanswered =>
          /\ mailed[m] <= 1
          /\ mailed[m] = 1 => m \in claims
          /\ \A w \in Workers : Has(w, {"mailing", "failed"}, m) => mailed[m] = 0
    /\ \A w \in Workers : Has(w, {"mailing", "failed"}, m) => m \in claims
    /\ \A v, w \in Workers :
          Has(v, {"mailing", "failed"}, m) /\ Has(w, {"mailing", "failed"}, m) => v = w

ClaimsHold ==
    /\ \A m \in Messages : m[2] \in Claimed => ClaimHolds(m)
    /\ \A w \in Workers : job[w].at \in {"found", "marking"} => job[w].msg[2] = "visit"
    /\ \A w \in Workers : job[w].at = "failed" => job[w].msg[2] \in Daily

\* The notice likewise; a message to be released was refused or left unanswered.
NoticesHold ==
    /\ \A m \in Messages : m[2] \in Claimed /\ m \notin refused \cup unanswered =>
          /\ noticed[m] <= 1
          /\ noticed[m] = 1 => m \in claims
          /\ \A w \in Workers : Has(w, {"mailing"}, m) => noticed[m] = 0
    /\ \A w \in Workers : job[w].at = "failed" => job[w].msg \in refused \cup unanswered

InVisit == {"found", "mailing", "marking"}

\* A visit that two runs met over is loose; of the others, what is in hand and not
\* yet to be marked was not mailed, and what was mailed is marked or about to be.
VisitsHold ==
    \A m \in Messages : m[2] = "visit" /\ m \notin loose \cup unanswered =>
        /\ mailed[m] <= 1
        /\ mailed[m] = 1 => m \in marks \/ \E w \in Workers : Has(w, {"marking"}, m)
        /\ \A w \in Workers : Has(w, {"found", "mailing"}, m) => mailed[m] = 0
        /\ \A v, w \in Workers : Has(v, InVisit, m) /\ Has(w, InVisit, m) => v = w

\* Who is on a run's list and has cancelled did so on the run's day or later.
AskedInTime ==
    /\ \A s \in Subs : flag[s] => asked[s] \in Days
    /\ \A w \in Workers : job[w].at # "idle" =>
          /\ job[w].day <= today
          /\ \A m \in Messages :
                /\ m[2] \in Ladder /\ flag[m[1]]
                /\ m \in job[w].items \/ Has(w, {"found", "mailing", "failed", "marking"}, m)
                => asked[m[1]] >= job[w].day

\* The inductive invariant.
IInv == TypeOK /\ ClaimsHold /\ NoticesHold /\ VisitsHold /\ AskedInTime

USE DEF Do, Starts, List, InHand, PutAway

\* The initial state satisfies the invariant.
LEMMA InitInv == ASSUME Init PROVE IInv
BY RemindersAssumption DEF Init, IInv, TypeOK, Days, Jobs, Idle, ClaimsHold, ClaimHolds, NoticesHold, VisitsHold, AskedInTime, Has, InVisit

\* What a job at work holds.
LEMMA Hands ==
    ASSUME TypeOK, NEW w \in Workers
    PROVE  /\ job[w].at # "idle" => job[w].day \in Days /\ job[w].items \subseteq Messages
           /\ job[w].at \in {"found", "mailing", "failed", "marking"} => job[w].msg \in Messages
<1>1. job[w] \in Jobs
  BY DEF TypeOK
<1>2. CASE job[w] \in {Idle}
  BY <1>2 DEF Idle
<1>3. CASE job[w] \in [at: {"swept", "due"}, day: Days, items: SUBSET Messages]
  BY <1>3
<1>4. CASE job[w] \in [at: {"found", "mailing", "failed", "marking"},
                       day: Days, items: SUBSET Messages, msg: Messages]
  BY <1>4
<1>5. QED
  BY <1>1, <1>2, <1>3, <1>4 DEF Jobs

\* Jobs put together of typed parts are jobs.
LEMMA JobsTyped ==
    ASSUME NEW day \in Days, NEW items \in SUBSET Messages
    PROVE  /\ Idle \in Jobs
           /\ \A at \in {"swept", "due"} : [at |-> at, day |-> day, items |-> items] \in Jobs
           /\ \A at \in {"found", "mailing", "failed", "marking"}, m \in Messages :
                 [at |-> at, day |-> day, items |-> items, msg |-> m] \in Jobs
BY DEF Jobs

\* A message is a visit's or claimed, and a claimed one is not a visit's.
LEMMA TwoKinds ==
    ASSUME NEW m \in Messages
    PROVE  m[2] \in Claimed <=> m[2] # "visit"
BY RemindersAssumption DEF Messages, Claimed, Daily, Ladder, Nudges

\* A step in which every job stays or is left with nothing in hand.
Empties == \A v \in Workers : job'[v] = job[v] \/ job'[v].at \in {"idle", "swept", "due"}

\* It keeps the claims.
LEMMA KeepsClaims ==
    ASSUME IInv, Empties, UNCHANGED <<mailed, unanswered>>, claims \subseteq claims'
    PROVE  ClaimsHold'
BY DEF IInv, ClaimsHold, ClaimHolds, Has, Empties

\* It keeps the visits, if none loses the mark to make.
LEMMA KeepsVisits ==
    ASSUME IInv, Empties, UNCHANGED <<mailed, unanswered>>, marks \subseteq marks', loose \subseteq loose',
           \A v \in Workers, m \in Messages :
              Has(v, {"marking"}, m) => m \in marks' \cup loose' \/ job'[v] = job[v]
    PROVE  VisitsHold'
BY DEF IInv, VisitsHold, Has, InVisit, Empties

\* Run w goes on to `at', on its date and with no more on its list; no other moves.
Turns(w, at) ==
    /\ job' \in [Workers -> Jobs]
    /\ \A v \in Workers : v # w => job'[v] = job[v]
    /\ job'[w].at = at
    /\ at # "idle" => job'[w].day = job[w].day /\ job'[w].items \subseteq job[w].items

Hand == {"found", "mailing", "failed", "marking"}

\* ... with m in hand.
Takes(w, at, m) == Turns(w, at) /\ job'[w].msg = m

\* Setting a run's job is such a step.
LEMMA Turning ==
    ASSUME TypeOK, NEW w \in Workers, job[w].at # "idle",
           NEW items, items \subseteq job[w].items
    PROVE  /\ Do(w, List(w, "due", items)) => Turns(w, "due")
           /\ Do(w, Idle) => Turns(w, "idle")
           /\ \A at \in Hand, m \in Messages :
                 Do(w, [at |-> at, day |-> job[w].day, items |-> job[w].items, msg |-> m])
                 => Takes(w, at, m)
<1>1. job[w].day \in Days /\ job[w].items \in SUBSET Messages /\ job \in [Workers -> Jobs]
  BY Hands DEF TypeOK
<1>2. Do(w, List(w, "due", items)) => Turns(w, "due")
  <2>1. [at |-> "due", day |-> job[w].day, items |-> items] \in Jobs
    BY <1>1, JobsTyped
  <2>2. QED
    BY <1>1, <2>1 DEF Turns
<1>3. Do(w, Idle) => Turns(w, "idle")
  <2>1. Idle \in Jobs
    BY <1>1, JobsTyped
  <2>2. Idle.at = "idle"
    BY DEF Idle
  <2>3. QED
    BY <1>1, <2>1, <2>2 DEF Turns
<1>4. ASSUME NEW at \in Hand, NEW m \in Messages,
             Do(w, [at |-> at, day |-> job[w].day, items |-> job[w].items, msg |-> m])
      PROVE  Takes(w, at, m)
  <2>1. [at |-> at, day |-> job[w].day, items |-> job[w].items, msg |-> m] \in Jobs
    BY <1>1, JobsTyped DEF Hand
  <2>2. QED
    BY <1>1, <1>4, <2>1 DEF Turns, Takes
<1>5. QED
  BY <1>2, <1>3, <1>4

\* A claim is won, or was there.
LEMMA Claiming ==
    ASSUME TypeOK, NEW w \in Workers, NEW m \in job[w].items, Claim(w, m)
    PROVE  /\ m \in Messages /\ m[2] \in Claimed /\ job[w].at = "due"
           /\ UNCHANGED <<today, row, marks, told, loose, strikes>>
           /\ \/ m \notin claims /\ claims' = claims \cup {m} /\ Takes(w, "mailing", m)
              \/ claims' = claims /\ Turns(w, "due")
<1>1. job[w].at = "due" /\ m \in Messages /\ job[w].items \ {m} \subseteq job[w].items
  BY Hands DEF Claim
<1>2. CASE Claimable(m)
  <2>1. Takes(w, "mailing", m)
    BY <1>1, <1>2, Turning DEF Claim, Hand
  <2>2. QED
    BY <1>1, <1>2, <2>1 DEF Claim, Claimable
<1>3. CASE ~Claimable(m)
  <2>1. Do(w, List(w, "due", job[w].items \ {m}))
    BY <1>3 DEF Claim
  <2>2. Turns(w, "due")
    BY <1>1, <2>1, Turning
  <2>3. QED
    BY <1>1, <1>3, <2>2 DEF Claim
<1>4. QED
  BY <1>2, <1>3

\* A visit without a mark is taken in hand, and noted if it is in another's.
LEMMA Looking ==
    ASSUME TypeOK, NEW w \in Workers, NEW m \in job[w].items, LookUp(w, m)
    PROVE  /\ m \in Messages /\ m[2] = "visit" /\ job[w].at = "due"
           /\ UNCHANGED <<today, row, claims, marks, told, strikes>>
           /\ loose' = IF Met(w, m) THEN loose \cup {m} ELSE loose
           /\ (m \notin marks /\ Takes(w, "found", m)) \/ Turns(w, "due")
<1>1. job[w].at = "due" /\ m \in Messages /\ job[w].items \ {m} \subseteq job[w].items
  BY Hands DEF LookUp
<1>2. CASE Remind(m)
  <2>1. Takes(w, "found", m)
    BY <1>1, <1>2, Turning DEF LookUp, Hand
  <2>2. QED
    BY <1>1, <1>2, <2>1 DEF LookUp, Remind
<1>3. CASE ~Remind(m)
  <2>1. Do(w, List(w, "due", job[w].items \ {m}))
    BY <1>3 DEF LookUp
  <2>2. Turns(w, "due")
    BY <1>1, <2>1, Turning
  <2>3. QED
    BY <1>1, <2>2 DEF LookUp
<1>4. QED
  BY <1>2, <1>3

\* What is passed over leaves the list.
LEMMA Passing ==
    ASSUME TypeOK, NEW w \in Workers, NEW m \in job[w].items, PassOver(w, m)
    PROVE  /\ job[w].at = "due" /\ m \in Messages /\ Turns(w, "due")
           /\ claims \subseteq claims' /\ loose \subseteq loose'
           /\ claims' \subseteq Messages /\ loose' \subseteq Messages /\ strikes' \in 0..Strikes
           /\ UNCHANGED <<today, row, marks, told>>
<1>1. job[w].at = "due" /\ m \in Messages /\ job[w].items \ {m} \subseteq job[w].items
  BY Hands DEF PassOver
<1>2. Turns(w, "due")
  BY <1>1, Turning DEF PassOver
<1>3. strikes' \in 0..Strikes
  BY RemindersAssumption DEF PassOver, Strike, TypeOK
<1>4. QED
  BY <1>1, <1>2, <1>3 DEF PassOver, TypeOK

\* A message put away leaves the list too.
LEMMA Putting ==
    ASSUME TypeOK, NEW w \in Workers, job[w].at # "idle", PutAway(w)
    PROVE  Turns(w, "due")
<1>1. job[w].items \ {job[w].msg} \subseteq job[w].items
  OBVIOUS
<1>2. Do(w, List(w, "due", job[w].items \ {job[w].msg}))
  OBVIOUS
<1>3. QED
  BY <1>1, <1>2, Turning

\* The visit found goes on to the mail.
LEMMA Upserting ==
    ASSUME TypeOK, NEW w \in Workers, Upsert(w)
    PROVE  /\ job[w].msg \in Messages /\ Takes(w, "mailing", job[w].msg)
<1>1. job[w].at = "found" /\ job[w].msg \in Messages
  BY Hands DEF Upsert
<1>2. QED
  BY <1>1, Turning DEF Upsert, Hand

\* A count goes up by one, and up to two.
LEMMA Counting ==
    ASSUME NEW count \in [Messages -> 0..2], NEW m \in Messages
    PROVE  /\ Once(count, m) \in [Messages -> 0..2]
           /\ \A n \in Messages : n # m => Once(count, m)[n] = count[n]
           /\ count[m] = 0 => Once(count, m)[m] = 1
<1>1. count[m] \in 0..2
  OBVIOUS
<1>2. (IF count[m] < 2 THEN count[m] + 1 ELSE count[m]) \in 0..2
  BY <1>1
<1>3. QED
  BY <1>1, <1>2 DEF Once

\* One more mail of m.
MailsOne(m) ==
    /\ mailed' \in [Messages -> 0..2]
    /\ \A n \in Messages : n # m => mailed'[n] = mailed[n]
    /\ mailed[m] = 0 => mailed'[m] = 1

\* One more notice of m, if that is counted.
NotesOne(m) ==
    /\ noticed' \in [Messages -> 0..2]
    /\ \A n \in Messages : n # m => noticed'[n] = noticed[n]
    /\ noticed'[m] # noticed[m] => noticed[m] # 0 \/ noticed'[m] = 1

\* What the two assignments do.
LEMMA Telling ==
    ASSUME TypeOK, NEW m \in Messages
    PROVE  /\ mailed' = Once(mailed, m) => MailsOne(m)
           /\ Notice(m) => NotesOne(m)
<1>1. ASSUME mailed' = Once(mailed, m) PROVE MailsOne(m)
  <2>1. PICK count \in [Messages -> 0..2] : count = mailed
    BY DEF TypeOK
  <2>2. mailed' = Once(count, m)
    BY <1>1, <2>1
  <2>3. QED
    BY <2>1, <2>2, Counting DEF MailsOne
<1>2. ASSUME Notice(m) PROVE NotesOne(m)
  <2>1. PICK count \in [Messages -> 0..2] : count = noticed
    BY DEF TypeOK
  <2>2. CASE noticed' = Once(count, m)
    BY <2>1, <2>2, Counting DEF NotesOne
  <2>3. CASE noticed' = noticed
    BY <2>1, <2>3 DEF NotesOne
  <2>4. QED
    BY <1>2, <2>1, <2>2, <2>3 DEF Notice
<1>3. QED
  BY <1>1, <1>2

\* What is mailed is mailed once more; a visit is left to mark.
LEMMA Mailing ==
    ASSUME TypeOK, NEW w \in Workers, Mail(w)
    PROVE  /\ job[w].msg \in Messages /\ job[w].at = "mailing"
           /\ MailsOne(job[w].msg) /\ NotesOne(job[w].msg)
           /\ UNCHANGED <<today, row, claims, marks, refused, unanswered, loose, strikes>>
           /\ \/ job[w].msg[2] = "visit" /\ Takes(w, "marking", job[w].msg)
              \/ job[w].msg[2] # "visit" /\ Turns(w, "due")
<1>1. job[w].at = "mailing" /\ job[w].msg \in Messages
  BY Hands DEF Mail
<1>2. PICK m \in Messages : m = job[w].msg
  BY <1>1
<1>3. mailed' = Once(mailed, m) /\ Notice(m)
  BY <1>2 DEF Mail
<1>4. MailsOne(m) /\ NotesOne(m)
  BY <1>3, Telling
<1>5. CASE m[2] = "visit"
  <2>1. Takes(w, "marking", m)
    BY <1>1, <1>2, <1>5, Turning DEF Mail, Hand
  <2>2. QED
    BY <1>1, <1>2, <1>4, <1>5, <2>1 DEF Mail
<1>6. CASE m[2] # "visit"
  <2>1. PutAway(w)
    BY <1>2, <1>6 DEF Mail
  <2>2. Turns(w, "due")
    BY <1>1, <2>1, Putting
  <2>3. QED
    BY <1>1, <1>2, <1>4, <1>6, <2>2 DEF Mail
<1>7. QED
  BY <1>5, <1>6

\* A mail that failed leaves a claim to release, or nothing; if it was sent, the
\* message is unanswered, or a claimed one that nobody releases.
LEMMA Failing ==
    ASSUME TypeOK, NEW w \in Workers, MailFails(w)
    PROVE  /\ job[w].msg \in Messages /\ job[w].at = "mailing" /\ strikes' \in 0..Strikes
           /\ UNCHANGED <<today, row, claims, marks, loose>>
           /\ refused \subseteq refused' /\ refused' \subseteq Messages
           /\ unanswered \subseteq unanswered' /\ unanswered' \subseteq Messages
           /\ mailed' = mailed \/ MailsOne(job[w].msg)
           /\ mailed' = mailed \/ job[w].msg[2] = "new_order" \/ job[w].msg \in unanswered'
           /\ NotesOne(job[w].msg)
           /\ \/ /\ job[w].msg[2] \in Daily /\ Takes(w, "failed", job[w].msg)
                 /\ job[w].msg \in refused' \cup unanswered'
              \/ job[w].msg[2] \notin Daily /\ Turns(w, "due")
<1>1. job[w].at = "mailing" /\ job[w].msg \in Messages
  BY Hands DEF MailFails
<1>2. PICK m \in Messages : m = job[w].msg
  BY <1>1
<1>3. strikes' \in 0..Strikes
  BY RemindersAssumption DEF MailFails, Strike, TypeOK
<1>4. /\ refused \subseteq refused' /\ refused' \subseteq Messages
      /\ unanswered \subseteq unanswered' /\ unanswered' \subseteq Messages
      /\ mailed' = mailed \/ mailed' = Once(mailed, m)
      /\ mailed' = mailed \/ m[2] = "new_order" \/ m \in unanswered'
      /\ m[2] \in Daily => m \in refused' \cup unanswered'
      /\ Notice(m)
  <2>1. "new_order" \notin Daily
    BY DEF Daily, Ladder, Nudges
  <2>2. QED
    BY <1>2, <2>1 DEF MailFails, TypeOK
<1>5. /\ mailed' = mailed \/ MailsOne(m)
      /\ NotesOne(m)
  BY <1>4, Telling
<1>6. CASE m[2] \in Daily
  <2>1. Takes(w, "failed", m)
    BY <1>1, <1>2, <1>6, Turning DEF MailFails, Hand
  <2>2. QED
    BY <1>1, <1>2, <1>3, <1>4, <1>5, <1>6, <2>1 DEF MailFails
<1>7. CASE m[2] \notin Daily
  <2>1. PutAway(w)
    BY <1>2, <1>7 DEF MailFails
  <2>2. Turns(w, "due")
    BY <1>1, <2>1, Putting
  <2>3. QED
    BY <1>1, <1>2, <1>3, <1>4, <1>5, <1>7, <2>2 DEF MailFails
<1>8. QED
  BY <1>6, <1>7

\* The claim is released, or the mark made.
LEMMA Ending ==
    ASSUME TypeOK, NEW w \in Workers, Release(w) \/ Mark(w)
    PROVE  job[w].msg \in Messages /\ job[w].at \in {"failed", "marking"} /\ Turns(w, "due")
<1>1. job[w].at \in {"failed", "marking"} /\ job[w].msg \in Messages
  BY Hands DEF Release, Mark
<1>2. QED
  BY <1>1, Putting DEF Release, Mark

\* A run that is cut short keeps nothing in hand, and says so.
LEMMA Cutting ==
    ASSUME TypeOK, NEW w \in Workers, CutShort(w)
    PROVE  /\ job[w].at # "idle"
           /\ Turns(w, "idle") \/ Turns(w, "due")
           /\ loose' \subseteq Messages /\ loose \subseteq loose' /\ strikes' \in 0..Strikes
           /\ job[w].at = "marking" => job[w].msg \in loose'
           /\ \/ noticed' = noticed
              \/ job[w].at = "mailing" /\ NotesOne(job[w].msg)
           /\ UNCHANGED <<today, row, claims, marks, mailed, refused, unanswered>>
<1>1. job[w].at # "idle"
  BY DEF CutShort, TypeOK, Jobs, Idle
<1>2. job[w].at \in Hand => job[w].msg \in Messages
  BY Hands DEF Hand
<1>3. Turns(w, "idle") \/ Turns(w, "due")
  <2>1. job[w].items \subseteq job[w].items /\ (Do(w, Idle) \/ PutAway(w))
    BY DEF CutShort
  <2>2. QED
    BY <1>1, <2>1, Turning, Putting
<1>4. strikes' \in 0..Strikes
  BY RemindersAssumption DEF CutShort, Strike, TypeOK
<1>5. loose' \subseteq Messages /\ loose \subseteq loose'
  BY <1>2 DEF CutShort, Holds, Hand, TypeOK
<1>6. \/ noticed' = noticed
      \/ job[w].at = "mailing" /\ NotesOne(job[w].msg)
  BY <1>2, Telling DEF CutShort, Hand
<1>7. QED
  BY <1>1, <1>3, <1>4, <1>5, <1>6 DEF CutShort

\* A run with nothing left to do ends.
LEMMA Finishing ==
    ASSUME TypeOK, NEW w \in Workers, Finish(w)
    PROVE  job[w].at = "due" /\ Turns(w, "idle")
<1>1. job[w].at = "due" /\ job[w].items \subseteq job[w].items
  BY DEF Finish
<1>2. QED
  BY <1>1, Turning DEF Finish

\* A step that puts nobody new on a list keeps the times in order.
LEMMA KeepsAsked ==
    ASSUME IInv, NEW w \in Workers, NEW at, Turns(w, at), job[w].at # "idle",
           UNCHANGED <<today, flag, asked>>,
           at \in Hand => \/ job'[w].msg \in job[w].items
                          \/ job[w].at \in Hand /\ job'[w].msg = job[w].msg
    PROVE  AskedInTime'
<1>1. \A s \in Subs : flag'[s] => asked'[s] \in Days
  BY DEF IInv, AskedInTime
<1>2. ASSUME NEW v \in Workers, job'[v].at # "idle"
      PROVE  /\ job'[v].day <= today'
             /\ \A m \in Messages :
                   /\ m[2] \in Ladder /\ flag'[m[1]]
                   /\ m \in job'[v].items \/ Has(v, Hand, m)'
                   => asked'[m[1]] >= job'[v].day
  <2>1. CASE v = w
    BY <1>2, <2>1 DEF IInv, AskedInTime, Turns, Has, Hand
  <2>2. CASE v # w
    BY <1>2, <2>2 DEF IInv, AskedInTime, Turns, Has, Hand
  <2>3. QED
    BY <2>1, <2>2
<1>3. QED
  BY <1>1, <1>2 DEF AskedInTime, Has, Hand

\* What a run does to messages with a claim leaves the visits alone.
LEMMA ClaimsApart ==
    ASSUME IInv, UNCHANGED <<marks, loose>>, unanswered \subseteq unanswered',
           \A m \in Messages : m[2] = "visit" => mailed'[m] = mailed[m],
           \A v \in Workers : \/ job'[v] = job[v]
                              \/ /\ job[v].at \in Hand => job[v].msg[2] # "visit"
                                 /\ job'[v].at \in Hand => job'[v].msg[2] # "visit"
    PROVE  VisitsHold'
<1>1. \A v \in Workers, m \in Messages :
         m[2] = "visit" =>
            /\ Has(v, {"marking"}, m)' <=> Has(v, {"marking"}, m)
            /\ Has(v, {"found", "mailing"}, m)' <=> Has(v, {"found", "mailing"}, m)
            /\ Has(v, InVisit, m)' <=> Has(v, InVisit, m)
  BY DEF Has, Hand, InVisit
<1>2. QED
  BY <1>1 DEF IInv, VisitsHold

\* Types are kept.
LEMMA NextType == ASSUME IInv, [Next]_vars PROVE TypeOK'
<1>1. CASE NewDay
  BY <1>1, RemindersAssumption DEF IInv, TypeOK, Days, row, told, NewDay
<1>2. ASSUME NEW s \in Subs, NEW first \in 0..(Horizon - 1), Schedule(s, first)
      PROVE  TypeOK'
  BY <1>2, RemindersAssumption DEF IInv, TypeOK, Days, row, told, Schedule
<1>3. ASSUME NEW s \in Subs, CancelVisit(s)
      PROVE  TypeOK'
  BY <1>3 DEF IInv, TypeOK, row, told, CancelVisit
<1>4. ASSUME NEW s \in Subs, Renew(s)
      PROVE  TypeOK'
  BY <1>4, RemindersAssumption DEF IInv, TypeOK, Days, row, told, Renew
<1>5. ASSUME NEW s \in Subs, NEW cancel \in BOOLEAN, SetFlag(s, cancel)
      PROVE  TypeOK'
  BY <1>5, RemindersAssumption DEF IInv, TypeOK, Days, row, told, SetFlag, AskedOn
<1>6. ASSUME NEW w \in Workers, Sweep(w)
      PROVE  TypeOK'
  <2>1. {} \in SUBSET Messages /\ today \in Days
    BY <1>6 DEF IInv, TypeOK, Messages, Sweep
  <2>2. job' \in [Workers -> Jobs]
    BY <1>6, <2>1, JobsTyped DEF IInv, TypeOK, Sweep
  <2>3. QED
    BY <1>6, <2>2 DEF IInv, TypeOK, row, told, Sweep
<1>7. ASSUME NEW w \in Workers, Collect(w)
      PROVE  TypeOK'
  <2>1. job[w].day \in Days /\ job[w].items \in SUBSET Messages
    BY <1>7, Hands DEF IInv, Collect
  <2>2. job' \in [Workers -> Jobs]
    BY <1>7, <2>1, JobsTyped DEF IInv, TypeOK, Collect
  <2>3. QED
    BY <1>7, <2>1, <2>2 DEF IInv, TypeOK, row, told, Collect
<1>8. ASSUME NEW w \in Workers, NEW s \in Subs, NewOrder(w, s)
      PROVE  TypeOK'
  <2>1. {<<s, "new_order">>} \in SUBSET Messages /\ Undated \in Days
    BY <1>8 DEF Undated, Days, IInv, TypeOK, Messages, NewOrder
  <2>2. job' \in [Workers -> Jobs]
    BY <1>8, <2>1, JobsTyped DEF IInv, TypeOK, NewOrder
  <2>3. QED
    BY <1>8, <2>2 DEF IInv, TypeOK, row, told, NewOrder
<1>9. ASSUME NEW w \in Workers, CollectVisits(w)
      PROVE  TypeOK'
  <2>1. {<<s, "visit">> : s \in {t \in Subs : visit[t] = today}} \in SUBSET Messages /\ Undated \in Days
    BY <1>9 DEF Undated, Days, IInv, TypeOK, Messages, CollectVisits
  <2>2. job' \in [Workers -> Jobs]
    BY <1>9, <2>1, JobsTyped DEF IInv, TypeOK, CollectVisits
  <2>3. QED
    BY <1>9, <2>2 DEF IInv, TypeOK, row, told, CollectVisits
<1>10. ASSUME NEW w \in Workers, NEW m \in job[w].items, Claim(w, m)
      PROVE  TypeOK'
  BY <1>10, Claiming DEF IInv, TypeOK, Turns, Takes, row, told
<1>11. ASSUME NEW w \in Workers, NEW m \in job[w].items, LookUp(w, m)
      PROVE  TypeOK'
  BY <1>11, Looking DEF IInv, TypeOK, Turns, Takes, row, told
<1>12. ASSUME NEW w \in Workers, NEW m \in job[w].items, PassOver(w, m)
      PROVE  TypeOK'
  BY <1>12, Passing DEF IInv, TypeOK, Turns, Takes, row, told
<1>13. ASSUME NEW w \in Workers, Upsert(w)
      PROVE  TypeOK'
  BY <1>13, Upserting DEF IInv, TypeOK, Turns, Takes, row, told, Upsert
<1>14. ASSUME NEW w \in Workers, Mail(w)
      PROVE  TypeOK'
  BY <1>14, Mailing DEF IInv, TypeOK, Turns, Takes, MailsOne, NotesOne, row
<1>15. ASSUME NEW w \in Workers, MailFails(w)
      PROVE  TypeOK'
  BY <1>15, Failing DEF IInv, TypeOK, Turns, Takes, MailsOne, NotesOne, row
<1>16. ASSUME NEW w \in Workers, Release(w)
      PROVE  TypeOK'
  BY <1>16, Ending DEF IInv, TypeOK, Turns, Takes, row, told, Release, Released
<1>17. ASSUME NEW w \in Workers, Mark(w)
      PROVE  TypeOK'
  BY <1>17, Ending DEF IInv, TypeOK, Turns, Takes, row, told, Mark
<1>18. ASSUME NEW w \in Workers, Finish(w)
      PROVE  TypeOK'
  BY <1>18, Finishing DEF IInv, TypeOK, Turns, Takes, row, told, Finish
<1>19. ASSUME NEW w \in Workers, CutShort(w)
      PROVE  TypeOK'
  BY <1>19, Cutting DEF IInv, TypeOK, Turns, Takes, NotesOne, row
<1>20. CASE UNCHANGED vars
  BY <1>20 DEF IInv, TypeOK, row, told, vars
<1>21. QED
  BY <1>1, <1>2, <1>3, <1>4, <1>5, <1>6, <1>7, <1>8, <1>9, <1>10,
     <1>11, <1>12, <1>13, <1>14, <1>15, <1>16, <1>17, <1>18, <1>19, <1>20 DEF Next, RunStep, Deliver

\* A claim is won once, and given up by its holder alone.
LEMMA NextClaims == ASSUME IInv, [Next]_vars PROVE ClaimsHold'
<1>1. CASE NewDay
  <2>1. Empties
    BY <1>1 DEF Empties, IInv, TypeOK, Idle, NewDay
  <2>2. QED
    BY <1>1, <2>1, KeepsClaims DEF row, told, NewDay
<1>2. ASSUME NEW s \in Subs, NEW first \in 0..(Horizon - 1), Schedule(s, first)
      PROVE  ClaimsHold'
  <2>1. Empties
    BY <1>2 DEF Empties, IInv, TypeOK, Idle, Schedule
  <2>2. QED
    BY <1>2, <2>1, KeepsClaims DEF row, told, Schedule
<1>3. ASSUME NEW s \in Subs, CancelVisit(s)
      PROVE  ClaimsHold'
  <2>1. Empties
    BY <1>3 DEF Empties, IInv, TypeOK, Idle, CancelVisit
  <2>2. QED
    BY <1>3, <2>1, KeepsClaims DEF row, told, CancelVisit
<1>4. ASSUME NEW s \in Subs, Renew(s)
      PROVE  ClaimsHold'
  <2>1. Empties
    BY <1>4 DEF Empties, IInv, TypeOK, Idle, Renew
  <2>2. QED
    BY <1>4, <2>1, KeepsClaims DEF row, told, Renew
<1>5. ASSUME NEW s \in Subs, NEW cancel \in BOOLEAN, SetFlag(s, cancel)
      PROVE  ClaimsHold'
  <2>1. Empties
    BY <1>5 DEF Empties, IInv, TypeOK, Idle, SetFlag
  <2>2. QED
    BY <1>5, <2>1, KeepsClaims DEF row, told, SetFlag
<1>6. ASSUME NEW w \in Workers, Sweep(w)
      PROVE  ClaimsHold'
  <2>1. Empties
    BY <1>6 DEF Empties, IInv, TypeOK, Idle, Sweep
  <2>2. QED
    BY <1>6, <2>1, KeepsClaims DEF row, told, Sweep
<1>7. ASSUME NEW w \in Workers, Collect(w)
      PROVE  ClaimsHold'
  <2>1. Empties
    BY <1>7 DEF Empties, IInv, TypeOK, Idle, Collect
  <2>2. QED
    BY <1>7, <2>1, KeepsClaims DEF row, told, Collect
<1>8. ASSUME NEW w \in Workers, NEW s \in Subs, NewOrder(w, s)
      PROVE  ClaimsHold'
  <2>1. Empties
    BY <1>8 DEF Empties, IInv, TypeOK, Idle, NewOrder
  <2>2. QED
    BY <1>8, <2>1, KeepsClaims DEF row, told, NewOrder
<1>9. ASSUME NEW w \in Workers, CollectVisits(w)
      PROVE  ClaimsHold'
  <2>1. Empties
    BY <1>9 DEF Empties, IInv, TypeOK, Idle, CollectVisits
  <2>2. QED
    BY <1>9, <2>1, KeepsClaims DEF row, told, CollectVisits
<1>10. ASSUME NEW w \in Workers, NEW m \in job[w].items, Claim(w, m)
      PROVE  ClaimsHold'
  <2>1. /\ m \in Messages /\ m[2] \in Claimed /\ UNCHANGED <<mailed, unanswered>>
        /\ claims \subseteq claims'
        /\ \A v \in Workers : v # w => job'[v] = job[v]
        /\ \/ job'[w].at = "due"
           \/ job'[w].at = "mailing" /\ job'[w].msg = m /\ m \notin claims /\ m \in claims'
    BY <1>10, Claiming DEF IInv, Turns, Takes, told
  <2>2. CASE job'[w].at = "due"
    BY <2>1, <2>2 DEF IInv, ClaimsHold, ClaimHolds, Has
  <2>3. CASE job'[w].at = "mailing" /\ job'[w].msg = m /\ m \notin claims /\ m \in claims'
    <3>1. /\ m \notin unanswered => mailed[m] = 0
          /\ \A v \in Workers : ~Has(v, {"mailing", "failed"}, m)
      BY <2>1, <2>3 DEF IInv, ClaimsHold, ClaimHolds, TypeOK
    <3>2. \A v \in Workers, n \in Messages :
             Has(v, {"mailing", "failed"}, n)' <=>
             IF v = w THEN n = m ELSE Has(v, {"mailing", "failed"}, n)
      BY <2>1, <2>3 DEF Has
    <3>3. \A v \in Workers : job'[v].at \in {"found", "marking", "failed"} => job'[v] = job[v]
      BY <2>1, <2>3
    <3>4. ASSUME NEW n \in Messages, n[2] \in Claimed
          PROVE  ClaimHolds(n)'
      <4>1. CASE n = m
        BY <2>1, <2>3, <3>1, <3>2, <4>1 DEF ClaimHolds
      <4>2. CASE n # m
        BY <2>1, <3>2, <3>4, <4>2 DEF IInv, ClaimsHold, ClaimHolds
      <4>3. QED
        BY <4>1, <4>2
    <3>5. QED
      BY <3>3, <3>4 DEF IInv, ClaimsHold, ClaimHolds
  <2>4. QED
    BY <2>1, <2>2, <2>3
<1>11. ASSUME NEW w \in Workers, NEW m \in job[w].items, LookUp(w, m)
      PROVE  ClaimsHold'
  <2>1. /\ m[2] = "visit" /\ UNCHANGED <<claims, mailed, unanswered>>
        /\ \A v \in Workers : v # w => job'[v] = job[v]
        /\ job'[w].at = "due" \/ (job'[w].at = "found" /\ job'[w].msg = m)
    BY <1>11, Looking DEF IInv, Turns, Takes, told
  <2>2. QED
    BY <2>1 DEF IInv, ClaimsHold, ClaimHolds, Has
<1>12. ASSUME NEW w \in Workers, NEW m \in job[w].items, PassOver(w, m)
      PROVE  ClaimsHold'
  <2>1. Empties /\ claims \subseteq claims' /\ UNCHANGED <<mailed, unanswered>>
    BY <1>12, Passing DEF IInv, Empties, Turns, told
  <2>2. QED
    BY <2>1, KeepsClaims
<1>13. ASSUME NEW w \in Workers, Upsert(w)
      PROVE  ClaimsHold'
  <2>1. /\ UNCHANGED <<claims, mailed, unanswered>> /\ job[w].msg[2] = "visit" /\ job[w].msg \in Messages
        /\ \A v \in Workers : v # w => job'[v] = job[v]
        /\ job'[w].at = "mailing" /\ job'[w].msg = job[w].msg
    BY <1>13, Upserting DEF IInv, ClaimsHold, ClaimHolds, Turns, Takes, Upsert, told
  <2>2. job[w].msg[2] \notin Claimed
    BY <2>1, TwoKinds
  <2>3. \A v \in Workers, n \in Messages :
           n[2] \in Claimed /\ Has(v, {"mailing", "failed"}, n)' => Has(v, {"mailing", "failed"}, n)
    BY <2>1, <2>2 DEF Has
  <2>4. \A v \in Workers : job'[v].at \in {"found", "marking", "failed"} => job'[v] = job[v]
    BY <2>1
  <2>5. QED
    BY <2>1, <2>3, <2>4 DEF IInv, ClaimsHold, ClaimHolds
<1>14. ASSUME NEW w \in Workers, Mail(w)
      PROVE  ClaimsHold'
  <2>1. PICK m \in Messages : m = job[w].msg
    BY <1>14, Mailing DEF IInv, told
  <2>2. /\ UNCHANGED claims /\ Has(w, {"mailing", "failed"}, m)
        /\ \A n \in Messages : n # m => mailed'[n] = mailed[n]
        /\ mailed[m] = 0 => mailed'[m] = 1
        /\ UNCHANGED unanswered
        /\ \A v \in Workers : v # w => job'[v] = job[v]
        /\ \/ job'[w].at = "marking" /\ job'[w].msg = m /\ m[2] = "visit"
           \/ job'[w].at = "due"
    BY <1>14, <2>1, Mailing DEF IInv, Has, Turns, Takes, MailsOne
  <2>3. m[2] \in Claimed =>
           (m \notin unanswered => mailed[m] = 0) /\ m \in claims /\ \A v \in Workers : v # w => ~Has(v, {"mailing", "failed"}, m)
    BY <2>2 DEF IInv, ClaimsHold, ClaimHolds
  <2>4. \A v \in Workers, n \in Messages :
           Has(v, {"mailing", "failed"}, n)' => v # w /\ Has(v, {"mailing", "failed"}, n)
    BY <2>2 DEF Has
  <2>5. \A v \in Workers : /\ job'[v].at \in {"found", "marking"} => job'[v].msg[2] = "visit"
                           /\ job'[v].at = "failed" => job'[v].msg[2] \in Daily
    BY <2>2 DEF IInv, ClaimsHold, ClaimHolds
  <2>6. ASSUME NEW n \in Messages, n[2] \in Claimed
        PROVE  ClaimHolds(n)'
    <3>1. CASE n = m
      BY <2>2, <2>3, <2>4, <2>6, <3>1 DEF ClaimHolds
    <3>2. CASE n # m
      BY <2>2, <2>4, <2>6, <3>2 DEF IInv, ClaimsHold, ClaimHolds
    <3>3. QED
      BY <3>1, <3>2
  <2>7. QED
    BY <2>5, <2>6 DEF ClaimsHold, ClaimHolds
<1>15. ASSUME NEW w \in Workers, MailFails(w)
      PROVE  ClaimsHold'
  <2>1. PICK m \in Messages : m = job[w].msg
    BY <1>15, Failing DEF IInv
  <2>2. /\ UNCHANGED claims /\ unanswered \subseteq unanswered' /\ Has(w, {"mailing", "failed"}, m)
        /\ \A n \in Messages : n # m => mailed'[n] = mailed[n]
        /\ mailed' = mailed \/ m[2] = "new_order" \/ m \in unanswered'
        /\ mailed[m] = 0 => mailed'[m] <= 1
        /\ \A v \in Workers : v # w => job'[v] = job[v]
        /\ \/ job'[w].at = "failed" /\ job'[w].msg = m /\ m[2] \in Daily
           \/ job'[w].at = "due" /\ m[2] \notin Daily
    BY <1>15, <2>1, Failing DEF IInv, Has, Turns, Takes, MailsOne
  <2>3. \A v \in Workers, n \in Messages :
           Has(v, {"mailing", "failed"}, n)' => Has(v, {"mailing", "failed"}, n)
    BY <2>2 DEF Has
  <2>4. \A v \in Workers : /\ job'[v].at \in {"found", "marking"} => job'[v].msg[2] = "visit"
                           /\ job'[v].at = "failed" => job'[v].msg[2] \in Daily
    BY <2>2 DEF IInv, ClaimsHold
  <2>5. ASSUME NEW n \in Messages, n[2] \in Claimed
        PROVE  ClaimHolds(n)'
    <3>1. CASE n # m
      BY <2>2, <2>3, <2>5, <3>1 DEF IInv, ClaimsHold, ClaimHolds
    <3>2. CASE n = m /\ (mailed' = mailed \/ m \in unanswered')
      BY <2>2, <2>3, <2>5, <3>2 DEF IInv, ClaimsHold, ClaimHolds
    <3>3. CASE n = m /\ m[2] = "new_order"
      <4>1. m[2] \notin Daily
        BY <3>3 DEF Daily, Ladder, Nudges
      <4>2. \A v \in Workers : ~Has(v, {"mailing", "failed"}, m)'
        BY <2>2, <2>3, <2>5, <3>3, <4>1 DEF IInv, ClaimsHold, ClaimHolds, Has
      <4>3. m \in claims' /\ (m \notin unanswered' => mailed'[m] <= 1)
        BY <2>2, <2>5, <3>3 DEF IInv, ClaimsHold, ClaimHolds
      <4>4. QED
        BY <3>3, <4>2, <4>3 DEF ClaimHolds
    <3>4. QED
      BY <2>2, <3>1, <3>2, <3>3
  <2>6. QED
    BY <2>4, <2>5 DEF ClaimsHold
<1>16. ASSUME NEW w \in Workers, Release(w)
      PROVE  ClaimsHold'
  <2>1. PICK m \in Messages : m = job[w].msg
    BY <1>16, Ending DEF IInv, told
  <2>2. /\ UNCHANGED mailed /\ claims' = claims \ {m} /\ Has(w, {"mailing", "failed"}, m)
        /\ m[2] \in Claimed /\ job'[w].at = "due" /\ UNCHANGED unanswered
        /\ \A v \in Workers : v # w => job'[v] = job[v]
    BY <1>16, <2>1, Ending DEF IInv, ClaimsHold, ClaimHolds, Has, Turns, Release, Released, told, Claimed
  <2>3. (m \notin unanswered => mailed[m] = 0) /\ \A v \in Workers : v # w => ~Has(v, {"mailing", "failed"}, m)
    BY <2>2 DEF IInv, ClaimsHold, ClaimHolds
  <2>4. \A v \in Workers, n \in Messages :
           Has(v, {"mailing", "failed"}, n)' => n # m /\ Has(v, {"mailing", "failed"}, n)
    BY <2>2, <2>3 DEF Has
  <2>5. \A v \in Workers : job'[v].at \in {"found", "marking", "failed"} => job'[v] = job[v]
    BY <2>2
  <2>6. QED
    BY <2>2, <2>3, <2>4, <2>5 DEF IInv, ClaimsHold, ClaimHolds
<1>17. ASSUME NEW w \in Workers, Mark(w)
      PROVE  ClaimsHold'
  <2>1. Empties /\ UNCHANGED <<claims, mailed, unanswered>>
    BY <1>17, Ending DEF IInv, Empties, Turns, Mark, told
  <2>2. QED
    BY <2>1, KeepsClaims
<1>18. ASSUME NEW w \in Workers, Finish(w)
      PROVE  ClaimsHold'
  <2>1. Empties /\ UNCHANGED <<claims, mailed, unanswered>>
    BY <1>18, Finishing DEF IInv, Empties, Turns, Finish, told
  <2>2. QED
    BY <2>1, KeepsClaims
<1>19. ASSUME NEW w \in Workers, CutShort(w)
      PROVE  ClaimsHold'
  <2>1. Empties /\ UNCHANGED <<claims, mailed, unanswered>>
    BY <1>19, Cutting DEF IInv, Empties, Turns, row, told
  <2>2. QED
    BY <2>1, KeepsClaims
<1>20. CASE UNCHANGED vars
  BY <1>20 DEF IInv, ClaimsHold, ClaimHolds, Has, row, told, vars
<1>21. QED
  BY <1>1, <1>2, <1>3, <1>4, <1>5, <1>6, <1>7, <1>8, <1>9, <1>10,
     <1>11, <1>12, <1>13, <1>14, <1>15, <1>16, <1>17, <1>18, <1>19, <1>20 DEF Next, RunStep, Deliver

\* A step that has nobody take a message in hand, or tells of one, keeps the notices.
LEMMA KeepsNotices ==
    ASSUME IInv, UNCHANGED <<noticed, refused, unanswered>>, claims \subseteq claims',
           \A v \in Workers :
              \/ job'[v] = job[v]
              \/ job'[v].at \notin {"mailing", "failed"}
              \/ job'[v].at = "mailing" /\ job'[v].msg[2] = "visit"
    PROVE  NoticesHold'
<1>1. \A v \in Workers, m \in Messages :
         m[2] \in Claimed /\ Has(v, {"mailing"}, m)' => Has(v, {"mailing"}, m)
  BY TwoKinds DEF Has
<1>2. QED
  BY <1>1 DEF IInv, NoticesHold

\* Who has a claim in hand has it alone, and gives the notice before a release.
LEMMA NextNotices == ASSUME IInv, [Next]_vars PROVE NoticesHold'
<1>1. CASE NewDay
  <2>1. \A v \in Workers : job'[v] = job[v] \/ job'[v].at \notin {"mailing", "failed"}
    BY <1>1 DEF IInv, TypeOK, NewDay
  <2>2. QED
    BY <1>1, <2>1, KeepsNotices DEF row, told, NewDay
<1>2. ASSUME NEW s \in Subs, NEW first \in 0..(Horizon - 1), Schedule(s, first)
      PROVE  NoticesHold'
  <2>1. \A v \in Workers : job'[v] = job[v] \/ job'[v].at \notin {"mailing", "failed"}
    BY <1>2 DEF IInv, TypeOK, Schedule
  <2>2. QED
    BY <1>2, <2>1, KeepsNotices DEF row, told, Schedule
<1>3. ASSUME NEW s \in Subs, CancelVisit(s)
      PROVE  NoticesHold'
  <2>1. \A v \in Workers : job'[v] = job[v] \/ job'[v].at \notin {"mailing", "failed"}
    BY <1>3 DEF IInv, TypeOK, CancelVisit
  <2>2. QED
    BY <1>3, <2>1, KeepsNotices DEF row, told, CancelVisit
<1>4. ASSUME NEW s \in Subs, Renew(s)
      PROVE  NoticesHold'
  <2>1. \A v \in Workers : job'[v] = job[v] \/ job'[v].at \notin {"mailing", "failed"}
    BY <1>4 DEF IInv, TypeOK, Renew
  <2>2. QED
    BY <1>4, <2>1, KeepsNotices DEF row, told, Renew
<1>5. ASSUME NEW s \in Subs, NEW cancel \in BOOLEAN, SetFlag(s, cancel)
      PROVE  NoticesHold'
  <2>1. \A v \in Workers : job'[v] = job[v] \/ job'[v].at \notin {"mailing", "failed"}
    BY <1>5 DEF IInv, TypeOK, SetFlag
  <2>2. QED
    BY <1>5, <2>1, KeepsNotices DEF row, told, SetFlag
<1>6. ASSUME NEW w \in Workers, Sweep(w)
      PROVE  NoticesHold'
  <2>1. \A v \in Workers : job'[v] = job[v] \/ job'[v].at \notin {"mailing", "failed"}
    BY <1>6 DEF IInv, TypeOK, Sweep
  <2>2. QED
    BY <1>6, <2>1, KeepsNotices DEF row, told, Sweep
<1>7. ASSUME NEW w \in Workers, Collect(w)
      PROVE  NoticesHold'
  <2>1. \A v \in Workers : job'[v] = job[v] \/ job'[v].at \notin {"mailing", "failed"}
    BY <1>7 DEF IInv, TypeOK, Collect
  <2>2. QED
    BY <1>7, <2>1, KeepsNotices DEF row, told, Collect
<1>8. ASSUME NEW w \in Workers, NEW s \in Subs, NewOrder(w, s)
      PROVE  NoticesHold'
  <2>1. \A v \in Workers : job'[v] = job[v] \/ job'[v].at \notin {"mailing", "failed"}
    BY <1>8 DEF IInv, TypeOK, NewOrder
  <2>2. QED
    BY <1>8, <2>1, KeepsNotices DEF row, told, NewOrder
<1>9. ASSUME NEW w \in Workers, CollectVisits(w)
      PROVE  NoticesHold'
  <2>1. \A v \in Workers : job'[v] = job[v] \/ job'[v].at \notin {"mailing", "failed"}
    BY <1>9 DEF IInv, TypeOK, CollectVisits
  <2>2. QED
    BY <1>9, <2>1, KeepsNotices DEF row, told, CollectVisits
<1>10. ASSUME NEW w \in Workers, NEW m \in job[w].items, LookUp(w, m)
      PROVE  NoticesHold'
  <2>1. /\ \A v \in Workers : job'[v] = job[v] \/ job'[v].at \notin {"mailing", "failed"}
        /\ UNCHANGED <<noticed, refused, unanswered>> /\ claims \subseteq claims'
    BY <1>10, Looking DEF IInv, Turns, Takes, told
  <2>2. QED
    BY <2>1, KeepsNotices
<1>11. ASSUME NEW w \in Workers, NEW m \in job[w].items, PassOver(w, m)
      PROVE  NoticesHold'
  <2>1. /\ \A v \in Workers : job'[v] = job[v] \/ job'[v].at \notin {"mailing", "failed"}
        /\ UNCHANGED <<noticed, refused, unanswered>> /\ claims \subseteq claims'
    BY <1>11, Passing DEF IInv, Turns, Takes, told
  <2>2. QED
    BY <2>1, KeepsNotices
<1>12. ASSUME NEW w \in Workers, Mark(w)
      PROVE  NoticesHold'
  <2>1. /\ \A v \in Workers : job'[v] = job[v] \/ job'[v].at \notin {"mailing", "failed"}
        /\ UNCHANGED <<noticed, refused, unanswered>> /\ claims \subseteq claims'
    BY <1>12, Ending DEF IInv, Turns, Takes, told, Mark
  <2>2. QED
    BY <2>1, KeepsNotices
<1>13. ASSUME NEW w \in Workers, Finish(w)
      PROVE  NoticesHold'
  <2>1. /\ \A v \in Workers : job'[v] = job[v] \/ job'[v].at \notin {"mailing", "failed"}
        /\ UNCHANGED <<noticed, refused, unanswered>> /\ claims \subseteq claims'
    BY <1>13, Finishing DEF IInv, Turns, Takes, told, Finish
  <2>2. QED
    BY <2>1, KeepsNotices
<1>14. ASSUME NEW w \in Workers, Upsert(w)
      PROVE  NoticesHold'
  <2>1. /\ \A v \in Workers : v # w => job'[v] = job[v]
        /\ job'[w].at = "mailing" /\ job'[w].msg = job[w].msg /\ job[w].msg[2] = "visit"
        /\ UNCHANGED <<noticed, refused, unanswered, claims>>
    BY <1>14, Upserting DEF IInv, ClaimsHold, Turns, Takes, told, Upsert
  <2>2. QED
    BY <2>1, KeepsNotices
<1>15. ASSUME NEW w \in Workers, NEW m \in job[w].items, Claim(w, m)
      PROVE  NoticesHold'
  <2>1. /\ m \in Messages /\ UNCHANGED <<noticed, refused, unanswered>> /\ claims \subseteq claims'
        /\ \A v \in Workers : v # w => job'[v] = job[v]
        /\ \/ job'[w].at = "due"
           \/ job'[w].at = "mailing" /\ job'[w].msg = m /\ m \notin claims
    BY <1>15, Claiming DEF IInv, Turns, Takes, told
  <2>2. \A v \in Workers, k \in Messages :
           Has(v, {"mailing"}, k)' => Has(v, {"mailing"}, k) \/ (k = m /\ m \notin claims)
    BY <2>1 DEF Has
  <2>3. \A v \in Workers : job'[v].at = "failed" => job'[v] = job[v]
    BY <2>1
  <2>4. noticed \in [Messages -> 0..2]
    BY DEF IInv, TypeOK
  <2>5. QED
    BY <2>1, <2>2, <2>3, <2>4 DEF IInv, NoticesHold
<1>16. ASSUME NEW w \in Workers, Mail(w) \/ MailFails(w)
      PROVE  NoticesHold'
  <2>1. PICK m \in Messages : m = job[w].msg
    BY <1>16, Mailing, Failing DEF IInv
  <2>2. /\ UNCHANGED claims /\ Has(w, {"mailing"}, m) /\ Has(w, {"mailing", "failed"}, m)
        /\ refused \subseteq refused' /\ unanswered \subseteq unanswered'
        /\ \A k \in Messages : k # m => noticed'[k] = noticed[k]
        /\ noticed'[m] # noticed[m] => noticed[m] # 0 \/ noticed'[m] = 1
        /\ \A v \in Workers : v # w => job'[v] = job[v]
        /\ job'[w].at # "mailing"
        /\ job'[w].at = "failed" => job'[w].msg = m /\ m \in refused' \cup unanswered'
    BY <1>16, <2>1, Mailing, Failing DEF IInv, Has, Turns, Takes, NotesOne
  <2>3. m[2] \in Claimed =>
           m \in claims /\ \A v \in Workers : v # w => ~Has(v, {"mailing", "failed"}, m)
    BY <2>2 DEF IInv, ClaimsHold, ClaimHolds
  <2>4. \A v \in Workers, k \in Messages :
           Has(v, {"mailing"}, k)' => v # w /\ Has(v, {"mailing"}, k)
    BY <2>2 DEF Has
  <2>5. \A v \in Workers : job'[v].at = "failed" => job'[v].msg \in refused' \cup unanswered'
    BY <2>2 DEF IInv, NoticesHold
  <2>6. ASSUME NEW k \in Messages, k[2] \in Claimed, k \notin refused' \cup unanswered'
        PROVE  /\ noticed'[k] <= 1
               /\ noticed'[k] = 1 => k \in claims'
               /\ \A v \in Workers : Has(v, {"mailing"}, k)' => noticed'[k] = 0
    <3>1. CASE k = m
      <4>1. noticed[m] = 0
        BY <2>2, <2>6, <3>1 DEF IInv, NoticesHold
      <4>2. \A v \in Workers : ~Has(v, {"mailing"}, k)'
        BY <2>3, <2>4, <2>6, <3>1 DEF Has
      <4>3. QED
        BY <2>2, <2>3, <2>6, <3>1, <4>1, <4>2
    <3>2. CASE k # m
      BY <2>2, <2>4, <2>6, <3>2 DEF IInv, NoticesHold
    <3>3. QED
      BY <3>1, <3>2
  <2>7. QED
    BY <2>5, <2>6 DEF NoticesHold
<1>17. ASSUME NEW w \in Workers, Release(w)
      PROVE  NoticesHold'
  <2>1. PICK m \in Messages : m = job[w].msg
    BY <1>17, Ending DEF IInv
  <2>2. /\ UNCHANGED <<noticed, refused, unanswered>> /\ claims' = claims \ {m}
        /\ m \in refused \cup unanswered
        /\ job'[w].at = "due" /\ \A v \in Workers : v # w => job'[v] = job[v]
    BY <1>17, <2>1, Ending DEF IInv, NoticesHold, Turns, Release, Released, told
  <2>3. \A v \in Workers, k \in Messages : Has(v, {"mailing"}, k)' => Has(v, {"mailing"}, k)
    BY <2>2 DEF Has
  <2>4. \A v \in Workers : job'[v].at = "failed" => job'[v] = job[v]
    BY <2>2
  <2>5. QED
    BY <2>2, <2>3, <2>4 DEF IInv, NoticesHold
<1>18. ASSUME NEW w \in Workers, CutShort(w)
      PROVE  NoticesHold'
  <2>1. CASE noticed' = noticed
    <3>1. /\ \A v \in Workers : job'[v] = job[v] \/ job'[v].at \notin {"mailing", "failed"}
          /\ UNCHANGED <<noticed, refused, unanswered, claims>>
      BY <1>18, <2>1, Cutting DEF IInv, Turns
    <3>2. QED
      BY <3>1, KeepsNotices
  <2>2. CASE job[w].at = "mailing" /\ NotesOne(job[w].msg)
    <3>1. PICK m \in Messages : m = job[w].msg
      BY <2>2, Hands DEF IInv
    <3>2. /\ UNCHANGED <<claims, refused, unanswered>>
          /\ Has(w, {"mailing"}, m) /\ Has(w, {"mailing", "failed"}, m)
          /\ \A k \in Messages : k # m => noticed'[k] = noticed[k]
          /\ noticed'[m] # noticed[m] => noticed[m] # 0 \/ noticed'[m] = 1
          /\ \A v \in Workers : v # w => job'[v] = job[v]
          /\ job'[w].at \in {"due", "idle"}
      BY <1>18, <2>2, <3>1, Cutting DEF IInv, Has, Turns, NotesOne
    <3>3. m[2] \in Claimed =>
             m \in claims /\ \A v \in Workers : v # w => ~Has(v, {"mailing", "failed"}, m)
      BY <3>2 DEF IInv, ClaimsHold, ClaimHolds
    <3>4. \A v \in Workers, k \in Messages :
             Has(v, {"mailing"}, k)' => v # w /\ Has(v, {"mailing"}, k)
      BY <3>2 DEF Has
    <3>5. \A v \in Workers : job'[v].at = "failed" => job'[v] = job[v]
      BY <3>2
    <3>6. ASSUME NEW k \in Messages, k[2] \in Claimed, k \notin refused \cup unanswered
          PROVE  /\ noticed'[k] <= 1
                 /\ noticed'[k] = 1 => k \in claims
                 /\ \A v \in Workers : Has(v, {"mailing"}, k)' => noticed'[k] = 0
      <4>1. CASE k = m
        <5>1. noticed[m] = 0
          BY <3>2, <3>6, <4>1 DEF IInv, NoticesHold
        <5>2. \A v \in Workers : ~Has(v, {"mailing"}, k)'
          BY <3>3, <3>4, <3>6, <4>1 DEF Has
        <5>3. QED
          BY <3>2, <3>3, <3>6, <4>1, <5>1, <5>2
      <4>2. CASE k # m
        BY <3>2, <3>4, <3>6, <4>2 DEF IInv, NoticesHold
      <4>3. QED
        BY <4>1, <4>2
    <3>7. QED
      BY <3>2, <3>5, <3>6 DEF IInv, NoticesHold
  <2>3. QED
    BY <1>18, <2>1, <2>2, Cutting DEF IInv
<1>19. CASE UNCHANGED vars
  BY <1>19 DEF IInv, NoticesHold, Has, row, told, vars
<1>20. QED
  BY <1>1, <1>2, <1>3, <1>4, <1>5, <1>6, <1>7, <1>8, <1>9, <1>10,
     <1>11, <1>12, <1>13, <1>14, <1>15, <1>16, <1>17, <1>18, <1>19 DEF Next, RunStep, Deliver

\* Two runs with a visit in hand have met.
LEMMA NextVisits == ASSUME IInv, [Next]_vars PROVE VisitsHold'
<1>1. CASE NewDay
  <2>1. Empties /\ \A v \in Workers : job[v].at = "marking" => job'[v] = job[v]
    BY <1>1 DEF Empties, IInv, TypeOK, Idle, NewDay
  <2>2. QED
    BY <1>1, <2>1, KeepsVisits DEF Has, row, told, NewDay
<1>2. ASSUME NEW s \in Subs, NEW first \in 0..(Horizon - 1), Schedule(s, first)
      PROVE  VisitsHold'
  <2>1. Empties /\ \A v \in Workers : job[v].at = "marking" => job'[v] = job[v]
    BY <1>2 DEF Empties, IInv, TypeOK, Idle, Schedule
  <2>2. QED
    BY <1>2, <2>1, KeepsVisits DEF Has, row, told, Schedule
<1>3. ASSUME NEW s \in Subs, CancelVisit(s)
      PROVE  VisitsHold'
  <2>1. Empties /\ \A v \in Workers : job[v].at = "marking" => job'[v] = job[v]
    BY <1>3 DEF Empties, IInv, TypeOK, Idle, CancelVisit
  <2>2. QED
    BY <1>3, <2>1, KeepsVisits DEF Has, row, told, CancelVisit
<1>4. ASSUME NEW s \in Subs, Renew(s)
      PROVE  VisitsHold'
  <2>1. Empties /\ \A v \in Workers : job[v].at = "marking" => job'[v] = job[v]
    BY <1>4 DEF Empties, IInv, TypeOK, Idle, Renew
  <2>2. QED
    BY <1>4, <2>1, KeepsVisits DEF Has, row, told, Renew
<1>5. ASSUME NEW s \in Subs, NEW cancel \in BOOLEAN, SetFlag(s, cancel)
      PROVE  VisitsHold'
  <2>1. Empties /\ \A v \in Workers : job[v].at = "marking" => job'[v] = job[v]
    BY <1>5 DEF Empties, IInv, TypeOK, Idle, SetFlag
  <2>2. QED
    BY <1>5, <2>1, KeepsVisits DEF Has, row, told, SetFlag
<1>6. ASSUME NEW w \in Workers, Sweep(w)
      PROVE  VisitsHold'
  <2>1. Empties /\ \A v \in Workers : job[v].at = "marking" => job'[v] = job[v]
    BY <1>6 DEF Empties, IInv, TypeOK, Idle, Sweep
  <2>2. QED
    BY <1>6, <2>1, KeepsVisits DEF Has, row, told, Sweep
<1>7. ASSUME NEW w \in Workers, Collect(w)
      PROVE  VisitsHold'
  <2>1. Empties /\ \A v \in Workers : job[v].at = "marking" => job'[v] = job[v]
    BY <1>7 DEF Empties, IInv, TypeOK, Idle, Collect
  <2>2. QED
    BY <1>7, <2>1, KeepsVisits DEF Has, row, told, Collect
<1>8. ASSUME NEW w \in Workers, NEW s \in Subs, NewOrder(w, s)
      PROVE  VisitsHold'
  <2>1. Empties /\ \A v \in Workers : job[v].at = "marking" => job'[v] = job[v]
    BY <1>8 DEF Empties, IInv, TypeOK, Idle, NewOrder
  <2>2. QED
    BY <1>8, <2>1, KeepsVisits DEF Has, row, told, NewOrder
<1>9. ASSUME NEW w \in Workers, CollectVisits(w)
      PROVE  VisitsHold'
  <2>1. Empties /\ \A v \in Workers : job[v].at = "marking" => job'[v] = job[v]
    BY <1>9 DEF Empties, IInv, TypeOK, Idle, CollectVisits
  <2>2. QED
    BY <1>9, <2>1, KeepsVisits DEF Has, row, told, CollectVisits
<1>10. ASSUME NEW w \in Workers, NEW m \in job[w].items, Claim(w, m)
      PROVE  VisitsHold'
  <2>1. /\ m[2] # "visit" /\ UNCHANGED <<marks, loose, mailed, unanswered>> /\ job[w].at = "due"
        /\ \A v \in Workers : v # w => job'[v] = job[v]
        /\ job'[w].at = "due" \/ job'[w].msg = m
    BY <1>10, Claiming, TwoKinds DEF IInv, Turns, Takes, told
  <2>2. QED
    BY <2>1, ClaimsApart DEF Hand
<1>11. ASSUME NEW w \in Workers, NEW m \in job[w].items, LookUp(w, m)
      PROVE  VisitsHold'
  <2>1. /\ m \in Messages /\ m[2] = "visit" /\ UNCHANGED <<marks, mailed, unanswered>> /\ job[w].at = "due"
        /\ loose' = (IF Met(w, m) THEN loose \cup {m} ELSE loose)
        /\ \A v \in Workers : v # w => job'[v] = job[v]
        /\ \/ job'[w].at = "due"
           \/ job'[w].at = "found" /\ job'[w].msg = m /\ m \notin marks
    BY <1>11, Looking DEF IInv, Turns, Takes, told
  <2>2. CASE job'[w].at = "due"
    <3>1. \A v \in Workers, n \in Messages :
             /\ Has(v, {"marking"}, n)' <=> Has(v, {"marking"}, n)
             /\ Has(v, {"found", "mailing"}, n)' <=> Has(v, {"found", "mailing"}, n)
             /\ Has(v, InVisit, n)' <=> Has(v, InVisit, n)
      BY <2>1, <2>2 DEF Has, InVisit
    <3>2. QED
      BY <2>1, <3>1 DEF IInv, VisitsHold
  <2>3. CASE job'[w].at = "found" /\ job'[w].msg = m /\ m \notin marks
    <3>1. \A v \in Workers, n \in Messages :
             /\ Has(v, {"marking"}, n)' <=> Has(v, {"marking"}, n)
             /\ Has(v, {"found", "mailing"}, n)' <=>
                   IF v = w THEN n = m ELSE Has(v, {"found", "mailing"}, n)
             /\ Has(v, InVisit, n)' <=> IF v = w THEN n = m ELSE Has(v, InVisit, n)
      BY <2>1, <2>3 DEF Has, InVisit
    <3>2. m \notin loose' \cup unanswered' => \A v \in Workers : v # w => ~Has(v, InVisit, m)
      BY <2>1 DEF Met, Has, InVisit
    <3>3. m \notin loose' \cup unanswered' => mailed[m] = 0
      <4>1. ASSUME m \notin loose' \cup unanswered' PROVE \A v \in Workers : ~Has(v, {"marking"}, m)
        BY <2>1, <3>2, <4>1 DEF Has, InVisit
      <4>2. QED
        BY <2>1, <2>3, <4>1 DEF IInv, VisitsHold, TypeOK
    <3>4. ASSUME NEW n \in Messages, n[2] = "visit", n \notin loose' \cup unanswered'
          PROVE  /\ mailed'[n] <= 1
                 /\ mailed'[n] = 1 => n \in marks' \/ \E v \in Workers : Has(v, {"marking"}, n)'
                 /\ \A v \in Workers : Has(v, {"found", "mailing"}, n)' => mailed'[n] = 0
                 /\ \A u, v \in Workers : Has(u, InVisit, n)' /\ Has(v, InVisit, n)' => u = v
      <4>1. n \notin loose \cup unanswered
        BY <2>1, <3>4
      <4>2. CASE n = m
        BY <2>1, <3>1, <3>2, <3>3, <3>4, <4>2
      <4>3. CASE n # m
        BY <2>1, <3>1, <3>4, <4>1, <4>3 DEF IInv, VisitsHold
      <4>4. QED
        BY <4>2, <4>3
    <3>5. QED
      BY <3>4 DEF VisitsHold
  <2>4. QED
    BY <2>1, <2>2, <2>3
<1>12. ASSUME NEW w \in Workers, NEW m \in job[w].items, PassOver(w, m)
      PROVE  VisitsHold'
  <2>1. /\ Empties /\ UNCHANGED <<marks, mailed, unanswered>> /\ loose \subseteq loose' /\ job[w].at = "due"
        /\ \A v \in Workers : v # w => job'[v] = job[v]
    BY <1>12, Passing DEF IInv, Empties, Turns, told
  <2>2. QED
    BY <2>1, KeepsVisits DEF Has
<1>13. ASSUME NEW w \in Workers, Upsert(w)
      PROVE  VisitsHold'
  <2>1. PICK m \in Messages : m = job[w].msg
    BY <1>13, Upserting DEF IInv, told
  <2>2. /\ marks' = marks \ {m} /\ UNCHANGED <<loose, mailed, unanswered>> /\ job[w].at = "found"
        /\ \A v \in Workers : v # w => job'[v] = job[v]
        /\ job'[w].at = "mailing" /\ job'[w].msg = m
    BY <1>13, <2>1, Upserting DEF IInv, Turns, Takes, Upsert, told
  <2>3. \A v \in Workers, n \in Messages :
           /\ Has(v, {"marking"}, n)' <=> Has(v, {"marking"}, n)
           /\ Has(v, {"found", "mailing"}, n)' <=> Has(v, {"found", "mailing"}, n)
           /\ Has(v, InVisit, n)' <=> Has(v, InVisit, n)
    BY <2>1, <2>2 DEF Has, InVisit
  <2>4. Has(w, {"found", "mailing"}, m)
    BY <2>1, <2>2 DEF Has
  <2>5. ASSUME NEW n \in Messages, n[2] = "visit", n \notin loose' \cup unanswered'
        PROVE  mailed'[n] = 1 => n \in marks' \/ \E v \in Workers : Has(v, {"marking"}, n)'
    BY <2>2, <2>3, <2>4, <2>5 DEF IInv, VisitsHold
  <2>6. QED
    BY <2>2, <2>3, <2>5 DEF IInv, VisitsHold
<1>14. ASSUME NEW w \in Workers, Mail(w)
      PROVE  VisitsHold'
  <2>1. PICK m \in Messages : m = job[w].msg
    BY <1>14, Mailing DEF IInv, told
  <2>2. /\ UNCHANGED <<marks, loose, unanswered>> /\ job[w].at = "mailing"
        /\ \A n \in Messages : n # m => mailed'[n] = mailed[n]
        /\ mailed[m] = 0 => mailed'[m] = 1
        /\ \A v \in Workers : v # w => job'[v] = job[v]
    BY <1>14, <2>1, Mailing DEF IInv, Turns, Takes, MailsOne
  <2>3. CASE m[2] # "visit"
    <3>1. job'[w].at = "due"
      BY <1>14, <2>1, <2>3, Mailing DEF IInv, Turns
    <3>2. QED
      BY <2>1, <2>2, <2>3, <3>1, ClaimsApart DEF Hand
  <2>4. CASE m[2] = "visit"
    <3>1. job'[w].at = "marking" /\ job'[w].msg = m
      BY <1>14, <2>1, <2>4, Mailing DEF IInv, Turns, Takes
    <3>2. \A v \in Workers, n \in Messages :
             /\ Has(v, {"marking"}, n)' <=> IF v = w THEN n = m ELSE Has(v, {"marking"}, n)
             /\ Has(v, {"found", "mailing"}, n)' <=> v # w /\ Has(v, {"found", "mailing"}, n)
             /\ Has(v, InVisit, n)' <=> Has(v, InVisit, n)
      BY <2>1, <2>2, <3>1 DEF Has, InVisit
    <3>3. Has(w, {"found", "mailing"}, m) /\ Has(w, InVisit, m)
      BY <2>1, <2>2 DEF Has, InVisit
    <3>4. ASSUME NEW n \in Messages, n[2] = "visit", n \notin loose' \cup unanswered'
          PROVE  /\ mailed'[n] <= 1
                 /\ mailed'[n] = 1 => n \in marks' \/ \E v \in Workers : Has(v, {"marking"}, n)'
                 /\ \A v \in Workers : Has(v, {"found", "mailing"}, n)' => mailed'[n] = 0
                 /\ \A u, v \in Workers : Has(u, InVisit, n)' /\ Has(v, InVisit, n)' => u = v
      <4>1. CASE n = m
        <5>1. mailed'[n] = 1 /\ \A v \in Workers : v # w => ~Has(v, InVisit, n)
          BY <2>2, <3>3, <3>4, <4>1 DEF IInv, VisitsHold
        <5>2. \A v \in Workers : ~Has(v, {"found", "mailing"}, n)'
          BY <3>2, <5>1 DEF Has, InVisit
        <5>3. QED
          BY <3>2, <4>1, <5>1, <5>2
      <4>2. CASE n # m
        <5>1. /\ mailed'[n] <= 1
              /\ \A v \in Workers : Has(v, {"found", "mailing"}, n)' => mailed'[n] = 0
              /\ \A u, v \in Workers : Has(u, InVisit, n)' /\ Has(v, InVisit, n)' => u = v
          BY <2>2, <3>2, <3>4, <4>2 DEF IInv, VisitsHold
        <5>2. \A v \in Workers : Has(v, {"marking"}, n)' <=> Has(v, {"marking"}, n)
          BY <3>2, <3>3, <4>2 DEF Has
        <5>3. mailed'[n] = 1 => n \in marks' \/ \E v \in Workers : Has(v, {"marking"}, n)'
          BY <2>2, <3>4, <4>2, <5>2 DEF IInv, VisitsHold
        <5>4. QED
          BY <5>1, <5>3
      <4>3. QED
        BY <4>1, <4>2
    <3>5. QED
      BY <3>4 DEF VisitsHold
  <2>5. QED
    BY <2>3, <2>4
<1>15. ASSUME NEW w \in Workers, MailFails(w)
      PROVE  VisitsHold'
  <2>1. PICK m \in Messages : m = job[w].msg
    BY <1>15, Failing DEF IInv, told
  <2>2. /\ UNCHANGED <<marks, loose>> /\ job[w].at = "mailing" /\ unanswered \subseteq unanswered'
        /\ \A n \in Messages : n[2] = "visit" /\ n \notin unanswered' => mailed'[n] = mailed[n]
        /\ \A v \in Workers : v # w => job'[v] = job[v]
        /\ \/ job'[w].at = "failed" /\ job'[w].msg = m /\ m[2] # "visit"
           \/ job'[w].at = "due"
    BY <1>15, <2>1, Failing, TwoKinds DEF IInv, Turns, Takes, MailsOne, Claimed
  <2>3. \A v \in Workers, n \in Messages :
           n[2] = "visit" =>
              /\ Has(v, {"marking"}, n)' <=> Has(v, {"marking"}, n)
              /\ Has(v, {"found", "mailing"}, n)' => Has(v, {"found", "mailing"}, n)
              /\ Has(v, InVisit, n)' => Has(v, InVisit, n)
    BY <2>1, <2>2 DEF Has, InVisit
  <2>4. QED
    BY <2>2, <2>3 DEF IInv, VisitsHold
<1>16. ASSUME NEW w \in Workers, Release(w)
      PROVE  VisitsHold'
  <2>1. /\ job[w].msg[2] # "visit" /\ UNCHANGED <<marks, loose, mailed, unanswered>> /\ job'[w].at = "due"
        /\ \A v \in Workers : v # w => job'[v] = job[v]
    BY <1>16, Ending, TwoKinds DEF IInv, ClaimsHold, ClaimHolds, Claimed, Turns, Release, told
  <2>2. QED
    BY <2>1, ClaimsApart DEF Hand
<1>17. ASSUME NEW w \in Workers, Mark(w)
      PROVE  VisitsHold'
  <2>1. /\ Empties /\ UNCHANGED <<loose, mailed, unanswered>> /\ marks' = marks \cup {job[w].msg}
        /\ \A v \in Workers : v # w => job'[v] = job[v]
    BY <1>17, Ending DEF IInv, Empties, Turns, Mark, told
  <2>2. QED
    BY <2>1, KeepsVisits DEF Has
<1>18. ASSUME NEW w \in Workers, Finish(w)
      PROVE  VisitsHold'
  <2>1. /\ Empties /\ UNCHANGED <<loose, mailed, unanswered, marks>> /\ job[w].at = "due"
        /\ \A v \in Workers : v # w => job'[v] = job[v]
    BY <1>18, Finishing DEF IInv, Empties, Turns, Finish, told
  <2>2. QED
    BY <2>1, KeepsVisits DEF Has
<1>19. ASSUME NEW w \in Workers, CutShort(w)
      PROVE  VisitsHold'
  <2>1. /\ Empties /\ UNCHANGED <<marks, mailed, unanswered>> /\ loose \subseteq loose'
        /\ job[w].at = "marking" => job[w].msg \in loose'
        /\ \A v \in Workers : v # w => job'[v] = job[v]
    BY <1>19, Cutting DEF IInv, Empties, Turns, told
  <2>2. QED
    BY <2>1, KeepsVisits DEF Has
<1>20. CASE UNCHANGED vars
  BY <1>20 DEF IInv, VisitsHold, Has, InVisit, row, told, vars
<1>21. QED
  BY <1>1, <1>2, <1>3, <1>4, <1>5, <1>6, <1>7, <1>8, <1>9, <1>10,
     <1>11, <1>12, <1>13, <1>14, <1>15, <1>16, <1>17, <1>18, <1>19, <1>20 DEF Next, RunStep, Deliver

\* Only who had not cancelled gets on a run's list.
LEMMA NextAsked == ASSUME IInv, [Next]_vars PROVE AskedInTime'
<1>1. CASE NewDay
  <2>1. today \in Days /\ today' = today + 1 /\ UNCHANGED <<flag, asked, job>>
    BY <1>1 DEF IInv, TypeOK, row, told, NewDay
  <2>2. ASSUME NEW v \in Workers, job[v].at # "idle" PROVE job[v].day \in Days /\ job[v].day <= today'
    BY <2>1, <2>2, Hands DEF IInv, AskedInTime, Days
  <2>3. QED
    BY <2>1, <2>2 DEF IInv, AskedInTime, Has
<1>2. ASSUME NEW s \in Subs, NEW first \in 0..(Horizon - 1), Schedule(s, first)
      PROVE  AskedInTime'
  BY <1>2 DEF IInv, AskedInTime, Has, Schedule
<1>3. ASSUME NEW s \in Subs, CancelVisit(s)
      PROVE  AskedInTime'
  BY <1>3 DEF IInv, AskedInTime, Has, CancelVisit
<1>4. ASSUME NEW s \in Subs, Renew(s)
      PROVE  AskedInTime'
  BY <1>4 DEF IInv, AskedInTime, Has, Renew
<1>5. ASSUME NEW s \in Subs, NEW cancel \in BOOLEAN, SetFlag(s, cancel)
      PROVE  AskedInTime'
  <2>1. /\ today \in Days /\ UNCHANGED <<today, job>>
        /\ \A t \in Subs : t # s => flag'[t] = flag[t] /\ asked'[t] = asked[t]
        /\ flag'[s] => asked'[s] = today
    BY <1>5 DEF IInv, TypeOK, SetFlag, AskedOn
  <2>2. \A t \in Subs : flag'[t] => asked'[t] \in Days
    BY <2>1 DEF IInv, AskedInTime
  <2>3. ASSUME NEW v \in Workers, job[v].at # "idle", NEW m \in Messages,
               m[2] \in Ladder, flag'[m[1]], m \in job[v].items \/ Has(v, Hand, m)
        PROVE  asked'[m[1]] >= job[v].day
    <3>1. m[1] \in Subs /\ job[v].day \in Days /\ job[v].day <= today
      BY <2>3, Hands DEF IInv, AskedInTime, Messages
    <3>2. CASE m[1] = s
      BY <2>1, <2>3, <3>1, <3>2 DEF Days
    <3>3. CASE m[1] # s
      BY <2>1, <2>3, <3>1, <3>3 DEF IInv, AskedInTime, Hand
    <3>4. QED
      BY <3>2, <3>3
  <2>4. QED
    BY <2>1, <2>2, <2>3 DEF IInv, AskedInTime, Has, Hand
<1>6. ASSUME NEW w \in Workers, Sweep(w)
      PROVE  AskedInTime'
  <2>1. /\ today \in Days /\ UNCHANGED <<today, flag, asked>>
        /\ job'[w].day = today /\ job'[w].at \in {"swept", "due"}
        /\ \A v \in Workers : v # w => job'[v] = job[v]
        /\ \A m \in job'[w].items : m[2] \notin Ladder
    BY <1>6 DEF IInv, TypeOK, row, told, Ladder, Sweep
  <2>2. QED
    BY <2>1 DEF IInv, AskedInTime, Has, Days
<1>7. ASSUME NEW w \in Workers, Collect(w)
      PROVE  AskedInTime'
  <2>1. /\ UNCHANGED <<today, flag, asked>> /\ job[w].at = "swept"
        /\ job'[w].day = job[w].day /\ job'[w].at = "due"
        /\ \A v \in Workers : v # w => job'[v] = job[v]
    BY <1>7 DEF IInv, TypeOK, row, told, Collect
  <2>2. \A m \in job'[w].items : m[2] \in Ladder => ~flag[m[1]]
    BY <1>7, RemindersAssumption DEF IInv, TypeOK, Collect, Chased, Ladder, Nudges
  <2>3. QED
    BY <2>1, <2>2 DEF IInv, AskedInTime, Has
<1>8. ASSUME NEW w \in Workers, NEW s \in Subs, NewOrder(w, s)
      PROVE  AskedInTime'
  <2>1. /\ today \in Days /\ UNCHANGED <<today, flag, asked>>
        /\ job'[w].day <= today /\ job'[w].at \in {"swept", "due"}
        /\ \A v \in Workers : v # w => job'[v] = job[v]
        /\ \A m \in job'[w].items : m[2] \notin Ladder
    BY <1>8 DEF IInv, TypeOK, row, told, Undated, Days, Ladder, NewOrder
  <2>2. QED
    BY <2>1 DEF IInv, AskedInTime, Has, Days
<1>9. ASSUME NEW w \in Workers, CollectVisits(w)
      PROVE  AskedInTime'
  <2>1. /\ today \in Days /\ UNCHANGED <<today, flag, asked>>
        /\ job'[w].day <= today /\ job'[w].at \in {"swept", "due"}
        /\ \A v \in Workers : v # w => job'[v] = job[v]
        /\ \A m \in job'[w].items : m[2] \notin Ladder
    BY <1>9 DEF IInv, TypeOK, row, told, Undated, Days, Ladder, CollectVisits
  <2>2. QED
    BY <2>1 DEF IInv, AskedInTime, Has, Days
<1>10. ASSUME NEW w \in Workers, NEW m \in job[w].items, Claim(w, m)
      PROVE  AskedInTime'
  <2>1. job[w].at # "idle"
    BY <1>10, Claiming DEF IInv, Claim
  <2>2. QED
    BY <1>10, <2>1, Claiming, KeepsAsked DEF IInv, Takes, Hand, row, told
<1>11. ASSUME NEW w \in Workers, NEW m \in job[w].items, LookUp(w, m)
      PROVE  AskedInTime'
  <2>1. job[w].at # "idle"
    BY <1>11, Looking DEF IInv, LookUp
  <2>2. QED
    BY <1>11, <2>1, Looking, KeepsAsked DEF IInv, Takes, Hand, row, told
<1>12. ASSUME NEW w \in Workers, NEW m \in job[w].items, PassOver(w, m)
      PROVE  AskedInTime'
  <2>1. job[w].at # "idle"
    BY <1>12, Passing DEF IInv, PassOver
  <2>2. QED
    BY <1>12, <2>1, Passing, KeepsAsked DEF IInv, Takes, Hand, row, told
<1>13. ASSUME NEW w \in Workers, Upsert(w)
      PROVE  AskedInTime'
  <2>1. job[w].at # "idle"
    BY <1>13, Upserting DEF IInv, Upsert
  <2>2. QED
    BY <1>13, <2>1, Upserting, KeepsAsked DEF IInv, Takes, Hand, row, told, Upsert
<1>14. ASSUME NEW w \in Workers, Mail(w)
      PROVE  AskedInTime'
  <2>1. job[w].at # "idle"
    BY <1>14, Mailing DEF IInv, Mail
  <2>2. QED
    BY <1>14, <2>1, Mailing, KeepsAsked DEF IInv, Takes, Hand, row, told, Mail
<1>15. ASSUME NEW w \in Workers, MailFails(w)
      PROVE  AskedInTime'
  <2>1. job[w].at # "idle"
    BY <1>15, Failing DEF IInv, MailFails
  <2>2. QED
    BY <1>15, <2>1, Failing, KeepsAsked DEF IInv, Takes, Hand, row, told
<1>16. ASSUME NEW w \in Workers, Release(w)
      PROVE  AskedInTime'
  <2>1. job[w].at # "idle"
    BY <1>16, Ending DEF IInv, Release
  <2>2. QED
    BY <1>16, <2>1, Ending, KeepsAsked DEF IInv, Takes, Hand, row, told, Release
<1>17. ASSUME NEW w \in Workers, Mark(w)
      PROVE  AskedInTime'
  <2>1. job[w].at # "idle"
    BY <1>17, Ending DEF IInv, Mark
  <2>2. QED
    BY <1>17, <2>1, Ending, KeepsAsked DEF IInv, Takes, Hand, row, told, Mark
<1>18. ASSUME NEW w \in Workers, Finish(w)
      PROVE  AskedInTime'
  <2>1. job[w].at # "idle"
    BY <1>18, Finishing DEF IInv, Finish
  <2>2. QED
    BY <1>18, <2>1, Finishing, KeepsAsked DEF IInv, Takes, Hand, row, told, Finish
<1>19. ASSUME NEW w \in Workers, CutShort(w)
      PROVE  AskedInTime'
  <2>1. job[w].at # "idle"
    BY <1>19, Cutting DEF IInv, CutShort
  <2>2. QED
    BY <1>19, <2>1, Cutting, KeepsAsked DEF IInv, Takes, Hand, row, told
<1>20. CASE UNCHANGED vars
  BY <1>20 DEF IInv, AskedInTime, Has, row, told, vars
<1>21. QED
  BY <1>1, <1>2, <1>3, <1>4, <1>5, <1>6, <1>7, <1>8, <1>9, <1>10,
     <1>11, <1>12, <1>13, <1>14, <1>15, <1>16, <1>17, <1>18, <1>19, <1>20 DEF Next, RunStep, Deliver

\* The invariant holds in every reachable state.
THEOREM Invariance == Spec => []IInv
<1>1. IInv /\ [Next]_vars => IInv'
  BY NextType, NextClaims, NextNotices, NextVisits, NextAsked DEF IInv
<1>2. QED
  BY <1>1, InitInv, PTL DEF Spec

\* Every variable keeps its type.
THEOREM TypeCorrect == Spec => []TypeOK
BY Invariance, PTL DEF IInv

\* A message with a claim is mailed once at most, and then stays claimed, whatever
\* runs at once, is killed and is repeated, but for the daily reminder whose mail was
\* accepted with its answer lost; its notice is repeated only after a failed mail.
THEOREM ClaimedIsMailedOnce == Spec => []MailedOnce
<1>1. IInv => MailedOnce
  BY DEF IInv, ClaimsHold, ClaimHolds, NoticesHold, MailedOnce
<1>2. QED
  BY <1>1, Invariance, PTL

\* A visit's reminder is mailed twice only if two runs met over it, a mark failed, or
\* the answer to its mail was lost.
THEOREM VisitsRemindedOnce == Spec => []RemindedOnce
<1>1. IInv => RemindedOnce
  BY DEF IInv, VisitsHold, RemindedOnce
<1>2. QED
  BY <1>1, Invariance, PTL

\* No run writes about the end of a plan to a customer who cancelled before its day.
THEOREM CancelledAreLeftInPeace == Spec => NoNagging
<1>1. ASSUME IInv, [Next]_vars, NEW s \in Subs, NEW stage \in Ladder \cap Watched, NEW w \in Workers,
             job[w].at = "mailing", job[w].msg = <<s, stage>>, flag[s]
      PROVE  asked[s] >= job[w].day
  <2>1. <<s, stage>> \in Messages /\ Has(w, {"found", "mailing", "failed", "marking"}, <<s, stage>>)
    BY <1>1 DEF Messages, Has
  <2>2. QED
    BY <1>1, <2>1 DEF IInv, AskedInTime
<1>2. IInv /\ [Next]_vars =>
        [\A s \in Subs, stage \in Ladder \cap Watched, w \in Workers :
            /\ job[w].at = "mailing" /\ job[w].msg = <<s, stage>>
            /\ mailed' # mailed /\ job'[w] # job[w]
            => (flag[s] => asked[s] >= job[w].day)]_vars
  BY <1>1
<1>3. QED
  BY <1>2, Invariance, PTL DEF Spec, NoNagging
=============================================================================
