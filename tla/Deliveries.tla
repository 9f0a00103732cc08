------------------------------ MODULE Deliveries ------------------------------
(* The meals of food plans, in two tables: service_occurrences is the day's    *)
(* work a provider sees, food_delivery_logs says what became of a delivery.    *)
(* A provider marks, moves and removes deliveries by                           *)
(* src/src/account/occurrences.service.ts, which writes the log where there is *)
(* one or ought to be one; a trigger mirrors every write of a log into the     *)
(* occurrence; a generator makes the occurrences of the days ahead, whenever   *)
(* somebody asks for it and whenever any plan is sold.                         *)
(* Requests are jobs of a worker, split at each call to the database. Days are *)
(* the business's; a delivery late in the evening is on the next day in UTC.   *)
EXTENDS Integers, FiniteSets

CONSTANTS
    Meals,       \* a meal of a plan: subscription and item_key
    Servers,
    Marks,       \* bound: statuses a provider sets, of STATUSES
    LastDay,     \* the plans' last day
    MaxBorn,     \* bound: rows ever made for a meal and day
    MaxRequests, \* bound: requests in all
    MaxFaults,   \* bound: failures and kills
    Absent

STATUSES == {"scheduled", "done", "failed", "cancelled", "rescheduled"}
Days == 1..LastDay
LogDays == 1..(LastDay + 1)

\* Rows of either table, by the meal and day they were made for.
Ids == Meals \X LogDays \X (1..MaxBorn)
MealOf(i) == i[1]

Row == [day: LogDays, late: BOOLEAN, status: STATUSES, record: Ids \cup {Absent}]
Log == [day: LogDays, status: STATUSES]

ASSUME DeliveriesAssumption ==
    /\ Marks \subseteq STATUSES
    /\ {LastDay, MaxBorn} \subseteq Nat \ {0}
    /\ {MaxRequests, MaxFaults} \subseteq Nat
    /\ Absent \notin Ids \cup Row \cup Log

VARIABLES
    today,
    evening,  \* meals their provider serves late
    row,      \* service_occurrences
    made,     \* ids of rows ever made
    log,      \* food_delivery_logs
    job,      \* the request every worker serves
    again,    \* ghost: rows generated for a day that had one, and rows moved
    torn,     \* ghost: logs whose row was written and they were not, or the reverse
    overtaken, \* ghost: logs made while a move had their row loaded, unmarked
    requests,
    faults

tables == <<row, made, log>>
ghosts == <<again, torn, overtaken>>
deliveryVars == <<today, evening, tables, job, ghosts, requests, faults>>

Idle == [at |-> "idle"]
When == [day: Days, late: BOOLEAN]

\* What a worker knows between two awaits: the row as it was loaded.
Jobs ==
    {Idle}
    \cup [at: {"marking"}, id: Ids, seen: Row, mark: STATUSES, removes: BOOLEAN]
    \cup [at: {"cancelling", "deleting"}, id: Ids]
    \cup [at: {"moving", "filing"}, id: Ids, seen: Row, to: When]

DeliveriesTypeOK ==
    /\ today \in Days
    /\ evening \subseteq Meals
    /\ row \in [Ids -> Row \cup {Absent}]
    /\ made \subseteq Ids
    /\ log \in [Ids -> Log \cup {Absent}]
    /\ job \in [Servers -> Jobs]
    /\ again \subseteq Ids /\ torn \subseteq Ids /\ overtaken \subseteq Ids
    /\ requests \in 0..MaxRequests /\ faults \in 0..MaxFaults

DeliveriesInit ==
    /\ today = 1
    /\ evening \in SUBSET Meals
    /\ row = [i \in Ids |-> Absent] /\ made = {}
    /\ log = [l \in Ids |-> Absent]
    /\ job = [w \in Servers |-> Idle]
    /\ again = {} /\ torn = {} /\ overtaken = {}
    /\ requests = 0 /\ faults = 0

Live == {i \in Ids : row[i] # Absent}
Shown(m, d) == {i \in Live : MealOf(i) = m /\ row[i].day = d}
Unmarked(m, d) == {i \in Shown(m, d) : row[i].record = Absent}
Own(l) == {i \in Live : row[i].record = l}
LogsOf(m, d) == {l \in Ids : log[l] # Absent /\ MealOf(l) = m /\ log[l].day = d}

\* Mutant: a zone ahead of the business's, where every delivery is a day later.
UtcDay_Ahead(when) == when.day + 1

UtcDay(when) == IF when.late THEN when.day + 1 ELSE when.day

\* The id of the next row made for a meal and a day.
NextId(m, d, used) == <<m, d, Cardinality({i \in used : i[1] = m /\ i[2] = d}) + 1>>

Do(w, j) == job' = [job EXCEPT ![w] = j]
Ends(w) == Do(w, Idle)
At(w, step) == job[w].at = step

\* A request begins by loading its row; one that is gone is refused.
Asks(w, i) ==
    /\ job[w] = Idle /\ i \in Live
    /\ requests < MaxRequests /\ requests' = requests + 1
-----------------------------------------------------------------------------
NewDay ==
    /\ today < LastDay /\ today' = today + 1
    /\ UNCHANGED <<evening, tables, job, ghosts, requests, faults>>

\* generate_food_occurrences, all plans at once: every day from today gets a row
\* "on conflict do nothing", and the index knows unmarked rows only.
Generate ==
    LET due == {k \in Meals \X (today..LastDay) : Unmarked(k[1], k[2]) = {}}
        new == {NextId(k[1], k[2], made) : k \in due}
    IN  /\ due # {} /\ new \subseteq Ids
        /\ row' = [i \in Ids |->
               IF i \in new
               THEN [day |-> i[2], late |-> i[1] \in evening,
                     status |-> "scheduled", record |-> Absent]
               ELSE row[i]]
        /\ made' = made \cup new
        /\ again' = again \cup {i \in new : Shown(i[1], i[2]) # {}}
        /\ UNCHANGED <<today, evening, log, job, torn, overtaken, requests, faults>>

\* Mutant: a generated row is not adopted.
FindOccurrence_Own(l, d) == Own(l)

\* mirror_find_occurrence: the row of this log, or else an unmarked one of the day.
FindOccurrence(l, d) == IF Own(l) # {} THEN Own(l) ELSE Unmarked(MealOf(l), d)

MirroredRow(l, d, status) ==
    [day |-> d, late |-> MealOf(l) \in evening, status |-> status, record |-> l]

\* mirror_legacy_occurrence: the row found is overwritten, or one is inserted.
Mirror(l, d, status) ==
    LET found == FindOccurrence(l, d)
        i == IF found # {} THEN CHOOSE f \in found : TRUE ELSE NextId(MealOf(l), d, made)
    IN  /\ i \in Ids
        /\ row' = [row EXCEPT ![i] = MirroredRow(l, d, status)]
        /\ made' = made \cup {i}
        /\ torn' = torn \ {l} /\ overtaken' = overtaken \ {l}
        /\ UNCHANGED faults

\* A write of a log and, in the same transaction, its trigger, whose errors are
\* swallowed: the log stands without its mirror.
WriteLog(l, d, status) ==
    /\ l \in Ids
    /\ log' = [log EXCEPT ![l] = [day |-> d, status |-> status]]
    /\ \/ Mirror(l, d, status)
       \/ /\ faults < MaxFaults /\ faults' = faults + 1
          /\ torn' = torn \cup {l}
          /\ UNCHANGED <<row, made, overtaken>>
-----------------------------------------------------------------------------
\* setStatus: the row is loaded ...
MarkAs(w, i, mark, removes) ==
    Do(w, [at |-> "marking", id |-> i, seen |-> row[i], mark |-> mark, removes |-> removes])

MarkRead(w, i, mark) ==
    /\ Asks(w, i)
    /\ MarkAs(w, i, mark, FALSE)
    /\ UNCHANGED <<today, evening, tables, ghosts, faults>>

\* What a mark is called in the log, and so in the list: "?? pending".
Filed(mark) == IF mark = "rescheduled" THEN "scheduled" ELSE mark

\* ... and upsertFoodLog writes its log, or the one of its meal and UTC day,
\* which is made if there is none.
MarkWrite(w) ==
    LET j == job[w]
        m == MealOf(j.id)
        d == UtcDay(j.seen)
    IN  /\ At(w, "marking")
        /\ IF j.seen.record # Absent
           THEN WriteLog(j.seen.record, log[j.seen.record].day, Filed(j.mark))
           ELSE \/ \E l \in LogsOf(m, d) : WriteLog(l, d, Filed(j.mark))
                \/ /\ LogsOf(m, d) = {}
                   /\ WriteLog(NextId(m, d, {l \in Ids : log[l] # Absent}), d, Filed(j.mark))
        /\ IF j.removes THEN Do(w, [at |-> "deleting", id |-> j.id]) ELSE Ends(w)
        /\ UNCHANGED <<today, evening, again, requests>>

\* remove: what is not cancelled yet is cancelled first, by setStatus, and then
\* the row is deleted. Its log stays.
RemoveRead(w, i) ==
    /\ Asks(w, i)
    /\ Do(w, [at |-> IF row[i].status = "cancelled" THEN "deleting" ELSE "cancelling",
              id |-> i])
    /\ UNCHANGED <<today, evening, tables, ghosts, faults>>

RemoveCancel(w) ==
    /\ At(w, "cancelling")
    /\ IF job[w].id \in Live THEN MarkAs(w, job[w].id, "cancelled", TRUE) ELSE Ends(w)
    /\ UNCHANGED <<today, evening, tables, ghosts, requests, faults>>

RemoveRow(w) ==
    /\ At(w, "deleting")
    /\ row' = [row EXCEPT ![job[w].id] = Absent]
    /\ Ends(w)
    /\ UNCHANGED <<today, evening, made, log, ghosts, requests, faults>>

\* reschedule: the row is loaded; then written by id, with the status it had;
\* then its log, if it had one, is filed under the new day.
MoveRead(w, i, to) ==
    /\ Asks(w, i)
    /\ Do(w, [at |-> "moving", id |-> i, seen |-> row[i], to |-> to])
    /\ UNCHANGED <<today, evening, tables, ghosts, faults>>

\* Mutant: only what is still to be delivered takes its log along.
Files_Open(seen) == seen.record # Absent /\ seen.status = "scheduled"

Files(seen) == seen.record # Absent

MoveRow(w) ==
    LET j == job[w]
        i == j.id
        refused == /\ i \in Live /\ row[i].record = Absent
                   /\ Unmarked(MealOf(i), j.to.day) \ {i} # {}
    IN  /\ At(w, "moving")
        /\ IF i \in Live /\ ~refused
           THEN /\ row' = [row EXCEPT ![i].day = j.to.day, ![i].late = j.to.late,
                                      ![i].status = j.seen.status]
                /\ again' = again \cup {i}
                /\ overtaken' = IF j.seen.record = Absent
                                THEN overtaken \cup ({row[i].record} \ {Absent})
                                ELSE overtaken
           ELSE UNCHANGED <<row, again, overtaken>>
        /\ IF Files(j.seen) /\ ~refused THEN Do(w, [j EXCEPT !.at = "filing"])
           ELSE Ends(w)
        /\ UNCHANGED <<today, evening, made, log, torn, requests, faults>>

MoveLog(w) ==
    LET l == job[w].seen.record
        d == UtcDay(job[w].to)
    IN  /\ At(w, "filing")
        /\ IF LogsOf(MealOf(l), d) \subseteq {l} THEN WriteLog(l, d, log[l].status)
           ELSE torn' = torn \cup {l} /\ UNCHANGED <<tables, overtaken, faults>>
        /\ again' = again \cup Own(l)
        /\ Ends(w)
        /\ UNCHANGED <<today, evening, requests>>

\* A call fails or is killed.
RequestDies(w) ==
    /\ job[w] # Idle /\ faults < MaxFaults
    /\ torn' = IF At(w, "filing") THEN torn \cup {job[w].seen.record} ELSE torn
    /\ faults' = faults + 1
    /\ Ends(w)
    /\ UNCHANGED <<today, evening, tables, again, overtaken, requests>>

DeliveriesNext ==
    \/ NewDay \/ Generate
    \/ \E w \in Servers :
          \/ MarkWrite(w) \/ RemoveCancel(w) \/ RemoveRow(w) \/ MoveRow(w) \/ MoveLog(w)
          \/ RequestDies(w)
          \/ \E i \in Ids :
                \/ \E mark \in Marks : MarkRead(w, i, mark)
                \/ RemoveRead(w, i)
                \/ \E to \in When : MoveRead(w, i, to)

DeliveriesSpec == DeliveriesInit /\ [][DeliveriesNext]_deliveryVars
-----------------------------------------------------------------------------
\* "One writer per fact, so the two cannot drift" (OccurrencesService): a marked
\* delivery says what its log says and is on the log's day, whoever marks, moves
\* and generates at once, until the log is written again, unless
\*   - the second write of a move is still to come, or failed, or the mirror did;
\*   - the mark was made while a move had the row loaded without one: the move then
\*     gives the row the old status and its new day, leaves the log alone, and ends
\*     well.
MirrorAgrees ==
    \A i \in Live :
        LET l == row[i].record
        IN  l # Absent =>
                \/ row[i].day = log[l].day /\ row[i].status = log[l].status
                \/ l \in torn \cup overtaken
                \/ \E w \in Servers : At(w, "filing") /\ job[w].seen.record = l

\* "The log ADOPTS the generated occurrence rather than duplicating it"
\* (mirror_find_occurrence): a day shows a meal twice only where the generator
\* made it a second row, or a delivery was moved there.
AdoptedNotDuplicated ==
    \A i, j \in Live :
        /\ MealOf(i) = MealOf(j) /\ row[i].day = row[j].day /\ i # j
        => {i, j} \cap again # {}

\* What a provider marks is what the list shows afterwards, although the mark
\* goes to another table and comes back by a trigger: unless the delivery is
\* late, was moved meanwhile, or has its log on another day, or its day a log that
\* is another row's. One mark never lands: "rescheduled", which setStatus takes and
\* the log has no name for.
MarkLands ==
    [][\A w \in Servers :
        LET i == job[w].id
            seen == job[w].seen
            own == /\ \A l \in LogsOf(MealOf(i), seen.day) : Own(l) \subseteq {i}
                   /\ row[i].record # Absent => log[row[i].record].day = seen.day
        IN  /\ MarkWrite(w) /\ faults' = faults
            /\ i \in Live /\ row[i].day = seen.day /\ ~seen.late
            /\ own /\ job[w].mark # "rescheduled"
            => row'[i].status = job[w].mark]_deliveryVars
=============================================================================
