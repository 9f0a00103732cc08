------------------------------- MODULE Outbox -------------------------------
(* The transactional outbox of src/src/events: EventBusService.publish appends *)
(* rows to domain_events and OutboxDispatcherService.drain delivers them.      *)
(* Every publish starts a drain of its own (fire and forget) and a cron starts *)
(* another, each in its own serverless instance, so drains run concurrently;   *)
(* a drain is split at every await.                                            *)
EXTENDS Integers, FiniteSets

CONSTANTS
    Events,       \* the domain events the business code may publish
    Consumers,    \* EventSubscriberRegistry: the registered handlers
    Subs,         \* Subs[e]: the handlers for which handles(e.type) is true
    Drains,       \* the drain invocations that may be in progress at once
    Limits,       \* batch sizes: 25 after a publish, 200 from the cron
    MaxAttempts,  \* OutboxDispatcherService.MAX_ATTEMPTS (5 in the code)
    MaxFaults,    \* bound: instances killed or database calls failing
    None          \* the value of a drain's event and consumer when it has none

ASSUME OutboxAssumption ==
    /\ IsFiniteSet(Events)
    /\ Subs \in [Events -> SUBSET Consumers]
    /\ Limits \subseteq Nat \ {0}
    /\ MaxAttempts \in Nat \ {0}
    /\ MaxFaults \in Nat
    /\ None \notin Events \cup Consumers

VARIABLES
    occurredAt,  \* domain_events.occurred_at, 0 while the event has no row
    dropped,     \* events whose insert failed: publish logs it and returns
    published,   \* domain_events.published_at is set
    delivery,    \* domain_event_deliveries, by <<event, consumer>>
    pc,          \* where every drain stands; the others are its local variables
    batch,       \* rows: the snapshot still to go through
    event,       \* row: the event in hand
    todo,        \* its handlers still to come
    consumer,    \* handler: the one in hand
    seen,        \* existing?.attempts ?? 0
    blocking,    \* a handler of the row is left to retry
    served,      \* ghost: how often handle(e) returned, per <<e, c>>
    tries,       \* ghost: how often handle(e) was called, per <<e, c>>
    faults       \* ghost: faults so far

local == <<batch, event, todo, consumer, seen, blocking>>
vars == <<occurredAt, dropped, published, delivery, pc, local, served, tries, faults>>
rows == <<occurredAt, dropped, published, delivery>>
ghosts == <<served, tries>>

Pairs == Events \X Consumers
Stored == {e \in Events : occurredAt[e] > 0}
Unpublished == Stored \ published

NoRow == [status |-> "none", attempts |-> 0]
InHandler == {"call", "returned", "threw"}
InRow == {"handlers"} \cup InHandler

TypeOK ==
    /\ occurredAt \in [Events -> Nat]
    /\ dropped \subseteq Events
    /\ published \subseteq Events
    /\ delivery \in [Pairs -> [status : {"none", "failed", "delivered", "dead"},
                               attempts : Nat]]
    /\ pc \in [Drains -> {"idle", "rows"} \cup InRow]
    /\ batch \in [Drains -> SUBSET Events]
    /\ event \in [Drains -> Events \cup {None}]
    /\ todo \in [Drains -> SUBSET Consumers]
    /\ consumer \in [Drains -> Consumers \cup {None}]
    /\ seen \in [Drains -> Nat]
    /\ blocking \in [Drains -> BOOLEAN]
    /\ served \in [Pairs -> Nat]
    /\ tries \in [Pairs -> Nat]
    /\ faults \in Nat

Init ==
    /\ occurredAt = [e \in Events |-> 0]
    /\ dropped = {}
    /\ published = {}
    /\ delivery = [p \in Pairs |-> NoRow]
    /\ pc = [d \in Drains |-> "idle"]
    /\ batch = [d \in Drains |-> {}]
    /\ event = [d \in Drains |-> None]
    /\ todo = [d \in Drains |-> {}]
    /\ consumer = [d \in Drains |-> None]
    /\ seen = [d \in Drains |-> 0]
    /\ blocking = [d \in Drains |-> FALSE]
    /\ served = [p \in Pairs |-> 0]
    /\ tries = [p \in Pairs |-> 0]
    /\ faults = 0

-----------------------------------------------------------------------------
\* EventBusService.publish: the row is inserted, or the error is swallowed and
\* the event is gone. The inline drain it starts is a StartDrain of some drain.
Publish(e) ==
    /\ e \notin Stored \cup dropped
    /\ \/ /\ occurredAt' = [occurredAt EXCEPT ![e] = Cardinality(Stored) + 1]
          /\ UNCHANGED <<dropped, faults>>
       \/ /\ faults < MaxFaults
          /\ faults' = faults + 1
          /\ dropped' = dropped \cup {e}
          /\ UNCHANGED occurredAt
    /\ UNCHANGED <<published, delivery, pc, local, ghosts>>

\* b is what findMany returns: the limit oldest unpublished rows.
IsBatch(b, limit) ==
    /\ b \subseteq Unpublished
    /\ Cardinality(b) <= limit
    /\ b = Unpublished \/ Cardinality(b) = limit
    /\ \A e \in b, f \in Unpublished \ b : occurredAt[e] <= occurredAt[f]

StartDrain(d) ==
    /\ pc[d] = "idle"
    /\ pc' = [pc EXCEPT ![d] = "rows"]
    /\ \E limit \in Limits, b \in SUBSET Unpublished :
          IsBatch(b, limit) /\ batch' = [batch EXCEPT ![d] = b]
    /\ UNCHANGED <<rows, event, todo, consumer, seen, blocking, ghosts, faults>>

\* The next row of the snapshot, oldest first, published since or not.
NextRow(d) ==
    /\ pc[d] = "rows"
    /\ pc' = [pc EXCEPT ![d] = "handlers"]
    /\ \E e \in batch[d] :
          /\ \A f \in batch[d] : occurredAt[e] <= occurredAt[f]
          /\ batch' = [batch EXCEPT ![d] = @ \ {e}]
          /\ event' = [event EXCEPT ![d] = e]
          /\ todo' = [todo EXCEPT ![d] = Subs[e]]
    /\ blocking' = [blocking EXCEPT ![d] = FALSE]
    /\ UNCHANGED <<rows, consumer, seen, ghosts, faults>>

\* findUnique of a delivery row: if it is terminal the handler is skipped,
\* otherwise it is called, and the attempts read here are written back later.
ReadRow(d, terminal) ==
    /\ pc[d] = "handlers"
    /\ \E c \in todo[d] :
          /\ todo' = [todo EXCEPT ![d] = @ \ {c}]
          /\ \/ /\ delivery[<<event[d], c>>].status \in terminal
                /\ UNCHANGED <<pc, consumer, seen>>
             \/ /\ delivery[<<event[d], c>>].status \notin terminal
                /\ pc' = [pc EXCEPT ![d] = "call"]
                /\ consumer' = [consumer EXCEPT ![d] = c]
                /\ seen' = [seen EXCEPT ![d] = delivery[<<event[d], c>>].attempts]
    /\ UNCHANGED <<rows, batch, event, blocking, ghosts, faults>>

\* Mutant: a failed delivery is taken for a terminal one.
ReadDelivery_SkipsFailed(d) == ReadRow(d, {"delivered", "dead", "failed"})

ReadDelivery(d) == ReadRow(d, {"delivered", "dead"})

Current(d) == <<event[d], consumer[d]>>

\* handler.handle(envelope) returns or throws.
CallHandler(d) ==
    /\ pc[d] = "call"
    /\ tries' = [tries EXCEPT ![Current(d)] = @ + 1]
    /\ \/ /\ served' = [served EXCEPT ![Current(d)] = @ + 1]
          /\ pc' = [pc EXCEPT ![d] = "returned"]
       \/ /\ pc' = [pc EXCEPT ![d] = "threw"]
          /\ UNCHANGED served
    /\ UNCHANGED <<rows, local, faults>>

\* recordDelivery upserts the row, whatever it holds by now.
RecordDelivery(d, status) ==
    delivery' = [delivery EXCEPT ![Current(d)] =
                   [status |-> status, attempts |-> seen[d] + 1]]

RecordSuccess(d) ==
    /\ pc[d] = "returned"
    /\ RecordDelivery(d, "delivered")
    /\ pc' = [pc EXCEPT ![d] = "handlers"]
    /\ UNCHANGED <<occurredAt, dropped, published, local, ghosts, faults>>

\* The upsert of "delivered" is inside the try: its failure is the handler's.
SuccessNotRecorded(d) ==
    /\ pc[d] = "returned"
    /\ faults < MaxFaults
    /\ faults' = faults + 1
    /\ pc' = [pc EXCEPT ![d] = "threw"]
    /\ UNCHANGED <<rows, local, ghosts>>

\* The catch block: dead after the last attempt, otherwise the row must stay.
Fail(d, status, blocks) ==
    /\ pc[d] = "threw"
    /\ RecordDelivery(d, status)
    /\ pc' = [pc EXCEPT ![d] = "handlers"]
    /\ blocking' = [blocking EXCEPT ![d] = @ \/ blocks]
    /\ UNCHANGED <<occurredAt, dropped, published, batch, event, todo, consumer,
                   seen, ghosts, faults>>

\* Mutant: gives up one attempt early.
RecordFailure_Early(d) ==
    LET dead == seen[d] + 2 >= MaxAttempts
    IN  Fail(d, IF dead THEN "dead" ELSE "failed", ~dead)

RecordFailure(d) ==
    LET dead == seen[d] + 1 >= MaxAttempts
    IN  Fail(d, IF dead THEN "dead" ELSE "failed", ~dead)

\* The loop is done with the row, its variables go out of scope.
LeaveRow(d) ==
    /\ event' = [event EXCEPT ![d] = None]
    /\ consumer' = [consumer EXCEPT ![d] = None]
    /\ seen' = [seen EXCEPT ![d] = 0]
    /\ blocking' = [blocking EXCEPT ![d] = FALSE]

\* After the last handler publishedAt is set if publishes(d).
CloseRow(d, publishes) ==
    /\ pc[d] = "handlers"
    /\ todo[d] = {}
    /\ published' = IF publishes THEN published \cup {event[d]} ELSE published
    /\ pc' = [pc EXCEPT ![d] = "rows"]
    /\ LeaveRow(d)
    /\ UNCHANGED <<occurredAt, dropped, delivery, batch, todo, ghosts, faults>>

\* Mutants: the row is published although a handler is left to retry; it is
\* published only when every handler was delivered, dead letters included.
FinishRow_Always(d) == CloseRow(d, TRUE)
FinishRow_AllDelivered(d) ==
    CloseRow(d, \A c \in Subs[event[d]] : delivery[<<event[d], c>>].status = "delivered")

FinishRow(d) == CloseRow(d, ~blocking[d])

EndDrain(d) ==
    /\ pc[d] = "rows"
    /\ batch[d] = {}
    /\ pc' = [pc EXCEPT ![d] = "idle"]
    /\ UNCHANGED <<rows, local, ghosts, faults>>

\* The instance is killed, or a database call outside the try throws: the drain
\* is over wherever it stood.
Abort(d) ==
    /\ pc[d] # "idle"
    /\ faults < MaxFaults
    /\ faults' = faults + 1
    /\ pc' = [pc EXCEPT ![d] = "idle"]
    /\ LeaveRow(d)
    /\ batch' = [batch EXCEPT ![d] = {}]
    /\ todo' = [todo EXCEPT ![d] = {}]
    /\ UNCHANGED <<rows, ghosts>>

DrainStep(d) ==
    \/ StartDrain(d) \/ NextRow(d) \/ ReadDelivery(d) \/ CallHandler(d)
    \/ RecordSuccess(d) \/ RecordFailure(d) \/ FinishRow(d) \/ EndDrain(d)

Next ==
    \/ \E e \in Events : Publish(e)
    \/ \E d \in Drains : DrainStep(d) \/ SuccessNotRecorded(d) \/ Abort(d)

Spec == Init /\ [][Next]_vars

\* The cron starts a drain again and again, and a drain that is not killed runs on.
FairSpec == Spec /\ \A d \in Drains : WF_vars(DrainStep(d))
-----------------------------------------------------------------------------
\* A pair is settled when the handler has returned once or was called
\* MaxAttempts times.
Settled == {p \in Pairs : served[p] >= 1 \/ tries[p] >= MaxAttempts}

\* No event leaves the outbox with a subscriber that was neither served nor
\* tried MaxAttempts times, however drains interleave and wherever they die.
NoSilentLoss ==
    \A e \in published : \A c \in Subs[e] : <<e, c>> \in Settled

\* The attempts of a delivery row never exceed the calls really made (a stale
\* drain may only undercount), so a handler is never dead-lettered early; and a
\* row says "delivered" only of a handler that did return.
HonestLedger ==
    \A p \in Pairs :
        /\ delivery[p].attempts <= tries[p]
        /\ delivery[p].status = "delivered" => served[p] >= 1
        /\ delivery[p].status = "dead" => tries[p] >= MaxAttempts

\* The inductive invariant behind the two: a drain in a row has a row that is
\* stored; one in a handler has a handler of that row and read no more attempts
\* than were made; and until it has failed, every handler it is through with is
\* settled.
DrainInv(d) ==
    /\ batch[d] \subseteq Stored
    /\ pc[d] \in InRow =>
          /\ event[d] \in Stored
          /\ todo[d] \subseteq Subs[event[d]]
    /\ pc[d] \in InHandler =>
          /\ consumer[d] \in Subs[event[d]]
          /\ seen[d] + (IF pc[d] = "call" THEN 0 ELSE 1) <= tries[Current(d)]
    /\ pc[d] = "returned" => served[Current(d)] >= 1
    /\ (pc[d] = "handlers" /\ ~blocking[d]) =>
          \A c \in Subs[event[d]] \ todo[d] : <<event[d], c>> \in Settled
    /\ (pc[d] \in InHandler /\ ~blocking[d]) =>
          \A c \in Subs[event[d]] \ todo[d] :
              c = consumer[d] \/ <<event[d], c>> \in Settled

IInv ==
    /\ TypeOK
    /\ HonestLedger
    /\ \A d \in Drains : DrainInv(d)
    /\ NoSilentLoss
    /\ published \subseteq Stored
    /\ Settled \subseteq Stored \X Consumers

\* Poison handlers cannot wedge the outbox: every stored event is published in
\* the end although handlers may throw for ever (dead-lettering) and a batch may
\* be full of older events that keep failing.
EventuallyPublished == \A e \in Events : (e \in Stored) ~> (e \in published)

\* The outbox implements the abstract event log.
Log == INSTANCE EventLog WITH stored <- Stored, settled <- Settled,
                              retired <- published
LogSpec == Log!Spec
=============================================================================
