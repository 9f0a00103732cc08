------------------------------ MODULE EventLog ------------------------------
(* What the domain-event outbox promises its publishers: a stored event is     *)
(* retired only after every subscriber of its type was either served or tried *)
(* until the retry budget ran out, and every stored event is retired.          *)
(* (src/src/events: domain-event.ts, the header of outbox-dispatcher.)         *)

CONSTANTS
    Events,     \* the domain events that may be published
    Consumers,  \* the registered handlers
    Subs        \* Subs[e]: the handlers whose handles(type) is true of e

VARIABLES
    stored,     \* events appended to the log
    settled,    \* <<event, consumer>>: served, or given up after the budget
    retired     \* events marked published

vars == <<stored, settled, retired>>

Init == stored = {} /\ settled = {} /\ retired = {}

Store(e) ==
    /\ e \notin stored
    /\ stored' = stored \cup {e}
    /\ UNCHANGED <<settled, retired>>

Settle(e, c) ==
    /\ e \in stored
    /\ c \in Subs[e]
    /\ settled' = settled \cup {<<e, c>>}
    /\ UNCHANGED <<stored, retired>>

Retire(e) ==
    /\ e \in stored
    /\ \A c \in Subs[e] : <<e, c>> \in settled
    /\ retired' = retired \cup {e}
    /\ UNCHANGED <<stored, settled>>

Next == \E e \in Events :
            \/ Store(e)
            \/ \E c \in Consumers : Settle(e, c)
            \/ Retire(e)

Spec == Init /\ [][Next]_vars

\* Every stored event is retired in the end.
EventuallyRetired == \A e \in Events : (e \in stored) ~> (e \in retired)
=============================================================================
