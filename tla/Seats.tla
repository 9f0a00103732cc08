------------------------------- MODULE Seats -------------------------------
(* What the booking engine promises: a seat of a slot is claimed by one booking *)
(* at a time. A claim is <<slot, seat, booking>>.                               *)

CONSTANTS Slots, SeatNumbers, Bookings

VARIABLE claims

Init == claims = {}

Claim(s, n, b) ==
    /\ \A k \in Bookings : <<s, n, k>> \notin claims
    /\ claims' = claims \cup {<<s, n, b>>}

Free(F) == claims' = claims \ F

Next ==
    \/ \E s \in Slots, n \in SeatNumbers, b \in Bookings : Claim(s, n, b)
    \/ \E F \in SUBSET claims : Free(F)

Spec == Init /\ [][Next]_claims
=============================================================================
