----------------------------- MODULE MCBooking -----------------------------
(* An instance of Booking for TLC: one court, one customer's requests and one  *)
(* from the desk.                                                              *)
EXTENDS Booking, TLC

CONSTANTS r1, r2, w1, w2, court, ana

OnCourt == [r \in Requests |-> court]
OneAna == [r \in Requests |-> ana]
Seats1 == [s \in Slots |-> 1]
AllWait == [w \in Waiters |-> court]
OneActive == {[slots |-> Slots, limit |-> 1]}
=============================================================================
