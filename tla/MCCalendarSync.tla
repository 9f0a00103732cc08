---------------------------- MODULE MCCalendarSync ----------------------------
(* Instances of CalendarSync for TLC. *)
EXTENDS CalendarSync, TLC

CONSTANTS w1, w2, v1, v2, d1, d2
Interchangeable == Permutations({v1, v2}) \cup Permutations({w1, w2}) \cup Permutations({d1, d2})
=============================================================================
