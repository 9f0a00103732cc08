------------------------------- MODULE MCVisits -------------------------------
(* Instances of Visits for TLC. *)
EXTENDS Visits, TLC

CONSTANTS w1, w2, s1, s2
Interchangeable == Permutations({w1, w2}) \cup Permutations({s1, s2})
=============================================================================
