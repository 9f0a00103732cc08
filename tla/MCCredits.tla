------------------------------ MODULE MCCredits ------------------------------
(* Instances of Credits for TLC. *)
EXTENDS Credits, TLC

CONSTANTS w1, w2, o1, o2
Interchangeable == Permutations({w1, w2}) \cup Permutations({o1, o2})
=============================================================================
