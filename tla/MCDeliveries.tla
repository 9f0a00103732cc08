---------------------------- MODULE MCDeliveries ----------------------------
(* An instance of Deliveries for TLC. *)
EXTENDS Deliveries, TLC

CONSTANTS w1, w2
Interchangeable == Permutations({w1, w2})
=============================================================================
