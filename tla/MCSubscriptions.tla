--------------------------- MODULE MCSubscriptions ---------------------------
(* Instances of Subscriptions for TLC. *)
EXTENDS Subscriptions, TLC

CONSTANTS w1, w2
Interchangeable == Permutations({w1, w2})
=============================================================================
