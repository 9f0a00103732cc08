----------------------------- MODULE MCPayouts -----------------------------
(* Instances of Payouts for TLC. *)
EXTENDS Payouts, TLC

Symmetry == Permutations(Payouts) \cup Permutations(Workers)
=============================================================================
