------------------------------ MODULE MCOutbox ------------------------------
(* An instance of Outbox for TLC. *)
EXTENDS Outbox, TLC

CONSTANTS e1, e2, c1

\* Two events of one type with one handler.
SharedSub == e1 :> {c1} @@ e2 :> {c1}
=============================================================================
