------------------------------ MODULE MCReminders ------------------------------
(* Instances of Reminders for TLC. *)
EXTENDS Reminders

CONSTANTS w1, w2, s1
=============================================================================
