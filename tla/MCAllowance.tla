----------------------------- MODULE MCAllowance -----------------------------
(* Instances of Allowance for TLC. *)
EXTENDS Allowance, TLC

CONSTANTS r1, r2, r3

Line1(unit, courts, n, period) ==
    [unit |-> unit, courts |-> courts, quantity |-> n, period |-> period]
\* One plan has an hour a week on any court, the other only counts visits: an
\* hour a week.
TwoPlans == {[courts |-> {}, lines |-> {Line1("hour", {}, 1, "weekly")}],
             [courts |-> {}, lines |-> {Line1("visit", {}, 0, "monthly")}]}
OneHour == [c \in Courts |-> 1]
EachTime == [t \in Times |-> t]
\* A day is one time, a week two, everything else is one period: the slots are in
\* one week, on two days, and the first time is in the week before.
Calendar == [p \in PeriodNames |-> [t \in Times |-> IF p = "weekly" THEN t \div 2 ELSE 1]]
Later == Times \ {1}
Interchangeable == Permutations({r1, r2})
=============================================================================
