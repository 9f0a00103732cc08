---- MODULE MCAutoRenewal ----
\* One subscription, and three calls about it at once.
EXTENDS AutoRenewal, TLC

CONSTANTS s1, w1, w2, w3
MCRows == {s1}
MCCallers == {w1, w2, w3}
Symmetry == Permutations(MCCallers)
====
