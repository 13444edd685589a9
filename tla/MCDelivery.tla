----------------------------- MODULE MCDelivery -----------------------------
(* Small instances of Delivery for TLC: jobs and workers are alike.        *)
EXTENDS Delivery, TLC

CONSTANTS up, alb, c1, c2

Actions == [t \in Tasks |-> IF t = up THEN "upload" ELSE "deploy"]

One == <<c1>>
OneToTwo == <<c1, c2>>

Symmetry == Permutations(Workers) \cup Permutations(Jobs)
=============================================================================
