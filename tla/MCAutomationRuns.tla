-------------------------- MODULE MCAutomationRuns --------------------------
(* Small instances of AutomationRuns for TLC: one task and two runs, the   *)
(* first with two jobs (a delivery to two listeners) or with one.          *)
EXTENDS AutomationRuns, TLC

CONSTANTS j1, j2, j3, r1, r2, t1

PairRuns == j1 :> r1 @@ j2 :> r1 @@ j3 :> r2
SingleRuns == j1 :> r1 @@ j2 :> r2
OneTask == r1 :> t1 @@ r2 :> t1
Delivery == t1 :> "deliver"
Renewal == t1 :> "renew"

Symmetry == Permutations(Workers)
=============================================================================
