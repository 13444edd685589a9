----------------------------- MODULE MCIssuance -----------------------------
(* Small instances of Issuance for TLC: jobs and workers are alike.        *)
EXTENDS Issuance, TLC

Symmetry == Permutations(Workers) \cup Permutations(Jobs)
=============================================================================
