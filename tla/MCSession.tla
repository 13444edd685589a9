----------------------------- MODULE MCSession -----------------------------
(* A small instance of Session for TLC: tabs are alike, and so are browsers.*)
EXTENDS Session, TLC

Symmetry == Permutations(Tabs) \cup Permutations(Browsers)
=============================================================================
