-------------------------- MODULE MCListenerPicker --------------------------
(* Two credentials and two regions: the credentials share one of them,     *)
(* with different load balancers.                                          *)
EXTENDS ListenerPicker, TLC

CONSTANTS c1, c2, r1, r2, lb1, lb2, https

MCCloud ==
    (<<c1>> :> {r1, r2}) @@ (<<c2>> :> {r2})
    @@ (<<c1, r1>> :> {}) @@ (<<c1, r2>> :> {lb1}) @@ (<<c2, r2>> :> {lb2})
    @@ (<<c1, r2, lb1>> :> {https}) @@ (<<c2, r2, lb2>> :> {https})
=============================================================================
