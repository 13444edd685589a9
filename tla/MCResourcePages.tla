-------------------------- MODULE MCResourcePages --------------------------
(* Small instances of ResourcePages for TLC.  Only the tables that the     *)
(* section is about differ between the initial states: two credentials     *)
(* that manage different zones, one DNS account and one ACME account.      *)
EXTENDS ResourcePages

CONSTANTS c1, c2, a1, p1, z1, z2, page, others

MCManaged == [c \in Creds |-> IF c = c1 THEN {z1} ELSE {z2}]

MCInit ==
    /\ Init
    /\ section # "acme" => acme[p1] = "active"
    /\ section = "cloud" => creds[c2] = "none" /\ dns[a1].zones \subseteq {z1}
    /\ section = "dns" => /\ creds = [c \in Creds |-> "active"]
                          /\ dns[a1].cred # c2 /\ dns[a1].zones # Zones
                          /\ dns[a1].status # "invalid"
    /\ section = "acme" => creds = [c \in Creds |-> "none"]

MCSpec == MCInit /\ [][Next]_vars
=============================================================================
