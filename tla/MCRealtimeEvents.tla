-------------------------- MODULE MCRealtimeEvents --------------------------
(* Small instances of RealtimeEvents for TLC: the browser of an            *)
(* administrator, who sees every event.                                    *)
EXTENDS RealtimeEvents

CONSTANT c1

Admin == [c \in {c1} |-> Events]
=============================================================================
