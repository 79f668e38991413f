---------------------------- MODULE MCLocalTime ----------------------------
(* Instances of LocalTime for TLC: a repeated period of 2, a skipped period   *)
(* of 2, and no change, at instant 4 of 8.                                    *)
EXTENDS LocalTime

MCZones == {[at |-> 4, before |-> 3, after |-> 1],
            [at |-> 4, before |-> 1, after |-> 3],
            [at |-> 4, before |-> 5, after |-> 5]}
=============================================================================
