----------------------------- MODULE MCServing -----------------------------
(* Instances of Serving for TLC: two sound data packs with disjoint keys, the *)
(* second without tickets.                                                    *)
EXTENDS Serving

CONSTANTS w1, w2, k1, k2

MCContent ==
  [w \in Workbooks |->
     [t \in DataTables |->
        IF w = w1 THEN {k1} ELSE IF t = "tickets" THEN {} ELSE {k2}]]

MCDefect == [w \in Workbooks |-> "none"]
=============================================================================
