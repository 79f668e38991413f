----------------------------- MODULE MCBuildDb -----------------------------
(* Instances of BuildDb for TLC: workbooks with disjoint and with shared keys, *)
(* an empty sheet, one workbook that does not load and one whose orders are    *)
(* refused.                                                                    *)
EXTENDS BuildDb

CONSTANTS w1, w2, wBad, wNoLoad, k1, k2

MCContent ==
  [w \in Workbooks |->
     [t \in DataTables |->
        CASE w = w1 -> {k1}
          [] w = w2 -> IF t = "tickets" THEN {} ELSE {k2}
          [] OTHER  -> {k1, k2}]]

MCDefect ==
  [w \in Workbooks |->
     CASE w = wBad    -> "orders"
       [] w = wNoLoad -> "load"
       [] OTHER       -> "none"]
=============================================================================
