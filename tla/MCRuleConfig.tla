---------------------------- MODULE MCRuleConfig ----------------------------
(* Instances of RuleConfig for TLC: one real policy, one that forgot a        *)
(* section, two manifests of which one has a faulty entry, and an example of  *)
(* each.  A policy may break off in its last number, or after the first       *)
(* severity.  An entry may break off in the account, if the name of a1 is the *)
(* beginning of that of a2, in an amount or before it, and in `false`, since  *)
(* bool("fals") is True.                                                      *)
EXTENDS RuleConfig

CONSTANTS a1, a2, p1, waived, charged, bare, cheap, dear

Policy(window, plan, severities, target) ==
  [x \in Sections |->
     CASE x = "sla_targets"    -> [pl \in {plan} |-> [s \in severities |-> target]]
       [] x = "cancellation"   -> [free_window_minutes |-> window, fee_after_window_inr |-> 10 * window]
       [] x = "service_credit" ->
            [default_delay_threshold_hours |-> window, default_credit_cap_inr |-> 400,
             default_credit_percent |-> 8, manager_approval_threshold_inr |-> 900]]

RealPolicy == Policy(30, "Growth", {"P1", "P2"}, "hour")
Forgetful  == [x \in {"sla_targets", "service_credit"} |-> RealPolicy[x]]

Item(a, topic, rule) == [account_id |-> a, topic |-> topic, rule |-> rule]

MCExample ==
  [f \in Files |-> IF f = "policy_defaults" THEN Policy(20, "Standard", {"P1"}, "hour")
                   ELSE <<Item(a2, "cancellation", waived)>>]

MCSupplied ==
  [f \in Files |->
     IF f = "policy_defaults" THEN {RealPolicy, Forgetful}
     ELSE {<<Item(a1, "cancellation", charged), Item(a1, "service_credit", cheap),
             Item(a2, "service_credit", dear)>>,
           <<Item(a1, "service_credit", dear), Item(a1, "other", Malformed)>>}]

MCRules ==
  [topic \in Topics |-> CASE topic = "sla" -> {}
                          [] topic = "cancellation" -> {waived, charged}
                          [] topic = "service_credit" -> {bare, cheap, dear}]

MCCut(piece) ==
  IF piece \in Entry
    THEN {[piece EXCEPT !.rule = r] : r \in CASE piece.rule = dear    -> {bare, cheap}
                                               [] piece.rule = charged -> {waived}
                                               [] OTHER -> {}}
           \cup (IF piece.account_id = a2 THEN {[piece EXCEPT !.account_id = a1]} ELSE {})
  ELSE IF "manager_approval_threshold_inr" \in DOMAIN piece
    THEN {[piece EXCEPT !.manager_approval_threshold_inr = @ \div 10]}
  ELSE IF "Growth" \in DOMAIN piece
    THEN {[pl \in {"Growth"} |-> [s \in {"P1"} |-> "hour"]]}
  ELSE {}
=============================================================================
