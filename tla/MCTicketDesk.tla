---------------------------- MODULE MCTicketDesk ----------------------------
(* Instances of TicketDesk for TLC.  The times lie on, before and after the   *)
(* targets of 12 minutes and 1 hour, and more than a day later; a1 has a plan *)
(* with a target for P1 only, a2 a plan that is not configured.               *)
EXTENDS TicketDesk

CONSTANTS a1, a2, waived

Target(amount, unit, business) ==
  [amount |-> amount, unit |-> unit, is_business_time |-> business]

MCPolicy ==
  [sla_targets |-> [plan \in {"Growth"} |-> [s \in {"P1"} |-> Target(1, "hours", TRUE)]]]

MCAccounts == [a \in AccountIds |-> IF a = a1 THEN "Growth" ELSE "Trial"]

Tight == [s \in {"P1"} |-> Target(12, "minutes", FALSE)]
Wide  == [s \in {"P1", "P2"} |-> IF s = "P1" THEN Target(60, "minutes", FALSE)
                                              ELSE Target(1, "days", TRUE)]

MCRules ==
  [topic \in Topics |-> CASE topic = "sla" -> {Tight, Wide}
                          [] topic = "cancellation" -> {waived}
                          [] topic = "service_credit" -> {}]
=============================================================================
