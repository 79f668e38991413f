---------------------------- MODULE MCOrderDesk ----------------------------
(* Instances of OrderDesk for TLC.  The times lie on and one minute past the  *)
(* free window (30), the default delay threshold (60, from window end 30 or   *)
(* 31) and the contract's threshold (0).                                      *)
EXTENDS OrderDesk

MCPolicy ==
  [cancellation_free_window_minutes |-> 30,
   cancellation_fee_after_window_inr |-> 199,
   credit_default_delay_threshold_hours |-> 1,
   credit_default_cap_inr |-> 400,
   credit_default_percent |-> 8,
   credit_manager_approval_threshold_inr |-> 300]

NoContract ==
  [fee_waived |-> FALSE, delay_threshold_hours |-> NULL, credit_amount_mode |-> NULL,
   credit_amount_inr |-> NULL, credit_cap_inr |-> NULL, credit_percent |-> NULL,
   monthly_aggregate_cap_inr |-> NULL]

MCContracts ==
  {NoContract,
   [NoContract EXCEPT !.fee_waived = TRUE, !.delay_threshold_hours = 0, !.credit_percent = 10],
   [NoContract EXCEPT !.credit_amount_mode = "fixed", !.credit_amount_inr = 275],
   [NoContract EXCEPT !.credit_amount_mode = "fixed"]}
=============================================================================
