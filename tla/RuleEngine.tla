----------------------------- MODULE RuleEngine -----------------------------
(***************************************************************************)
(* The pure rules of src/backend/rules/: cancellation.py,                  *)
(* service_credit.py and sla.py.  Every fact, `now` (reference_time)       *)
(* included, is a parameter.                                               *)
(*                                                                         *)
(* Times are minutes and money is paise (1/100 INR), integers both, so     *)
(* that "percent of a fee in INR" is exact.  None is NULL.  A contract     *)
(* with nothing on a topic is one whose fields are all NULL: the code      *)
(* treats the two alike.                                                   *)
(***************************************************************************)
EXTENDS Integers

CONSTANT NULL

\* `x if x is not None else default`
Or(x, default) == IF x = NULL THEN default ELSE x

-----------------------------------------------------------------------------
(* cancellation.py *)

Cancellation(decision, fee) == [decision |-> decision, fee |-> fee]

\* Mutant: the window is measured to the snapshot even after a request.
RequestedAtSnapshot(o, now) == now

Requested(o, now) == Or(o.cancellation_requested_at, now)

\* Mutant: the pickup record is not consulted.
BookedBeforeRequest(o, requested) == requested < o.booked_at

\* The consistency checks of a BOOKED order.
BookedInconsistent(o, requested) ==
  \/ o.pickup_actual_at # NULL
  \/ requested < o.booked_at

FreeOfCharge(o, requested, contract, policy) ==
  \/ contract.fee_waived
  \/ requested - o.booked_at <= policy.cancellation_free_window_minutes

check_cancellation_eligibility(o, now, contract, policy) ==
  LET requested == Requested(o, now)
  IN  IF o.status = "DRAFT"
        THEN Cancellation("allowed_no_fee", 0)
      ELSE IF o.status \in {"DELIVERED", "PICKED_UP"}
        THEN Cancellation("not_allowed", NULL)
      ELSE IF o.status # "BOOKED" \/ BookedInconsistent(o, requested)
        THEN Cancellation("needs_verification", NULL)
      ELSE IF FreeOfCharge(o, requested, contract, policy)
        THEN Cancellation("allowed_no_fee", 0)
      ELSE Cancellation("allowed_with_fee", 100 * policy.cancellation_fee_after_window_inr)

-----------------------------------------------------------------------------
(* service_credit.py *)

NotEligible == [eligibility |-> "not_eligible", missing |-> {}]
Ask(fields) == [eligibility |-> "needs_verification", missing |-> fields]

\* raise ValueError: credit_amount_mode is fixed and there is no amount.
Misconfigured == [eligibility |-> "error", missing |-> {}]

Eligible(amount, contract, policy) ==
  [eligibility |-> "eligible", missing |-> {}, amount |-> amount,
   approval |-> amount > 100 * policy.credit_manager_approval_threshold_inr,
   monthly_cap |-> contract.monthly_aggregate_cap_inr]

\* Mutant: `if not carrier_fault` in place of `if carrier_fault is None`.
FalsyFacts(o) ==
  {f \in {"carrier_fault", "customer_fault"} : ~o[f]}
    \cup {f \in {"pickup_window_end"} : o[f] = NULL}

UnknownFacts(o) ==
  {f \in {"pickup_window_end", "carrier_fault", "customer_fault"} : o[f] = NULL}

\* The lower of the cap and the percentage of the fee.
CapOrPercent(o, contract, policy) ==
  LET cap     == 100 * Or(contract.credit_cap_inr, policy.credit_default_cap_inr)
      percent == o.shipment_fee_inr * Or(contract.credit_percent, policy.credit_default_percent)
  IN  IF percent < cap THEN percent ELSE cap

\* Mutant: `shipment_fee_inr or 0`.
CreditOfNoFee(o, contract, policy) ==
  IF contract.credit_amount_mode = "fixed" /\ contract.credit_amount_inr = NULL
    THEN Misconfigured
  ELSE IF contract.credit_amount_mode = "fixed"
    THEN Eligible(100 * contract.credit_amount_inr, contract, policy)
  ELSE Eligible(CapOrPercent([o EXCEPT !.shipment_fee_inr = Or(@, 0)], contract, policy), contract, policy)

\* The credit of an order that is late enough.
Credit(o, contract, policy) ==
  IF contract.credit_amount_mode = "fixed"
    THEN IF contract.credit_amount_inr = NULL
           THEN Misconfigured
           ELSE Eligible(100 * contract.credit_amount_inr, contract, policy)
  ELSE IF o.shipment_fee_inr = NULL
    THEN Ask({"shipment_fee_inr"})
  ELSE Eligible(CapOrPercent(o, contract, policy), contract, policy)

\* Mutant: the delay is measured to the snapshot even after the pickup.
DelayToSnapshot(o, now) == now - o.pickup_window_end

Delay(o, now) == Or(o.pickup_actual_at, now) - o.pickup_window_end

LateEnough(o, now, contract, policy) ==
  /\ Delay(o, now) > 0
  /\ Delay(o, now) > 60 * Or(contract.delay_threshold_hours,
                             policy.credit_default_delay_threshold_hours)

check_service_credit_eligibility(o, now, contract, policy) ==
  IF UnknownFacts(o) # {}
    THEN Ask(UnknownFacts(o))
  ELSE IF o.customer_fault \/ ~o.carrier_fault \/ ~LateEnough(o, now, contract, policy)
    THEN NotEligible
  ELSE Credit(o, contract, policy)

-----------------------------------------------------------------------------
(* sla.py *)

\* SlaTarget.to_timedelta, in minutes.
to_timedelta(target) ==
  target.amount * (CASE target.unit = "minutes" -> 1
                     [] target.unit = "hours"   -> 60
                     [] target.unit = "days"    -> 60 * 24)

\* The contract's target for the severity, else the plan's, else NULL.
_resolve_target(plan, severity, targets, policy) ==
  IF severity \in DOMAIN targets
    THEN targets[severity]
  ELSE IF /\ plan \in DOMAIN policy.sla_targets
          /\ severity \in DOMAIN policy.sla_targets[plan]
    THEN policy.sla_targets[plan][severity]
  ELSE NULL

Unknown(confidence, field) ==
  [status |-> "unknown", confidence |-> confidence, missing |-> {field}, assumed |-> FALSE]

Judged(status, confidence, target) ==
  [status |-> status, confidence |-> confidence, missing |-> {},
   assumed |-> target.is_business_time]

\* Mutant: timedelta.seconds, which leaves out the days.
ElapsedSeconds(t, now) == (now - t.created_at) % (60 * 24)

Elapsed(t, now) == now - t.created_at

check_sla_status(plan, t, now, targets, policy) ==
  LET elapsed == Elapsed(t, now)
      target  == _resolve_target(plan, t.severity, targets, policy)
  IN  IF elapsed < 0
        THEN Unknown(t.confidence, "created_at")
      ELSE IF t.severity = NULL \/ t.confidence = "unresolved"
        THEN Unknown("unresolved", "severity")
      ELSE IF target = NULL
        THEN Unknown(t.confidence, "sla_target")
      ELSE Judged(CASE elapsed < to_timedelta(target) -> "within_target"
                    [] elapsed = to_timedelta(target) -> "at_target"
                    [] elapsed > to_timedelta(target) -> "breached",
                  t.confidence, target)
=============================================================================
