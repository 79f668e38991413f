----------------------------- MODULE OrderDesk -----------------------------
(***************************************************************************)
(* The two order rules asked again and again of one order, as successive   *)
(* data packs are ingested: the row of the orders sheet is edited as the   *)
(* order lives, the snapshot time moves on, build_db.py and queries.py     *)
(* turn the row into an Order, and the rules answer.                       *)
(*                                                                         *)
(* The edits are those of people and carriers outside src/; they record    *)
(* facts late, in any order, and incompletely, but never take one back.    *)
(***************************************************************************)
EXTENDS RuleEngine

CONSTANTS
  Times,       \* the times that occur, in minutes
  Fees,        \* the shipment fees that occur, in INR
  Contracts,   \* the contract terms the account may have
  Policy       \* PolicyDefaults

Statuses == {"DRAFT", "BOOKED", "PICKED_UP", "DELIVERED", "ON_HOLD"}

\* A fault cell: a checkbox, nothing, or text (of whatever meaning).
Cells == {"yes", "no", "blank", "text"}

Sheet == [status : Statuses,
          booked_at : Times,
          pickup_window_end : Times \cup {NULL},
          pickup_actual_at : Times \cup {NULL},
          cancellation_requested_at : Times \cup {NULL},
          shipment_fee_inr : Fees \cup {NULL},
          carrier_fault : Cells,
          customer_fault : Cells]

AmountOrNull == Int \cup {NULL}

Contract == [fee_waived : BOOLEAN,
             delay_threshold_hours : AmountOrNull,
             credit_amount_mode : {"fixed", "lower_of_cap_or_percent", NULL},
             credit_amount_inr : AmountOrNull,
             credit_cap_inr : AmountOrNull,
             credit_percent : AmountOrNull,
             monthly_aggregate_cap_inr : AmountOrNull]

PolicyDefaults == [cancellation_free_window_minutes : Int,
                   cancellation_fee_after_window_inr : Int,
                   credit_default_delay_threshold_hours : Int,
                   credit_default_cap_inr : Int,
                   credit_default_percent : Int,
                   credit_manager_approval_threshold_inr : Int]

ASSUME TimesAssumption     == Times \subseteq Int
ASSUME FeesAssumption      == Fees \subseteq Int
ASSUME ContractsAssumption == Contracts \subseteq Contract
ASSUME PolicyAssumption    == Policy \in PolicyDefaults
ASSUME NullAssumption      == NULL \notin Int \cup BOOLEAN

VARIABLES
  now,       \* the snapshot time of the data pack
  sheet,     \* the order's row in its orders sheet
  contract   \* the account's terms

vars == <<now, sheet, contract>>

TypeOK == now \in Times /\ sheet \in Sheet /\ contract \in Contracts

\* A new row has no history yet; any of its other cells may be filled in.
Init ==
  /\ now \in Times
  /\ sheet \in Sheet
  /\ sheet.status \in {"DRAFT", "BOOKED"}
  /\ sheet.pickup_actual_at = NULL
  /\ sheet.cancellation_requested_at = NULL
  /\ sheet.carrier_fault = "blank"
  /\ sheet.customer_fault = "blank"
  /\ contract \in Contracts

-----------------------------------------------------------------------------
(* The edits *)

Past == {t \in Times : t <= now}

\* Mutant: the wall clock in place of a snapshot time.
WaitByTheClock ==
  /\ now' = now + 1
  /\ UNCHANGED <<sheet, contract>>

\* A later data pack with the same row.
Wait ==
  /\ now' \in {t \in Times : t > now}
  /\ UNCHANGED <<sheet, contract>>

Edit(row) == sheet' = row /\ UNCHANGED <<now, contract>>

Book == sheet.status = "DRAFT" /\ Edit([sheet EXCEPT !.status = "BOOKED"])

RequestCancellation(t) ==
  /\ sheet.cancellation_requested_at = NULL
  /\ Edit([sheet EXCEPT !.cancellation_requested_at = t])

\* The pickup time arrives, whatever the row says of its status, which
\* follows at once or later.
RecordPickupTime(t, status) ==
  /\ sheet.pickup_actual_at = NULL
  /\ status \in {sheet.status} \cup (IF sheet.status = "BOOKED" THEN {"PICKED_UP"} ELSE {})
  /\ Edit([sheet EXCEPT !.pickup_actual_at = t, !.status = status])

\* The status arrives; the pickup time may be unknown still.
RecordStatus(status) ==
  /\ <<sheet.status, status>> \in
       {<<"BOOKED", "PICKED_UP">>, <<"BOOKED", "ON_HOLD">>, <<"PICKED_UP", "DELIVERED">>}
  /\ Edit([sheet EXCEPT !.status = status])

FillWindow(t) ==
  /\ sheet.pickup_window_end = NULL
  /\ Edit([sheet EXCEPT !.pickup_window_end = t])

FillFee(fee) ==
  /\ sheet.shipment_fee_inr = NULL
  /\ Edit([sheet EXCEPT !.shipment_fee_inr = fee])

FindFault(party, verdict) ==
  /\ sheet[party] = "blank" /\ verdict # "blank"
  /\ Edit([sheet EXCEPT ![party] = verdict])

Next ==
  \/ Wait
  \/ Book
  \/ \E t \in Past : RequestCancellation(t)
  \/ \E t \in Past, s \in Statuses : RecordPickupTime(t, s)
  \/ \E s \in Statuses : RecordStatus(s)
  \/ \E t \in Times : FillWindow(t)
  \/ \E fee \in Fees : FillFee(fee)
  \/ \E party \in {"carrier_fault", "customer_fault"}, v \in Cells : FindFault(party, v)

Spec == Init /\ [][Next]_vars

-----------------------------------------------------------------------------
(* Ingestion and the rules *)

\* `1 if cell else 0` of _insert_orders, then bool() of _row_to_order.
flag(cell) == cell \notin {"blank", "no"}

\* The Order that get_order returns for a row.
order(s) == [s EXCEPT !.carrier_fault = flag(@), !.customer_fault = flag(@)]

cancellation == check_cancellation_eligibility(order(sheet), now, contract, Policy)
credit       == check_service_credit_eligibility(order(sheet), now, contract, Policy)

-----------------------------------------------------------------------------
(* Properties *)

Allowed == cancellation.decision \in {"allowed_no_fee", "allowed_with_fee"}

\* From one data pack to the next with the same row, an answer about
\* cancellation changes only for want of a recorded request, and then only
\* from free to charged or from unverifiable to either.
CancellationStable ==
  [][UNCHANGED sheet /\ cancellation' # cancellation =>
       /\ sheet.cancellation_requested_at = NULL
       /\ <<cancellation.decision, cancellation'.decision>> \in
            {<<"allowed_no_fee", "allowed_with_fee">>,
             <<"needs_verification", "allowed_no_fee">>,
             <<"needs_verification", "allowed_with_fee">>}]_vars

PickupRecorded == sheet.pickup_actual_at # NULL \/ sheet.status \in {"PICKED_UP", "DELIVERED"}

\* With a pickup on record, as a time or as a status and in whatever order the
\* two arrive, cancellation is allowed only as long as the row has said DRAFT
\* all along: the rule answers DRAFT "under any circumstance", before it looks
\* at the pickup time (cancellation.py:39).  Once the order is BOOKED no edit
\* and no later snapshot allows it again.
PickupEndsCancellation ==
  [][PickupRecorded' /\ Allowed' => sheet.status = "DRAFT" /\ sheet'.status = "DRAFT"]_vars

\* "PICKED_UP and DELIVERED orders cannot be cancelled through this rule at
\* all" (cancellation.py:7), and a BOOKED row with a pickup time is not decided:
\* what one might conclude of every row with a pickup on record.
PickupNeverAllowed == PickupRecorded => ~Allowed

\* From one data pack to the next with the same row a promised credit keeps
\* its amount and its approval, and a row with a pickup time has a final answer.
CreditStable ==
  [][UNCHANGED sheet /\ credit' # credit =>
       /\ sheet.pickup_actual_at = NULL
       /\ credit.eligibility = "not_eligible"]_vars

\* Whatever is recorded afterwards and however late it is asked again, a
\* promised credit never changes its amount; it is withdrawn only where a
\* customer fault is found, or where the pickup turns out to have been before
\* the snapshot that its delay was measured to.
PromiseStands ==
  [][credit.eligibility = "eligible" /\ credit' # credit =>
       /\ credit'.eligibility = "not_eligible"
       /\ \/ sheet.customer_fault = "blank" /\ flag(sheet'.customer_fault)
          \/ /\ sheet.pickup_actual_at = NULL /\ sheet'.pickup_actual_at # NULL
             /\ sheet'.pickup_actual_at < now]_vars

\* A question the credit rule asks can be answered: whatever window and fee
\* are filled in, if it asks again it asks for something it was not told.
QuestionsEnd ==
  credit.eligibility = "needs_verification" =>
    \A t \in Times, fee \in Fees :
      LET told(f)  == IF f \in credit.missing THEN
                        CASE f = "pickup_window_end" -> t [] f = "shipment_fee_inr" -> fee
                      ELSE sheet[f]
          answered == [sheet EXCEPT !.pickup_window_end = told("pickup_window_end"),
                                    !.shipment_fee_inr = told("shipment_fee_inr")]
          again    == check_service_credit_eligibility(order(answered), now, contract, Policy)
      IN  /\ again.missing \cap credit.missing = {}
          /\ again.missing # {} => sheet.shipment_fee_inr = NULL

\* "Carrier fault, pickup timing, and customer fault must all be known before
\* a credit can be promised; do not guess when any of them is unknown."
NoCreditOnUnknownFault ==
  "blank" \in {sheet.carrier_fault, sheet.customer_fault} => credit.eligibility # "eligible"

\* load_contract_overrides: "Load and validate every account's contract
\* overrides".  Terms that loaded never make the credit rule raise.
ValidatedTermsNeverRaise == credit.eligibility # "error"

\* reference_time "is only used when the order hasn't been picked up yet".
PickedUpIgnoresSnapshot ==
  [][UNCHANGED sheet /\ sheet.status \in {"PICKED_UP", "DELIVERED"} => credit' = credit]_vars
=============================================================================
