-------------------------- MODULE OrderDesk_proofs --------------------------
(***************************************************************************)
(* Theorems about OrderDesk, for every set of times and fees and all       *)
(* contract and policy terms: the rules never take an answer back because  *)
(* time has passed, a recorded pickup ends cancellation of a booked order, *)
(* and a promised credit falls only to a fact that is recorded later.      *)
(***************************************************************************)
EXTENDS OrderDesk, TLAPS

USE TimesAssumption, FeesAssumption, ContractsAssumption, PolicyAssumption, NullAssumption

-----------------------------------------------------------------------------
(* Type correctness *)

\* An edit of some cells to values of their types keeps the row a row.
LEMMA EditTyped ==
  ASSUME TypeOK, NEW row \in Sheet, Edit(row)
  PROVE  TypeOK'
BY DEF TypeOK, Edit

\* Every edit, every later data pack and every stutter keeps the types.
LEMMA TypeStep == TypeOK /\ [Next]_vars => TypeOK'
<1> SUFFICES ASSUME TypeOK, [Next]_vars PROVE TypeOK'
  OBVIOUS
<1>1. CASE Wait
  BY <1>1 DEF TypeOK, Wait
<1>2. CASE Book
  <2>1. [sheet EXCEPT !.status = "BOOKED"] \in Sheet
    BY DEF TypeOK, Sheet, Statuses
  <2> QED BY <1>2, <2>1, EditTyped DEF Book
<1>3. ASSUME NEW t \in Past, RequestCancellation(t) PROVE TypeOK'
  <2>1. [sheet EXCEPT !.cancellation_requested_at = t] \in Sheet
    BY DEF TypeOK, Sheet, Past
  <2> QED BY <1>3, <2>1, EditTyped DEF RequestCancellation
<1>4. ASSUME NEW t \in Past, NEW s \in Statuses, RecordPickupTime(t, s) PROVE TypeOK'
  <2>1. [sheet EXCEPT !.pickup_actual_at = t, !.status = s] \in Sheet
    BY DEF TypeOK, Sheet, Past
  <2> QED BY <1>4, <2>1, EditTyped DEF RecordPickupTime
<1>5. ASSUME NEW s \in Statuses, RecordStatus(s) PROVE TypeOK'
  <2>1. [sheet EXCEPT !.status = s] \in Sheet
    BY DEF TypeOK, Sheet
  <2> QED BY <1>5, <2>1, EditTyped DEF RecordStatus
<1>6. ASSUME NEW t \in Times, FillWindow(t) PROVE TypeOK'
  <2>1. [sheet EXCEPT !.pickup_window_end = t] \in Sheet
    BY DEF TypeOK, Sheet
  <2> QED BY <1>6, <2>1, EditTyped DEF FillWindow
<1>7. ASSUME NEW fee \in Fees, FillFee(fee) PROVE TypeOK'
  <2>1. [sheet EXCEPT !.shipment_fee_inr = fee] \in Sheet
    BY DEF TypeOK, Sheet
  <2> QED BY <1>7, <2>1, EditTyped DEF FillFee
<1>8. ASSUME NEW party \in {"carrier_fault", "customer_fault"}, NEW v \in Cells,
             FindFault(party, v)
      PROVE  TypeOK'
  <2>1. [sheet EXCEPT ![party] = v] \in Sheet
    BY DEF TypeOK, Sheet
  <2> QED BY <1>8, <2>1, EditTyped DEF FindFault
<1>9. CASE UNCHANGED vars
  BY <1>9 DEF TypeOK, vars
<1> QED BY <1>1, <1>2, <1>3, <1>4, <1>5, <1>6, <1>7, <1>8, <1>9 DEF Next

\* The rows, times and terms the rules are given always have their types.
THEOREM DeskTypeCorrect == Spec => []TypeOK
<1>1. Init => TypeOK
  BY DEF Init, TypeOK
<1> QED BY <1>1, TypeStep, PTL DEF Spec

-----------------------------------------------------------------------------
(* A recorded pickup ends cancellation *)

\* No edit returns an order to DRAFT.
LEMMA DraftNeverReturns ==
  ASSUME TypeOK, [Next]_vars, sheet'.status = "DRAFT"
  PROVE  sheet.status = "DRAFT"
<1> USE DEF TypeOK, Sheet, Edit
<1>1. CASE Wait
  BY <1>1 DEF Wait
<1>2. CASE Book
  BY <1>2 DEF Book
<1>3. ASSUME NEW t \in Past, RequestCancellation(t) PROVE sheet.status = "DRAFT"
  BY <1>3 DEF RequestCancellation
<1>4. ASSUME NEW t \in Past, NEW s \in Statuses, RecordPickupTime(t, s) PROVE sheet.status = "DRAFT"
  BY <1>4 DEF RecordPickupTime
<1>5. ASSUME NEW s \in Statuses, RecordStatus(s) PROVE sheet.status = "DRAFT"
  BY <1>5 DEF RecordStatus
<1>6. ASSUME NEW t \in Times, FillWindow(t) PROVE sheet.status = "DRAFT"
  BY <1>6 DEF FillWindow
<1>7. ASSUME NEW fee \in Fees, FillFee(fee) PROVE sheet.status = "DRAFT"
  BY <1>7 DEF FillFee
<1>8. ASSUME NEW party \in {"carrier_fault", "customer_fault"}, NEW v \in Cells,
             FindFault(party, v)
      PROVE  sheet.status = "DRAFT"
  BY <1>8 DEF FindFault
<1>9. CASE UNCHANGED vars
  BY <1>9 DEF vars
<1> QED BY <1>1, <1>2, <1>3, <1>4, <1>5, <1>6, <1>7, <1>8, <1>9 DEF Next

\* Ingestion changes the fault cells only.
LEMMA OrderFields ==
  ASSUME NEW s \in Sheet
  PROVE  /\ order(s).status = s.status
         /\ order(s).booked_at = s.booked_at
         /\ order(s).pickup_window_end = s.pickup_window_end
         /\ order(s).pickup_actual_at = s.pickup_actual_at
         /\ order(s).cancellation_requested_at = s.cancellation_requested_at
         /\ order(s).shipment_fee_inr = s.shipment_fee_inr
         /\ order(s).carrier_fault = flag(s.carrier_fault)
         /\ order(s).customer_fault = flag(s.customer_fault)
BY DEF order, Sheet

\* For a row of any content: with a pickup on record, by time or by status,
\* only DRAFT is allowed.
LEMMA AllowedOnlyAsDraft ==
  ASSUME NEW s \in Sheet, NEW c, NEW n,
         s.pickup_actual_at # NULL \/ s.status \in {"PICKED_UP", "DELIVERED"},
         check_cancellation_eligibility(order(s), n, c, Policy).decision
           \in {"allowed_no_fee", "allowed_with_fee"}
  PROVE  s.status = "DRAFT"
<1> USE OrderFields DEF check_cancellation_eligibility, Cancellation
<1>1. s.status \in Statuses
  BY DEF Sheet
<1>2. CASE s.status \in {"PICKED_UP", "DELIVERED"}
  BY <1>2
<1>3. CASE s.status = "BOOKED"
  <2>1. BookedInconsistent(order(s), Requested(order(s), n))
    BY <1>3 DEF BookedInconsistent
  <2> QED BY <1>3, <2>1
<1>4. CASE s.status = "ON_HOLD"
  BY <1>4
<1> QED BY <1>1, <1>2, <1>3, <1>4 DEF Statuses

\* check_cancellation_eligibility allows the cancellation of an order with a
\* pickup on record only while the row says DRAFT, and once it does not, never
\* again: for any policy and terms, and whatever is recorded in which order.
THEOREM OnceBookedPickupEndsCancellation == Spec => PickupEndsCancellation
<1>1. TypeOK /\ TypeOK' /\ [Next]_vars =>
        (PickupRecorded' /\ Allowed' => sheet.status = "DRAFT" /\ sheet'.status = "DRAFT")
  <2> SUFFICES ASSUME TypeOK, TypeOK', [Next]_vars, PickupRecorded', Allowed'
               PROVE  sheet.status = "DRAFT" /\ sheet'.status = "DRAFT"
    OBVIOUS
  <2>1. /\ sheet' \in Sheet
        /\ sheet'.pickup_actual_at # NULL \/ sheet'.status \in {"PICKED_UP", "DELIVERED"}
        /\ check_cancellation_eligibility(order(sheet'), now', contract', Policy).decision
             \in {"allowed_no_fee", "allowed_with_fee"}
    BY DEF TypeOK, PickupRecorded, Allowed, cancellation
  <2>2. sheet'.status = "DRAFT"
    BY <2>1, AllowedOnlyAsDraft
  <2> QED BY <2>2, DraftNeverReturns
<1> QED BY <1>1, DeskTypeCorrect, PTL DEF Spec, PickupEndsCancellation

-----------------------------------------------------------------------------
(* Time and the answers *)

\* A step that leaves the row alone is a later data pack or changes nothing.
LEMMA OnlyTimePasses ==
  ASSUME TypeOK, [Next]_vars, UNCHANGED sheet
  PROVE  /\ contract' = contract
         /\ now' \in Times
         /\ now <= now'
<1>1. Wait \/ UNCHANGED <<now, contract>>
  BY DEF Next, vars, Edit, Book, RequestCancellation, RecordPickupTime, RecordStatus,
         FillWindow, FillFee, FindFault
<1>2. now \in Int
  BY DEF TypeOK
<1>3. CASE Wait
  <2>1. now' \in Times /\ now' > now /\ contract' = contract
    BY <1>3 DEF Wait
  <2>2. now' \in Int
    BY <2>1
  <2> QED BY <1>2, <2>1, <2>2
<1>4. CASE UNCHANGED <<now, contract>>
  BY <1>2, <1>4 DEF TypeOK
<1> QED BY <1>1, <1>3, <1>4

\* A term and its default are amounts, so what applies is one.
LEMMA OrTyped ==
  ASSUME NEW x \in Int \cup {NULL}, NEW d \in Int
  PROVE  Or(x, d) \in Int
BY DEF Or

\* Lateness is only ever gained; a pickup time fixes it.
LEMMA LateStaysLate ==
  ASSUME NEW s \in Sheet, NEW c \in Contracts, NEW m \in Times, NEW n \in Times, m <= n,
         s.pickup_window_end # NULL
  PROVE  /\ LateEnough(order(s), m, c, Policy) => LateEnough(order(s), n, c, Policy)
         /\ s.pickup_actual_at # NULL =>
              (LateEnough(order(s), n, c, Policy) <=> LateEnough(order(s), m, c, Policy))
<1> DEFINE threshold == Or(c.delay_threshold_hours, Policy.credit_default_delay_threshold_hours)
<1>1. threshold \in Int
  <2>1. /\ c.delay_threshold_hours \in Int \cup {NULL}
        /\ Policy.credit_default_delay_threshold_hours \in Int
    BY DEF Contract, AmountOrNull, PolicyDefaults
  <2> QED BY <2>1, OrTyped
<1>2. s.pickup_window_end \in Int /\ m \in Int /\ n \in Int
  BY DEF Sheet
<1>3. CASE s.pickup_actual_at = NULL
  <2>1. /\ Delay(order(s), m) = m - s.pickup_window_end
        /\ Delay(order(s), n) = n - s.pickup_window_end
    BY <1>3, OrderFields DEF Delay, Or
  <2> HIDE DEF threshold
  <2>2. /\ LateEnough(order(s), m, c, Policy) <=>
              Delay(order(s), m) > 0 /\ Delay(order(s), m) > 60 * threshold
        /\ LateEnough(order(s), n, c, Policy) <=>
              Delay(order(s), n) > 0 /\ Delay(order(s), n) > 60 * threshold
    BY DEF LateEnough, threshold
  <2> QED BY <1>1, <1>2, <1>3, <2>1, <2>2
<1>4. CASE s.pickup_actual_at # NULL
  <2>1. Delay(order(s), m) = Delay(order(s), n)
    BY <1>4, OrderFields DEF Delay, Or
  <2> QED BY <1>4, <2>1 DEF LateEnough
<1> QED BY <1>3, <1>4

\* For a row of any content: the credit answer moves with time only from
\* "not eligible", and only while no pickup time is recorded.
LEMMA CreditInTime ==
  ASSUME NEW s \in Sheet, NEW c \in Contracts, NEW m \in Times, NEW n \in Times, m <= n,
         check_service_credit_eligibility(order(s), n, c, Policy)
           # check_service_credit_eligibility(order(s), m, c, Policy)
  PROVE  /\ s.pickup_actual_at = NULL
         /\ check_service_credit_eligibility(order(s), m, c, Policy).eligibility = "not_eligible"
<1> DEFINE o == order(s)
           late(t) == LateEnough(o, t, c, Policy)
           faulty == o.customer_fault \/ ~o.carrier_fault
           answer(t) == check_service_credit_eligibility(o, t, c, Policy)
<1>1. UnknownFacts(o) = {}
  BY DEF check_service_credit_eligibility
<1>2. s.pickup_window_end # NULL
  BY <1>1, OrderFields DEF UnknownFacts
<1>3. \A t \in {m, n} : answer(t) = IF faulty \/ ~late(t) THEN NotEligible ELSE Credit(o, c, Policy)
  BY <1>1 DEF check_service_credit_eligibility
<1>4. ~faulty /\ ~(late(m) <=> late(n))
  <2>1. answer(n) # answer(m)
    OBVIOUS
  <2> HIDE DEF late, faulty, answer
  <2> QED BY <1>3, <2>1
<1>5. ~late(m) /\ s.pickup_actual_at = NULL
  BY <1>2, <1>4, LateStaysLate
<1>6. answer(m) = NotEligible
  <2> HIDE DEF late, faulty, answer
  <2> QED BY <1>3, <1>5
<1> QED BY <1>5, <1>6 DEF NotEligible

\* A promised credit keeps its amount and approval as snapshots move on, and
\* a row with a pickup time has its final answer.
THEOREM CreditNeverTakenBack == Spec => CreditStable
<1>1. TypeOK /\ [Next]_vars =>
        (UNCHANGED sheet /\ credit' # credit =>
           sheet.pickup_actual_at = NULL /\ credit.eligibility = "not_eligible")
  <2> SUFFICES ASSUME TypeOK, [Next]_vars, UNCHANGED sheet, credit' # credit
               PROVE  sheet.pickup_actual_at = NULL /\ credit.eligibility = "not_eligible"
    OBVIOUS
  <2>1. /\ contract' = contract /\ now' \in Times /\ now <= now'
        /\ sheet \in Sheet /\ contract \in Contracts /\ now \in Times
    BY OnlyTimePasses DEF TypeOK
  <2>2. credit' = check_service_credit_eligibility(order(sheet), now', contract, Policy)
    BY <2>1 DEF credit
  <2> QED BY <2>1, <2>2, CreditInTime DEF credit
<1> QED BY <1>1, DeskTypeCorrect, PTL DEF Spec, CreditStable

-----------------------------------------------------------------------------
(* A promised credit *)

\* The fault cells of a stored order are never unknown.
LEMMA FlagsKnown ==
  ASSUME NEW s \in Sheet
  PROVE  UnknownFacts(order(s)) = IF s.pickup_window_end = NULL THEN {"pickup_window_end"} ELSE {}
<1>1. \A cell : flag(cell) # NULL
  BY DEF flag
<1> QED
  BY <1>1, OrderFields DEF UnknownFacts

\* What the credit rule answers for a row of any content.
LEMMA CreditAnswer ==
  ASSUME NEW s \in Sheet, NEW c \in Contracts, NEW n \in Times
  PROVE  check_service_credit_eligibility(order(s), n, c, Policy) =
           IF s.pickup_window_end = NULL THEN Ask({"pickup_window_end"})
           ELSE IF flag(s.customer_fault) \/ ~flag(s.carrier_fault)
                     \/ ~LateEnough(order(s), n, c, Policy) THEN NotEligible
           ELSE Credit(order(s), c, Policy)
<1> DEFINE U == UnknownFacts(order(s))
           late == LateEnough(order(s), n, c, Policy)
           due == Credit(order(s), c, Policy)
<1>1. U = IF s.pickup_window_end = NULL THEN {"pickup_window_end"} ELSE {}
  BY FlagsKnown
<1>2. /\ order(s).customer_fault = flag(s.customer_fault)
      /\ order(s).carrier_fault = flag(s.carrier_fault)
  BY OrderFields
<1>3. check_service_credit_eligibility(order(s), n, c, Policy) =
        IF U # {} THEN Ask(U)
        ELSE IF order(s).customer_fault \/ ~order(s).carrier_fault \/ ~late THEN NotEligible
        ELSE due
  BY DEF check_service_credit_eligibility
<1> HIDE DEF U, late, due
<1>4. {"pickup_window_end"} # {}
  OBVIOUS
<1>5. CASE s.pickup_window_end = NULL
  BY <1>1, <1>3, <1>4, <1>5
<1>6. CASE s.pickup_window_end # NULL
  BY <1>1, <1>2, <1>3, <1>6, Zenon DEF late, due
<1> QED BY <1>5, <1>6

\* An eligible order has a window end, a faulty carrier and a faultless
\* customer, and is late.
LEMMA EligibleMeans ==
  ASSUME NEW s \in Sheet, NEW c \in Contracts, NEW n \in Times,
         check_service_credit_eligibility(order(s), n, c, Policy).eligibility = "eligible"
  PROVE  /\ s.pickup_window_end # NULL
         /\ ~flag(s.customer_fault) /\ flag(s.carrier_fault)
         /\ LateEnough(order(s), n, c, Policy)
         /\ check_service_credit_eligibility(order(s), n, c, Policy) = Credit(order(s), c, Policy)
<1>1. Ask({"pickup_window_end"}).eligibility # "eligible" /\ NotEligible.eligibility # "eligible"
  BY DEF Ask, NotEligible
<1> QED BY <1>1, CreditAnswer

\* The amount depends on the fee and the terms, and where it was eligible
\* without a fee, on the terms only.
LEMMA CreditOfFee ==
  ASSUME NEW s \in Sheet, NEW r \in Sheet, NEW c \in Contracts,
         \/ r.shipment_fee_inr = s.shipment_fee_inr
         \/ s.shipment_fee_inr = NULL /\ Credit(order(s), c, Policy).eligibility = "eligible"
  PROVE  Credit(order(r), c, Policy) = Credit(order(s), c, Policy)
<1>1. /\ order(r).shipment_fee_inr = r.shipment_fee_inr
      /\ order(s).shipment_fee_inr = s.shipment_fee_inr
  BY OrderFields
<1>2. CASE r.shipment_fee_inr = s.shipment_fee_inr
  BY <1>1, <1>2 DEF Credit, CapOrPercent
<1>3. CASE s.shipment_fee_inr = NULL /\ Credit(order(s), c, Policy).eligibility = "eligible"
  <2>1. c.credit_amount_mode = "fixed"
    BY <1>1, <1>3 DEF Credit, Ask
  <2> QED BY <2>1 DEF Credit
<1> QED BY <1>2, <1>3

\* Lateness depends on the window and the pickup time.
LEMMA LateOfTimes ==
  ASSUME NEW s \in Sheet, NEW r \in Sheet, NEW c \in Contracts, NEW n \in Times,
         r.pickup_window_end = s.pickup_window_end,
         Or(r.pickup_actual_at, n) = Or(s.pickup_actual_at, n)
  PROVE  LateEnough(order(r), n, c, Policy) <=> LateEnough(order(s), n, c, Policy)
<1>1. Delay(order(r), n) = Delay(order(s), n)
  BY OrderFields DEF Delay
<1> QED BY <1>1 DEF LateEnough

\* For two rows of any content: an eligible credit stays as it is when cells
\* are added, unless the customer is found at fault or the pickup found earlier.
LEMMA PromiseKept ==
  ASSUME NEW s \in Sheet, NEW r \in Sheet, NEW c \in Contracts, NEW n \in Times,
         check_service_credit_eligibility(order(s), n, c, Policy).eligibility = "eligible",
         r.pickup_window_end = s.pickup_window_end,
         flag(r.carrier_fault) <=> flag(s.carrier_fault),
         r.shipment_fee_inr = s.shipment_fee_inr \/ s.shipment_fee_inr = NULL,
         check_service_credit_eligibility(order(r), n, c, Policy)
           # check_service_credit_eligibility(order(s), n, c, Policy)
  PROVE  /\ check_service_credit_eligibility(order(r), n, c, Policy) = NotEligible
         /\ \/ flag(r.customer_fault)
            \/ Or(r.pickup_actual_at, n) # Or(s.pickup_actual_at, n)
<1>1. /\ s.pickup_window_end # NULL
      /\ ~flag(s.customer_fault) /\ flag(s.carrier_fault)
      /\ LateEnough(order(s), n, c, Policy)
      /\ check_service_credit_eligibility(order(s), n, c, Policy) = Credit(order(s), c, Policy)
  BY EligibleMeans
<1>2. Credit(order(r), c, Policy) = Credit(order(s), c, Policy)
  <2>1. Credit(order(s), c, Policy).eligibility = "eligible"
    BY <1>1
  <2> QED BY <2>1, CreditOfFee
<1>3. check_service_credit_eligibility(order(r), n, c, Policy) =
        IF flag(r.customer_fault) \/ ~LateEnough(order(r), n, c, Policy) THEN NotEligible
        ELSE Credit(order(r), c, Policy)
  BY <1>1, CreditAnswer, Zenon
<1>4. flag(r.customer_fault) \/ ~LateEnough(order(r), n, c, Policy)
  BY <1>1, <1>2, <1>3
<1> QED BY <1>1, <1>3, <1>4, LateOfTimes

\* What an edit does to the cells the credit rule reads: each is kept, or
\* filled in where it was empty.
Added ==
  /\ sheet'.pickup_window_end = sheet.pickup_window_end \/ sheet.pickup_window_end = NULL
  /\ sheet'.carrier_fault = sheet.carrier_fault \/ sheet.carrier_fault = "blank"
  /\ sheet'.customer_fault = sheet.customer_fault \/ sheet.customer_fault = "blank"
  /\ sheet'.shipment_fee_inr = sheet.shipment_fee_inr \/ sheet.shipment_fee_inr = NULL
  /\ \/ sheet'.pickup_actual_at = sheet.pickup_actual_at
     \/ sheet.pickup_actual_at = NULL /\ sheet'.pickup_actual_at \in Past

\* The keepers of the workbook add to a row and take nothing back.
LEMMA CellsAreAdded ==
  ASSUME TypeOK, [Next]_vars
  PROVE  Added
<1> USE DEF TypeOK, Sheet, Edit, Added
<1>1. CASE Wait
  BY <1>1 DEF Wait
<1>2. CASE Book
  BY <1>2 DEF Book
<1>3. ASSUME NEW t \in Past, RequestCancellation(t) PROVE Added
  BY <1>3 DEF RequestCancellation
<1>4. ASSUME NEW t \in Past, NEW s \in Statuses, RecordPickupTime(t, s) PROVE Added
  BY <1>4 DEF RecordPickupTime
<1>5. ASSUME NEW s \in Statuses, RecordStatus(s) PROVE Added
  BY <1>5 DEF RecordStatus
<1>6. ASSUME NEW t \in Times, FillWindow(t) PROVE Added
  BY <1>6 DEF FillWindow
<1>7. ASSUME NEW fee \in Fees, FillFee(fee) PROVE Added
  BY <1>7 DEF FillFee
<1>8. ASSUME NEW party \in {"carrier_fault", "customer_fault"}, NEW v \in Cells,
             FindFault(party, v)
      PROVE  Added
  BY <1>8 DEF FindFault
<1>9. CASE UNCHANGED vars
  BY <1>9 DEF vars
<1> QED BY <1>1, <1>2, <1>3, <1>4, <1>5, <1>6, <1>7, <1>8, <1>9 DEF Next

\* A promised credit keeps its amount over every edit and every snapshot, and
\* is withdrawn for the two reasons PromiseStands names only.
THEOREM PromisesStand == Spec => PromiseStands
<1> DEFINE answer(s) == check_service_credit_eligibility(order(s), now, contract, Policy)
           Excused == /\ credit'.eligibility = "not_eligible"
                      /\ \/ sheet.customer_fault = "blank" /\ flag(sheet'.customer_fault)
                         \/ /\ sheet.pickup_actual_at = NULL /\ sheet'.pickup_actual_at # NULL
                            /\ sheet'.pickup_actual_at < now
<1>1. TypeOK /\ TypeOK' /\ [Next]_vars =>
        (credit.eligibility = "eligible" /\ credit' # credit => Excused)
  <2> SUFFICES ASSUME TypeOK, TypeOK', [Next]_vars, credit.eligibility = "eligible", credit' # credit
               PROVE  Excused
    OBVIOUS
  <2>1. sheet \in Sheet /\ sheet' \in Sheet /\ contract \in Contracts /\ now \in Times
    BY DEF TypeOK
  <2>2. sheet' # sheet
    <3> SUFFICES ASSUME UNCHANGED sheet PROVE FALSE
      OBVIOUS
    <3>1. /\ contract' = contract /\ now' \in Times /\ now <= now'
      BY OnlyTimePasses
    <3>2. credit' = check_service_credit_eligibility(order(sheet), now', contract, Policy)
      BY <3>1 DEF credit
    <3> QED BY <2>1, <3>1, <3>2, CreditInTime DEF credit
  <2>3. now' = now /\ contract' = contract
    BY <2>1, <2>2 DEF Next, vars, Wait, Edit, Book, RequestCancellation, RecordPickupTime,
                     RecordStatus, FillWindow, FillFee, FindFault
  <2>4. /\ credit = answer(sheet) /\ credit' = answer(sheet')
    BY <2>3 DEF credit
  <2>5. /\ sheet.pickup_window_end # NULL
        /\ ~flag(sheet.customer_fault) /\ flag(sheet.carrier_fault)
    BY <2>1, <2>4, EligibleMeans
  <2>6. /\ sheet'.pickup_window_end = sheet.pickup_window_end
        /\ flag(sheet'.carrier_fault) <=> flag(sheet.carrier_fault)
        /\ sheet'.shipment_fee_inr = sheet.shipment_fee_inr \/ sheet.shipment_fee_inr = NULL
        /\ sheet'.customer_fault = sheet.customer_fault \/ sheet.customer_fault = "blank"
        /\ \/ sheet'.pickup_actual_at = sheet.pickup_actual_at
           \/ sheet.pickup_actual_at = NULL /\ sheet'.pickup_actual_at \in Past
    <3>1. flag(sheet.carrier_fault) => sheet.carrier_fault # "blank"
      BY DEF flag
    <3> QED BY <2>5, <3>1, CellsAreAdded DEF Added
  <2>7. /\ credit' = NotEligible
        /\ \/ flag(sheet'.customer_fault)
           \/ Or(sheet'.pickup_actual_at, now) # Or(sheet.pickup_actual_at, now)
    BY <2>1, <2>4, <2>6, PromiseKept
  <2>8. flag(sheet'.customer_fault) => sheet.customer_fault = "blank"
    BY <2>5, <2>6
  <2>9. ASSUME Or(sheet'.pickup_actual_at, now) # Or(sheet.pickup_actual_at, now)
        PROVE  /\ sheet.pickup_actual_at = NULL /\ sheet'.pickup_actual_at # NULL
               /\ sheet'.pickup_actual_at < now
    <3>1. sheet.pickup_actual_at = NULL /\ sheet'.pickup_actual_at \in Past
      BY <2>6, <2>9
    <3>2. /\ sheet'.pickup_actual_at \in Int /\ now \in Int /\ sheet'.pickup_actual_at <= now
          /\ sheet'.pickup_actual_at # NULL
      BY <2>1, <3>1 DEF Past
    <3>3. sheet'.pickup_actual_at # now
      BY <2>9, <3>1, <3>2 DEF Or
    <3> QED BY <3>1, <3>2, <3>3
  <2> QED BY <2>7, <2>8, <2>9 DEF NotEligible
<1> QED BY <1>1, DeskTypeCorrect, PTL DEF Spec, PromiseStands

-----------------------------------------------------------------------------

\* The cancellation answer of a BOOKED order without a pickup time.
LEMMA BookedAnswer ==
  ASSUME NEW s \in Sheet, NEW c \in Contracts, NEW n \in Times,
         s.status = "BOOKED", s.pickup_actual_at = NULL
  PROVE  LET t == Or(s.cancellation_requested_at, n)
         IN  check_cancellation_eligibility(order(s), n, c, Policy) =
               IF t < s.booked_at
                 THEN Cancellation("needs_verification", NULL)
               ELSE IF c.fee_waived
                         \/ t - s.booked_at <= Policy.cancellation_free_window_minutes
                 THEN Cancellation("allowed_no_fee", 0)
               ELSE Cancellation("allowed_with_fee",
                                 100 * Policy.cancellation_fee_after_window_inr)
BY OrderFields DEF check_cancellation_eligibility, Requested, BookedInconsistent, FreeOfCharge

\* For a row of any content: the cancellation answer moves with time only
\* without a recorded request, and only in the directions listed.
LEMMA CancellationInTime ==
  ASSUME NEW s \in Sheet, NEW c \in Contracts, NEW m \in Times, NEW n \in Times, m <= n,
         check_cancellation_eligibility(order(s), n, c, Policy)
           # check_cancellation_eligibility(order(s), m, c, Policy)
  PROVE  LET before == check_cancellation_eligibility(order(s), m, c, Policy).decision
             after  == check_cancellation_eligibility(order(s), n, c, Policy).decision
         IN  /\ s.cancellation_requested_at = NULL
             /\ <<before, after>> \in {<<"allowed_no_fee", "allowed_with_fee">>,
                                      <<"needs_verification", "allowed_no_fee">>,
                                      <<"needs_verification", "allowed_with_fee">>}
<1>1. s.status = "BOOKED"
  BY OrderFields DEF check_cancellation_eligibility
<1>2. s.pickup_actual_at = NULL
  BY <1>1, OrderFields DEF check_cancellation_eligibility, BookedInconsistent
<1>3. s.cancellation_requested_at = NULL
  BY <1>1, <1>2, BookedAnswer DEF Or
<1>4. Or(s.cancellation_requested_at, m) = m /\ Or(s.cancellation_requested_at, n) = n
  BY <1>3 DEF Or
<1>5. /\ m \in Int /\ n \in Int /\ s.booked_at \in Int
      /\ Policy.cancellation_free_window_minutes \in Int
  BY DEF Sheet, PolicyDefaults
<1> DEFINE window == Policy.cancellation_free_window_minutes
           answer(t) == check_cancellation_eligibility(order(s), t, c, Policy)
<1>6. \A t \in {m, n} :
        answer(t) = IF t < s.booked_at
                      THEN Cancellation("needs_verification", NULL)
                    ELSE IF c.fee_waived \/ t - s.booked_at <= window
                      THEN Cancellation("allowed_no_fee", 0)
                    ELSE Cancellation("allowed_with_fee",
                                      100 * Policy.cancellation_fee_after_window_inr)
  BY <1>1, <1>2, <1>4, BookedAnswer
<1>7. answer(n) # answer(m)
  OBVIOUS
<1> HIDE DEF answer, window
<1>8. window \in Int
  BY <1>5 DEF window
<1>9. /\ answer(m).decision \in {"allowed_no_fee", "needs_verification"}
      /\ answer(n).decision \in {"allowed_no_fee", "allowed_with_fee"}
      /\ answer(m).decision # answer(n).decision
  BY <1>5, <1>6, <1>7, <1>8 DEF Cancellation
<1> QED BY <1>3, <1>9 DEF answer

\* A fee is incurred by waiting only while no request is on record, and
\* waiting never makes a charged or refused cancellation better.
THEOREM CancellationNeverImproves == Spec => CancellationStable
<1>1. TypeOK /\ [Next]_vars =>
        (UNCHANGED sheet /\ cancellation' # cancellation =>
           /\ sheet.cancellation_requested_at = NULL
           /\ <<cancellation.decision, cancellation'.decision>> \in
                {<<"allowed_no_fee", "allowed_with_fee">>,
                 <<"needs_verification", "allowed_no_fee">>,
                 <<"needs_verification", "allowed_with_fee">>})
  <2> SUFFICES ASSUME TypeOK, [Next]_vars, UNCHANGED sheet, cancellation' # cancellation
               PROVE  /\ sheet.cancellation_requested_at = NULL
                      /\ <<cancellation.decision, cancellation'.decision>> \in
                           {<<"allowed_no_fee", "allowed_with_fee">>,
                            <<"needs_verification", "allowed_no_fee">>,
                            <<"needs_verification", "allowed_with_fee">>}
    OBVIOUS
  <2>1. /\ contract' = contract /\ now' \in Times /\ now <= now'
        /\ sheet \in Sheet /\ contract \in Contracts /\ now \in Times
    BY OnlyTimePasses DEF TypeOK
  <2>2. cancellation' = check_cancellation_eligibility(order(sheet), now', contract, Policy)
    BY <2>1 DEF cancellation
  <2> QED BY <2>1, <2>2, CancellationInTime DEF cancellation
<1> QED BY <1>1, DeskTypeCorrect, PTL DEF Spec, CancellationStable

-----------------------------------------------------------------------------
(* The questions of the credit rule *)

\* What the credit of a late order may still ask for.
LEMMA CreditMissing ==
  ASSUME NEW s \in Sheet, NEW c \in Contracts
  PROVE  LET answer == Credit(order(s), c, Policy) IN
         /\ answer.missing \in {{}, {"shipment_fee_inr"}}
         /\ answer.missing # {} => s.shipment_fee_inr = NULL
         /\ answer.eligibility = "needs_verification" => answer.missing = {"shipment_fee_inr"}
BY OrderFields DEF Credit, Ask, Misconfigured, Eligible

\* A question the rule asks is answered by what it asks for.
THEOREM QuestionsAreAnswerable == Spec => []QuestionsEnd
<1>1. ASSUME TypeOK PROVE QuestionsEnd
  <2> SUFFICES ASSUME credit.eligibility = "needs_verification",
                      NEW t \in Times, NEW fee \in Fees
               PROVE
      LET told(f)  == IF f \in credit.missing THEN
                        CASE f = "pickup_window_end" -> t [] f = "shipment_fee_inr" -> fee
                      ELSE sheet[f]
          answered == [sheet EXCEPT !.pickup_window_end = told("pickup_window_end"),
                                    !.shipment_fee_inr = told("shipment_fee_inr")]
          again    == check_service_credit_eligibility(order(answered), now, contract, Policy)
      IN  /\ again.missing \cap credit.missing = {}
          /\ again.missing # {} => sheet.shipment_fee_inr = NULL
    BY DEF QuestionsEnd
  <2> DEFINE told(f) == IF f \in credit.missing THEN
                          CASE f = "pickup_window_end" -> t [] f = "shipment_fee_inr" -> fee
                        ELSE sheet[f]
             answered == [sheet EXCEPT !.pickup_window_end = told("pickup_window_end"),
                                       !.shipment_fee_inr = told("shipment_fee_inr")]
             again == check_service_credit_eligibility(order(answered), now, contract, Policy)
  <2>1. sheet \in Sheet /\ contract \in Contracts /\ t # NULL /\ fee # NULL
    BY <1>1 DEF TypeOK
  <2>2. \/ credit.missing = {"pickup_window_end"} /\ sheet.pickup_window_end = NULL
        \/ credit.missing = {"shipment_fee_inr"} /\ sheet.pickup_window_end # NULL
    BY <2>1, FlagsKnown, CreditMissing
    DEF credit, check_service_credit_eligibility, Ask, NotEligible
  <2>3. /\ told("pickup_window_end") =
              IF "pickup_window_end" \in credit.missing THEN t ELSE sheet.pickup_window_end
        /\ told("shipment_fee_inr") =
              IF "shipment_fee_inr" \in credit.missing THEN fee ELSE sheet.shipment_fee_inr
    BY <2>1
  <2>4. /\ told("pickup_window_end") \in Times /\ told("pickup_window_end") # NULL
        /\ told("shipment_fee_inr") \in Fees \cup {NULL}
    BY <2>1, <2>2, <2>3 DEF Sheet
  <2> HIDE DEF told
  <2>5. /\ answered \in Sheet
        /\ answered.pickup_window_end # NULL
        /\ answered.shipment_fee_inr = told("shipment_fee_inr")
    BY <2>1, <2>4 DEF Sheet
  <2> HIDE DEF answered
  <2>6. /\ again.missing \in {{}, {"shipment_fee_inr"}}
        /\ again.missing # {} => told("shipment_fee_inr") = NULL
    BY <2>1, <2>5, FlagsKnown, CreditMissing DEF check_service_credit_eligibility, NotEligible
  <2> HIDE DEF again
  <2>7. /\ again.missing \cap credit.missing = {}
        /\ again.missing # {} => sheet.shipment_fee_inr = NULL
    BY <2>1, <2>2, <2>3, <2>6
  <2> QED
    BY <2>7, Zenon DEF told, answered, again
<1> QED
  BY <1>1, DeskTypeCorrect, PTL

-----------------------------------------------------------------------------
(* When the credit rule raises *)

\* Every fixed credit has an amount, which the loader does not check.
FixedHasAmount ==
  \A c \in Contracts : c.credit_amount_mode = "fixed" => c.credit_amount_inr # NULL

\* Where every fixed credit has its amount, the credit rule answers for every
\* order the desk can meet, at any snapshot: nothing else makes it raise.
THEOREM CompleteTermsNeverRaise ==
  ASSUME FixedHasAmount
  PROVE  Spec => []ValidatedTermsNeverRaise
<1>1. TypeOK => ValidatedTermsNeverRaise
  <2> SUFFICES ASSUME TypeOK PROVE credit.eligibility # "error"
    BY DEF ValidatedTermsNeverRaise
  <2> DEFINE o == order(sheet)
  <2>1. contract.credit_amount_mode = "fixed" => contract.credit_amount_inr # NULL
    BY DEF TypeOK, FixedHasAmount
  <2>2. Credit(o, contract, Policy).eligibility # "error"
    <3> HIDE DEF o
    <3> QED
      BY <2>1 DEF Credit, Eligible, Ask
  <2> HIDE DEF o
  <2>3. check_service_credit_eligibility(o, now, contract, Policy).eligibility # "error"
    BY <2>2 DEF check_service_credit_eligibility, Ask, NotEligible
  <2> QED
    BY <2>3 DEF credit, o
<1> QED
  BY <1>1, DeskTypeCorrect, PTL
=============================================================================
