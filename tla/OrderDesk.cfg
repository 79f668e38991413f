SPECIFICATION Spec
CONSTANTS
  NULL = NULL
  Times = {0, 30, 31, 91}
  Fees = {100, 9000}
  Contracts <- MCContracts
  Policy <- MCPolicy
INVARIANTS
  TypeOK
  QuestionsEnd
PROPERTIES
  PickupEndsCancellation
  PromiseStands
  CancellationStable
  CreditStable
CHECK_DEADLOCK FALSE
