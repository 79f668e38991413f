SPECIFICATION Spec
CONSTANTS
  NULL = NULL
  Times = {0, 30, 31, 91}
  Fees = {100, 9000}
  Contracts <- MCContracts
  Policy <- MCPolicy
INVARIANT
  PickupNeverAllowed
CHECK_DEADLOCK FALSE
