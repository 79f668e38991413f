SPECIFICATION Spec
CONSTANTS
  NULL = NULL
  Malformed = Malformed
  waived = waived
  a1 = a1
  a2 = a2
  AccountIds = {a1, a2}
  Times = {0, 12, 60, 1441}
  Severities = {"P1", "P2"}
  Rules <- MCRules
  Accounts <- MCAccounts
  Policy <- MCPolicy
  MaxEntries = 3
INVARIANTS
  TypeOK
  LatestEntryCounts
PROPERTIES
  BreachIsFinal
  UnrelatedEntriesLocal
CHECK_DEADLOCK FALSE
