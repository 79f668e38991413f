SPECIFICATION ConfigSpec
CONSTANTS
  NULL = NULL
  Malformed = Malformed
  Absent = Absent
  Raised = Raised
  Unloadable = Unloadable
  waived = waived
  charged = charged
  bare = bare
  cheap = cheap
  dear = dear
  a1 = a1
  a2 = a2
  p1 = p1
  AccountIds = {a1, a2}
  Processes = {p1}
  Rules <- MCRules
  Example <- MCExample
  Supplied <- MCSupplied
  Cut <- MCCut
INVARIANTS
  ConfigTypeOK
  PolicyOfOneDocument
  ContractsOfOneManifest
PROPERTY
  LoadedAtOneMoment
