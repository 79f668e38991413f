SPECIFICATION Spec
CONSTANTS
  NULL = NULL
  Zones <- MCZones
  Horizon = 8
  Fields = {"booked_at", "cancellation_requested_at"}
  Target = 1
INVARIANTS
  TypeOK
  MisorderedOnlyInFold
  WrongVerdictOnlyInFold
PROPERTIES
  BackwardsOnlyInFold
