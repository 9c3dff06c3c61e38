SPECIFICATION Spec
CONSTANTS
  Changes = {"c1", "c2"}
  Keys = {"k1"}
  Fields = {"f0", "f1"}
  SeedField = "f0"
  None = "none"
  MaxInjected = 1
  Requests = {r1, r2, r3}
  Intents <- MCIntents
  MaxConcurrent = 2
  MaxFaults = 1
INVARIANTS
  OneMutationPerKey
  SuccessIsBacked
  QuotaIsHeld
  ReservationHasOwner
  AuditCovers
PROPERTIES
  LedgerMovesForward
SYMMETRY MCSymmetry
CHECK_DEADLOCK FALSE
