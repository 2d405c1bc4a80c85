SPECIFICATION Spec
CONSTANTS
  Dests = {d1}
  Rules = {r1}
  Keys = {}
  Operators = {}
  None = None
  MaxRecords = 3
  FailureLimit = 9
  DeadLimit = 9
  Window = 9
  Cooldown = 1
  IdemTtl = 0
  MaxActive = 2
  MaxAttempts = 2
  MaxRedrives = 1
  RequestTtl = 1
  Corruptible = TRUE
  MaxDeliveries = 3
  MaxRequests = 2
  MaxTime = 1
  MaxPolicyEdits = 0
  MaxCrashes = 0
  MaxFaults = 0
INVARIANTS NoOrphanActive EnqueueCap
PROPERTIES ImplementsContract
SYMMETRY Symmetry
CHECK_DEADLOCK FALSE
