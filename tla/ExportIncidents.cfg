SPECIFICATION Spec
CONSTANTS
  Dests = {d1}
  Rules = {r1}
  Keys = {}
  Operators = {o1, o2}
  None = None
  MaxRecords = 2
  FailureLimit = 1
  DeadLimit = 1
  Window = 2
  Cooldown = 1
  IdemTtl = 0
  MaxActive = 1
  MaxAttempts = 2
  MaxRedrives = 1
  RequestTtl = 1
  Corruptible = TRUE
  MaxDeliveries = 3
  MaxRequests = 2
  MaxTime = 2
  MaxPolicyEdits = 1
  MaxCrashes = 1
  MaxFaults = 1
INVARIANTS ResolutionIsEarned SettledHoldsNoPayload
  
CONSTRAINT DisturbedOnce
SYMMETRY Symmetry
CHECK_DEADLOCK FALSE
