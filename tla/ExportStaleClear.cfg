SPECIFICATION Spec
CONSTANTS
  Dests = {d1}
  Rules = {r1}
  Keys = {}
  Operators = {o1, o2}
  None = None
  MaxRecords = 2
  FailureLimit = 1
  DeadLimit = 1
  Window = 3
  Cooldown = 1
  IdemTtl = 0
  MaxActive = 1
  MaxAttempts = 1
  MaxRedrives = 1
  RequestTtl = 2
  Corruptible = FALSE
  MaxDeliveries = 2
  MaxRequests = 2
  MaxTime = 3
  MaxPolicyEdits = 0
  MaxCrashes = 0
  MaxFaults = 0
PROPERTIES ClearSeesFreshFailures
CHECK_DEADLOCK FALSE
