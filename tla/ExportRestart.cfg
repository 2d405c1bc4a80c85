SPECIFICATION FairSpec
CONSTANTS
  Dests = {d1}
  Rules = {r1}
  Keys = {}
  Operators = {}
  None = None
  MaxRecords = 2
  FailureLimit = 1
  DeadLimit = 9
  Window = 9
  Cooldown = 1
  IdemTtl = 0
  MaxActive = 2
  MaxAttempts = 2
  MaxRedrives = 1
  RequestTtl = 1
  Corruptible = FALSE
  MaxDeliveries = 1
  MaxRequests = 2
  MaxTime = 1
  MaxPolicyEdits = 0
  MaxCrashes = 1
  MaxFaults = 0
PROPERTIES RestartResumesRetries
CHECK_DEADLOCK FALSE
