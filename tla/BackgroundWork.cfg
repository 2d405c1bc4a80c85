SPECIFICATION WorkSpec
CONSTANTS
  Dests = {d1}
  Rules = {r1}
  Keys = {k1}
  Operators = {}
  None = None
  MaxRecords = 2
  FailureLimit = 1
  DeadLimit = 9
  Window = 9
  Cooldown = 1
  IdemTtl = 0
  MaxActive = 2
  MaxAttempts = 2
  MaxRedrives = 1
  RequestTtl = 1
  Corruptible = FALSE
  MaxDeliveries = 2
  MaxRequests = 2
  MaxTime = 1
  MaxPolicyEdits = 0
  MaxCrashes = 0
  MaxFaults = 0
  Tenants = {t1, t2}
  JobKeys = {k1}
  NoKey = NoKey
  MaxActiveJobs = 2
  MaxJobs = 1
  Ttl = 0
  MaxIssued = 3
  MaxJobTime = 1
  FailureThreshold = 3
  SuccessThreshold = 2
  BreakerCooldown = 1
  MaxCalls = 2
  MaxSnapshots = 1
INVARIANTS ActiveCap StoreBounded CancelReachesRunner HalfOpenAfterRest
PROPERTIES EveryDeliverySettles SettledForGood EveryJobEnds  TrustReturns
CHECK_DEADLOCK FALSE
