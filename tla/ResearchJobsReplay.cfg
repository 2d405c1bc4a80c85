SPECIFICATION JobsSpec
CONSTANTS
  Tenants = {t1}
  JobKeys = {k1}
  NoKey = NoKey
  MaxActiveJobs = 2
  MaxJobs = 1
  Ttl = 0
  MaxIssued = 3
  MaxJobTime = 1
INVARIANTS KeyNamesOneJob
CHECK_DEADLOCK FALSE
