SPECIFICATION SigningSpec
CONSTANTS
  Instances = {i1, i2}
  NoOne = NoOne
  Policies <- MCPolicies
  DefaultPolicy <- Automatic
  MaxVerifyKeys = 1
  LeaseTtl = 1
  StaleAfter = 1
  MaxKeys = 3
  MaxClock = 3
  MaxDemands = 1
  MaxMishaps = 1
SYMMETRY Symmetric
INVARIANTS SigningTypeOK SignedKeyWasStored
PROPERTIES RotatesOnlyWhenDue KeysLeaveByPruning OnlyTheLeaderMaintains
CHECK_DEADLOCK FALSE
