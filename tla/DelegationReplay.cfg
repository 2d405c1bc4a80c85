SPECIFICATION MCSpec
CONSTANTS
  None = None
  Empty = Empty
  Torn = Torn
  Principals = {p1, p2, p3}
  Approvers = {p1, p2}
  Operators = {p1, p2}
  Slots = {s1, s2}
  MaxActive = 2
  MaxPending = 1
  ApprovalTtl = 1
  GrantTtl = 1
  Delegates = {p3}
  Askable = {"clear_request"}
  MaxGrants = 1
  MaxHandlers = 2
  MaxRevision = 4
  MaxTime = 2
  MaxCrashes = 1
PROPERTY ConsumedGrantIsSpent
SYMMETRY Symmetry
CHECK_DEADLOCK FALSE
