SPECIFICATION MCSpec
CONSTANTS
  None = None
  Empty = Empty
  Torn = Torn
  Principals = {p1, p2, p3}
  Approvers = {p1, p2}
  Operators = {p1, p2}
  Slots = {s1, s2}
  MaxActive = 2
  MaxPending = 1
  ApprovalTtl = 1
  GrantTtl = 1
  Delegates = {p3}
  Askable = {"clear_request"}
  MaxGrants = 2
  MaxHandlers = 1
  MaxRevision = 2
  MaxTime = 2
  MaxCrashes = 1
INVARIANTS SeparationOfDuties NoTwinGrants 
PROPERTIES SettledIsFinal
SYMMETRY Symmetry
CHECK_DEADLOCK FALSE
