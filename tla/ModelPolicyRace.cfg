SPECIFICATION ModelSpec
CONSTANTS
  StoreTenants = {t1}
  StoreCalls = {c1, c2}
  NoEntry <- NoPolicy
  a = a
  b = b
  Models = {a, b}
  ReasoningModels = {a}
  Deployments <- MCDeployments
  Proposals <- MCProposals
  MaxTenantModels = 2
  MaxEditions = 3
  MaxModelRestarts = 0
PROPERTY RacingUpdatesNeverOverwrite
CHECK_DEADLOCK FALSE
