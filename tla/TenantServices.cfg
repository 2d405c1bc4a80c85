SPECIFICATION ServicesSpec
CONSTANTS
  SessionTenants = {t1, t2, t3}
  TenantCap = 1
  GlobalCap = 2
  SessionTtl = 1
  MaxIdle = 1
  MaxSessions = 3
  MaxSessionTime = 1
  MaxAdmitted = 1
  MaxWaiting = 1
  MaxRestarts = 1
  MaxFailures = 2
  LoginWindow = 2
  BlockTime = 2
  RateLimit = 2
  RateWindow = 2
  MaxTries = 5
  MaxLimitTime = 6
  AuditLimits = {1, 2, 3}
  MaxEvents = 4
  MaxAuditTime = 2
  MaxSetBacks = 1
  MaxAuditWaiting = 1
  MaxReloads = 1
  StoreTenants = {t1, t2}
  StoreCalls = {s1, s2}
  NoEntry <- NoPolicy
  a = a
  b = b
  Models = {a, b}
  ReasoningModels = {a}
  Deployments <- MCDeployments
  Proposals <- MCProposals
  MaxTenantModels = 2
  MaxEditions = 3
  MaxModelRestarts = 1
  KeyTenants = {t1, t2}
  TenantKeys = {"k1", "k2"}
  NoKey = NoKey
  KeyCalls = {s1, s2}
  MaxKeyWrites = 3
  PolicyTenants = {t1, t2}
  Ports = {443, 8443}
  Hosts <- MCHosts
  Paths <- MCPaths
  Admins = {t1, t2}
  PolicyLimits = {1, 2}
  PolicyDefaults <- MCPolicyDefaults
  PolicyEdits <- MCPolicyEdits
  PolicySlots = {s1, s2}
  MaxPolicyStarts = 1
  NoFile = NoFile
  EmptyFile = EmptyFile
  TornFile = TornFile
  MemTenants = {t1, t2}
  Facts = {"f", "g"}
  ClientIds = {c}
  NoId = NoId
  KeptPerTenant = 2
  BatchSlack = 1
  Batches <- MCBatches
  MaxMemCalls = 3
  MaxMemTime = 1
  MaxMemCrashes = 1
  RagTenants = {t1, t2}
  DocumentIds = {c}
  NoDocumentId = NoId
  Urls = {u1, u2, u3, bad}
  WellShaped = {u1, u2, u3}
  MaxRedirects = 1
  RagBatches <- MCRagBatches
  MaxRagCalls = 3
  MaxFetches = 1
  MaxRagCrashes = 1
INVARIANTS
  ServiceTypesOK
  QueuesMatchSessions SettledFileRestores LimitersHold AuditTrailHolds
  ModelsResolveWithinBoth ModelPreviewForetells  PolicyRulesNest FetchesEnd
PROPERTIES
   SameOriginSameHashes UpdatesNameWhatTheyReplace
   
SYMMETRY Symmetry
CHECK_DEADLOCK FALSE
