SPECIFICATION Spec
CONSTANTS
  c1 = c1  c2 = c2  h1 = h1  h2 = h2
  Kind = {"Organization", "Treasury"}
  Addr = {u1, u2, c1, c2, reg}
  Caller = {u1, u2}
  Roles = {"ModuleUpgrader", "TreasuryOperator"}
  Hash = {h1, h2}
  Unset = Unset
  Deployed = Deployed
  Unbound = Unbound
  TheRegistry = reg
  Registries = {reg}
  Org = {o1}
  Contract = {c1, c2}
  Target = {c1}
  Releases <- SomeReleases
  MaxVersion = 2
  MaxApprovers = 2
  MaxAudit = 2
  MaxScan = 2
  Expiry = 0
  MaxTime = 1
  MaxGovernance = 2
  MaxOrgCalls = 4
  MaxPublications = 4
  MaxCalls = 6
SYMMETRY Interchangeable
INVARIANTS
  TypeOK
  LatestIsHighest
  RunsItsVersion
  AuditTellsPending
PROPERTIES
  HistoryKept
CHECK_DEADLOCK FALSE
