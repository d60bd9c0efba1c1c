SPECIFICATION Spec
CONSTANTS
  t1 = t1  t2 = t2
  BPS = 2
  MaxI128 = 5
  Cadence <- Seconds
  Addr = {o1}
  NoAdmin = NoAdmin
  BudgetId = {b1, b2}
  Token = {}
  MaxBatchTokens = 2
  MaxTime = 3
  MaxSettings = 3
  Grants <- SomeGrants
  Starts = {1}
  Recurrences <- SomeRecurrences
  Rollovers <- SomeRollovers
  Limits = {1}
  Amounts = {1}
  AssetTerms = {}
  AssetRollovers = {}
  Spends = {}
SYMMETRY Interchangeable
INVARIANTS
  TypeOK
  AllowanceNotMinted
  AllocationConserved
  SettlementConfluent
CHECK_DEADLOCK FALSE
