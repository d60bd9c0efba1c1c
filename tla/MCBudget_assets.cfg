SPECIFICATION Spec
CONSTANTS
  t1 = t1  t2 = t2
  BPS = 2
  MaxI128 = 5
  Cadence <- Seconds
  Addr = {o1}
  NoAdmin = NoAdmin
  BudgetId = {b1}
  Token = {t1, t2}
  MaxBatchTokens = 2
  MaxTime = 4
  MaxSettings = 3
  Grants <- PlainGrants
  Starts = {1}
  Recurrences = {}
  Rollovers = {}
  Limits = {}
  Amounts = {1}
  AssetTerms <- SomeAssetTerms
  AssetRollovers <- SomeRollovers
  Spends <- SomeBatches
INVARIANTS
  AssetAllowanceNotMinted
CHECK_DEADLOCK FALSE
