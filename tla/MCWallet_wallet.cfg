SPECIFICATION Spec
CONSTANTS
  r1 = r1  t1 = t1  t2 = t2
  Buckets = 2
  Unset = Unset
  Addr = {a1, a2}
  Recipient = {r1, r2, r3}
  Refused = {r3}
  Denied = {r2}
  Asset = {t1, t2}
  Default = Default
  MaxBatch = 2
  MaxWallets = 2
  MaxTime = 3
  MaxMoves = 3
  MaxSettings = 4
  MaxCalls = 6
  Amounts = {1}
  Deposits <- SomeDeposits
  VelocityTerms <- SomeVelocities
  RateTerms <- SomeRates
  Batches <- SomeBatches
SYMMETRY Symmetric
INVARIANTS
  TypeOK
  BooksExplainCustody
PROPERTIES
  LimitsHeld
  StopsAndBudgetObeyed
CHECK_DEADLOCK FALSE
