SPECIFICATION Spec
CONSTANTS
  a1 = a1  m1 = m1  r1 = r1  r2 = r2
  Addr = {a1, m1}
  Contract = {m1}
  Recorded <- SomeModules
  Recipient = {r1, r2}
  Denied = {r2}
  Asset = {t1}
  Unset = Unset
  MaxAssets = 1
  MaxBatch = 2
  MaxPause = 1
  MinDelay = 1
  MaxDelay = 2
  Grace = 1
  MaxTime = 1
  MaxFunds = 3
  MaxSettings = 4
  MaxQueue = 1
  Amounts = {1, 2}
  Batches <- SomeBatches
  Locks <- SomeLocks
  AllowanceTerms <- SomeTerms
  Schedules <- SomeSchedules
PROPERTY FrozenMovesNothing
CHECK_DEADLOCK FALSE
