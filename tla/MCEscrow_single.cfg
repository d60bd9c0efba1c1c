SPECIFICATION FairSpec
CONSTANTS
  a1 = a1  a2 = a2  a3 = a3
  t1 = t1  t2 = t2
  k1 = k1  k2 = k2
  Addr = {a1, a2, a3}
  NoAdmin = NoAdmin
  Token = {t1, t2}
  Key = {k1, k2}
  U64 = 1000
  MaxEscrows = 1
  MaxTime = 5
  MaxEscrowAssets = 2
  MaxEscrowTokens = 2
  MaxSigners = 2
  Deposits <- OneAndTwoAssets
  Deadlines = {0, 3}
  GracePeriods = {0, 1}
  RefundWindows = {0, 1}
  Overrides <- AnyOverride
  Conditions <- AnyCondition
  Schedules <- SomeSchedules
  MilestoneSpecs <- SomeMilestones
  Amounts = {0, 1, 2, 5}
  Nonces = {0, 1}
  Parties <- AllDeals
  Admins = {a3}
INVARIANTS
  TypeOK
  SettledPaysEverything
  PaidOnlyWithApprovals
  HandoffExact
  EarnedBeforePaid
PROPERTIES
  SettlesOnceAndInTime
  SenderExitNeverBlocked
