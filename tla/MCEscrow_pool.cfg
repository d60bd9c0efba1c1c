SPECIFICATION Spec
CONSTANTS
  a1 = a1  a2 = a2  a3 = a3
  t1 = t1  t2 = t2
  k1 = k1  k2 = k2
  Addr = {a1, a2, a3}
  NoAdmin = NoAdmin
  Token = {t1, t2}
  Key = {k1, k2}
  U64 = 1000
  MaxEscrows = 2
  MaxTime = 2
  MaxEscrowAssets = 2
  MaxEscrowTokens = 2
  MaxSigners = 2
  Deposits <- TwoAssets
  Deadlines = {2}
  GracePeriods = {0}
  RefundWindows = {0}
  Overrides <- WithoutOverride
  Conditions = {}
  Schedules <- ShortLinear
  MilestoneSpecs <- TwoMilestones
  Amounts = {2}
  Nonces = {1}
  Parties <- OneDeal
  Admins = {a3}
INVARIANTS
  CustodySound
PROPERTIES
  ImplementsVault
