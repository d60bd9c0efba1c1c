SPECIFICATION Spec
CONSTANTS
  Addr = {s1, s2}
  MaxWeight = 2
  MinThreshold = 1
  QuorumPercent = 50
  MaxApprovers = 2
  MaxDependencies = 1
  MaxPruneBatch = 2
  MaxU64 = 5
  MaxDeposit = 2
  Timelocks = {1, 5}
  Terms <- SmallTerms
  MaxTime = 3
  MaxProposals = 2
SYMMETRY Interchangeable
INVARIANTS
  TypeOK
  DepositsSound
  ChainInOrder
PROPERTIES
  ExecutedOnSupport
  CoolingOff
  LifecycleKept
CHECK_DEADLOCK FALSE
