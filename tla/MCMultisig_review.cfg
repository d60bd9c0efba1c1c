SPECIFICATION Spec
CONSTANTS
  Addr = {s1, s2}
  MinThreshold = 1
  MaxSigners = 2
  MaxWeight = 3
  MinDelay = 1
  MaxDelay = 2
  Grace = 1
  ThresholdDelay = 1
  Thresholds = {1}
  Weights = {1}
  Unlocks = {0}
  Nonces = {}
  MaxTime = 4
  MaxChanges = 3
  MaxProposals = 0
  InitialWeights <- Founders
  Offers <- DelayOffers
SYMMETRY Interchangeable
PROPERTIES
  ReviewWindowKept
CHECK_DEADLOCK FALSE
