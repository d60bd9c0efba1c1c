SPECIFICATION Spec
CONSTANTS
  Addr = {s1, s2}
  MinThreshold = 1
  MaxSigners = 2
  MaxWeight = 3
  MinDelay = 1
  MaxDelay = 2
  Grace = 1
  ThresholdDelay = 1
  Thresholds = {0, 1, 2}
  Weights = {1, 2}
  Unlocks = {0}
  Nonces = {1}
  MaxTime = 2
  MaxChanges = 1
  MaxProposals = 1
  InitialWeights <- Founders
  Offers <- SignerOffers
SYMMETRY Interchangeable
INVARIANTS
  TypeOK
  QuorumReachable
PROPERTIES
  ExecutedByLiveQuorum
  DecisionsAreFinal
  ImplementsSignerSet
CHECK_DEADLOCK FALSE
