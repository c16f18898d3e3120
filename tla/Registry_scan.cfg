\* Bundles of two groups appear while hourly runs scan, fail and die.
SPECIFICATION FairSpec
CONSTANTS
  Crypto30 = Crypto30
  Crypto90 = Crypto90
  None = None
  N = 5
  GroupOf <- Generations
  Eligible = {1, 3, 4}
  Loadable = {1, 2, 3, 4, 5}
  MaxFaults = 2
INVARIANTS TypeOK OneCandidate NewestIsCandidate NewestEligibleServes GatesRespected
PROPERTIES ImplementsServing GroupIsServed
