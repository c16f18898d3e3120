\* An eligible bundle whose smoke load has failed.
SPECIFICATION Spec
CONSTANTS
  Crypto30 = Crypto30
  Crypto90 = Crypto90
  None = None
  N = 2
  GroupOf <- OneHorizon
  Eligible = {1, 2}
  Loadable = {1}
  MaxFaults = 0
INVARIANT ProductionModelsLoad
