\* Two assets in one run and one context, clocks an hour apart, a job that keeps firing.
SPECIFICATION FairSpec
CONSTANTS
  BTC = BTC
  ETH = ETH
  None = None
  Catalog <- TwoAssets
  StartClock = 1
  Horizon = 2
  MaxDrift = 1
  MaxTicks = 1
  Limit = 2
  ListedAt = 1
  MaxFaults = 0
PROPERTY ClosedBarsHeal
