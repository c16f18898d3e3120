\* A final flag over the data of an open candle.
SPECIFICATION FairSpec
CONSTANTS
  BTC = BTC
  ETH = ETH
  None = None
  Catalog <- OneAsset
  StartClock = 1
  Horizon = 2
  MaxDrift = 0
  MaxTicks = 1
  Limit = 2
  ListedAt = 1
  MaxFaults = 0
INVARIANT FinalBarsAreClosed
