\* One asset, a history of three pages, one closing hour, clocks an hour apart: every interleaving of the two writers.
SPECIFICATION Spec
CONSTANTS
  BTC = BTC
  ETH = ETH
  None = None
  Catalog <- OneAsset
  StartClock = 4
  Horizon = 5
  MaxDrift = 1
  MaxTicks = 2
  Limit = 2
  ListedAt = 1
  MaxFaults = 1
INVARIANTS TypeOK SettledBarsAreExact SucceededRunReconciles BackfillLeavesNoHole OnlyCutBackfillsLeaveHoles
PROPERTIES FinalNeverReverts ImplementsLedger
