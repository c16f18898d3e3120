SPECIFICATION FairSpec
CONSTANTS
  BTC = BTC
  ETH = ETH
  SPY = SPY
  old = old
  new = new
  spyModel = spyModel
  Crypto = {BTC, ETH}
  Equity = {SPY}
  Btc = BTC
  Spy = SPY
  Models = {old, new, spyModel}
  ClassOf <- MCClassOf
  FirstFlags <- MCFirstFlags
  FirstTables <- MCFirstTables
  Archive = Archive
  Live = Live
  RequiredDays = 2
  MinDays = 2
  PeerDays = 1
  StaleDays = 2
  Earliest <- MCEarliest
  LastDay = 2
  Triggers <- MCTriggers
  MaxTriggers = 2
  Promotions <- MCPromotions
  Choices <- MCChoices
  MaxEvents = 2
INVARIANT TypeOK
INVARIANT InputsEndAtCutoff
INVARIANT DerivativesWereUnbroken
INVARIANT UnbrokenHistoryIsReady
INVARIANT SnapshotIsOfThePrediction
PROPERTY OneProductionModelPerRun
PROPERTY CompleteAssetIsPredicted
CHECK_DEADLOCK FALSE
