SPECIFICATION PipelineSpec
CONSTANTS
  Spot = {"spot"}
  Futures = {"metrics", "funding"}
  Workers = 2
  MaxVersion = 2
  Unreadable <- MCUnreadable
  MaxFaults = 1
  Horizons = {1, 2}
  MinRows = 3
  PeerRows = 2
  SessionRows = 3
  BenchmarkRows = 2
  MacroRelease = 1
  MacroLag = 2
  AssetOrder <- MCAssetOrder
  AssetOf <- MCAssetOf
  DaysOf <- MCDaysOf
  EarlierDays <- MCEarlierDays
  EarlierDerivatives <- MCEarlierDerivatives
  EquityHistories = {"full", "until2025"}
  SessionsOf <- MCSessionsOf
  Pilot <- MCPilot
  MacroDays <- MCMacroDays
  FirstDay = 0
  LastDay = 62
  YearLength = 9
  Embargo = 1
  RecentYears = 1
  MinFit = 5
  MinSelection = 3
  SeriesCount = 2
  MaxDownloads = 2
  MaxCommands = 3
  BothHorizons <- MCBothHorizons
INVARIANTS
  VerifiedFrames
  ExitZeroMeansComplete
  TablesAreCurrent
  ReadsOnlyThePast
  TestYearStaysBlind
  SelectionIsHeldOut
  LockedYearIsLast
  MacroIsOneDownload
  BundleIsWhole
CHECK_DEADLOCK FALSE
