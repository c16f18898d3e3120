\* A stock fetched before the benchmark, bars one session late, one split, one fault.
SPECIFICATION FairSpec
CONSTANTS
  AAPL = AAPL
  SPY = SPY
  None = None
  Universe <- TwoSymbols
  Benchmark = SPY
  Overlap = 2
  MaxLate = 1
  LastSession = 4
  MaxActions = 1
  MaxFaults = 1
INVARIANTS TypeOK UnreadIsInReach CompletedRunTellsTheTruth RecentBarsAgree
PROPERTY PublishedBarIsStored
