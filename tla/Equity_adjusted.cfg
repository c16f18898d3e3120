\* One split, sessions older than the days read again.
SPECIFICATION Spec
CONSTANTS
  AAPL = AAPL
  SPY = SPY
  None = None
  Universe <- TwoSymbols
  Benchmark = SPY
  Overlap = 1
  MaxLate = 0
  LastSession = 3
  MaxActions = 1
  MaxFaults = 0
INVARIANT SeriesIsAdjusted
