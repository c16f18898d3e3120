\* The exchange never publishes; nothing fails and the clock is right.
\* Time ends after LastDay, so the model may stop.
SPECIFICATION Spec
CHECK_DEADLOCK FALSE
CONSTANTS
  A1 = A1
  A2 = A2
  None = None
  Archive = Archive
  Live = Live
  Assets <- OneAsset
  Drifts <- Exact
  RequiredDays = 1
  DayLength = 10
  OpensAt = 2
  ClosesAt = 6
  MaxSkew = 1
  LiveDays = 3
  LastDay = 1
  MaxFaults = 0
  MaxBoots = 0
INVARIANT MissingDayHasIssue
