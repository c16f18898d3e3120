\* The archive brings a day the collector has stored.
\* Time ends after LastDay, so the model may stop.
SPECIFICATION Spec
CHECK_DEADLOCK FALSE
CONSTANTS
  A1 = A1
  A2 = A2
  None = None
  Archive = Archive
  Live = Live
  Assets <- OneAsset
  Drifts <- Exact
  RequiredDays = 2
  DayLength = 10
  OpensAt = 2
  ClosesAt = 6
  MaxSkew = 1
  LiveDays = 3
  LastDay = 2
  MaxFaults = 0
  MaxBoots = 1
INVARIANT ReadyMeansPredictable
