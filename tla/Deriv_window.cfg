\* One day, two assets, a host clock that is wrong, faults and a bootstrap.
\* Time ends after LastDay, so the model may stop.
SPECIFICATION FairSpec
CHECK_DEADLOCK FALSE
CONSTANTS
  A1 = A1
  A2 = A2
  None = None
  Archive = Archive
  Live = Live
  Assets <- TwoAssets
  Drifts <- Fast
  RequiredDays = 1
  DayLength = 12
  OpensAt = 2
  ClosesAt = 8
  MaxSkew = 1
  LiveDays = 3
  LastDay = 1
  MaxFaults = 1
  MaxBoots = 1
INVARIANTS TypeOK SucceededMeansComplete
PROPERTIES OnlyWholeDays PublishedDayIsCollected
