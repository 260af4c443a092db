CONSTANTS
  Seed <- MCSeed
  IntMax = 7
  Changes <- MCChanges
  Times = {1, 2}
  StartTime = 1
  Lag <- MCLag
  MaxVersion = 3
  MaxTime = 3
  MaxFaults = 1
  RingCap = 1
  Versions = {1, 2, 3}
  Announced = {2}
  MaxRecords = 3
  MaxFeedFaults = 1
  EventCap = 1
  UpdateCap = 1
SPECIFICATION MCSpec
CHECK_DEADLOCK FALSE
INVARIANTS ScheduleIsSound FeedIsFaithful
PROPERTIES VersionsGoForward ReadersConverge GatewaySettles
