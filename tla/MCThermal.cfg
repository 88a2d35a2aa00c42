SPECIFICATION FairSpec
CONSTANTS
  NTrips = 3
  MaxState = 2
  QueueCap = 3
INVARIANTS TypeOK ZoneCatchesUp CoolingFollowsZone ThreadUnderControl
PROPERTIES EventSettlesZone CallsReturn
