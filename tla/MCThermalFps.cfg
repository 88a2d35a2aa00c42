SPECIFICATION Spec
CONSTANTS
  NTrips = 3
  MaxState = 3
  QueueCap = 1
PROPERTY FirstZoneTold
