SPECIFICATION FairSpec
CONSTANTS
  MaxTwists = 2
  MaxQueue = 2
  MaxFaults = 3
  MaxDeaths = 1
INVARIANTS
  DriveInvariant
PROPERTIES
  DriveStops
  OdomSettles
CHECK_DEADLOCK FALSE
