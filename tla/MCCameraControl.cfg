CONSTANTS
  MaxHolds = 1
  MaxMoves = 2
  MaxRetries = 1
  MaxFaults = 1
SPECIFICATION FairSpec
INVARIANTS
  CameraInvariant
  StopFollowsMoves
PROPERTIES
  ReleaseStops
CHECK_DEADLOCK FALSE
