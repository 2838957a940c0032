CONSTANTS
  MaxFaults = 1
  MaxStarts = 1
SPECIFICATION FairSpec
PROPERTIES
  UnrenewedMotionStops
CHECK_DEADLOCK FALSE
