CONSTANTS
  MaxFaults = 2
  MaxStarts = 2
SPECIFICATION FairSpec
INVARIANTS
  TelemetryIsTruthful
  EStopHolds
  NoDriveAgainstBrake
  WatchdogHasLastWord
PROPERTIES
  EStopNeverDrives
  CleanExitDisables
  StaleMotionStops
CHECK_DEADLOCK FALSE
