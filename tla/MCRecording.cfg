CONSTANTS
  Links = {"local", "auto", "cloud"}
  Slots = {1, 2}
  MaxClicks = 3
  MaxTries = 2
  MaxLosses = 2
SPECIFICATION FairSpec
INVARIANTS
  RecordingInvariant
PROPERTIES
  BeliefSettles
  CaptureEnds
CHECK_DEADLOCK FALSE
