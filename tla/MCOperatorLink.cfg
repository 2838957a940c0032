CONSTANTS
  Consoles = {g1, g2}
  Buttons = {"stop", "brake", "emergency_stop", "reset_emergency_stop", "cancel_navigation"}
  MaxClicks = 2
  MaxSequence = 2
  MaxBeats = 1
  MaxLost = 1
SPECIFICATION FairSpec
INVARIANTS
  LinkInvariant
  ReleaseStops
PROPERTIES
  DeadMan
CHECK_DEADLOCK FALSE
