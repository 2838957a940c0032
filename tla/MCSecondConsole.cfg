CONSTANTS
  Consoles = {g1, g2}
  Buttons = {"stop", "brake", "emergency_stop", "reset_emergency_stop", "cancel_navigation"}
  MaxClicks = 2
  MaxSequence = 2
  MaxBeats = 1
  MaxLost = 0
SPECIFICATION Spec
INVARIANTS
  AnyConsoleStops
CHECK_DEADLOCK FALSE
