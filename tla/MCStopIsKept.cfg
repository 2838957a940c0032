CONSTANTS
  Links = {"auto"}
  Slots = {1, 2}
  MaxClicks = 2
  MaxTries = 2
  MaxLosses = 1
SPECIFICATION Spec
PROPERTIES
  StopIsKept
CHECK_DEADLOCK FALSE
