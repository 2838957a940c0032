CONSTANTS
  Streams = {p1, p2}
  Buttons = {"raise", "stop"}
  MaxRequests = 1
  MaxRos = 2
  MaxFaults = 0
  MaxKills = 0
SPECIFICATION Spec
INVARIANTS
  ExitStops
CHECK_DEADLOCK FALSE
