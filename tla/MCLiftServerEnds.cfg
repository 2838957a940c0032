CONSTANTS
  Streams = {p1, p2}
  Buttons = {"raise", "stop"}
  MaxRequests = 3
  MaxRos = 1
  MaxFaults = 0
  MaxKills = 1
SPECIFICATION Spec
INVARIANTS
  ServerStaysUp
CHECK_DEADLOCK FALSE
