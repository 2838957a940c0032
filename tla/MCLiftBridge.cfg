CONSTANTS
  Streams = {p1, p2}
  Buttons = {"raise", "stop"}
  MaxRequests = 3
  MaxRos = 1
  MaxFaults = 1
  MaxKills = 1
SPECIFICATION Spec
INVARIANTS
  LiftInvariant
  OkMeansWritten
  ClickOrder
  LonePanelIsServed
CHECK_DEADLOCK FALSE
