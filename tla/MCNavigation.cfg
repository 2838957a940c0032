CONSTANTS
  MaxGoals = 1
  MaxRestarts = 0
  Frontiers = {}
  Files = {A, B}
  Home = A
  Backends = {"slam", "amcl"}
  MaxClicks = 3
  MaxWaypoints = 1
SPECIFICATION Spec
INVARIANTS
  NavigationInvariant
PROPERTIES
  PlanFitsMap
CHECK_DEADLOCK FALSE
