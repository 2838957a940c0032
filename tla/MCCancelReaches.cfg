CONSTANTS
  MaxGoals = 2
  MaxRestarts = 0
  Frontiers = {}
SPECIFICATION Spec
PROPERTIES
  CancelReaches
CHECK_DEADLOCK FALSE
