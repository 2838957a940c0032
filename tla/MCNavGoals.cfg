CONSTANTS
  MaxGoals = 3
  MaxRestarts = 1
  Frontiers = {f1}
SPECIFICATION FairSpec
INVARIANTS
  GoalInvariant
PROPERTIES
  ExplorerGoesOn
  CancelFrees
CHECK_DEADLOCK FALSE
