CONSTANTS
  Clients = {c1}
  MaxCommands = 3
  MaxSequence = 2
  MaxRepeats = 1
  Outcomes = {"accepted", "refused", "failed"}
  Velocities = {0}
  ZeroVelocity = 0
SPECIFICATION FairSpec
INVARIANTS
  RelayServesCurrentGoal
  OverriddenGoalNeverDrives
  AbandonedGoalIsCancelled
  ReplyProtocol
PROPERTIES
  FinalStateIsFinal
  UnsettledStatesEnd
  ImplementsMotionAuthority
CHECK_DEADLOCK FALSE
