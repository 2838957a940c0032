CONSTANTS
  Clients = {c1}
  MaxCommands = 2
  MaxRepeats = 0
  MaxSequence = 1
  Outcomes = {"accepted"}
  Velocities = {0, 1}
  ZeroVelocity = 0
  MaxFaults = 0
  MaxStarts = 1
  Depth = 2
SPECIFICATION FairSpec
INVARIANTS
  SystemInvariant
PROPERTIES
  EmergencyStopTakesEffect
CHECK_DEADLOCK FALSE
