------------------------------- MODULE Chassis -------------------------------
(***************************************************************************)
(* The CAN bridge of Robot320: the ROS node (ros2_node.py), the safety     *)
(* gate (safety.py), the translation of a command into CAN frames          *)
(* (onboard_node.py) and the platform that sends them (robot320.py over    *)
(* controlcan.py), together with the drive at the other end of the bus.    *)
(*                                                                         *)
(* The node runs its callbacks one at a time on a single-threaded          *)
(* executor.  A callback decides at its start which frames it will send    *)
(* and the result of a transmission never changes that list, so a callback *)
(* is one step that fixes `todo', followed by one step for every frame.    *)
(* Between two frames the code sleeps, time passes, a transmission may     *)
(* fail, Ctrl-C may unwind the callback and the process may die.           *)
(***************************************************************************)
EXTENDS Integers, Sequences

CONSTANTS MaxFaults,   \* how many transmissions the bus may refuse
          MaxStarts    \* how many times the process is started

ASSUME ChassisAssumption == MaxFaults \in Nat /\ MaxStarts \in Nat

\* A speed is -1 (reverse), 0 (less than one rpm) or 1 (forward); a steering
\* value is -1 (right), 0 (centred) or 1 (left).
Sign == {-1, 0, 1}

Mode == {"idle", "manual", "navigation"}

\* messages.ChassisCommand
ChassisCommand == [speed : Sign, steer : Sign, brake : BOOLEAN,
                   emergency_stop : BOOLEAN, mode : Mode]

FrameOp == {"enable", "disable", "brake", "release", "speed", "steer"}
Frame == [op : FrameOp, arg : Sign]

Enable   == [op |-> "enable",  arg |-> 0]
Disable  == [op |-> "disable", arg |-> 0]
Brake    == [op |-> "brake",   arg |-> 0]
Release  == [op |-> "release", arg |-> 0]
SetSpeed(v) == [op |-> "speed", arg |-> v]
\* Mutant: the angle is not clamped to what the actuator takes.
SetSteerUnclamped(s) == [op |-> "steer", arg |-> 2 * s]
SetSteer(s) == [op |-> "steer", arg |-> s]

\* PlatformState, and the same four facts about the drive itself.
Platform == [enabled : BOOLEAN, brake : BOOLEAN, speed : Sign, steer : Sign]
InitPlatform == [enabled |-> FALSE, brake |-> FALSE, speed |-> 0, steer |-> 0]

VARIABLES
  phase,            \* "off", "running", or "closing" (inside disconnect)
  estop,            \* SafetyController._emergency_stopped
  age,              \* _last_command_time: "never" set, "fresh" or "expired"
  timeoutStopSent,  \* Robot320RosNode._last_stop_due_timeout
  todo,             \* the frames the running callback has still to send
  shadow,           \* Robot320Platform.state, what telemetry reports
  drive,            \* the motor controller and the brake (external)
  faults,           \* transmissions refused so far
  starts            \* processes started so far

vars == <<phase, estop, age, timeoutStopSent, todo, shadow, drive, faults,
          starts>>

safetyVars == <<estop, age, timeoutStopSent>>

TypeOK ==
  /\ phase \in {"off", "running", "closing"}
  /\ estop \in BOOLEAN
  /\ age \in {"never", "fresh", "expired"}
  /\ timeoutStopSent \in BOOLEAN
  /\ todo \in Seq(Frame)
  /\ shadow \in Platform
  /\ drive \in Platform
  /\ faults \in 0..MaxFaults
  /\ starts \in 0..MaxStarts

Moving(p) == p.enabled /\ p.speed # 0

-----------------------------------------------------------------------------
(* The drive and the platform state change in the same way on a frame.     *)

Effect(p, f) ==
  [enabled |-> IF f.op = "enable" THEN TRUE
               ELSE IF f.op = "disable" THEN FALSE ELSE p.enabled,
   brake   |-> IF f.op = "brake" THEN TRUE
               ELSE IF f.op = "release" THEN FALSE ELSE p.brake,
   speed   |-> IF f.op = "speed" THEN f.arg
               ELSE IF f.op = "disable" THEN 0 ELSE p.speed,
   steer   |-> IF f.op = "steer" THEN f.arg ELSE p.steer]

\* Mutant: the state is updated without looking at the result of send.
ShadowAfterUnchecked(p, f, ok) == Effect(p, f)

\* A refused transmission leaves PlatformState as it was.
ShadowAfter(p, f, ok) == IF ok THEN Effect(p, f) ELSE p

\* OnboardNode.apply_command with twist_to_steering and set_motor_speed: the
\* frames sent for a command the safety gate has passed.
\* Mutants: the brake comes first, or not at all.
StopFramesBrakeFirst == <<Brake, Disable>>
StopFramesNoBrake == <<Disable>>
StopFrames == <<Disable, Brake>>
HoldFrames(c) == <<Release, SetSteer(c.steer), Disable>>
DriveFrames(c) == <<Release, SetSteer(c.steer), Enable, Release,
                    SetSpeed(c.speed)>>

FramesFor(c) ==
  IF c.emergency_stop \/ c.brake THEN StopFrames
  ELSE IF c.speed = 0 THEN HoldFrames(c)
  ELSE DriveFrames(c)

\* SafetyController.accept: the latch, and the command as it leaves the gate.
LatchAfter(c) == IF c.mode = "idle" THEN FALSE ELSE estop \/ c.emergency_stop
\* Mutant: the gate passes on the flag of the message and not its latch.
GatedByMessage(c) == c
Gated(c) == [c EXCEPT !.emergency_stop = LatchAfter(c)]

-----------------------------------------------------------------------------
Init ==
  /\ phase = "off"
  /\ estop = FALSE
  /\ age = "never"
  /\ timeoutStopSent = FALSE
  /\ todo = <<>>
  /\ shadow = InitPlatform
  /\ drive = InitPlatform
  /\ faults = 0
  /\ starts = 0

\* A new process: SafetyController(), PlatformState(), then connect().  The
\* drive is not told anything.
Start ==
  /\ phase = "off"
  /\ starts < MaxStarts
  /\ phase' = "running"
  /\ estop' = FALSE
  /\ age' = "never"
  /\ timeoutStopSent' = FALSE
  /\ todo' = <<>>
  /\ shadow' = InitPlatform
  /\ starts' = starts + 1
  /\ UNCHANGED <<drive, faults>>

Idle == phase = "running" /\ todo = <<>>

\* Mutant: a new command does not rearm the watchdog.
ApplyNoRearm(c) ==
  /\ Idle
  /\ age' = "fresh"
  /\ estop' = LatchAfter(c)
  /\ todo' = FramesFor(Gated(c))
  /\ UNCHANGED <<phase, timeoutStopSent, shadow, drive, faults, starts>>

\* Robot320RosNode._apply
Apply(c) ==
  /\ Idle
  /\ timeoutStopSent' = FALSE
  /\ age' = "fresh"
  /\ estop' = LatchAfter(c)
  /\ todo' = FramesFor(Gated(c))
  /\ UNCHANGED <<phase, shadow, drive, faults, starts>>

\* The command each subscription builds from its message.
Twist(v, s) == [speed |-> v, steer |-> s, brake |-> FALSE,
                emergency_stop |-> FALSE, mode |-> "manual"]
OnCmdVel(v, s) == Apply(Twist(v, s))
OnBrake(b) == Apply([Twist(0, 0) EXCEPT !.brake = b])
OnEmergencyStop(b) == Apply([Twist(0, 0) EXCEPT !.emergency_stop = b])
OnMode(m) == Apply([Twist(0, 0) EXCEPT !.mode = m])

\* Mutant: the watchdog brakes and leaves the motor on.
OnTimerBrakes ==
  /\ Idle
  /\ age = "expired"
  /\ ~timeoutStopSent
  /\ timeoutStopSent' = TRUE
  /\ todo' = <<Brake>>
  /\ UNCHANGED <<phase, estop, age, shadow, drive, faults, starts>>

\* The watchdog half of on_timer.  The rest of it publishes telemetry.
OnTimer ==
  /\ Idle
  /\ age = "expired"
  /\ ~timeoutStopSent
  /\ timeoutStopSent' = TRUE
  /\ todo' = <<Disable>>
  /\ UNCHANGED <<phase, estop, age, shadow, drive, faults, starts>>

\* adapter.send and the state update under the lock that follows it.
SendFrame ==
  /\ phase \in {"running", "closing"}
  /\ todo # <<>>
  /\ todo' = Tail(todo)
  /\ \/ /\ drive' = Effect(drive, Head(todo))
        /\ shadow' = ShadowAfter(shadow, Head(todo), TRUE)
        /\ UNCHANGED faults
     \/ /\ faults < MaxFaults
        /\ faults' = faults + 1
        /\ shadow' = ShadowAfter(shadow, Head(todo), FALSE)
        /\ UNCHANGED drive
  /\ UNCHANGED <<phase, safetyVars, starts>>

\* More than command_timeout_s has passed since the last command.
Expire ==
  /\ phase = "running"
  /\ age = "fresh"
  /\ age' = "expired"
  /\ UNCHANGED <<phase, estop, timeoutStopSent, todo, shadow, drive, faults,
                 starts>>

\* Mutant: disconnect forgets the safe stop.
ShutdownNoStop ==
  /\ phase = "running"
  /\ phase' = "closing"
  /\ todo' = <<>>
  /\ UNCHANGED <<safetyVars, shadow, drive, faults, starts>>

\* Ctrl-C unwinds the callback, then destroy_node calls disconnect, which
\* sends one last stop before it closes the adapter.
Shutdown ==
  /\ phase = "running"
  /\ phase' = "closing"
  /\ todo' = <<Disable>>
  /\ UNCHANGED <<safetyVars, shadow, drive, faults, starts>>

Close ==
  /\ phase = "closing"
  /\ todo = <<>>
  /\ phase' = "off"
  /\ shadow' = [InitPlatform EXCEPT !.steer = shadow.steer]
  /\ UNCHANGED <<safetyVars, todo, drive, faults, starts>>

\* The process is killed, or the NUC loses power while the drive keeps it.
Crash ==
  /\ phase \in {"running", "closing"}
  /\ phase' = "off"
  /\ todo' = <<>>
  /\ UNCHANGED <<safetyVars, shadow, drive, faults, starts>>

Command ==
  \/ \E v \in Sign, s \in Sign : (v = 0 => s = 0) /\ OnCmdVel(v, s)
  \/ \E b \in BOOLEAN : OnBrake(b)
  \/ \E b \in BOOLEAN : OnEmergencyStop(b)
  \/ \E m \in Mode : OnMode(m)

Life == Start \/ Expire \/ Shutdown \/ Close \/ Crash

Next == Command \/ OnTimer \/ SendFrame \/ Life

Spec == Init /\ [][Next]_vars

\* The executor keeps calling a ready timer, and a callback that has begun
\* runs to its end.  Nothing obliges a command to arrive or a process to die.
Fairness == WF_vars(OnTimer) /\ WF_vars(SendFrame)
FairSpec == Spec /\ Fairness

-----------------------------------------------------------------------------
(* Properties                                                              *)

\* What telemetry reports about enabling, braking, speed and steering is what
\* the drive is doing, as long as the process is the one that found the drive
\* at rest: frames that were refused must not be reported as applied.
TelemetryIsTruthful ==
  (phase = "running" /\ starts = 1) => shadow = drive

\* While the emergency stop is latched no callback can set the drive moving
\* or release the brake, whatever twist, brake or mode message it handles and
\* whichever of its frames are lost.
EStopNeverDrives ==
  [][(estop /\ estop') => /\ Moving(drive') => Moving(drive)
                          /\ drive.brake => drive'.brake]_vars

\* Once the callback that latched the stop (or any later one) is over, the
\* drive is disabled and the brake is on, unless the bus refused a frame.
EStopHolds ==
  (phase = "running" /\ estop /\ todo = <<>> /\ faults = 0)
    => (~drive.enabled /\ drive.brake)

\* The brake is never applied to a turning motor nor the motor started
\* against the brake, at any point between two frames, across crashes and
\* restarts, on a bus that refuses nothing.
NoDriveAgainstBrake ==
  faults = 0 => ~(drive.brake /\ Moving(drive))

\* The watchdog has the last word: once it has fired and sent its frame, the
\* drive stays disabled until another command arrives.
WatchdogHasLastWord ==
  (phase = "running" /\ timeoutStopSent /\ todo = <<>> /\ faults = 0)
    => ~drive.enabled

\* A clean exit leaves the motor disabled, whatever callback it interrupted.
\* (A killed process does not: its latched state is lost with it.)
CleanExitDisables ==
  [][(Close /\ faults = 0) => ~drive'.enabled]_vars

\* A vehicle whose last command has expired does not keep moving: it stops,
\* unless a new command arrives or the process ends, as long as the bus has
\* refused nothing.
StaleMotionStops ==
  (phase = "running" /\ age = "expired" /\ Moving(drive))
    ~> (~Moving(drive) \/ age # "expired" \/ phase # "running" \/ faults > 0)

\* The same as mobile_platform/README.md:81 puts it: manual motion that is not
\* renewed for more than 0.6 s stops.  A refused frame is no excuse: the timer
\* fires again 0.2 s later.
UnrenewedMotionStops ==
  (phase = "running" /\ age = "expired" /\ Moving(drive))
    ~> (~Moving(drive) \/ age # "expired" \/ phase # "running")
=============================================================================
