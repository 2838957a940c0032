------------------------------- MODULE CanDrive -------------------------------
(* The UDP robot's drive: cmd_vel_to_ackermann_can.py turns a Twist into a   *)
(* speed on /can/speed_cmd and stops a silent source, can_command_receiver.py *)
(* wakes the motor, releases the brake and repeats the speed on the CAN bus,  *)
(* and can_to_odom.py integrates the speed the controller reports.            *)
(* The receiver is one thread: while it retries a frame or sleeps, no         *)
(* callback runs, but topics fill, ages grow and the process can be killed.   *)
(* Ages are two classes, fresh and older than the code's timeout; steering    *)
(* and the pose arithmetic are left out.                                      *)
EXTENDS Naturals, Sequences

CONSTANTS
  MaxTwists,    \* velocity commands the collision monitor still publishes
  MaxQueue,     \* messages /can/speed_cmd holds before the oldest is dropped
  MaxFaults,    \* frames the adapter refuses
  MaxDeaths     \* processes killed

ASSUME CanAssumption ==
  /\ {MaxTwists, MaxFaults, MaxDeaths} \subseteq Nat
  /\ MaxQueue \in Nat \ {0}

VARIABLES
  twists,       \* commands still to come
  converter,    \* the Ackermann node: is it alive, is its last command fresh
  wire,         \* speeds waiting on /can/speed_cmd
  node,         \* the receiver: its fields, and the frame it is busy sending
  motor,        \* the drive and its brake, as the frames leave them
  lost,         \* the motor is on and the receiver gave up on it or is gone
  feedback,     \* the receiver's speed reading and the age of the B9 answer
  mute,         \* the controller no longer answers the B9 query
  odom,         \* the odometry node's speed and its age
  faults, deaths

vars == <<twists, converter, wire, node, motor, lost, feedback, mute, odom,
          faults, deaths>>

Speeds == {"zero", "creep", "go"}      \* creep: below one RPM, int() makes it 0
Attempts == 3
Frames == {"enable", "release", "undo", "disable"}

TypeOK ==
  /\ twists \in 0..MaxTwists
  /\ converter \in [alive : BOOLEAN, fresh : BOOLEAN]
  /\ wire \in Seq(Speeds) /\ Len(wire) <= MaxQueue
  /\ node \in [alive : BOOLEAN, ready : BOOLEAN, current : Speeds,
               fresh : BOOLEAN, prev : {"zero", "go"},
               pc : {"idle", "drive"} \union Frames, tries : 0..Attempts - 1]
  /\ motor \in [enabled : BOOLEAN, released : BOOLEAN, speed : {"zero", "go"}]
  /\ lost \in BOOLEAN /\ mute \in BOOLEAN
  /\ feedback \in [speed : {"zero", "go", "wild"}, fresh : BOOLEAN]
  /\ odom \in [speed : {"zero", "go"}, fresh : BOOLEAN]
  /\ faults \in 0..MaxFaults /\ deaths \in 0..MaxDeaths

\* The receiver as __init__ leaves it; init_device may leave it without a bus.
Started(ready) ==
  [alive |-> TRUE, ready |-> ready, current |-> "zero", fresh |-> TRUE,
   prev |-> "zero", pc |-> "idle", tries |-> 0]

Init ==
  /\ twists = MaxTwists
  /\ converter = [alive |-> TRUE, fresh |-> TRUE]
  /\ wire = <<>>
  /\ \E ready \in BOOLEAN : node = Started(ready)
  /\ motor = [enabled |-> FALSE, released |-> FALSE, speed |-> "zero"]
  /\ lost = FALSE /\ mute = FALSE
  /\ feedback = [speed |-> "zero", fresh |-> FALSE]
  /\ odom = [speed |-> "zero", fresh |-> FALSE]
  /\ faults = 0 /\ deaths = 0

-----------------------------------------------------------------------------
(* cmd_vel_to_ackermann_can.py *)

Published(v) ==
  IF Len(wire) < MaxQueue THEN Append(wire, v) ELSE Append(Tail(wire), v)

\* cmd_vel_callback: every command is fresh; its speed is clamped and published.
CmdVel(v) ==
  /\ twists > 0 /\ converter.alive
  /\ twists' = twists - 1
  /\ converter' = [converter EXCEPT !.fresh = TRUE]
  /\ wire' = Published(v)
  /\ UNCHANGED <<node, motor, lost, feedback, mute, odom, faults, deaths>>

\* watchdog_check: a silent source is answered with zeros, ten a second.
WatchdogCheck ==
  /\ converter.alive /\ ~converter.fresh
  /\ wire' = Published("zero")
  /\ UNCHANGED <<twists, converter, node, motor, lost, feedback, mute, odom,
                 faults, deaths>>

-----------------------------------------------------------------------------
(* can_command_receiver.py *)

\* speed_callback.
SpeedCallback ==
  /\ node.alive /\ node.pc = "idle" /\ wire # <<>>
  /\ node' = [node EXCEPT !.current = Head(wire), !.fresh = TRUE]
  /\ wire' = Tail(wire)
  /\ UNCHANGED <<twists, converter, motor, lost, feedback, mute, odom, faults,
                 deaths>>

\* The receiver trusts the Ackermann node's watchdog and has none of its own.
NeverExpires == FALSE

Expired == node.current # "zero" /\ ~node.fresh

\* The head of send_and_receive: a stale speed is zeroed, and a change between
\* standing and driving is worth a critical frame.
Cycle ==
  /\ node.alive /\ node.pc = "idle"
  /\ LET current == IF Expired THEN "zero" ELSE node.current
     IN  node' = [node EXCEPT
           !.current = current, !.tries = 0,
           !.pc = CASE current = "go" /\ node.prev = "zero" -> "enable"
                    [] current # "go" /\ node.prev = "go" -> "disable"
                    [] OTHER -> "drive"]
  /\ UNCHANGED <<twists, converter, wire, motor, lost, feedback, mute, odom,
                 faults, deaths>>

\* What the drive does with a frame; a disabled drive drops its brake.
Obeys(frame) ==
  CASE frame = "enable"  -> [motor EXCEPT !.enabled = TRUE]
    [] frame = "release" -> [motor EXCEPT !.released = TRUE]
    [] OTHER -> [enabled |-> FALSE, released |-> FALSE, speed |-> "zero"]

\* send_critical_frame, an attempt that succeeds, and what its caller does next.
FrameSent ==
  /\ node.alive /\ node.ready /\ node.pc \in Frames
  /\ motor' = Obeys(node.pc)
  /\ lost' = FALSE
  /\ node' = CASE node.pc = "enable" -> [node EXCEPT !.pc = "release", !.tries = 0]
               [] node.pc = "undo" ->
                    [node EXCEPT !.pc = "idle", !.current = "zero"]
               [] OTHER -> [node EXCEPT !.pc = "drive"]
  /\ UNCHANGED <<twists, converter, wire, feedback, mute, odom, faults, deaths>>

\* A failed release falls through to the speed frame.
AbandonedDrivesOn ==
  CASE node.pc \in {"enable", "undo"} ->
         [node EXCEPT !.pc = "idle", !.current = "zero"]
    [] OTHER -> [node EXCEPT !.pc = "drive"]

\* What follows three failures: a start is abandoned, and undone if the motor
\* was already on; a failed disable is only logged.
Abandoned ==
  CASE node.pc \in {"enable", "undo"} ->
         [node EXCEPT !.pc = "idle", !.current = "zero"]
    [] node.pc = "release" -> [node EXCEPT !.pc = "undo", !.tries = 0]
    [] OTHER -> [node EXCEPT !.pc = "drive"]

Refused ==
  /\ ~node.ready \/ faults < MaxFaults
  /\ faults' = IF node.ready THEN faults + 1 ELSE faults

\* send_critical_frame, an attempt that fails.
FrameFails ==
  /\ node.alive /\ node.pc \in Frames
  /\ Refused
  /\ IF node.tries < Attempts - 1
       THEN node' = [node EXCEPT !.tries = @ + 1] /\ UNCHANGED lost
       ELSE /\ node' = Abandoned
            /\ lost' = (lost \/ (node.pc \in {"undo", "disable"} /\ motor.enabled))
  /\ UNCHANGED <<twists, converter, wire, motor, feedback, mute, odom, deaths>>

\* A reading is kept when the answers stop.
ReadingKept(answer) ==
  IF answer # "none" THEN [speed |-> answer, fresh |-> TRUE] ELSE feedback

\* receive_can_frames and the reading send_and_receive publishes from it.
Reading(answer) ==
  IF answer # "none" THEN [speed |-> answer, fresh |-> TRUE]
  ELSE IF feedback.fresh THEN feedback
  ELSE [feedback EXCEPT !.speed = "zero"]

\* actual_speed_callback: a speed outside the valid range is ignored.
Heard(speed) ==
  IF speed = "wild" THEN odom ELSE [speed |-> speed, fresh |-> TRUE]

\* The tail of send_and_receive: the speed frame, sent once, then the feedback.
Drive ==
  /\ node.alive /\ node.pc = "drive"
  /\ LET rpm == IF node.current = "go" THEN "go" ELSE "zero"
     IN  /\ node' = [node EXCEPT !.pc = "idle", !.prev = rpm]
         /\ \/ /\ rpm = "zero"
               /\ UNCHANGED <<motor, faults>>
            \/ /\ rpm = "go" /\ node.ready
               /\ motor' = [motor EXCEPT !.speed = "go"]
               /\ UNCHANGED faults
            \/ /\ rpm = "go" /\ Refused
               /\ UNCHANGED motor
  /\ \E answer \in {"none"} \union (IF mute \/ ~node.ready THEN {}
                                    ELSE {motor'.speed, "wild"}) :
        /\ feedback' = Reading(answer)
        /\ odom' = Heard(feedback'.speed)
  /\ UNCHANGED <<twists, converter, wire, lost, mute, deaths>>

-----------------------------------------------------------------------------
(* Time and faults *)

\* The speed can_to_odom.py integrates (effective_speed).
OdomSpeed == IF odom.fresh THEN odom.speed ELSE "zero"

CommandAges ==
  /\ \/ /\ converter.fresh
        /\ converter' = [converter EXCEPT !.fresh = FALSE]
        /\ UNCHANGED node
     \/ /\ node.alive /\ node.fresh /\ node.current # "zero"
        /\ node' = [node EXCEPT !.fresh = FALSE]
        /\ UNCHANGED converter
  /\ UNCHANGED <<twists, wire, motor, lost, feedback, mute, odom, faults, deaths>>

FeedbackAges ==
  /\ \/ feedback.fresh /\ feedback' = [feedback EXCEPT !.fresh = FALSE]
                       /\ UNCHANGED odom
     \/ odom.fresh /\ odom' = [odom EXCEPT !.fresh = FALSE] /\ UNCHANGED feedback
  /\ UNCHANGED <<twists, converter, wire, node, motor, lost, mute, faults, deaths>>

\* The controller stops answering the B9 query.
B9Stops ==
  /\ ~mute /\ mute' = TRUE
  /\ UNCHANGED <<twists, converter, wire, node, motor, lost, feedback, odom,
                 faults, deaths>>

ConverterDies ==
  /\ converter.alive /\ deaths < MaxDeaths
  /\ deaths' = deaths + 1
  /\ converter' = [alive |-> FALSE, fresh |-> FALSE]
  /\ UNCHANGED <<twists, wire, node, motor, lost, feedback, mute, odom, faults>>

\* The receiver is killed or leaves: neither path sends a disable frame.
NodeDies ==
  /\ node.alive /\ deaths < MaxDeaths
  /\ deaths' = deaths + 1
  /\ node' = [Started(FALSE) EXCEPT !.alive = FALSE]
  /\ lost' = motor.enabled
  /\ feedback' = [speed |-> "zero", fresh |-> FALSE]
  /\ wire' = <<>>
  /\ UNCHANGED <<twists, converter, motor, mute, odom, faults>>

NodeStarts ==
  /\ ~node.alive
  /\ \E ready \in BOOLEAN : node' = Started(ready)
  /\ wire' = <<>>
  /\ UNCHANGED <<twists, converter, motor, lost, feedback, mute, odom, faults,
                 deaths>>

-----------------------------------------------------------------------------
Next ==
  \/ \E v \in Speeds : CmdVel(v)
  \/ WatchdogCheck \/ SpeedCallback \/ Cycle \/ FrameSent \/ FrameFails \/ Drive
  \/ CommandAges \/ FeedbackAges
  \/ B9Stops \/ ConverterDies \/ NodeDies \/ NodeStarts

Spec == Init /\ [][Next]_vars

\* The executor serves its timer and its subscription in turn, a blocked
\* callback returns, and every age passes its timeout.
FairSpec ==
  /\ Spec
  /\ SF_vars(Cycle) /\ SF_vars(SpeedCallback)
  /\ WF_vars(FrameSent \/ FrameFails) /\ WF_vars(Drive) /\ WF_vars(WatchdogCheck)
  /\ WF_vars(CommandAges /\ converter' # converter)
  /\ WF_vars(CommandAges /\ node' # node)
  /\ WF_vars(FeedbackAges /\ feedback' # feedback)
  /\ WF_vars(FeedbackAges /\ odom' # odom)

-----------------------------------------------------------------------------
(* Properties *)

\* The drive is told to turn only while it is enabled and its brake released:
\* whatever frames were refused and whichever process died before
\* (send_and_receive, release_brake).
DrivenOnlyReleased ==
  motor.speed = "go" => motor.enabled /\ motor.released

\* The receiver knows of every motor that is on: it drives it, or is at a frame
\* that will, or will switch it off, unless three disable frames were refused
\* or the receiver has gone (send_and_receive, prev_rpm).
EnabledIsKnown ==
  motor.enabled /\ ~lost =>
    node.alive /\ (node.prev = "go" \/ node.pc \in {"release", "undo", "drive"})

\* Once the commands end, by a zero, by silence or with the node that sends
\* them, the motor is switched off for good, unless the adapter refused the
\* disable frame three times or the receiver itself is gone.
DriveStops == <>[](motor.enabled => lost)

\* When the controller stops answering, the odometry comes to rest: neither the
\* receiver nor the odometry node goes on with the last speed it heard.
OdomSettles == [](mute => <>[](OdomSpeed = "zero"))

\* Types, that nothing is driven against the brake, and that no motor is left on
\* unawares.
DriveInvariant == TypeOK /\ DrivenOnlyReleased /\ EnabledIsKnown
=============================================================================
