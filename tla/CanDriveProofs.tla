--------------------------- MODULE CanDriveProofs ---------------------------
(***************************************************************************)
(* Proofs about the CAN receiver and its drive, for any number of twists,  *)
(* refused frames and deaths, and any depth of the topic.                  *)
(*                                                                         *)
(* The argument follows the receiver through its frames: what the drive    *)
(* has been told at each of them.  A kill leaves the drive as it is and    *)
(* the receiver at a place that promises nothing.                          *)
(***************************************************************************)
EXTENDS CanDrive, SequenceTheorems, TLAPS

NodeType ==
  [alive : BOOLEAN, ready : BOOLEAN, current : Speeds, fresh : BOOLEAN,
   prev : {"zero", "go"}, pc : {"idle", "drive"} \union Frames,
   tries : 0..Attempts - 1]
MotorType == [enabled : BOOLEAN, released : BOOLEAN, speed : {"zero", "go"}]
FeedbackType == [speed : {"zero", "go", "wild"}, fresh : BOOLEAN]
OdomType == [speed : {"zero", "go"}, fresh : BOOLEAN]

On == motor.enabled /\ motor.released

\* Between two cycles, and until a disable frame is sent, a receiver that drives
\* has a drive that may turn.
DrivingIsReleased ==
  node.prev = "go" /\ node.pc \in {"idle", "disable"} => On

\* At each frame: what the cycle was begun for, and what was sent before.
FramesInOrder ==
  /\ node.pc \in {"enable", "release", "undo"} =>
       node.prev = "zero" /\ node.current = "go"
  /\ node.pc \in {"release", "undo"} => motor.enabled
  /\ node.pc = "disable" => node.prev = "go" /\ node.current # "go"
  /\ node.pc = "drive" => IF node.current = "go" THEN On ELSE ~motor.enabled \/ lost

\* A standing receiver, and one that begins to drive, has a drive that is off.
StandingIsOff ==
  node.prev = "zero" /\ node.pc \in {"idle", "enable"} => ~motor.enabled \/ lost

\* A process that is gone is at no frame.
DeadIsIdle == ~node.alive => node.pc = "idle" /\ node.prev = "zero"

IInv ==
  /\ TypeOK
  /\ DrivenOnlyReleased
  /\ DrivingIsReleased
  /\ FramesInOrder
  /\ StandingIsOff
  /\ DeadIsIdle

-----------------------------------------------------------------------------
(* The topic between the converter and the receiver.                       *)

LEMMA PublishedType ==
  ASSUME TypeOK, NEW v \in Speeds
  PROVE  Published(v) \in Seq(Speeds) /\ Len(Published(v)) <= MaxQueue
<1>1. wire \in Seq(Speeds) /\ Len(wire) \in Nat /\ Len(wire) <= MaxQueue
  BY LenProperties DEF TypeOK
<1>2. CASE Len(wire) < MaxQueue
  BY <1>1, <1>2, CanAssumption, AppendProperties DEF Published
<1>3. CASE Len(wire) >= MaxQueue
  <2>1. wire # <<>>
    BY <1>1, <1>3, CanAssumption, EmptySeq
  <2>2. Tail(wire) \in Seq(Speeds) /\ Len(Tail(wire)) = Len(wire) - 1
    BY <1>1, <2>1, HeadTailProperties
  <2>. QED
    BY <1>1, <1>3, <2>2, CanAssumption, AppendProperties DEF Published
<1>. QED
  BY <1>1, <1>2, <1>3, CanAssumption

LEMMA WireHead ==
  ASSUME TypeOK, wire # <<>>
  PROVE  /\ Head(wire) \in Speeds
         /\ Tail(wire) \in Seq(Speeds) /\ Len(Tail(wire)) <= MaxQueue
<1>1. wire \in Seq(Speeds) /\ Len(wire) \in Nat /\ Len(wire) <= MaxQueue
  BY LenProperties DEF TypeOK
<1>. QED
  BY <1>1, CanAssumption, HeadTailProperties

LEMMA EmptyWire == <<>> \in Seq(Speeds) /\ Len(<<>>) <= MaxQueue
BY CanAssumption, EmptySeq

-----------------------------------------------------------------------------
(* Types.                                                                  *)

LEMMA Bounds == MaxTwists \in Nat /\ MaxFaults \in Nat /\ MaxDeaths \in Nat
BY CanAssumption

LEMMA NoTries == 0 \in 0..Attempts - 1
BY DEF Attempts

LEMMA StartedType ==
  ASSUME NEW ready \in BOOLEAN
  PROVE  Started(ready) \in NodeType
BY NoTries DEF Started, NodeType, Speeds

LEMMA TypeInit == Init => TypeOK
<1>. SUFFICES ASSUME Init PROVE TypeOK
  OBVIOUS
<1>1. node \in NodeType
  BY StartedType DEF Init
<1>2. wire \in Seq(Speeds) /\ Len(wire) <= MaxQueue
  BY EmptyWire DEF Init
<1>3. motor \in MotorType /\ feedback \in FeedbackType /\ odom \in OdomType
  BY DEF Init, MotorType, FeedbackType, OdomType
<1>. QED
  <2>1. /\ twists \in 0..MaxTwists /\ faults \in 0..MaxFaults /\ deaths \in 0..MaxDeaths
    BY Bounds DEF Init
  <2>2. lost \in BOOLEAN /\ mute \in BOOLEAN /\ converter \in [alive : BOOLEAN, fresh : BOOLEAN]
    BY DEF Init
  <2>. QED
    BY <2>2, <1>1, <1>2, <1>3, <2>1 DEF TypeOK, NodeType, MotorType, FeedbackType, OdomType

LEMMA TypeStep == TypeOK /\ [Next]_vars => TypeOK'
<1>. SUFFICES ASSUME TypeOK, [Next]_vars PROVE TypeOK'
  OBVIOUS
<1>. USE CanAssumption, Bounds
<1>0. /\ node \in NodeType /\ motor \in MotorType
      /\ feedback \in FeedbackType /\ odom \in OdomType
  BY DEF TypeOK, NodeType, MotorType, FeedbackType, OdomType
<1>. DEFINE Rest == /\ twists \in 0..MaxTwists
                   /\ converter \in [alive : BOOLEAN, fresh : BOOLEAN]
                   /\ wire \in Seq(Speeds) /\ Len(wire) <= MaxQueue
                   /\ lost \in BOOLEAN /\ mute \in BOOLEAN
                   /\ faults \in 0..MaxFaults /\ deaths \in 0..MaxDeaths
<1>. SUFFICES Rest' /\ (/\ node \in NodeType /\ motor \in MotorType
                       /\ feedback \in FeedbackType /\ odom \in OdomType)'
  BY DEF TypeOK, NodeType, MotorType, FeedbackType, OdomType
<1>r. Rest
  BY DEF TypeOK
<1>1. CASE \E v \in Speeds : CmdVel(v)
  <2>. PICK v \in Speeds : CmdVel(v)
    BY <1>1
  <2>1. twists' \in 0..MaxTwists
    BY <1>r DEF CmdVel
  <2>2. converter' \in [alive : BOOLEAN, fresh : BOOLEAN]
    BY <1>r DEF CmdVel
  <2>. QED
    BY <1>0, <1>r, <2>1, <2>2, PublishedType DEF CmdVel
<1>2. CASE WatchdogCheck
  <2>1. "zero" \in Speeds
    BY DEF Speeds
  <2>. QED
    BY <1>0, <1>r, <1>2, <2>1, PublishedType DEF WatchdogCheck
<1>3. CASE SpeedCallback
  <2>1. Head(wire) \in Speeds /\ Tail(wire) \in Seq(Speeds) /\ Len(Tail(wire)) <= MaxQueue
    BY <1>3, WireHead DEF SpeedCallback
  <2>2. node' \in NodeType
    BY <1>0, <1>3, <2>1 DEF SpeedCallback, NodeType
  <2>. QED
    BY <1>0, <1>r, <1>3, <2>1, <2>2 DEF SpeedCallback
<1>4. CASE Cycle
  <2>1. node' \in NodeType
    <3>. DEFINE c == IF Expired THEN "zero" ELSE node.current
                p == CASE c = "go" /\ node.prev = "zero" -> "enable"
                       [] c # "go" /\ node.prev = "go" -> "disable"
                       [] OTHER -> "drive"
    <3>1. node' = [node EXCEPT !.current = c, !.tries = 0, !.pc = p]
      BY <1>4 DEF Cycle
    <3>2. c \in Speeds
      BY <1>0 DEF Speeds, NodeType
    <3>3. p \in {"idle", "drive"} \union Frames
      BY DEF Frames
    <3>. HIDE DEF c, p
    <3>. QED
      BY <1>0, <3>1, <3>2, <3>3, NoTries DEF NodeType
  <2>. QED
    BY <1>0, <1>r, <1>4, <2>1 DEF Cycle
<1>5. CASE FrameSent
  <2>1. node' \in NodeType
    <3>1. CASE node.pc = "enable"
      <4>1. node' = [node EXCEPT !.pc = "release", !.tries = 0]
        BY <1>5, <3>1 DEF FrameSent
      <4>. QED
        BY <1>0, <4>1, NoTries DEF Frames, NodeType
    <3>2. CASE node.pc = "undo"
      BY <1>0, <1>5, <3>2 DEF FrameSent, Speeds, Frames, NodeType
    <3>3. CASE node.pc \notin {"enable", "undo"}
      BY <1>0, <1>5, <3>3 DEF FrameSent, Frames, NodeType
    <3>. QED
      BY <3>1, <3>2, <3>3
  <2>2. motor' \in MotorType
    BY <1>0, <1>5 DEF FrameSent, Obeys, MotorType
  <2>. QED
    BY <1>0, <1>r, <1>5, <2>1, <2>2 DEF FrameSent
<1>6. CASE FrameFails
  <2>1. node' \in NodeType
    <3>1. CASE node.tries < Attempts - 1
      BY <1>0, <1>6, <3>1 DEF FrameFails, Attempts, NodeType
    <3>2. CASE node.tries >= Attempts - 1
      <4>1. node' = Abandoned
        BY <1>0, <1>6, <3>2 DEF FrameFails, Attempts, NodeType
      <4>2. CASE node.pc \in {"enable", "undo"}
        BY <1>0, <4>1, <4>2 DEF Abandoned, Speeds, NodeType
      <4>3. CASE node.pc = "release"
        <5>1. node' = [node EXCEPT !.pc = "undo", !.tries = 0]
          BY <4>1, <4>3 DEF Abandoned
        <5>. QED
          BY <1>0, <5>1, NoTries DEF Frames, NodeType
      <4>4. CASE node.pc \notin {"enable", "undo", "release"}
        BY <1>0, <4>1, <4>4 DEF Abandoned, NodeType
      <4>. QED
        BY <4>2, <4>3, <4>4
    <3>. QED
      BY <1>0, <3>1, <3>2 DEF Attempts, NodeType
  <2>2. faults' \in 0..MaxFaults /\ lost' \in BOOLEAN
    BY <1>0, <1>r, <1>6 DEF FrameFails, Refused, MotorType
  <2>. QED
    BY <1>0, <1>r, <1>6, <2>1, <2>2 DEF FrameFails
<1>7. CASE Drive
  <2>1. node' \in NodeType
    BY <1>0, <1>7 DEF Drive, Speeds, Frames, Attempts, NodeType
  <2>2. motor' \in MotorType /\ faults' \in 0..MaxFaults
    BY <1>0, <1>r, <1>7 DEF Drive, Refused, MotorType
  <2>3. feedback' \in FeedbackType
    BY <1>0, <1>7, <2>2 DEF Drive, Reading, FeedbackType, MotorType
  <2>4. odom' \in OdomType
    BY <1>0, <1>7, <2>3 DEF Drive, Heard, FeedbackType, OdomType
  <2>. QED
    BY <1>0, <1>r, <1>7, <2>1, <2>2, <2>3, <2>4 DEF Drive
<1>8. CASE CommandAges \/ FeedbackAges \/ B9Stops
  BY <1>0, <1>r, <1>8
  DEF CommandAges, FeedbackAges, B9Stops, NodeType, FeedbackType, OdomType
<1>9. CASE ConverterDies
  BY <1>0, <1>r, <1>9 DEF ConverterDies
<1>10. CASE NodeDies
  <2>1. node' \in NodeType
    BY <1>10, StartedType DEF NodeDies, NodeType
  <2>2. lost' \in BOOLEAN /\ feedback' \in FeedbackType
    BY <1>0, <1>10 DEF NodeDies, MotorType, FeedbackType
  <2>. QED
    BY <1>0, <1>r, <1>10, <2>1, <2>2, EmptyWire DEF NodeDies
<1>11. CASE NodeStarts
  <2>1. node' \in NodeType
    BY <1>11, StartedType DEF NodeStarts
  <2>. QED
    BY <1>0, <1>r, <1>11, <2>1, EmptyWire DEF NodeStarts
<1>12. CASE UNCHANGED vars
  BY <1>0, <1>r, <1>12 DEF vars
<1>. QED
  BY <1>1, <1>2, <1>3, <1>4, <1>5, <1>6, <1>7, <1>8, <1>9, <1>10, <1>11, <1>12
  DEF Next

-----------------------------------------------------------------------------
(* Every step preserves the invariant.                                     *)

LEMMA InitIInv == Init => IInv
<1>. SUFFICES ASSUME Init PROVE IInv
  OBVIOUS
<1>1. /\ node.prev = "zero" /\ node.pc = "idle" /\ node.alive
      /\ motor.speed = "zero" /\ ~motor.enabled
  BY DEF Init, Started
<1>. QED
  BY <1>1, TypeInit
  DEF IInv, DrivenOnlyReleased, DrivingIsReleased, FramesInOrder, StandingIsOff, DeadIsIdle

LEMMA NextIInv == IInv /\ [Next]_vars => IInv'
<1>. SUFFICES ASSUME IInv, [Next]_vars PROVE IInv'
  OBVIOUS
<1>. DEFINE Safe == /\ DrivenOnlyReleased /\ DrivingIsReleased /\ FramesInOrder
                   /\ StandingIsOff /\ DeadIsIdle
<1>t. TypeOK'
  BY TypeStep DEF IInv
<1>s. SUFFICES Safe'
  BY <1>t DEF IInv
<1>0. node \in NodeType /\ motor \in MotorType /\ lost \in BOOLEAN
  BY DEF IInv, TypeOK, NodeType, MotorType
<1>. USE DEF DrivenOnlyReleased, DrivingIsReleased, FramesInOrder, StandingIsOff,
             DeadIsIdle, On
<1>r. Safe
  BY DEF IInv
<1>1. CASE SpeedCallback
  <2>1. /\ UNCHANGED <<motor, lost>>
        /\ node.pc = "idle" /\ node'.pc = "idle" /\ node'.prev = node.prev
        /\ node'.alive = node.alive
    BY <1>0, <1>1 DEF SpeedCallback, NodeType
  <2>. QED
    BY <1>r, <2>1
<1>2. CASE Cycle
  <2>1. /\ UNCHANGED <<motor, lost>>
        /\ node.pc = "idle" /\ node.alive /\ node'.prev = node.prev /\ node'.alive
        /\ node'.pc = CASE node'.current = "go" /\ node.prev = "zero" -> "enable"
                        [] node'.current # "go" /\ node.prev = "go" -> "disable"
                        [] OTHER -> "drive"
    BY <1>0, <1>2 DEF Cycle, NodeType
  <2>2. node.prev \in {"zero", "go"}
    BY <1>0 DEF NodeType
  <2>. QED
    BY <1>r, <2>1, <2>2
<1>3. CASE FrameSent
  <2>. USE <1>0, <1>3 DEF FrameSent, NodeType, MotorType
  <2>1. node.pc \in Frames /\ node.alive /\ lost' = FALSE
    OBVIOUS
  <2>2. CASE node.pc = "enable"
    <3>1. /\ node'.pc = "release" /\ node'.prev = node.prev
          /\ node'.current = node.current /\ node'.alive
      BY <2>2
    <3>2. motor' = [motor EXCEPT !.enabled = TRUE]
      BY <2>2 DEF Obeys
    <3>3. motor'.enabled /\ motor'.speed = motor.speed /\ motor'.released = motor.released
      BY <3>2
    <3>. QED
      BY <1>r, <2>2, <3>1, <3>3
  <2>3. CASE node.pc = "release"
    <3>1. /\ node'.pc = "drive" /\ node'.prev = node.prev
          /\ node'.current = node.current /\ node'.alive
      BY <2>3
    <3>2. motor' = [motor EXCEPT !.released = TRUE]
      BY <2>3 DEF Obeys
    <3>3. motor'.released /\ motor'.speed = motor.speed /\ motor'.enabled = motor.enabled
      BY <3>2
    <3>. QED
      BY <1>r, <2>3, <3>1, <3>3
  <2>4. CASE node.pc \in {"undo", "disable"}
    <3>1. /\ node'.pc = (IF node.pc = "undo" THEN "idle" ELSE "drive")
          /\ node'.prev = node.prev /\ node'.alive
          /\ node.pc = "disable" => node'.current = node.current
      BY <2>4
    <3>2. motor' = [enabled |-> FALSE, released |-> FALSE, speed |-> "zero"]
      BY <2>4 DEF Obeys
    <3>3. ~motor'.enabled /\ motor'.speed = "zero"
      BY <3>2
    <3>. QED
      BY <1>r, <2>4, <3>1, <3>3
  <2>. QED
    BY <2>1, <2>2, <2>3, <2>4 DEF Frames
<1>4. CASE FrameFails
  <2>. USE <1>0, <1>4 DEF FrameFails, NodeType
  <2>1. UNCHANGED motor /\ node.pc \in Frames /\ node.alive
    OBVIOUS
  <2>2. CASE node.tries < Attempts - 1
    <3>1. /\ node'.pc = node.pc /\ node'.prev = node.prev /\ lost' = lost
          /\ node'.current = node.current /\ node'.alive
      BY <2>2
    <3>. QED
      BY <1>r, <2>1, <3>1
  <2>3. CASE ~(node.tries < Attempts - 1)
    <3>1. /\ node' = Abandoned
          /\ lost' = (lost \/ (node.pc \in {"undo", "disable"} /\ motor.enabled))
      BY <2>3
    <3>2. /\ node'.prev = node.prev /\ node'.alive
          /\ node.pc \in {"enable", "undo"} => node'.pc = "idle"
          /\ node.pc = "release" => node'.pc = "undo" /\ node'.current = node.current
          /\ node.pc = "disable" => node'.pc = "drive" /\ node'.current = node.current
      BY <2>1, <3>1 DEF Abandoned, Frames
    <3>3. node'.pc # node.pc /\ node.pc \in {"enable", "undo", "release", "disable"}
      BY <2>1, <3>2 DEF Frames
    <3>. HIDE <1>4
    <3>. QED
      BY <1>r, <2>1, <3>1, <3>2, <3>3 DEF MotorType
  <2>. QED
    BY <2>2, <2>3
<1>5. CASE Drive
  <2>1. /\ node.pc = "drive" /\ node.alive /\ UNCHANGED lost
        /\ node'.pc = "idle" /\ node'.alive
        /\ node'.prev = IF node.current = "go" THEN "go" ELSE "zero"
        /\ node.current # "go" => motor' = motor
        /\ motor' = motor \/ motor' = [motor EXCEPT !.speed = "go"]
    BY <1>0, <1>5 DEF Drive, NodeType
  <2>2. motor'.enabled = motor.enabled /\ motor'.released = motor.released
    BY <1>0, <2>1 DEF MotorType
  <2>. QED
    BY <1>r, <2>1, <2>2
<1>6. CASE NodeDies
  <2>1. /\ UNCHANGED motor /\ lost' = motor.enabled
        /\ node'.pc = "idle" /\ node'.prev = "zero"
    BY <1>6 DEF NodeDies, Started
  <2>. QED
    BY <1>r, <2>1
<1>7. CASE NodeStarts
  <2>1. UNCHANGED <<motor, lost>> /\ node'.pc = "idle" /\ node'.prev = "zero" /\ node'.alive
    BY <1>7 DEF NodeStarts, Started
  <2>. QED
    BY <1>r, <1>7, <2>1 DEF NodeStarts
<1>8. CASE CommandAges
  <2>1. /\ UNCHANGED <<motor, lost>>
        /\ node'.pc = node.pc /\ node'.prev = node.prev
        /\ node'.current = node.current /\ node'.alive = node.alive
    BY <1>0, <1>8 DEF CommandAges, NodeType
  <2>. QED
    BY <1>r, <2>1
<1>9. CASE UNCHANGED <<node, motor, lost>>
  BY <1>r, <1>9
<1>10. \/ SpeedCallback \/ Cycle \/ FrameSent \/ FrameFails \/ Drive \/ CommandAges
       \/ NodeDies \/ NodeStarts
       \/ UNCHANGED <<node, motor, lost>>
  BY DEF Next, vars, CmdVel, WatchdogCheck, FeedbackAges, B9Stops, ConverterDies
<1>. QED
  BY <1>1, <1>2, <1>3, <1>4, <1>5, <1>6, <1>7, <1>8, <1>9, <1>10

LEMMA Invariance == Spec => []IInv
BY InitIInv, NextIInv, PTL DEF Spec

-----------------------------------------------------------------------------
(* The theorems.                                                           *)

\* Types: every variable keeps its range, the topic its depth.
THEOREM CanDriveTypeOK == Spec => []TypeOK
<1>1. IInv => TypeOK
  BY DEF IInv
<1>. QED
  BY <1>1, Invariance, PTL

\* send_and_receive: whatever frames were refused and whichever process died,
\* the drive turns only enabled and with its brake released, and a motor that
\* is on is one the receiver knows of, or has given up three times, or left.
THEOREM CanDriveInvariant == Spec => []DriveInvariant
<1>1. IInv => DriveInvariant
  <2>. SUFFICES ASSUME IInv, motor.enabled, ~lost
                PROVE  node.alive /\ (node.prev = "go" \/ node.pc \in {"release", "undo", "drive"})
    BY DEF IInv, DriveInvariant, EnabledIsKnown
  <2>1. node.prev \in {"zero", "go"} /\ node.pc \in {"idle", "drive"} \union Frames
    BY DEF IInv, TypeOK
  <2>. QED
    BY <2>1 DEF IInv, StandingIsOff, DeadIsIdle, FramesInOrder, Frames
<1>. QED
  BY <1>1, Invariance, PTL
=============================================================================
