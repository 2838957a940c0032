---------------------------- MODULE ChassisProofs ----------------------------
(***************************************************************************)
(* Proofs about the CAN bridge, for any number of lost frames and any      *)
(* number of restarts.                                                     *)
(*                                                                         *)
(* The argument is about the frames a callback has still to send.  What    *)
(* the properties say of the drive holds at the end of a callback because, *)
(* at every earlier point, the frame that will make it true is still in    *)
(* `todo', and because no frame before it can undo it.                     *)
(***************************************************************************)
EXTENDS Chassis, SequenceTheorems, TLAPS

\* A latched emergency stop leaves only stopping frames to send.
LatchedFramesStop ==
  estop => \A i \in 1..Len(todo) : todo[i].op \in {"disable", "brake"}

\* A callback that brakes sends nothing that could move the vehicle, and it
\* disables the motor first.
DisableBeforeBrake ==
  \A i \in 1..Len(todo) : todo[i].op = "brake" =>
    /\ \A j \in 1..Len(todo) : todo[j].op \in {"disable", "brake"}
    /\ faults = 0 => (\/ ~drive.enabled
                      \/ \E j \in 1..Len(todo) : j < i /\ todo[j].op = "disable")

\* A callback that drives releases the brake first.
ReleaseBeforeDrive ==
  \A i \in 1..Len(todo) : todo[i].op \in {"enable", "speed"} =>
    (faults = 0 => \/ ~drive.brake
                   \/ \E j \in 1..Len(todo) : j < i /\ todo[j].op = "release")

\* A callback that ends with the emergency stop latched will have braked.
StopUnderWay ==
  (phase = "running" /\ estop /\ faults = 0) =>
    /\ ~drive.enabled \/ \E i \in 1..Len(todo) : todo[i].op = "disable"
    /\ drive.brake \/ \E i \in 1..Len(todo) : todo[i].op = "brake"

\* After the watchdog, and on the way out, only the disabling frame is sent.
LastWordUnderWay ==
  ((phase = "running" /\ timeoutStopSent) \/ phase = "closing") =>
    /\ \A i \in 1..Len(todo) : todo[i].op = "disable"
    /\ faults = 0 => (~drive.enabled \/ todo # <<>>)

\* The first process finds the drive at rest.
FirstProcess ==
  /\ starts = 0 => (phase = "off" /\ drive = InitPlatform)
  /\ TelemetryIsTruthful

IInv ==
  /\ TypeOK
  /\ LatchedFramesStop
  /\ DisableBeforeBrake
  /\ ReleaseBeforeDrive
  /\ NoDriveAgainstBrake
  /\ StopUnderWay
  /\ LastWordUnderWay
  /\ FirstProcess

-----------------------------------------------------------------------------
(* Frames: what a callback sends, and what is left after one transmission. *)

LEMMA EffectType ==
  ASSUME NEW p \in Platform, NEW f \in Frame
  PROVE  Effect(p, f) \in Platform
BY DEF Platform, Frame, FrameOp, Effect, Sign

LEMMA EffectFlags ==
  ASSUME NEW p \in Platform, NEW f \in Frame
  PROVE  /\ Effect(p, f).enabled <=>
              (f.op = "enable" \/ (f.op # "disable" /\ p.enabled))
         /\ Effect(p, f).brake <=>
              (f.op = "brake" \/ (f.op # "release" /\ p.brake))
BY DEF Platform, Effect

LEMMA EffectSpeed ==
  ASSUME NEW p \in Platform, NEW f \in Frame
  PROVE  f.op \notin {"speed", "disable"} => Effect(p, f).speed = p.speed
BY DEF Effect

LEMMA EmptyFrames == <<>> \in Seq(Frame)
OBVIOUS

LEMMA InitPlatformType == InitPlatform \in Platform
BY DEF InitPlatform, Platform, Sign

LEMMA StopFramesFacts ==
  /\ StopFrames \in Seq(Frame)
  /\ Len(StopFrames) = 2
  /\ StopFrames[1].op = "disable" /\ StopFrames[2].op = "brake"
BY DEF StopFrames, Disable, Brake, Frame, FrameOp, Sign

LEMMA HoldFramesFacts ==
  ASSUME NEW c \in ChassisCommand
  PROVE  /\ HoldFrames(c) \in Seq(Frame)
         /\ Len(HoldFrames(c)) = 3
         /\ HoldFrames(c)[1].op = "release"
         /\ HoldFrames(c)[2].op = "steer"
         /\ HoldFrames(c)[3].op = "disable"
BY DEF HoldFrames, Disable, Release, SetSteer, Frame, FrameOp, Sign,
       ChassisCommand

LEMMA DriveFramesFacts ==
  ASSUME NEW c \in ChassisCommand
  PROVE  /\ DriveFrames(c) \in Seq(Frame)
         /\ Len(DriveFrames(c)) = 5
         /\ DriveFrames(c)[1].op = "release"
         /\ DriveFrames(c)[2].op = "steer"
         /\ DriveFrames(c)[3].op = "enable"
         /\ DriveFrames(c)[4].op = "release"
         /\ DriveFrames(c)[5].op = "speed"
BY DEF DriveFrames, Enable, Release, SetSteer, SetSpeed, Frame, FrameOp, Sign,
       ChassisCommand

LEMMA RestOfFrames ==
  ASSUME TypeOK, todo # <<>>
  PROVE  /\ Head(todo) = todo[1] /\ Head(todo) \in Frame
         /\ Tail(todo) \in Seq(Frame)
         /\ Len(todo) \in Nat /\ Len(todo) > 0
         /\ Len(Tail(todo)) = Len(todo) - 1
         /\ \A i \in 1..Len(Tail(todo)) : Tail(todo)[i] = todo[i + 1]
<1>1. todo \in Seq(Frame)
  BY DEF TypeOK
<1>. QED
  BY <1>1, HeadTailProperties

-----------------------------------------------------------------------------
(* Every step preserves the invariant.                                     *)

USE DEF Mode

LEMMA InitIInv == Init => IInv
<1>. SUFFICES ASSUME Init PROVE IInv
  OBVIOUS
<1>1. TypeOK
  <2>1. todo \in Seq(Frame) /\ shadow \in Platform /\ drive \in Platform
    BY EmptyFrames, InitPlatformType DEF Init
  <2>2. faults \in 0..MaxFaults /\ starts \in 0..MaxStarts
    BY ChassisAssumption DEF Init
  <2>. QED
    BY <2>1, <2>2 DEF Init, TypeOK
<1>2. FirstProcess
  BY DEF Init, FirstProcess, TelemetryIsTruthful
<1>. QED
  BY <1>1, <1>2
  DEF Init, IInv, LatchedFramesStop, DisableBeforeBrake, ReleaseBeforeDrive,
      NoDriveAgainstBrake, StopUnderWay, LastWordUnderWay, InitPlatform, Moving

LEMMA StartIInv == IInv /\ Start => IInv'
<1>. SUFFICES ASSUME IInv, Start PROVE IInv'
  OBVIOUS
<1>1. TypeOK'
  <2>1. todo' \in Seq(Frame) /\ shadow' \in Platform
    BY EmptyFrames, InitPlatformType DEF Start
  <2>2. drive' \in Platform /\ faults' \in 0..MaxFaults
    BY DEF Start, IInv, TypeOK
  <2>3. starts' \in 0..MaxStarts
    BY ChassisAssumption DEF Start, IInv, TypeOK
  <2>. QED
    BY <2>1, <2>2, <2>3 DEF Start, TypeOK
<1>2. FirstProcess'
  BY DEF IInv, FirstProcess, TelemetryIsTruthful, Start, TypeOK
<1>. QED
  BY <1>1, <1>2
  DEF IInv, Start, LatchedFramesStop, DisableBeforeBrake, ReleaseBeforeDrive,
      NoDriveAgainstBrake, StopUnderWay, LastWordUnderWay, Moving

LEMMA ApplyIInv ==
  ASSUME IInv, NEW c \in ChassisCommand, Apply(c)
  PROVE  IInv'
<1>. DEFINE g == Gated(c)
<1>1. g \in ChassisCommand /\ g.emergency_stop = estop'
  BY DEF IInv, TypeOK, Apply, Gated, LatchAfter, ChassisCommand
<1>2. /\ todo' = FramesFor(g)
      /\ age' = "fresh" /\ timeoutStopSent' = FALSE /\ phase = "running"
      /\ UNCHANGED <<phase, shadow, drive, faults, starts>>
  BY DEF Apply, Idle
<1>3. estop' \in BOOLEAN
  BY <1>1 DEF ChassisCommand
<1>. HIDE DEF g
<1>4. FirstProcess' /\ NoDriveAgainstBrake' /\ LastWordUnderWay'
  BY <1>2 DEF IInv, FirstProcess, TelemetryIsTruthful, NoDriveAgainstBrake,
              LastWordUnderWay, Moving
<1>5. todo' \in Seq(Frame) => TypeOK'
  BY <1>2, <1>3 DEF IInv, TypeOK
<1>6. CASE g.emergency_stop \/ g.brake
  <2>1. todo' = StopFrames
    BY <1>2, <1>6 DEF FramesFor
  <2>2. /\ TypeOK' /\ Len(todo') = 2
        /\ todo'[1].op = "disable" /\ todo'[2].op = "brake"
    BY <2>1, <1>5, StopFramesFacts
  <2>3. LatchedFramesStop' /\ ReleaseBeforeDrive' /\ StopUnderWay'
    BY <2>2 DEF LatchedFramesStop, ReleaseBeforeDrive, StopUnderWay
  <2>4. DisableBeforeBrake'
    BY <2>2 DEF DisableBeforeBrake
  <2>. QED
    BY <1>4, <2>2, <2>3, <2>4 DEF IInv
<1>7. CASE ~g.emergency_stop /\ ~g.brake /\ g.speed = 0
  <2>1. todo' = HoldFrames(g)
    BY <1>2, <1>7 DEF FramesFor
  <2>2. /\ TypeOK' /\ Len(todo') = 3 /\ todo'[1].op = "release"
        /\ todo'[2].op = "steer" /\ todo'[3].op = "disable"
    BY <2>1, <1>1, <1>5, HoldFramesFacts
  <2>3. LatchedFramesStop' /\ StopUnderWay'
    BY <1>1, <1>7 DEF LatchedFramesStop, StopUnderWay
  <2>4. DisableBeforeBrake' /\ ReleaseBeforeDrive'
    BY <2>2 DEF DisableBeforeBrake, ReleaseBeforeDrive
  <2>. QED
    BY <1>4, <2>2, <2>3, <2>4 DEF IInv
<1>8. CASE ~g.emergency_stop /\ ~g.brake /\ g.speed # 0
  <2>1. todo' = DriveFrames(g)
    BY <1>2, <1>8 DEF FramesFor
  <2>2. /\ TypeOK' /\ Len(todo') = 5 /\ todo'[1].op = "release"
        /\ todo'[2].op = "steer" /\ todo'[3].op = "enable"
        /\ todo'[4].op = "release" /\ todo'[5].op = "speed"
    BY <2>1, <1>1, <1>5, DriveFramesFacts
  <2>3. LatchedFramesStop' /\ StopUnderWay'
    BY <1>1, <1>8 DEF LatchedFramesStop, StopUnderWay
  <2>4. DisableBeforeBrake'
    BY <2>2 DEF DisableBeforeBrake
  <2>5. ReleaseBeforeDrive'
    BY <2>2 DEF ReleaseBeforeDrive
  <2>. QED
    BY <1>4, <2>2, <2>3, <2>4, <2>5 DEF IInv
<1>. QED
  BY <1>6, <1>7, <1>8

LEMMA CommandIsApply ==
  ASSUME Command
  PROVE  \E c \in ChassisCommand : Apply(c)
<1>1. \A v \in Sign, s \in Sign : Twist(v, s) \in ChassisCommand
  BY DEF Twist, ChassisCommand
<1>2. \A b \in BOOLEAN : [Twist(0, 0) EXCEPT !.brake = b] \in ChassisCommand
  BY DEF Twist, ChassisCommand, Sign
<1>3. \A b \in BOOLEAN :
        [Twist(0, 0) EXCEPT !.emergency_stop = b] \in ChassisCommand
  BY DEF Twist, ChassisCommand, Sign
<1>4. \A m \in Mode : [Twist(0, 0) EXCEPT !.mode = m] \in ChassisCommand
  BY DEF Twist, ChassisCommand, Sign
<1>. QED
  BY <1>1, <1>2, <1>3, <1>4
  DEF Command, OnCmdVel, OnBrake, OnEmergencyStop, OnMode

\* The steps that send only the disabling frame: the watchdog and Ctrl-C.
LEMMA DisableOnlyIInv == IInv /\ (OnTimer \/ Shutdown) => IInv'
<1>. SUFFICES ASSUME IInv, OnTimer \/ Shutdown PROVE IInv'
  OBVIOUS
<1>1. /\ todo' = <<Disable>>
      /\ UNCHANGED <<estop, age, shadow, drive, faults, starts>>
      /\ timeoutStopSent' \in BOOLEAN
      /\ phase' \in {"running", "closing"} /\ phase = "running"
  BY DEF OnTimer, Idle, Shutdown, IInv, TypeOK, safetyVars
<1>2. /\ todo' \in Seq(Frame) /\ Len(todo') = 1 /\ todo'[1].op = "disable"
      /\ todo' # <<>>
  BY <1>1 DEF Disable, Frame, FrameOp, Sign
<1>3. TypeOK'
  BY <1>1, <1>2 DEF IInv, TypeOK
<1>4. LatchedFramesStop' /\ DisableBeforeBrake' /\ ReleaseBeforeDrive'
  BY <1>2 DEF LatchedFramesStop, DisableBeforeBrake, ReleaseBeforeDrive
<1>5. NoDriveAgainstBrake' /\ FirstProcess'
  BY <1>1 DEF IInv, NoDriveAgainstBrake, FirstProcess, TelemetryIsTruthful,
              Moving
<1>6. LastWordUnderWay'
  BY <1>2 DEF LastWordUnderWay
<1>7. StopUnderWay'
  <2>1. CASE OnTimer
    <3>1. todo = <<>> /\ phase = "running"
      BY <2>1 DEF OnTimer, Idle
    <3>2. (estop /\ faults = 0) => drive.brake
      BY <3>1 DEF IInv, StopUnderWay
    <3>. QED
      BY <1>1, <1>2, <3>2 DEF StopUnderWay
  <2>2. CASE Shutdown
    BY <2>2 DEF Shutdown, StopUnderWay
  <2>. QED
    BY <2>1, <2>2
<1>. QED
  BY <1>3, <1>4, <1>5, <1>6, <1>7 DEF IInv

LEMMA SendFrameIInv == IInv /\ SendFrame => IInv'
<1>. SUFFICES ASSUME IInv, SendFrame PROVE IInv'
  OBVIOUS
<1>. DEFINE f == Head(todo)
            n == Len(todo)
<1>1. /\ f = todo[1] /\ f \in Frame
      /\ todo' \in Seq(Frame) /\ n \in Nat /\ n > 0
      /\ Len(todo') = n - 1
      /\ \A i \in 1..Len(todo') : todo'[i] = todo[i + 1]
  BY RestOfFrames DEF IInv, SendFrame
<1>2. UNCHANGED <<phase, estop, age, timeoutStopSent, starts>>
  BY DEF SendFrame, safetyVars
<1>3. \/ /\ drive' = Effect(drive, f) /\ shadow' = Effect(shadow, f)
         /\ faults' = faults
      \/ /\ drive' = drive /\ shadow' = shadow
         /\ faults < MaxFaults /\ faults' = faults + 1
  BY DEF SendFrame, ShadowAfter
<1>4. TypeOK'
  BY <1>1, <1>2, <1>3, EffectType, ChassisAssumption DEF IInv, TypeOK
<1>5. faults' = 0 => faults = 0 /\ drive' = Effect(drive, f)
  BY <1>3, ChassisAssumption DEF IInv, TypeOK
<1>. HIDE DEF f, n
<1>5a. faults' = 0 =>
         /\ drive'.enabled <=>
              (f.op = "enable" \/ (f.op # "disable" /\ drive.enabled))
         /\ drive'.brake <=>
              (f.op = "brake" \/ (f.op # "release" /\ drive.brake))
         /\ f.op \notin {"speed", "disable"} => drive'.speed = drive.speed
  BY <1>1, <1>5, EffectFlags, EffectSpeed DEF IInv, TypeOK
<1>6. LatchedFramesStop'
  BY <1>1, <1>2 DEF IInv, LatchedFramesStop, n
<1>7. DisableBeforeBrake'
  <2>. SUFFICES ASSUME NEW i \in 1..Len(todo'), todo'[i].op = "brake"
                PROVE  /\ \A j \in 1..Len(todo') :
                            todo'[j].op \in {"disable", "brake"}
                       /\ faults' = 0 =>
                            (\/ ~drive'.enabled
                             \/ \E j \in 1..Len(todo') :
                                  j < i /\ todo'[j].op = "disable")
    BY DEF DisableBeforeBrake
  <2>1. i + 1 \in 1..n /\ todo[i + 1].op = "brake" /\ 1 \in 1..n
    BY <1>1
  <2>2. \A j \in 1..n : todo[j].op \in {"disable", "brake"}
    BY <2>1 DEF IInv, DisableBeforeBrake, n
  <2>3. \A j \in 1..Len(todo') : todo'[j].op \in {"disable", "brake"}
    BY <1>1, <2>2
  <2>4. ASSUME faults' = 0
        PROVE  \/ ~drive'.enabled
               \/ \E j \in 1..Len(todo') : j < i /\ todo'[j].op = "disable"
    <3>1. f.op \in {"disable", "brake"}
      BY <1>1, <2>1, <2>2
    <3>2. ~drive.enabled \/ f.op = "disable" => ~drive'.enabled
      BY <1>5a, <2>4, <3>1
    <3>3. \/ ~drive.enabled
          \/ \E j \in 1..n : j < i + 1 /\ todo[j].op = "disable"
      BY <1>5, <2>1, <2>4 DEF IInv, DisableBeforeBrake, n
    <3>4. CASE ~drive.enabled
      BY <3>2, <3>4
    <3>5. CASE \E j \in 1..n : j < i + 1 /\ todo[j].op = "disable"
      <4>1. PICK j \in 1..n : j < i + 1 /\ todo[j].op = "disable"
        BY <3>5
      <4>2. CASE j = 1
        BY <1>1, <3>2, <4>1, <4>2
      <4>3. CASE j # 1
        <5>1. /\ j - 1 \in 1..Len(todo') /\ j - 1 < i
              /\ todo'[j - 1] = todo[(j - 1) + 1] /\ (j - 1) + 1 = j
          BY <1>1, <4>1, <4>3
        <5>. QED
          BY <4>1, <5>1
      <4>. QED
        BY <4>2, <4>3
    <3>. QED
      BY <3>3, <3>4, <3>5
  <2>. QED
    BY <2>3, <2>4
<1>8. ReleaseBeforeDrive'
  <2>. SUFFICES ASSUME NEW i \in 1..Len(todo'),
                       todo'[i].op \in {"enable", "speed"}, faults' = 0
                PROVE  \/ ~drive'.brake
                       \/ \E j \in 1..Len(todo') :
                            j < i /\ todo'[j].op = "release"
    BY DEF ReleaseBeforeDrive
  <2>1. /\ i + 1 \in 1..n /\ todo[i + 1].op \in {"enable", "speed"}
        /\ 1 \in 1..n
    BY <1>1
  <2>2. f.op # "brake"
    BY <1>1, <2>1 DEF IInv, DisableBeforeBrake, n
  <2>3. ~drive.brake \/ f.op = "release" => ~drive'.brake
    BY <1>5a, <2>2
  <2>4. \/ ~drive.brake
        \/ \E j \in 1..n : j < i + 1 /\ todo[j].op = "release"
    BY <1>5, <2>1 DEF IInv, ReleaseBeforeDrive, n
  <2>5. CASE \E j \in 1..n : j < i + 1 /\ todo[j].op = "release"
    <3>1. PICK j \in 1..n : j < i + 1 /\ todo[j].op = "release"
      BY <2>5
    <3>2. CASE j = 1
      BY <1>1, <2>3, <3>1, <3>2
    <3>3. CASE j # 1
      <4>1. /\ j - 1 \in 1..Len(todo') /\ j - 1 < i
            /\ todo'[j - 1] = todo[(j - 1) + 1] /\ (j - 1) + 1 = j
        BY <1>1, <3>1, <3>3
      <4>. QED
        BY <3>1, <4>1
    <3>. QED
      BY <3>2, <3>3
  <2>. QED
    BY <2>3, <2>4, <2>5
<1>9. NoDriveAgainstBrake'
  <2>. SUFFICES ASSUME faults' = 0, drive'.brake PROVE ~Moving(drive')
    BY DEF NoDriveAgainstBrake
  <2>1. ~(drive.brake /\ Moving(drive)) /\ 1 \in 1..n
    BY <1>1, <1>5 DEF IInv, NoDriveAgainstBrake
  <2>2. CASE f.op = "brake"
    <3>1. ~drive.enabled
      BY <1>1, <1>5, <2>1, <2>2 DEF IInv, DisableBeforeBrake, n
    <3>. QED
      BY <1>5a, <2>2, <3>1 DEF Moving
  <2>3. CASE f.op \in {"enable", "speed"}
    <3>1. ~drive.brake
      BY <1>1, <1>5, <2>1, <2>3 DEF IInv, ReleaseBeforeDrive, n
    <3>. QED
      BY <1>5a, <2>3, <3>1
  <2>4. CASE f.op \in {"disable", "release", "steer"}
    BY <1>5a, <2>1, <2>4 DEF Moving
  <2>. QED
    BY <1>1, <2>2, <2>3, <2>4 DEF Frame, FrameOp
<1>10. StopUnderWay'
  <2>. SUFFICES ASSUME phase = "running", estop, faults' = 0
                PROVE  /\ \/ ~drive'.enabled
                          \/ \E i \in 1..Len(todo') : todo'[i].op = "disable"
                       /\ \/ drive'.brake
                          \/ \E i \in 1..Len(todo') : todo'[i].op = "brake"
    BY <1>2 DEF StopUnderWay
  <2>1. f.op \in {"disable", "brake"}
    BY <1>1 DEF IInv, LatchedFramesStop, n
  <2>2. /\ ~drive.enabled \/ f.op = "disable" => ~drive'.enabled
        /\ drive.brake \/ f.op = "brake" => drive'.brake
    BY <1>5a, <2>1
  <2>3. \A i \in 1..n : i = 1 \/ (i - 1 \in 1..Len(todo')
                                  /\ todo'[i - 1] = todo[i])
    <3>1. \A i \in 1..n : i # 1 => i - 1 \in 1..Len(todo') /\ (i - 1) + 1 = i
      BY <1>1
    <3>. QED
      BY <1>1, <3>1
  <2>4. /\ ~drive.enabled \/ \E i \in 1..n : todo[i].op = "disable"
        /\ drive.brake \/ \E i \in 1..n : todo[i].op = "brake"
    BY <1>5 DEF IInv, StopUnderWay, n
  <2>. QED
    BY <1>1, <2>2, <2>3, <2>4
<1>11. LastWordUnderWay'
  <2>. SUFFICES ASSUME (phase = "running" /\ timeoutStopSent)
                          \/ phase = "closing"
                PROVE  /\ \A i \in 1..Len(todo') : todo'[i].op = "disable"
                       /\ faults' = 0 => ~drive'.enabled \/ todo' # <<>>
    BY <1>2 DEF LastWordUnderWay
  <2>1. \A i \in 1..n : todo[i].op = "disable"
    BY DEF IInv, LastWordUnderWay, n
  <2>2. f.op = "disable"
    BY <1>1, <2>1
  <2>3. faults' = 0 => ~drive'.enabled
    BY <1>5a, <2>2
  <2>. QED
    BY <1>1, <2>1, <2>3
<1>12. FirstProcess'
  <2>1. starts' # 0
    BY <1>2 DEF SendFrame, IInv, FirstProcess
  <2>2. TelemetryIsTruthful'
    BY <1>2, <1>3 DEF IInv, FirstProcess, TelemetryIsTruthful
  <2>. QED
    BY <2>1, <2>2 DEF FirstProcess
<1>. QED
  BY <1>4, <1>6, <1>7, <1>8, <1>9, <1>10, <1>11, <1>12 DEF IInv

LEMMA ExpireIInv == IInv /\ Expire => IInv'
BY DEF IInv, Expire, TypeOK, LatchedFramesStop, DisableBeforeBrake,
       ReleaseBeforeDrive, NoDriveAgainstBrake, StopUnderWay,
       LastWordUnderWay, FirstProcess, TelemetryIsTruthful

LEMMA CloseIInv == IInv /\ Close => IInv'
<1>. SUFFICES ASSUME IInv, Close PROVE IInv'
  OBVIOUS
<1>1. TypeOK'
  BY DEF IInv, TypeOK, Close, safetyVars, InitPlatform, Platform, Sign
<1>2. FirstProcess'
  BY DEF IInv, FirstProcess, TelemetryIsTruthful, Close, safetyVars
<1>. QED
  BY <1>1, <1>2
  DEF IInv, Close, safetyVars, LatchedFramesStop, DisableBeforeBrake,
      ReleaseBeforeDrive, NoDriveAgainstBrake, StopUnderWay,
      LastWordUnderWay, Moving

LEMMA CrashIInv == IInv /\ Crash => IInv'
<1>. SUFFICES ASSUME IInv, Crash PROVE IInv'
  OBVIOUS
<1>1. TypeOK'
  BY DEF IInv, TypeOK, Crash, safetyVars
<1>2. FirstProcess'
  BY DEF IInv, FirstProcess, TelemetryIsTruthful, Crash, safetyVars
<1>. QED
  BY <1>1, <1>2
  DEF IInv, Crash, safetyVars, LatchedFramesStop, DisableBeforeBrake,
      ReleaseBeforeDrive, NoDriveAgainstBrake, StopUnderWay,
      LastWordUnderWay, Moving

LEMMA NextIInv == IInv /\ [Next]_vars => IInv'
<1>. SUFFICES ASSUME IInv, [Next]_vars PROVE IInv'
  OBVIOUS
<1>1. CASE Command
  BY <1>1, CommandIsApply, ApplyIInv
<1>2. CASE OnTimer
  BY <1>2, DisableOnlyIInv
<1>3. CASE SendFrame
  BY <1>3, SendFrameIInv
<1>4. CASE Life
  BY <1>4, StartIInv, ExpireIInv, DisableOnlyIInv, CloseIInv, CrashIInv
  DEF Life
<1>5. CASE UNCHANGED vars
  BY <1>5 DEF vars, IInv, TypeOK, LatchedFramesStop, DisableBeforeBrake,
              ReleaseBeforeDrive, NoDriveAgainstBrake, StopUnderWay,
              LastWordUnderWay, FirstProcess, TelemetryIsTruthful
<1>. QED
  BY <1>1, <1>2, <1>3, <1>4, <1>5 DEF Next

-----------------------------------------------------------------------------
(* Theorems                                                                *)

LEMMA Invariance == Spec => []IInv
<1>. QED
  BY InitIInv, NextIInv, PTL DEF Spec

\* The bridge keeps the types of its state, whatever commands it is given.
THEOREM ChassisTypeCorrect == Spec => []TypeOK
<1>1. IInv => TypeOK
  BY DEF IInv
<1>. QED
  BY <1>1, Invariance, PTL

\* Robot320Platform updates its state only for a frame that was sent, so the
\* telemetry of the first process never differs from the drive.
THEOREM ChassisTelemetryIsTruthful == Spec => []TelemetryIsTruthful
<1>1. IInv => TelemetryIsTruthful
  BY DEF IInv, FirstProcess
<1>. QED
  BY <1>1, Invariance, PTL

\* apply_command under a latched emergency stop always ends with the motor
\* disabled and the brake on.
THEOREM ChassisEStopHolds == Spec => []EStopHolds
<1>1. IInv => EStopHolds
  BY DEF IInv, StopUnderWay, EStopHolds
<1>. QED
  BY <1>1, Invariance, PTL

\* The order of the frames in apply_command and set_motor_speed never turns
\* the motor against the brake.
THEOREM ChassisNoDriveAgainstBrake == Spec => []NoDriveAgainstBrake
<1>1. IInv => NoDriveAgainstBrake
  BY DEF IInv
<1>. QED
  BY <1>1, Invariance, PTL

\* After the watchdog of on_timer has stopped the motor only a new command can
\* enable it.
THEOREM ChassisWatchdogHasLastWord == Spec => []WatchdogHasLastWord
<1>1. IInv => WatchdogHasLastWord
  BY DEF IInv, LastWordUnderWay, WatchdogHasLastWord
<1>. QED
  BY <1>1, Invariance, PTL

\* disconnect leaves the motor disabled, whichever callback it interrupts.
THEOREM ChassisCleanExitDisables == Spec => CleanExitDisables
<1>1. IInv /\ [Next]_vars => [(Close /\ faults = 0) => ~drive'.enabled]_vars
  <2>. SUFFICES ASSUME IInv, Close, faults = 0 PROVE ~drive'.enabled
    OBVIOUS
  <2>1. ~drive.enabled /\ drive' = drive
    BY DEF IInv, LastWordUnderWay, Close
  <2>. QED
    BY <2>1
<1>. QED
  BY <1>1, Invariance, PTL DEF Spec, CleanExitDisables

\* The latch of SafetyController blocks motion: no frame sent while it is set
\* starts the motor or releases the brake.
THEOREM ChassisEStopNeverDrives == Spec => EStopNeverDrives
<1>1. IInv /\ [Next]_vars =>
        [(estop /\ estop') => /\ Moving(drive') => Moving(drive)
                              /\ drive.brake => drive'.brake]_vars
  <2>. SUFFICES ASSUME IInv, Next, estop, estop'
                PROVE  /\ Moving(drive') => Moving(drive)
                       /\ drive.brake => drive'.brake
    BY DEF vars
  <2>1. CASE SendFrame
    <3>. DEFINE f == Head(todo)
    <3>1. f \in Frame /\ f = todo[1] /\ 1 \in 1..Len(todo)
      BY <2>1, RestOfFrames DEF SendFrame, IInv
    <3>2. drive' = Effect(drive, f) \/ drive' = drive
      BY <2>1 DEF SendFrame
    <3>3. f.op \in {"disable", "brake"}
      BY <3>1 DEF IInv, LatchedFramesStop
    <3>. HIDE DEF f
    <3>4. drive \in Platform
      BY DEF IInv, TypeOK
    <3>5. CASE drive' = Effect(drive, f)
      <4>1. /\ drive'.enabled <=> (f.op # "disable" /\ drive.enabled)
            /\ drive'.brake <=> (f.op = "brake" \/ drive.brake)
            /\ f.op # "disable" => drive'.speed = drive.speed
        BY <3>1, <3>3, <3>4, <3>5, EffectFlags, EffectSpeed
      <4>. QED
        BY <4>1 DEF Moving
    <3>. QED
      BY <3>2, <3>5
  <2>2. CASE ~SendFrame
    <3>1. drive' = drive
      BY <2>2 DEF Next, Command, OnCmdVel, OnBrake, OnEmergencyStop, OnMode,
                  Apply, OnTimer, Life, Start, Expire, Shutdown, Close, Crash
    <3>. QED
      BY <3>1
  <2>. QED
    BY <2>1, <2>2
<1>. QED
  BY <1>1, Invariance, PTL DEF Spec, EStopNeverDrives

=============================================================================
