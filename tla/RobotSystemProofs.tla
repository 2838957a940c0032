------------------------- MODULE RobotSystemProofs -------------------------
(***************************************************************************)
(* Proofs about the gateway and the CAN bridge together, for any length of *)
(* the subscriptions, any number of commands and any faults of the bus.    *)
(*                                                                         *)
(* What GatewayProofs and ChassisProofs show of each node holds of it      *)
(* here, where the other one gives it its inputs.  What the two promise    *)
(* together rests on the last velocity that waits for the bridge.          *)
(***************************************************************************)
EXTENDS RobotSystem, SequenceTheorems, TLAPS

GP == INSTANCE GatewayProofs
CP == INSTANCE ChassisProofs

TopicsTyped ==
  /\ DOMAIN topic = Topic
  /\ \A t \in Topic : topic[t] \in Seq(Payload(t)) /\ Len(topic[t]) <= Depth

HistoryTyped == asked.moves \in BOOLEAN /\ hold \in BOOLEAN /\ unsafe \in BOOLEAN

Stopped == asked.kind \in {"stop", "cancel_navigation"}

\* After a stop nobody relays velocities of Nav2, and no goal that could is
\* waited for.
StopClosesRelay == Stopped => phase = "running" /\ ~relay /\ pending = 0

\* The zero velocity of the stop is the last one that waits for the bridge.
ZeroIsLast ==
  Stopped /\ topic["cmd_vel"] # <<>> =>
    topic["cmd_vel"][Len(topic["cmd_vel"])] = ZeroVelocity

\* Once the bridge has taken it, the motor is off or about to be.
Disabling ==
  /\ \A i \in 1..Len(todo) : todo[i].op # "enable"
  /\ faults = 0 => ~drive.enabled \/ \E i \in 1..Len(todo) : todo[i].op = "disable"
EmptyDisables == Stopped /\ topic["cmd_vel"] = <<>> => Disabling

IInv ==
  /\ GP!IInv
  /\ CP!IInv
  /\ TopicsTyped
  /\ HistoryTyped
  /\ StopClosesRelay
  /\ ZeroIsLast
  /\ EmptyDisables

-----------------------------------------------------------------------------
(* Each node does what it does alone.                                      *)

LEMMA Parameters == GP!GatewayAssumption /\ CP!ChassisAssumption
BY SystemAssumption DEF GP!GatewayAssumption, CP!ChassisAssumption

LEMMA DispatchIsGateways ==
  ASSUME NEW id, Gateway!Dispatch(id)
  PROVE  GP!Dispatch(id)
BY Zenon
DEF Gateway!Dispatch, Gateway!ManualMotion, Gateway!Stop, Gateway!BrakeCommand,
    Gateway!EmergencyStop, Gateway!ResetEmergencyStop, Gateway!SetMode, Gateway!NavigationGoal,
    Gateway!CancelNavigation, Gateway!Lift, Gateway!Unsupported, Gateway!RequestNavCancel,
    Gateway!NavAfterCancel, Gateway!CancelAskedAfter, Gateway!LeaveNavigation, Gateway!Override,
    Gateway!NoOverride, Gateway!Reply, Gateway!handleVars, Gateway!None, Gateway!Mode, Gateway!At,
    GP!Dispatch, GP!ManualMotion, GP!Stop, GP!BrakeCommand,
    GP!EmergencyStop, GP!ResetEmergencyStop, GP!SetMode, GP!NavigationGoal,
    GP!CancelNavigation, GP!Lift, GP!Unsupported, GP!RequestNavCancel,
    GP!NavAfterCancel, GP!CancelAskedAfter, GP!LeaveNavigation, GP!Override,
    GP!NoOverride, GP!Reply, GP!handleVars, GP!None, GP!Mode, GP!At

LEMMA AcceptIsGateways ==
  ASSUME NEW m \in Gateway!Message, Gateway!Accept(m)
  PROVE  GP!Receive
<1>1. m \in GP!Message
  BY Zenon DEF Gateway!Message, Gateway!Id, Gateway!Age, GP!Message, GP!Id, GP!Age
<1>2. Gateway!ReceiveCommand(m) => GP!ReceiveCommand(m)
  BY Zenon
  DEF Gateway!ReceiveCommand, Gateway!Arrives, Gateway!ArrivesAgain, Gateway!Copy,
      Gateway!Later, Gateway!Age, GP!ReceiveCommand, GP!Arrives, GP!ArrivesAgain,
      GP!Copy, GP!Later, GP!Age
<1>3. GP!Accept(m)
  BY <1>2, DispatchIsGateways, Zenon
  DEF Gateway!Accept, Gateway!Valid, GP!Accept, GP!Valid
<1>. QED
  BY <1>1, <1>3 DEF GP!Receive

LEMMA Nav2IsGateways == ASSUME Gateway!Nav2Step PROVE GP!Nav2Step
BY Zenon
DEF Gateway!Nav2Step, Gateway!NavAnswers, Gateway!NavFinishes, Gateway!handleVars, Gateway!Id,
    Gateway!GoalResult, Gateway!At, Gateway!Answered, Gateway!Finished,
    GP!Nav2Step, GP!NavAnswers, GP!NavFinishes, GP!handleVars, GP!Id,
    GP!GoalResult, GP!At, GP!Answered, GP!Finished, Gateway!received, GP!received

LEMMA CallbackIsGateways == ASSUME Gateway!Callback PROVE GP!Callback
BY Zenon
DEF Gateway!Callback, Gateway!OnNavGoalResponse, Gateway!ResponseSuperseded,
    Gateway!ResponseRefused, Gateway!ResponseAccepted, Gateway!OnNavResult,
    Gateway!ResultIgnored, Gateway!ResultTaken, Gateway!OnNavCmdVel, Gateway!CallbackFrame,
    Gateway!FinalReply, Gateway!Reply, Gateway!handleVars, Gateway!Id, Gateway!None,
    Gateway!GoalResult, Gateway!At, Gateway!Answered, Gateway!Finished,
    GP!Callback, GP!OnNavGoalResponse, GP!ResponseSuperseded,
    GP!ResponseRefused, GP!ResponseAccepted, GP!OnNavResult,
    GP!ResultIgnored, GP!ResultTaken, GP!OnNavCmdVel, GP!CallbackFrame,
    GP!FinalReply, GP!Reply, GP!handleVars, GP!Id, GP!None,
    GP!GoalResult, GP!At, GP!Answered, GP!Finished, Gateway!received, GP!received

\* The gateway's invariant, and its types under the name they have here.
LEMMA GatewayKeeps ==
  ASSUME GP!IInv, Next \/ UNCHANGED vars
  PROVE  GP!IInv'
<1>1. CASE GatewayStep
  <2>1. GP!Next
    BY <1>1, AcceptIsGateways, Nav2IsGateways, CallbackIsGateways DEF GatewayStep, GP!Next
  <2>. QED
    BY <2>1, GP!NextIInv, Parameters
<1>2. CASE Listen \/ BridgeStep \/ UNCHANGED vars
  <2>1. UNCHANGED gatewayVars
    BY <1>2 DEF Listen, Deliver, BridgeStep, vars
  <2>2. UNCHANGED GP!vars
    BY <2>1 DEF gatewayVars, GP!vars, GP!received
  <2>. QED
    BY <2>2, GP!NextIInv, Parameters
<1>. QED
  BY <1>1, <1>2 DEF Next

LEMMA GatewayTyped == ASSUME GP!IInv PROVE Gateway!TypeOK
<1>1. GP!TypeOK
  BY DEF GP!IInv
<1>. QED
  BY <1>1, Zenon
  DEF Gateway!TypeOK, Gateway!Message, Gateway!Age, GP!Message, GP!Age,
      Gateway!Id, Gateway!None, Gateway!NavState, Gateway!FinalStates,
      Gateway!GoalResult, Gateway!RequestState, Gateway!Stage, Gateway!ReplyStatus,
      GP!TypeOK, GP!Id, GP!None, GP!NavState, GP!FinalStates,
      GP!GoalResult, GP!RequestState, GP!Stage, GP!ReplyStatus

LEMMA ApplyIsBridges ==
  ASSUME NEW c, Chassis!Apply(c)
  PROVE  CP!Apply(c)
BY Zenon
DEF Chassis!Apply, Chassis!Idle, Chassis!LatchAfter, Chassis!Gated, Chassis!FramesFor,
    Chassis!StopFrames, Chassis!HoldFrames, Chassis!DriveFrames, Chassis!Enable,
    Chassis!Disable, Chassis!Brake, Chassis!Release, Chassis!SetSpeed, Chassis!SetSteer,
    CP!Apply, CP!Idle, CP!LatchAfter, CP!Gated, CP!FramesFor, CP!StopFrames, CP!HoldFrames,
    CP!DriveFrames, CP!Enable, CP!Disable, CP!Brake, CP!Release, CP!SetSpeed, CP!SetSteer

\* What waits in a subscription is what its callback takes.
LEMMA DeliveredIsCommand ==
  ASSUME TopicsTyped, NEW t \in Topic, Deliver(t)
  PROVE  CP!Command
<1>1. topic[t] \in Seq(Payload(t)) /\ topic[t] # <<>>
  BY DEF TopicsTyped, Deliver
<1>2. Head(topic[t]) \in Payload(t)
  BY <1>1, HeadTailProperties
<1>. DEFINE m == Head(topic[t])
<1>3. /\ t = "cmd_vel" => m \in CP!Sign /\ Chassis!OnCmdVel(m, 0)
      /\ t = "brake" => m \in BOOLEAN /\ Chassis!OnBrake(m)
      /\ t = "emergency_stop" => m \in BOOLEAN /\ Chassis!OnEmergencyStop(m)
      /\ t = "mode" => m \in CP!Mode /\ Chassis!OnMode(m)
  BY <1>2, SystemAssumption DEF Payload, Deliver, Gateway!Mode, CP!Mode, CP!Sign
<1>. HIDE DEF m
<1>4. CASE t = "cmd_vel"
  <2>1. CP!OnCmdVel(m, 0) /\ 0 \in CP!Sign
    BY <1>3, <1>4, ApplyIsBridges DEF Chassis!OnCmdVel, Chassis!Twist, CP!OnCmdVel, CP!Twist, CP!Sign
  <2>. QED
    BY <1>3, <1>4, <2>1 DEF CP!Command
<1>5. CASE t = "brake"
  <2>1. CP!OnBrake(m)
    BY <1>3, <1>5, ApplyIsBridges DEF Chassis!OnBrake, Chassis!Twist, CP!OnBrake, CP!Twist
  <2>. QED
    BY <1>3, <1>5, <2>1 DEF CP!Command
<1>6. CASE t = "emergency_stop"
  <2>1. CP!OnEmergencyStop(m)
    BY <1>3, <1>6, ApplyIsBridges
    DEF Chassis!OnEmergencyStop, Chassis!Twist, CP!OnEmergencyStop, CP!Twist
  <2>. QED
    BY <1>3, <1>6, <2>1 DEF CP!Command
<1>7. CASE t = "mode"
  <2>1. CP!OnMode(m)
    BY <1>3, <1>7, ApplyIsBridges DEF Chassis!OnMode, Chassis!Twist, CP!OnMode, CP!Twist
  <2>. QED
    BY <1>3, <1>7, <2>1 DEF CP!Command
<1>. QED
  BY <1>4, <1>5, <1>6, <1>7 DEF Topic

LEMMA BridgeStepIsBridges == ASSUME BridgeStep PROVE CP!Next
<1>1. Chassis!Start => CP!Start
  BY Zenon DEF Chassis!Start, Chassis!InitPlatform, CP!Start, CP!InitPlatform
<1>2. Chassis!Expire => CP!Expire
  BY Zenon DEF Chassis!Expire, CP!Expire
<1>3. Chassis!OnTimer => CP!OnTimer
  BY Zenon DEF Chassis!OnTimer, Chassis!Idle, Chassis!Disable, CP!OnTimer, CP!Idle, CP!Disable
<1>4. Chassis!SendFrame => CP!SendFrame
  BY Zenon DEF Chassis!SendFrame, Chassis!ShadowAfter, Chassis!Effect, Chassis!safetyVars,
               CP!SendFrame, CP!ShadowAfter, CP!Effect, CP!safetyVars
<1>. QED
  BY <1>1, <1>2, <1>3, <1>4 DEF BridgeStep, CP!Next, CP!Life

LEMMA ChassisKeeps ==
  ASSUME CP!IInv, TopicsTyped, Next \/ UNCHANGED vars
  PROVE  CP!IInv'
<1>1. CASE Listen
  <2>1. CP!Next
    BY <1>1, DeliveredIsCommand DEF Listen, CP!Next
  <2>. QED
    BY <2>1, CP!NextIInv, Parameters
<1>2. CASE BridgeStep
  BY <1>2, BridgeStepIsBridges, CP!NextIInv, Parameters
<1>3. CASE GatewayStep \/ UNCHANGED vars
  <2>1. UNCHANGED chassisVars
    BY <1>3 DEF GatewayStep, vars
  <2>2. UNCHANGED CP!vars
    BY <2>1 DEF chassisVars, CP!vars
  <2>. QED
    BY <2>2, CP!NextIInv, Parameters
<1>. QED
  BY <1>1, <1>2, <1>3 DEF Next

LEMMA ChassisTyped == ASSUME CP!IInv PROVE Chassis!TypeOK
<1>1. CP!TypeOK
  BY DEF CP!IInv
<1>. QED
  BY <1>1, Zenon
  DEF Chassis!TypeOK, Chassis!Frame, Chassis!FrameOp, Chassis!Sign, Chassis!Platform,
      CP!TypeOK, CP!Frame, CP!FrameOp, CP!Sign, CP!Platform

-----------------------------------------------------------------------------
(* The subscriptions.                                                      *)

\* KEEP_LAST keeps the newest.
LEMMA LatestFacts ==
  ASSUME NEW S, NEW q \in Seq(S)
  PROVE  /\ Latest(q) \in Seq(S) /\ Len(Latest(q)) <= Depth
         /\ Len(q) <= Depth => Latest(q) = q
         /\ q # <<>> => /\ Latest(q) # <<>>
                        /\ Latest(q)[Len(Latest(q))] = q[Len(q)]
<1>1. Len(q) \in Nat /\ Depth \in Nat /\ Depth > 0
  BY SystemAssumption, LenProperties
<1>2. CASE Len(q) <= Depth
  <2>1. Latest(q) = q
    BY <1>1, <1>2 DEF Latest
  <2>. QED
    BY <1>2, <2>1
<1>3. CASE Len(q) > Depth
  <2>. DEFINE n == Len(q)
              k == n - Depth + 1
              s == SubSeq(q, k, n)
  <2>1. /\ n \in Nat /\ k \in 1..n /\ n \in 1..n /\ n - k + 1 = Depth /\ k + Depth - 1 = n
        /\ Depth \in 1..Depth
    BY <1>1, <1>3
  <2>2. Latest(q) = s
    BY <1>3 DEF Latest
  <2>. HIDE DEF k
  <2>3. /\ s \in Seq(S) /\ Len(s) = IF k <= n THEN n - k + 1 ELSE 0
        /\ \A i \in 1..(n - k + 1) : s[i] = q[k + i - 1]
    BY <2>1, SubSeqProperties
  <2>. HIDE DEF s, n
  <2>4. Len(s) = Depth
    BY <2>1, <2>3
  <2>5. s[Depth] = q[n]
    BY <2>1, <2>3
  <2>6. s # <<>>
    BY <1>1, <2>4, EmptySeq
  <2>. QED
    BY <1>1, <1>3, <2>2, <2>3, <2>4, <2>5, <2>6 DEF n
<1>. QED
  BY <1>1, <1>2, <1>3

LEMMA NothingPublished ==
  ASSUME out' = <<>>, NEW t
  PROVE  PublishedOn(t) = <<>>
<1>1. {i \in DOMAIN out' : out'[i][1] = t} = {}
  OBVIOUS
<1>. QED
  BY <1>1 DEF PublishedOn

LEMMA OnePublished ==
  ASSUME NEW u, NEW m, NEW c, out' = <<<<u, m, c>>>>, NEW t
  PROVE  PublishedOn(t) = IF u = t THEN <<m>> ELSE <<>>
<1>. DEFINE mine == {i \in DOMAIN out' : out'[i][1] = t}
<1>1. DOMAIN out' = {1} /\ out'[1][1] = u /\ out'[1][2] = m
  OBVIOUS
<1>2. mine = IF u = t THEN {1} ELSE {}
  BY <1>1
<1>3. (CHOOSE i \in {1} : TRUE) = 1
  OBVIOUS
<1>4. PublishedOn(t) = IF mine = {} THEN <<>> ELSE <<out'[CHOOSE i \in mine : TRUE][2]>>
  BY DEF PublishedOn
<1>. HIDE DEF mine
<1>5. CASE u = t
  BY <1>1, <1>2, <1>3, <1>4, <1>5
<1>6. CASE u # t
  BY <1>2, <1>4, <1>6
<1>. QED
  BY <1>5, <1>6

LEMMA TwoPublished ==
  ASSUME NEW u, NEW m, NEW c, NEW v, NEW n, NEW d, out' = <<<<u, m, c>>, <<v, n, d>>>>, u # v, NEW t
  PROVE  PublishedOn(t) = IF u = t THEN <<m>> ELSE IF v = t THEN <<n>> ELSE <<>>
<1>. DEFINE mine == {i \in DOMAIN out' : out'[i][1] = t}
<1>1. /\ DOMAIN out' = {1, 2} /\ out'[1][1] = u /\ out'[1][2] = m
      /\ out'[2][1] = v /\ out'[2][2] = n
  OBVIOUS
<1>2. mine = IF u = t THEN {1} ELSE IF v = t THEN {2} ELSE {}
  BY <1>1
<1>3. (CHOOSE i \in {1} : TRUE) = 1 /\ (CHOOSE i \in {2} : TRUE) = 2
  OBVIOUS
<1>4. PublishedOn(t) = IF mine = {} THEN <<>> ELSE <<out'[CHOOSE i \in mine : TRUE][2]>>
  BY DEF PublishedOn
<1>. HIDE DEF mine
<1>5. CASE u = t
  BY <1>1, <1>2, <1>3, <1>4, <1>5
<1>6. CASE u # t /\ v = t
  BY <1>1, <1>2, <1>3, <1>4, <1>6
<1>7. CASE u # t /\ v # t
  BY <1>2, <1>4, <1>7
<1>. QED
  BY <1>5, <1>6, <1>7

-----------------------------------------------------------------------------
(* What a gateway step publishes, and what it does to the relay.           *)

StopCauses == {"stop", "cancel_navigation"}
Keeps == lastOverride' = lastOverride
StaysClosed == ~relay /\ pending = 0 => ~relay' /\ pending' = 0

Silent == out' = <<>> /\ Keeps /\ StaysClosed
Orders ==
  \E u \in {"brake", "emergency_stop", "mode", "lift"} : \E m, c :
    /\ out' = <<<<u, m, c>>>> /\ (u \in Topic => m \in Payload(u)) /\ c \notin StopCauses
    /\ Keeps => StaysClosed
Drives ==
  \E v \in Velocities :
    /\ out' = <<<<"cmd_vel", v, "manual_motion">>, <<"mode", "manual", "manual_motion">>>>
    /\ ~Keeps
Halts ==
  \E c \in StopCauses :
    out' = <<<<"cmd_vel", ZeroVelocity, c>>>> /\ ~Keeps /\ ~relay' /\ pending' = 0
Relays == \E v \in Velocities : out' = <<<<"cmd_vel", v, "nav2">>>> /\ relay /\ Keeps

LEMMA DispatchPublishes ==
  ASSUME NEW id, id # lastOverride, Gateway!Dispatch(id)
  PROVE  Silent \/ Orders \/ Drives \/ Halts
<1>r. /\ Gateway!RequestNavCancel => ~relay' /\ pending' = 0
      /\ Gateway!LeaveNavigation => UNCHANGED <<relay, pending>>
      /\ Gateway!Override(id) => ~Keeps
      /\ Gateway!NoOverride => Keeps
  BY DEF Gateway!RequestNavCancel, Gateway!LeaveNavigation, Gateway!handleVars, Gateway!None,
         Gateway!Override, Gateway!NoOverride, Keeps
<1>p. /\ TRUE \in Payload("brake") /\ TRUE \in Payload("emergency_stop")
      /\ \A m \in Gateway!Mode : m \in Payload("mode")
      /\ {"idle", "navigation"} \subseteq Gateway!Mode /\ "lift" \notin Topic
  BY DEF Payload, Gateway!Mode, Topic
<1>o. ASSUME NEW u \in {"brake", "emergency_stop", "mode", "lift"}, NEW m, NEW c,
             out' = <<<<u, m, c>>>>, u \in Topic => m \in Payload(u), c \notin StopCauses,
             Keeps => StaysClosed
      PROVE  Orders
  BY <1>o DEF Orders
<1>l. UNCHANGED <<relay, pending>> => StaysClosed
  BY DEF StaysClosed
<1>1. CASE \E v \in Velocities : Gateway!ManualMotion(id, v)
  BY <1>1, <1>r DEF Gateway!ManualMotion, Drives
<1>2. CASE Gateway!Stop(id)
  BY <1>2, <1>r DEF Gateway!Stop, Halts, StopCauses
<1>3. CASE Gateway!BrakeCommand(id) \/ Gateway!EmergencyStop(id)
  <2>1. \E u \in {"brake", "emergency_stop"} : out' = <<<<u, TRUE, u>>>> /\ ~Keeps
    BY <1>3, <1>r DEF Gateway!BrakeCommand, Gateway!EmergencyStop
  <2>. QED
    BY <1>o, <1>p, <2>1 DEF StopCauses
<1>4. CASE Gateway!ResetEmergencyStop(id)
  <2>1. out' = <<<<"mode", "idle", "reset_emergency_stop">>>> /\ StaysClosed
    BY <1>4, <1>r, <1>l DEF Gateway!ResetEmergencyStop
  <2>. QED
    BY <1>o, <1>p, <2>1 DEF StopCauses
<1>5. CASE \E m \in Gateway!Mode : Gateway!SetMode(id, m)
  <2>1. PICK m \in Gateway!Mode : Gateway!SetMode(id, m)
    BY <1>5
  <2>2. out' = <<<<"mode", m, "set_mode">>>> /\ (Keeps => StaysClosed)
    BY <2>1, <1>r, <1>l DEF Gateway!SetMode
  <2>. QED
    BY <1>o, <1>p, <2>2 DEF StopCauses
<1>6. CASE \E ready \in BOOLEAN : Gateway!NavigationGoal(id, ready)
  <2>1. CASE out' = <<>> /\ Gateway!LeaveNavigation /\ Gateway!NoOverride
    BY <2>1, <1>r, <1>l DEF Silent
  <2>2. CASE out' = <<<<"mode", "navigation", "navigation_goal">>>> /\ Gateway!Override(id)
    BY <2>2, <1>r, <1>o, <1>p DEF StopCauses
  <2>. QED
    BY <1>6, <2>1, <2>2 DEF Gateway!NavigationGoal
<1>7. CASE Gateway!CancelNavigation(id)
  <2>1. CASE out' = <<>> /\ Gateway!LeaveNavigation /\ Gateway!NoOverride
    BY <2>1, <1>r, <1>l DEF Silent
  <2>2. CASE /\ out' = <<<<"cmd_vel", ZeroVelocity, "cancel_navigation">>>>
             /\ Gateway!RequestNavCancel /\ Gateway!Override(id)
    BY <2>2, <1>r DEF Halts, StopCauses
  <2>. QED
    BY <1>7, <2>1, <2>2 DEF Gateway!CancelNavigation
<1>8. CASE Gateway!Lift(id)
  <2>1. out' = <<<<"lift", id, "lift">>>> /\ StaysClosed
    BY <1>8, <1>r, <1>l DEF Gateway!Lift
  <2>. QED
    BY <1>o, <1>p, <2>1 DEF StopCauses
<1>9. CASE Gateway!Unsupported(id)
  BY <1>9, <1>r, <1>l DEF Gateway!Unsupported, Silent
<1>. QED
  BY <1>1, <1>2, <1>3, <1>4, <1>5, <1>6, <1>7, <1>8, <1>9 DEF Gateway!Dispatch

LEMMA StepPublishes ==
  ASSUME GP!IInv, GatewayStep
  PROVE  Silent \/ Orders \/ Drives \/ Halts \/ Relays
<1>1. ASSUME NEW c \in Clients, Gateway!Accept(NewMessage(c))
      PROVE  Silent \/ Orders \/ Drives \/ Halts
  <2>1. count \in 0..MaxCommands /\ lastOverride <= count
    BY DEF GP!IInv, GP!TypeOK, GP!FutureIsUntouched
  <2>2. count + 1 # lastOverride
    <3>1. lastOverride \in Nat /\ count \in Nat
      BY SystemAssumption DEF GP!IInv, GP!TypeOK, GP!Id, GP!None
    <3>. QED
      BY <2>1, <3>1
  <2>. QED
    BY <1>1, <2>2, DispatchPublishes DEF Gateway!Accept, NewMessage
<1>2. CASE Gateway!Nav2Step
  BY <1>2 DEF Gateway!Nav2Step, Gateway!NavAnswers, Gateway!NavFinishes, Gateway!handleVars,
              Silent, Keeps, StaysClosed
<1>3. ASSUME NEW id \in Gateway!Id, Gateway!OnNavGoalResponse(id)
      PROVE  Silent
  <2>1. out' = <<>> /\ Keeps
    BY <1>3 DEF Gateway!OnNavGoalResponse, Gateway!ResponseSuperseded, Gateway!ResponseRefused,
                Gateway!ResponseAccepted, Gateway!CallbackFrame, Keeps
  <2>2. id # 0
    BY SystemAssumption DEF Gateway!Id
  <2>3. StaysClosed
    <3>1. \/ UNCHANGED <<relay, pending>>
          \/ pending = id
      BY <1>3 DEF Gateway!OnNavGoalResponse, Gateway!ResponseSuperseded, Gateway!ResponseRefused,
                  Gateway!ResponseAccepted, Gateway!handleVars
    <3>. QED
      BY <2>2, <3>1 DEF StaysClosed
  <2>. QED
    BY <2>1, <2>3 DEF Silent
<1>4. ASSUME NEW id \in Gateway!Id, Gateway!OnNavResult(id)
      PROVE  Silent
  BY <1>4 DEF Gateway!OnNavResult, Gateway!ResultIgnored, Gateway!ResultTaken,
              Gateway!CallbackFrame, Gateway!handleVars, Silent, Keeps, StaysClosed
<1>5. ASSUME NEW v \in Velocities, Gateway!OnNavCmdVel(v)
      PROVE  Relays
  BY <1>5 DEF Gateway!OnNavCmdVel, Relays, Keeps
<1>. QED
  BY <1>1, <1>2, <1>3, <1>4, <1>5 DEF GatewayStep, Gateway!Callback

LEMMA PublishedTyped ==
  ASSUME Silent \/ Orders \/ Drives \/ Halts \/ Relays, NEW t \in Topic
  PROVE  PublishedOn(t) \in Seq(Payload(t))
<1>v. \A v \in Velocities : v \in Payload("cmd_vel")
  BY DEF Payload
<1>s. \A m \in Payload(t) : <<m>> \in Seq(Payload(t))
  OBVIOUS
<1>e. <<>> \in Seq(Payload(t))
  OBVIOUS
<1>1. CASE Silent
  BY <1>1, <1>e, NothingPublished DEF Silent
<1>2. CASE Orders
  <2>1. PICK u \in {"brake", "emergency_stop", "mode", "lift"} : \E m, c :
          out' = <<<<u, m, c>>>> /\ (u \in Topic => m \in Payload(u))
    BY <1>2 DEF Orders
  <2>2. PICK m, c : out' = <<<<u, m, c>>>> /\ (u \in Topic => m \in Payload(u))
    BY <2>1
  <2>. QED
    BY <1>e, <1>s, <2>2, OnePublished
<1>3. CASE Drives
  <2>1. PICK v \in Velocities :
          out' = <<<<"cmd_vel", v, "manual_motion">>, <<"mode", "manual", "manual_motion">>>>
    BY <1>3 DEF Drives
  <2>2. PublishedOn(t) = IF "cmd_vel" = t THEN <<v>> ELSE IF "mode" = t THEN <<"manual">> ELSE <<>>
    BY <2>1, TwoPublished
  <2>3. "manual" \in Payload("mode")
    BY DEF Payload, Gateway!Mode
  <2>. QED
    BY <1>e, <1>s, <1>v, <2>2, <2>3
<1>4. CASE Halts \/ Relays
  <2>1. PICK v \in Velocities : \E c : out' = <<<<"cmd_vel", v, c>>>>
    BY <1>4, SystemAssumption DEF Halts, Relays
  <2>2. PICK c : out' = <<<<"cmd_vel", v, c>>>>
    BY <2>1
  <2>3. PublishedOn(t) = IF "cmd_vel" = t THEN <<v>> ELSE <<>>
    BY <2>2, OnePublished
  <2>. QED
    BY <1>e, <1>s, <1>v, <2>3
<1>. QED
  BY <1>1, <1>2, <1>3, <1>4

LEMMA DeliverFacts ==
  ASSUME TopicsTyped, NEW t \in Topic, Deliver(t)
  PROVE  /\ topic[t] \in Seq(Payload(t)) /\ topic[t] # <<>>
         /\ Head(topic[t]) = topic[t][1] /\ Head(topic[t]) \in Payload(t)
         /\ DOMAIN topic' = Topic
         /\ topic'[t] = Tail(topic[t]) /\ topic'[t] \in Seq(Payload(t))
         /\ Len(topic[t]) \in Nat /\ Len(topic[t]) > 0
         /\ Len(topic'[t]) = Len(topic[t]) - 1
         /\ \A i \in 1..Len(topic'[t]) : topic'[t][i] = topic[t][i + 1]
         /\ \A u \in Topic : u # t => topic'[u] = topic[u]
<1>1. topic[t] \in Seq(Payload(t)) /\ topic[t] # <<>> /\ DOMAIN topic = Topic
  BY DEF TopicsTyped, Deliver
<1>2. topic' = [topic EXCEPT ![t] = Tail(topic[t])]
  BY DEF Deliver
<1>3. /\ DOMAIN topic' = Topic /\ topic'[t] = Tail(topic[t])
      /\ \A u \in Topic : u # t => topic'[u] = topic[u]
  BY <1>1, <1>2
<1>4. /\ Head(topic[t]) = topic[t][1] /\ Head(topic[t]) \in Payload(t)
      /\ Tail(topic[t]) \in Seq(Payload(t))
      /\ Len(topic[t]) \in Nat /\ Len(topic[t]) > 0
      /\ Len(Tail(topic[t])) = Len(topic[t]) - 1
      /\ \A i \in 1..Len(Tail(topic[t])) : Tail(topic[t])[i] = topic[t][i + 1]
  BY <1>1, HeadTailProperties, LenProperties, EmptySeq
<1>. QED
  BY <1>1, <1>3, <1>4

LEMMA TopicsStep ==
  ASSUME GP!IInv, TopicsTyped, Next \/ UNCHANGED vars
  PROVE  TopicsTyped'
<1>1. CASE GatewayStep
  <2>1. topic' = [t \in Topic |-> Latest(topic[t] \o PublishedOn(t))]
    BY <1>1 DEF GatewayStep, Publish
  <2>2. ASSUME NEW t \in Topic
        PROVE  topic'[t] \in Seq(Payload(t)) /\ Len(topic'[t]) <= Depth
    <3>1. topic[t] \in Seq(Payload(t)) /\ PublishedOn(t) \in Seq(Payload(t))
      BY <1>1, StepPublishes, PublishedTyped DEF TopicsTyped
    <3>. DEFINE q == topic[t] \o PublishedOn(t)
                S == Payload(t)
    <3>2. q \in Seq(S)
      BY <3>1, ConcatProperties
    <3>3. topic'[t] = Latest(q)
      BY <2>1
    <3>. HIDE DEF q
    <3>4. Latest(q) \in Seq(S) /\ Len(Latest(q)) <= Depth
      <4>. HIDE DEF S
      <4>. QED
        BY <3>2, LatestFacts
    <3>. QED
      BY <3>3, <3>4
  <2>. QED
    BY <2>1, <2>2 DEF TopicsTyped, Payload
<1>2. CASE Listen
  <2>1. PICK t \in Topic : Deliver(t)
    BY <1>2 DEF Listen
  <2>2. ASSUME NEW u \in Topic
        PROVE  topic'[u] \in Seq(Payload(u)) /\ Len(topic'[u]) <= Depth
    <3>1. topic[u] \in Seq(Payload(u)) /\ Len(topic[u]) <= Depth
      BY DEF TopicsTyped
    <3>2. CASE u # t
      BY <2>1, <3>1, <3>2, DeliverFacts
    <3>3. CASE u = t
      <4>1. /\ topic'[t] \in Seq(Payload(t)) /\ Len(topic[t]) \in Nat
            /\ Len(topic'[t]) = Len(topic[t]) - 1
        BY <2>1, DeliverFacts
      <4>. QED
        BY <3>1, <3>3, <4>1, SystemAssumption
    <3>. QED
      BY <3>2, <3>3
  <2>3. DOMAIN topic' = Topic
    BY <2>1, DeliverFacts
  <2>. QED
    BY <2>2, <2>3 DEF TopicsTyped, Payload
<1>3. CASE BridgeStep \/ UNCHANGED vars
  BY <1>3 DEF BridgeStep, vars, TopicsTyped, Payload
<1>. QED
  BY <1>1, <1>2, <1>3 DEF Next

LEMMA HistoryStep ==
  ASSUME HistoryTyped, Next \/ UNCHANGED vars
  PROVE  HistoryTyped'
<1>1. CASE GatewayStep
  <2>1. asked'.moves \in BOOLEAN
    <3>1. asked' = IF lastOverride' = lastOverride THEN asked
                   ELSE [kind |-> Cause, moves |-> /\ Cause = "manual_motion"
                                                   /\ out'[1][2] # ZeroVelocity]
      BY <1>1 DEF GatewayStep, Remember
    <3>2. CASE lastOverride' = lastOverride
      BY <3>1, <3>2 DEF HistoryTyped
    <3>3. CASE lastOverride' # lastOverride
      BY <3>1, <3>3
    <3>. QED
      BY <3>2, <3>3
  <2>2. hold' \in BOOLEAN
    BY <1>1 DEF GatewayStep, Remember, HistoryTyped
  <2>3. unsafe' \in BOOLEAN
    <3>. DEFINE waits == \E i \in DOMAIN topic'["mode"] : topic'["mode"][i] = "idle"
    <3>1. unsafe' = IF Cause = "emergency_stop" THEN waits ELSE unsafe \/ waits
      BY <1>1 DEF GatewayStep, Remember
    <3>2. waits \in BOOLEAN /\ (unsafe \/ waits) \in BOOLEAN
      OBVIOUS
    <3>. HIDE DEF waits
    <3>. QED
      BY <3>1, <3>2
  <2>. QED
    BY <2>1, <2>2, <2>3 DEF HistoryTyped
<1>2. CASE Listen \/ BridgeStep \/ UNCHANGED vars
  <2>1. UNCHANGED historyVars
    BY <1>2 DEF Listen, Deliver, BridgeStep, vars
  <2>. QED
    BY <2>1 DEF historyVars, HistoryTyped
<1>. QED
  BY <1>1, <1>2 DEF Next

-----------------------------------------------------------------------------
(* A stop has the last word.                                               *)

StopInv == StopClosesRelay /\ ZeroIsLast /\ EmptyDisables

\* While a stop is the last word the gateway publishes no velocity but its own.
LEMMA GatewayStopStep ==
  ASSUME GP!IInv, TopicsTyped, StopInv, GatewayStep
  PROVE  StopInv'
<1>. SUFFICES ASSUME Stopped'
              PROVE  /\ phase' = "running" /\ ~relay' /\ pending' = 0
                     /\ ZeroIsLast' /\ EmptyDisables'
  BY DEF StopInv, StopClosesRelay, ZeroIsLast, EmptyDisables
<1>1. /\ phase' = "running" /\ UNCHANGED <<todo, drive, faults>>
      /\ topic' = [t \in Topic |-> Latest(topic[t] \o PublishedOn(t))]
      /\ asked' = IF lastOverride' = lastOverride THEN asked
                  ELSE [kind |-> Cause, moves |-> /\ Cause = "manual_motion"
                                                  /\ out'[1][2] # ZeroVelocity]
  BY DEF GatewayStep, chassisVars, Publish, Remember
<1>2. topic["cmd_vel"] \in Seq(Velocities) /\ Len(topic["cmd_vel"]) <= Depth
  BY DEF TopicsTyped, Topic, Payload
<1>3. topic'["cmd_vel"] = Latest(topic["cmd_vel"] \o PublishedOn("cmd_vel"))
  BY <1>1 DEF Topic
<1>4. ~Keeps => Cause \in StopCauses
  BY <1>1 DEF Keeps, Stopped, StopCauses
<1>5. Keeps => Stopped
  BY <1>1 DEF Keeps, Stopped
<1>6. CASE Halts
  <2>1. PICK c \in StopCauses : out' = <<<<"cmd_vel", ZeroVelocity, c>>>>
    BY <1>6 DEF Halts
  <2>2. PublishedOn("cmd_vel") = <<ZeroVelocity>>
    BY <2>1, OnePublished
  <2>3. ZeroVelocity \in Velocities
    BY SystemAssumption
  <2>4. Append(topic["cmd_vel"], ZeroVelocity) = topic["cmd_vel"] \o PublishedOn("cmd_vel")
    BY <1>2, <2>2, <2>3, AppendIsConcat
  <2>. DEFINE a == Append(topic["cmd_vel"], ZeroVelocity)
  <2>5. /\ a \in Seq(Velocities) /\ a # <<>>
        /\ a[Len(a)] = ZeroVelocity
    BY <1>2, <2>3, AppendProperties
  <2>6. topic'["cmd_vel"] = Latest(a)
    BY <1>3, <2>4
  <2>. HIDE DEF a
  <2>7. /\ topic'["cmd_vel"] # <<>>
        /\ topic'["cmd_vel"][Len(topic'["cmd_vel"])] = ZeroVelocity
    BY <2>5, <2>6, LatestFacts
  <2>. QED
    BY <1>1, <1>6, <2>7 DEF Halts, ZeroIsLast, EmptyDisables
<1>7. ASSUME Keeps, StaysClosed, PublishedOn("cmd_vel") = <<>>
      PROVE  /\ phase' = "running" /\ ~relay' /\ pending' = 0
             /\ ZeroIsLast' /\ EmptyDisables'
  <2>1. topic["cmd_vel"] \o PublishedOn("cmd_vel") = topic["cmd_vel"]
    BY <1>2, <1>7, ConcatEmptySeq
  <2>2. topic'["cmd_vel"] = topic["cmd_vel"]
    BY <1>2, <1>3, <2>1, LatestFacts
  <2>3. Stopped
    BY <1>5, <1>7
  <2>4. ~relay' /\ pending' = 0
    BY <1>7, <2>3 DEF StopInv, StopClosesRelay, StaysClosed
  <2>. QED
    BY <1>1, <2>2, <2>3, <2>4 DEF StopInv, ZeroIsLast, EmptyDisables, Disabling
<1>8. CASE Silent
  BY <1>7, <1>8, NothingPublished DEF Silent
<1>9. CASE Orders
  <2>1. PICK u \in {"brake", "emergency_stop", "mode", "lift"} : \E m, c :
          out' = <<<<u, m, c>>>> /\ c \notin StopCauses /\ (Keeps => StaysClosed)
    BY <1>9 DEF Orders
  <2>2. PICK m, c : out' = <<<<u, m, c>>>> /\ c \notin StopCauses /\ (Keeps => StaysClosed)
    BY <2>1
  <2>3. Cause = c
    BY <2>2 DEF Cause
  <2>4. PublishedOn("cmd_vel") = <<>>
    BY <2>2, OnePublished
  <2>. QED
    BY <1>4, <1>7, <2>2, <2>3, <2>4
<1>10. ~Drives
  <2>1. SUFFICES ASSUME Drives PROVE FALSE
    OBVIOUS
  <2>2. Cause = "manual_motion" /\ ~Keeps
    BY <2>1 DEF Drives, Cause
  <2>. QED
    BY <1>4, <2>2 DEF StopCauses
<1>11. ~Relays
  BY <1>5 DEF Relays, StopInv, StopClosesRelay
<1>. QED
  BY <1>6, <1>8, <1>9, <1>10, <1>11, StepPublishes

\* A callback that is not asked to move sends the disabling frame.
LEMMA StandingDisables ==
  ASSUME NEW c \in CP!ChassisCommand, c.speed = 0, Chassis!Apply(c)
  PROVE  Disabling' /\ UNCHANGED phase
<1>. DEFINE g == CP!Gated(c)
<1>1. CP!Apply(c)
  BY ApplyIsBridges
<1>2. todo' = CP!FramesFor(g) /\ UNCHANGED phase
  BY <1>1 DEF CP!Apply
<1>3. g.speed = 0
  BY DEF CP!Gated, CP!ChassisCommand
<1>4. todo' = CP!StopFrames \/ todo' = CP!HoldFrames(g)
  BY <1>2, <1>3 DEF CP!FramesFor
<1>. HIDE DEF g
<1>5. CASE todo' = CP!StopFrames
  <2>1. Len(todo') = 2 /\ todo'[1].op = "disable" /\ todo'[2].op = "brake"
    BY <1>5 DEF CP!StopFrames, CP!Disable, CP!Brake
  <2>. QED
    BY <1>2, <2>1 DEF Disabling
<1>6. CASE todo' = CP!HoldFrames(g)
  <2>1. /\ Len(todo') = 3 /\ todo'[1].op = "release" /\ todo'[2].op = "steer"
        /\ todo'[3].op = "disable"
    BY <1>6 DEF CP!HoldFrames, CP!Release, CP!SetSteer, CP!Disable
  <2>. QED
    BY <1>2, <2>1 DEF Disabling
<1>. QED
  BY <1>4, <1>5, <1>6

LEMMA DeliverStopStep ==
  ASSUME TopicsTyped, StopInv, NEW t \in Topic, Deliver(t)
  PROVE  StopInv'
<1>. SUFFICES ASSUME Stopped PROVE StopInv'
  BY DEF Deliver, historyVars, Stopped, StopInv, StopClosesRelay, ZeroIsLast, EmptyDisables
<1>1. UNCHANGED <<relay, pending, asked>>
  BY DEF Deliver, gatewayVars, historyVars
<1>2. phase' = phase
  BY DEF Deliver, Topic, Chassis!OnCmdVel, Chassis!OnBrake, Chassis!OnEmergencyStop,
         Chassis!OnMode, Chassis!Apply
<1>3. StopClosesRelay'
  BY <1>1, <1>2 DEF StopInv, StopClosesRelay, Stopped
<1>. DEFINE q == topic["cmd_vel"]
<1>4. CASE t # "cmd_vel"
  <2>1. topic'["cmd_vel"] = q
    BY <1>4, DeliverFacts DEF Topic
  <2>2. Head(topic[t]) \in Payload(t)
    BY DeliverFacts
  <2>3. \E c \in CP!ChassisCommand : c.speed = 0 /\ Chassis!Apply(c)
    <3>. DEFINE m == Head(topic[t])
                w == Chassis!Twist(0, 0)
    <3>1. \/ m \in BOOLEAN /\ Chassis!OnBrake(m)
          \/ m \in BOOLEAN /\ Chassis!OnEmergencyStop(m)
          \/ m \in CP!Mode /\ Chassis!OnMode(m)
      BY <1>4, <2>2 DEF Deliver, Topic, Payload, Gateway!Mode, CP!Mode
    <3>. HIDE DEF m
    <3>2. /\ m \in BOOLEAN => [w EXCEPT !.brake = m] \in CP!ChassisCommand
          /\ m \in BOOLEAN => [w EXCEPT !.emergency_stop = m] \in CP!ChassisCommand
          /\ m \in CP!Mode => [w EXCEPT !.mode = m] \in CP!ChassisCommand
          /\ [w EXCEPT !.brake = m].speed = 0
          /\ [w EXCEPT !.emergency_stop = m].speed = 0
          /\ [w EXCEPT !.mode = m].speed = 0
      BY DEF Chassis!Twist, CP!ChassisCommand, CP!Sign, CP!Mode
    <3>. HIDE DEF w
    <3>. QED
      BY <3>1, <3>2 DEF Chassis!OnBrake, Chassis!OnEmergencyStop, Chassis!OnMode, w
  <2>4. Disabling'
    BY <2>3, StandingDisables
  <2>5. ZeroIsLast'
    BY <2>1 DEF StopInv, ZeroIsLast
  <2>. QED
    BY <1>3, <2>4, <2>5 DEF StopInv, EmptyDisables
<1>5. CASE t = "cmd_vel"
  <2>. DEFINE r == topic'["cmd_vel"]
  <2>1. /\ q # <<>> /\ Len(q) \in Nat /\ Len(q) > 0 /\ r \in Seq(Payload("cmd_vel"))
        /\ Len(r) = Len(q) - 1 /\ Head(q) = q[1]
        /\ \A i \in 1..Len(r) : r[i] = q[i + 1]
    BY <1>5, DeliverFacts
  <2>2. q[Len(q)] = ZeroVelocity
    BY <2>1 DEF StopInv, ZeroIsLast
  <2>3. Chassis!OnCmdVel(Head(q), 0)
    BY <1>5 DEF Deliver
  <2>. HIDE DEF q, r
  <2>4. CASE r = <<>>
    <3>1. Len(r) = 0
      BY <2>4
    <3>2. Len(q) = 1
      BY <2>1, <3>1
    <3>3. Head(q) = 0
      BY <2>1, <2>2, <3>2, SystemAssumption
    <3>4. Chassis!Apply(Chassis!Twist(0, 0))
      BY <2>3, <3>3 DEF Chassis!OnCmdVel
    <3>5. Chassis!Twist(0, 0) \in CP!ChassisCommand /\ Chassis!Twist(0, 0).speed = 0
      BY DEF Chassis!Twist, CP!ChassisCommand, CP!Sign, CP!Mode
    <3>6. Disabling'
      BY <3>4, <3>5, StandingDisables
    <3>. QED
      BY <1>3, <2>4, <3>6 DEF StopInv, ZeroIsLast, EmptyDisables, r
  <2>5. CASE r # <<>>
    <3>1. Len(r) \in Nat /\ Len(r) # 0
      BY <2>1, <2>5, EmptySeq, LenProperties
    <3>2. Len(r) \in 1..Len(r) /\ Len(r) + 1 = Len(q)
      BY <2>1, <3>1
    <3>3. r[Len(r)] = q[Len(q)]
      BY <2>1, <3>2
    <3>. QED
      BY <1>3, <2>2, <2>5, <3>3 DEF StopInv, ZeroIsLast, EmptyDisables, r
  <2>. QED
    BY <2>4, <2>5
<1>. QED
  BY <1>4, <1>5

LEMMA BridgeStopStep ==
  ASSUME CP!IInv, StopInv, BridgeStep
  PROVE  StopInv'
<1>. SUFFICES ASSUME Stopped PROVE StopInv'
  BY DEF BridgeStep, historyVars, Stopped, StopInv, StopClosesRelay, ZeroIsLast, EmptyDisables
<1>1. UNCHANGED <<relay, pending, asked, topic>> /\ phase = "running"
  BY DEF BridgeStep, gatewayVars, historyVars, StopInv, StopClosesRelay
<1>2. phase' = phase
  BY <1>1 DEF BridgeStep, Chassis!Start, Chassis!Expire, Chassis!OnTimer, Chassis!SendFrame
<1>3. StopClosesRelay' /\ ZeroIsLast'
  BY <1>1, <1>2 DEF StopInv, StopClosesRelay, ZeroIsLast, Stopped
<1>4. ASSUME Disabling => Disabling'
      PROVE  StopInv'
  BY <1>1, <1>3, <1>4 DEF StopInv, EmptyDisables, Stopped
<1>5. CASE Chassis!Expire
  BY <1>4, <1>5 DEF Chassis!Expire, Disabling
<1>6. CASE Chassis!OnTimer
  <2>1. Len(todo') = 1 /\ todo'[1].op = "disable"
    BY <1>6 DEF Chassis!OnTimer, Chassis!Disable
  <2>. QED
    BY <1>4, <2>1 DEF Disabling
<1>7. CASE Chassis!SendFrame
  <2>. SUFFICES ASSUME Disabling PROVE Disabling'
    BY <1>4
  <2>. DEFINE f == Head(todo)
              n == Len(todo)
  <2>1. todo \in Seq(CP!Frame) /\ todo # <<>> /\ todo' = Tail(todo) /\ drive \in CP!Platform
        /\ faults \in Nat
    BY <1>7, SystemAssumption DEF CP!IInv, CP!TypeOK, Chassis!SendFrame
  <2>2. /\ f = todo[1] /\ f \in CP!Frame /\ n \in Nat /\ n > 0
        /\ Len(todo') = n - 1
        /\ \A i \in 1..Len(todo') : todo'[i] = todo[i + 1]
    BY <2>1, HeadTailProperties, LenProperties, EmptySeq
  <2>3. \/ drive' = Chassis!Effect(drive, f) /\ faults' = faults
        \/ faults' = faults + 1
    BY <1>7 DEF Chassis!SendFrame
  <2>4. faults' = 0 => faults = 0 /\ drive' = Chassis!Effect(drive, f)
    BY <2>1, <2>3
  <2>. HIDE DEF f, n
  <2>5. 1 \in 1..n /\ \A i \in 1..Len(todo') : i + 1 \in 1..n
    BY <2>2
  <2>6. \A i \in 1..n : todo[i].op # "enable"
    BY DEF Disabling, n
  <2>7. \A i \in 1..Len(todo') : todo'[i].op # "enable"
    BY <2>2, <2>5, <2>6
  <2>8. ASSUME faults' = 0
        PROVE  ~drive'.enabled \/ \E i \in 1..Len(todo') : todo'[i].op = "disable"
    <3>0. drive' = Chassis!Effect(drive, f)
      BY <2>4, <2>8
    <3>2. f.op # "enable"
      BY <2>2, <2>5, <2>6
    <3>1. /\ f.op = "disable" => drive'.enabled = FALSE
          /\ f.op # "disable" => drive'.enabled = drive.enabled
      BY <3>0, <3>2 DEF Chassis!Effect
    <3>3. CASE ~drive.enabled \/ f.op = "disable"
      BY <3>1, <3>2, <3>3
    <3>4. CASE f.op # "disable" /\ \E i \in 1..n : todo[i].op = "disable"
      <4>1. PICK i \in 1..n : todo[i].op = "disable"
        BY <3>4
      <4>2. i # 1
        BY <2>2, <3>4, <4>1
      <4>3. i - 1 \in 1..Len(todo') /\ (i - 1) + 1 = i
        BY <2>2, <4>2
      <4>4. todo'[i - 1] = todo[i]
        BY <2>2, <4>3
      <4>. QED
        BY <4>1, <4>3, <4>4
    <3>. QED
      BY <2>4, <2>8, <3>3, <3>4 DEF Disabling, n
  <2>. QED
    BY <2>7, <2>8 DEF Disabling
<1>8. ~Chassis!Start
  BY <1>1 DEF Chassis!Start
<1>. QED
  BY <1>5, <1>6, <1>7, <1>8 DEF BridgeStep

-----------------------------------------------------------------------------
(* Together.                                                               *)

LEMMA InitIInv == Init => IInv
<1>. SUFFICES ASSUME Init PROVE IInv
  OBVIOUS
<1>1. GP!IInv
  <2>1. GP!Init
    BY Zenon DEF Init, Gateway!Init, Gateway!Id, Gateway!None, Gateway!At,
                 GP!Init, GP!Id, GP!None, GP!At
  <2>. QED
    BY <2>1, GP!InitIInv, Parameters
<1>2. CP!IInv
  <2>1. CP!Init
    BY Zenon DEF Init, Chassis!Init, Chassis!InitPlatform, CP!Init, CP!InitPlatform
  <2>. QED
    BY <2>1, CP!InitIInv, Parameters
<1>3. TopicsTyped
  <2>1. DOMAIN topic = Topic /\ \A t \in Topic : topic[t] = <<>>
    BY DEF Init, NoMessages
  <2>2. ASSUME NEW t \in Topic
        PROVE  topic[t] \in Seq(Payload(t)) /\ Len(topic[t]) <= Depth
    <3>1. topic[t] = <<>> /\ Len(topic[t]) = 0
      BY <2>1
    <3>2. <<>> \in Seq(Payload(t))
      OBVIOUS
    <3>. QED
      BY <3>1, <3>2, SystemAssumption
  <2>. QED
    BY <2>1, <2>2 DEF TopicsTyped
<1>4. HistoryTyped /\ ~Stopped
  BY DEF Init, NoMotion, HistoryTyped, Stopped
<1>. QED
  BY <1>1, <1>2, <1>3, <1>4 DEF IInv, StopClosesRelay, ZeroIsLast, EmptyDisables

LEMMA NextIInv == IInv /\ [Next]_vars => IInv'
<1>. SUFFICES ASSUME IInv, Next \/ UNCHANGED vars PROVE IInv'
  OBVIOUS
<1>1. GP!IInv' /\ CP!IInv'
  BY GatewayKeeps, ChassisKeeps DEF IInv
<1>2. TopicsTyped' /\ HistoryTyped'
  BY TopicsStep, HistoryStep DEF IInv
<1>3. StopInv'
  <2>1. StopInv
    BY DEF IInv, StopInv
  <2>2. CASE Listen
    BY <2>1, <2>2, DeliverStopStep DEF IInv, Listen
  <2>3. CASE UNCHANGED vars
    BY <2>1, <2>3 DEF vars, gatewayVars, chassisVars, historyVars, StopInv, StopClosesRelay,
                      ZeroIsLast, EmptyDisables, Disabling, Stopped
  <2>. QED
    BY <2>1, <2>2, <2>3, GatewayStopStep, BridgeStopStep DEF IInv, Next
<1>. QED
  BY <1>1, <1>2, <1>3 DEF IInv, StopInv

LEMMA Invariance == Spec => []IInv
BY InitIInv, NextIInv, PTL DEF Spec

\* A stop, or the cancelling of a navigation, has the last word whatever either
\* node does next: handle_command has shut the relay of _on_nav_cmd_vel before
\* it publishes the zero velocity, no later callback of Nav2 opens it again,
\* and the bridge, which reads /robot320/cmd_vel in order, has disabled the
\* motor once nothing waits there.  For subscriptions of any depth, also when
\* KEEP_LAST drops messages.
THEOREM RobotSystemInvariant == Spec => []SystemInvariant
<1>1. IInv => TypeOK
  BY GatewayTyped, ChassisTyped DEF IInv, TypeOK, TopicsTyped, HistoryTyped
<1>2. IInv => StopStops
  <2>. SUFFICES ASSUME IInv, faults = 0, todo = <<>>, topic["cmd_vel"] = <<>>, Stopped
                PROVE  ~drive.enabled
    BY DEF StopStops, Stopped
  <2>1. Disabling
    BY DEF IInv, EmptyDisables
  <2>2. Len(todo) = 0
    OBVIOUS
  <2>3. ~\E i \in 1..Len(todo) : todo[i].op = "disable"
    BY <2>2
  <2>. QED
    BY <2>1, <2>3 DEF Disabling
<1>. QED
  BY <1>1, <1>2, Invariance, PTL DEF SystemInvariant

\* What the composition shows of the gateway is what the gateway does: joined to
\* the bridge by the topics, it takes no step it would not take alone, so every
\* theorem of GatewayProofs holds of it here.
THEOREM RobotSystemImplementsGateway == Spec => Gateway!Spec
<1>1. Init => Gateway!Init
  BY DEF Init
<1>2. [Next]_vars => [Gateway!Next]_Gateway!vars
  <2>1. CASE GatewayStep
    <3>1. ASSUME NEW m \in Gateway!Message, Gateway!Accept(m)
          PROVE  Gateway!Receive
      BY <3>1 DEF Gateway!Receive
    <3>. QED
      BY <2>1, <3>1 DEF GatewayStep, Gateway!Next
  <2>2. CASE Listen \/ BridgeStep \/ UNCHANGED vars
    BY <2>2 DEF Listen, Deliver, BridgeStep, vars, gatewayVars, Gateway!vars
  <2>. QED
    BY <2>1, <2>2 DEF Next
<1>. QED
  BY <1>1, <1>2, PTL DEF Spec, Gateway!Spec

\* And the bridge driven by the gateway's topics is the bridge: what it finds in
\* a subscription is a message its callback takes alone, so its latch, its
\* watchdog and its telemetry keep here what ChassisProofs shows of them.
THEOREM RobotSystemImplementsBridge == Spec => Chassis!Spec
<1>1. Init => Chassis!Init
  BY DEF Init
<1>2. IInv /\ [Next]_vars => [Chassis!Next]_Chassis!vars
  <2>. SUFFICES ASSUME IInv, Next \/ UNCHANGED vars
                PROVE  Chassis!Next \/ UNCHANGED Chassis!vars
    OBVIOUS
  <2>1. ASSUME NEW t \in Topic, Deliver(t)
        PROVE  Chassis!Command
    <3>. DEFINE m == Head(topic[t])
    <3>1. m \in Payload(t)
      BY <2>1, DeliverFacts DEF IInv
    <3>2. \/ m \in Chassis!Sign /\ Chassis!OnCmdVel(m, 0)
          \/ m \in BOOLEAN /\ Chassis!OnBrake(m)
          \/ m \in BOOLEAN /\ Chassis!OnEmergencyStop(m)
          \/ m \in Chassis!Mode /\ Chassis!OnMode(m)
      BY <2>1, <3>1, SystemAssumption
      DEF Topic, Payload, Deliver, Gateway!Mode, Chassis!Mode, Chassis!Sign
    <3>. HIDE DEF m
    <3>3. 0 \in Chassis!Sign
      BY DEF Chassis!Sign
    <3>. QED
      BY <3>2, <3>3, Zenon DEF Chassis!Command
  <2>2. CASE Listen
    BY <2>1, <2>2 DEF Listen, Chassis!Next
  <2>3. CASE BridgeStep
    BY <2>3 DEF BridgeStep, Chassis!Next, Chassis!Life
  <2>4. CASE GatewayStep \/ UNCHANGED vars
    BY <2>4 DEF GatewayStep, vars, chassisVars, Chassis!vars
  <2>. QED
    BY <2>2, <2>3, <2>4 DEF Next
<1>. QED
  BY <1>1, <1>2, Invariance, PTL DEF Spec, Chassis!Spec

\* The promises of the two nodes hold of the robot as a whole: only the goal on
\* display drives, never one that was overridden; a latched stop holds, the
\* motor is not driven against the brake, and the watchdog has the last word,
\* whatever the gateway publishes and whatever is lost on the way.
THEOREM RobotSystemKeepsParts ==
  Spec => [](/\ Gateway!RelayServesCurrentGoal
             /\ Gateway!OverriddenGoalNeverDrives
             /\ Chassis!EStopHolds
             /\ Chassis!NoDriveAgainstBrake
             /\ Chassis!WatchdogHasLastWord)
<1>1. GP!IInv => Gateway!RelayServesCurrentGoal
  BY DEF GP!IInv, GP!ActiveIsCurrent, GP!RelayIsLatest, GP!PendingIsLatest, GP!None,
         Gateway!RelayServesCurrentGoal, Gateway!None
<1>2. GP!IInv => Gateway!OverriddenGoalNeverDrives
  BY DEF GP!IInv, GP!RelayIsLatest, GP!TypeOK, GP!Id, GP!None, Gateway!OverriddenGoalNeverDrives
<1>3. CP!IInv => Chassis!EStopHolds
  BY DEF CP!IInv, CP!StopUnderWay, Chassis!EStopHolds
<1>4. CP!IInv => Chassis!NoDriveAgainstBrake
  BY DEF CP!IInv, CP!NoDriveAgainstBrake, CP!Moving, Chassis!NoDriveAgainstBrake,
         Chassis!Moving
<1>5. CP!IInv => Chassis!WatchdogHasLastWord
  BY DEF CP!IInv, CP!LastWordUnderWay, Chassis!WatchdogHasLastWord
<1>6. IInv => GP!IInv /\ CP!IInv
  BY DEF IInv
<1>. QED
  BY <1>1, <1>2, <1>3, <1>4, <1>5, <1>6, Invariance, PTL
=============================================================================
