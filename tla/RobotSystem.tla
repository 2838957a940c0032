----------------------------- MODULE RobotSystem -----------------------------
(***************************************************************************)
(* The two ROS nodes of the robot together: the gateway publishes on the   *)
(* chassis topics /robot320/cmd_vel, brake, emergency_stop and mode, and   *)
(* the CAN bridge has one subscription on each.                            *)
(*                                                                         *)
(* A topic keeps the order of its own messages.  Between topics there is   *)
(* none: the bridge's executor takes whichever subscription it finds ready *)
(* when the callback that is sending frames (and sleeping between them)    *)
(* has returned.  A subscription keeps the last Depth messages (QoS 10).   *)
(*                                                                         *)
(* Commands the gateway rejects publish nothing and are left out here, and *)
(* with them the repeated ones: to the bridge a command that runs when it  *)
(* is repeated is like any other.  Left out too are the ends of the bridge *)
(* process, which Chassis has: a gateway without a bridge publishes to     *)
(* nobody.                                                                 *)
(***************************************************************************)
EXTENDS Integers, Sequences

CONSTANTS Clients, MaxCommands, MaxRepeats, MaxSequence, Outcomes, Velocities,
          ZeroVelocity, MaxFaults, MaxStarts,
          Depth   \* history depth of a chassis subscription

ASSUME SystemAssumption ==
  /\ Depth \in Nat \ {0}
  /\ {MaxCommands, MaxRepeats, MaxSequence, MaxFaults, MaxStarts}
       \subseteq Nat
  /\ Outcomes \subseteq {"accepted", "refused", "failed"}
  /\ ZeroVelocity = 0 /\ ZeroVelocity \in Velocities
  /\ Velocities \subseteq {-1, 0, 1}

VARIABLES lastSeq, count, copies, repeats, repeated, nav, active, activeCmd,
          pending, relay, request, cancelAsked, replies, out, lastOverride
VARIABLES phase, estop, age, timeoutStopSent, todo, shadow, drive, faults,
          starts
VARIABLES
  topic,   \* what waits in each chassis subscription of the bridge
  asked,   \* history: the last command that says who moves the robot, and how
  hold,    \* history: an emergency stop came after the last reset
  unsafe   \* history: an idle mode may be handled after that stop

gatewayVars == <<lastSeq, count, copies, repeats, repeated, nav, active,
                 activeCmd, pending, relay, request, cancelAsked, replies,
                 out, lastOverride>>
chassisVars == <<phase, estop, age, timeoutStopSent, todo, shadow, drive,
                 faults, starts>>
historyVars == <<asked, hold, unsafe>>
vars == <<gatewayVars, chassisVars, topic, historyVars>>

Gateway == INSTANCE Gateway
Chassis == INSTANCE Chassis

Topic == {"cmd_vel", "brake", "emergency_stop", "mode"}
NoMessages == [t \in Topic |-> <<>>]
Payload(t) == CASE t = "cmd_vel" -> Velocities
                [] t = "mode" -> Gateway!Mode
                [] OTHER -> BOOLEAN
NoMotion == [kind |-> "none", moves |-> FALSE]

TypeOK ==
  /\ Gateway!TypeOK
  /\ Chassis!TypeOK
  /\ DOMAIN topic = Topic
  /\ \A t \in Topic : topic[t] \in Seq(Payload(t)) /\ Len(topic[t]) <= Depth
  /\ asked.moves \in BOOLEAN
  /\ hold \in BOOLEAN
  /\ unsafe \in BOOLEAN

-----------------------------------------------------------------------------
Init ==
  /\ Gateway!Init
  /\ Chassis!Init
  /\ topic = NoMessages
  /\ asked = NoMotion
  /\ hold = FALSE
  /\ unsafe = FALSE

\* Mutants: an unbounded queue, and KEEP_FIRST.
LatestUnbounded(q) == q
LatestDropsNewest(q) == IF Len(q) > Depth THEN SubSeq(q, 1, Depth) ELSE q

\* KEEP_LAST: the oldest messages make room for the newest.
Latest(q) == IF Len(q) > Depth THEN SubSeq(q, Len(q) - Depth + 1, Len(q)) ELSE q

\* Mutant: the two nodes disagree on the name of the emergency stop topic.
PublishedOnMisnamed(t) ==
  LET mine == {i \in DOMAIN out' : out'[i][1] = t /\ t # "emergency_stop"}
  IN  IF mine = {} THEN <<>> ELSE <<out'[CHOOSE i \in mine : TRUE][2]>>

\* What a gateway step publishes, <<topic, message, cause>> each, on one topic:
\* no step has two messages for the same one.
PublishedOn(t) ==
  LET mine == {i \in DOMAIN out' : out'[i][1] = t}
  IN  IF mine = {} THEN <<>> ELSE <<out'[CHOOSE i \in mine : TRUE][2]>>
Publish == topic' = [t \in Topic |-> Latest(topic[t] \o PublishedOn(t))]

Cause == IF out' = <<>> THEN "none" ELSE out'[1][3]
Remember ==
  /\ asked' = IF lastOverride' = lastOverride THEN asked
              ELSE [kind |-> Cause, moves |-> /\ Cause = "manual_motion"
                                              /\ out'[1][2] # ZeroVelocity]
  /\ hold' = IF Cause = "emergency_stop" THEN TRUE
             ELSE IF Cause = "reset_emergency_stop" THEN FALSE ELSE hold
  /\ unsafe' = LET waits == \E i \in DOMAIN topic'["mode"] :
                               topic'["mode"][i] = "idle"
               IN  IF Cause = "emergency_stop" THEN waits ELSE unsafe \/ waits

\* The next command of a client, as it comes when nothing went wrong.
NewMessage(c) ==
  [id |-> count + 1, client |-> c, seq |-> lastSeq[c], age |-> "fresh"]

GatewayStep ==
  /\ phase = "running"
  /\ \/ \E c \in Clients : /\ NewMessage(c) \in Gateway!Message
                           /\ Gateway!Accept(NewMessage(c))
     \/ Gateway!Nav2Step
     \/ Gateway!Callback
  /\ Publish
  /\ Remember
  /\ UNCHANGED chassisVars

\* The executor of the bridge takes the next message of one subscription.
Deliver(t) ==
  /\ topic[t] # <<>>
  /\ LET m == Head(topic[t])
     IN  CASE t = "cmd_vel" -> Chassis!OnCmdVel(m, 0)
           [] t = "brake" -> Chassis!OnBrake(m)
           [] t = "emergency_stop" -> Chassis!OnEmergencyStop(m)
           [] t = "mode" -> Chassis!OnMode(m)
  /\ topic' = [topic EXCEPT ![t] = Tail(@)]
  /\ UNCHANGED <<gatewayVars, historyVars>>

Listen == \E t \in Topic : Deliver(t)

BridgeStep ==
  /\ Chassis!Start \/ Chassis!Expire \/ Chassis!OnTimer \/ Chassis!SendFrame
  /\ UNCHANGED <<gatewayVars, topic, historyVars>>

Next ==
  \/ GatewayStep
  \/ Listen
  \/ BridgeStep

Spec == Init /\ [][Next]_vars

\* A callback that has begun runs to its end and time passes.  The executor
\* of rclpy serves everything one wait has found ready before it waits again,
\* so no subscription is passed over for ever.
Fairness == WF_vars(BridgeStep) /\ \A t \in Topic : SF_vars(Deliver(t))
FairSpec == Spec /\ Fairness

-----------------------------------------------------------------------------
(* Properties, on a bus that refuses nothing: Chassis has the refused      *)
(* frames.                                                                 *)

Settled == /\ faults = 0
           /\ todo = <<>>
           /\ \A t \in Topic : topic[t] = <<>>

\* A stop, or the cancelling of a navigation, is the last word: once the bridge
\* has emptied cmd_vel the motor is off and stays off, whatever velocities of
\* Nav2 or of older commands were on their way, and whatever modes, brakes or
\* resets the bridge handles in between.
StopStops ==
  (/\ faults = 0 /\ todo = <<>> /\ topic["cmd_vel"] = <<>>
   /\ asked.kind \in {"stop", "cancel_navigation"})
    => ~drive.enabled

\* An emergency stop takes effect and lasts, however busy the bridge is and
\* whichever of its subscriptions the executor prefers: in the end the stop is
\* latched and the motor disabled, whatever other commands came before or come
\* after it, as long as none of them is an idle mode the bridge may handle
\* later than the stop.
EmergencyStopTakesEffect ==
  (hold /\ ~unsafe) ~> (\/ estop /\ ~drive.enabled
                        \/ unsafe \/ faults > 0)

\* mobile_platform/README.md:46 of the brake: the robot stops or brakes at
\* once.  It must not be driving when every message has been handled.
BrakeStops == (Settled /\ asked.kind = "brake") => ~drive.enabled

\* mobile_platform/README.md:83: the emergency stop is held until a
\* reset_emergency_stop arrives.
EStopHeldUntilReset == (Settled /\ hold) => estop

\* mobile_platform/README.md:45 and :81: manual motion drives the robot until
\* it has not been renewed for 0.6 s.
ManualMotionDrives ==
  (/\ Settled /\ asked.moves /\ count = lastOverride
   /\ age = "fresh" /\ ~estop)
    => Chassis!Moving(drive)

\* Types, and that a stop has the last word.
SystemInvariant == TypeOK /\ StopStops
=============================================================================
