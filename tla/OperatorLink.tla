---------------------------- MODULE OperatorLink ----------------------------
(***************************************************************************)
(* From the operator's finger to the drive, over Fast DDS: the consoles    *)
(* (gui.py), the client of each (fastdds_client.py), the transports        *)
(* (fastdds_transport.py) and the robot without ROS (fastdds_node.py with  *)
(* the safety gate and the command mapping of Chassis).                    *)
(*                                                                         *)
(* A console is one process: its window queues calls for the worker        *)
(* thread, the worker numbers and sends them, and a heartbeat thread takes *)
(* numbers from the same counter.  All consoles use the default client_id, *)
(* so a console started after another has ended is a restart, and two open *)
(* at once are the NUC's and the operator's own.                           *)
(*                                                                         *)
(* A writer keeps the order of its messages, any of which may be lost; the *)
(* robot's transport queues what arrives, without a bound, so a message in *)
(* that queue counts as still on its way.  Frames are not refused here     *)
(* (Chassis has that), so a command takes effect in one step.  Replies,    *)
(* which nothing waits for, are left out.                                  *)
(***************************************************************************)
EXTENDS Integers, Sequences, SequencesExt

CONSTANTS
  Consoles,      \* console processes
  Buttons,       \* kinds of command the operator may click
  MaxClicks,     \* things the operator does
  MaxSequence,   \* sequence numbers a console repeats a motion up to
  MaxBeats,      \* heartbeats sent
  MaxLost        \* messages lost

CommandKind == {"manual_motion", "stop", "brake", "emergency_stop",
                "reset_emergency_stop", "navigation_goal",
                "cancel_navigation", "lift"}

Halt == {"stop", "emergency_stop"}

ASSUME LinkAssumption ==
  /\ Buttons \subseteq CommandKind \ {"manual_motion"}
  /\ {MaxClicks, MaxSequence, MaxBeats, MaxLost} \subseteq Nat

VARIABLES
  phase,    \* "off", "open", "closing" (closeEvent waits), "ended"
  held,     \* _motion is set and motion_timer runs
  calls,    \* slots queued for the worker thread
  sequence, \* _sequence of the client
  wire,     \* messages of a console's writer on their way
  last,     \* _last_sequences of the client_id all share, -1 if none
  estop,    \* SafetyController._emergency_stopped
  age,      \* _last_command_time: "never" set, "fresh" or "expired"
  timeoutStopSent, \* _last_stop_due_timeout
  moving, brake,   \* the drive (external)
  clicks, beats, lost,   \* bounds
  refused,  \* history: who had a stop refused that came in time
  late      \* history: a message came too late

consoleVars == <<phase, held, calls, sequence>>
robotVars == <<last, estop, age, timeoutStopSent, moving, brake, refused,
               late>>
vars == <<consoleVars, wire, robotVars, clicks, beats, lost>>

Number == 1..(MaxSequence + MaxClicks + MaxBeats + 2)
Message == [kind : CommandKind, sequence : Number]
Call == CommandKind \cup {"close"}

TypeOK ==
  /\ phase \in [Consoles -> {"off", "open", "closing", "ended"}]
  /\ held \in [Consoles -> BOOLEAN]
  /\ calls \in [Consoles -> Seq(Call)]
  /\ sequence \in [Consoles -> Number \cup {0}]
  /\ wire \in [Consoles -> Seq(Message)]
  /\ last \in Number \cup {-1}
  /\ estop \in BOOLEAN /\ timeoutStopSent \in BOOLEAN
  /\ age \in {"never", "fresh", "expired"}
  /\ moving \in BOOLEAN /\ brake \in BOOLEAN
  /\ clicks \in 0..MaxClicks /\ beats \in 0..MaxBeats /\ lost \in 0..MaxLost
  /\ refused \subseteq Consoles \X Halt /\ late \in BOOLEAN

Init ==
  /\ phase = [g \in Consoles |-> "off"]
  /\ held = [g \in Consoles |-> FALSE]
  /\ calls = [g \in Consoles |-> <<>>]
  /\ sequence = [g \in Consoles |-> 0]
  /\ wire = [g \in Consoles |-> <<>>]
  /\ last = -1
  /\ estop = FALSE /\ age = "never" /\ timeoutStopSent = FALSE
  /\ moving = FALSE /\ brake = FALSE
  /\ clicks = 0 /\ beats = 0 /\ lost = 0
  /\ refused = {} /\ late = FALSE

-----------------------------------------------------------------------------
(* The window.  A signal of the window is queued for the worker's thread.  *)

Queue(g, more) == calls' = [calls EXCEPT ![g] = @ \o more]

ByOperator(g) ==
  /\ phase[g] = "open"
  /\ clicks < MaxClicks
  /\ clicks' = clicks + 1
  /\ UNCHANGED <<phase, sequence, wire, robotVars, beats, lost>>

Open(g) ==
  /\ phase[g] = "off"
  /\ phase' = [phase EXCEPT ![g] = "open"]
  /\ UNCHANGED <<held, calls, sequence, wire, robotVars, clicks, beats,
                 lost>>

\* _start_motion, which repeats at once
Press(g) ==
  /\ ByOperator(g)
  /\ held' = [held EXCEPT ![g] = TRUE]
  /\ Queue(g, <<"manual_motion">>)

\* motion_timer
RepeatMotion(g) ==
  /\ phase[g] = "open" /\ held[g]
  /\ sequence[g] + Len(calls[g]) < MaxSequence
  /\ Queue(g, <<"manual_motion">>)
  /\ UNCHANGED <<phase, held, sequence, wire, robotVars, clicks, beats,
                 lost>>

\* Mutant: the stop is called directly and overtakes what is queued.
ClickDirect(g, kind) ==
  /\ ByOperator(g)
  /\ held' = IF kind \in Halt
             THEN [held EXCEPT ![g] = FALSE] ELSE held
  /\ calls' = [calls EXCEPT ![g] = <<kind>> \o @]

\* The buttons, and letting go of a motion button (_stop_motion).  Only a
\* stop and an emergency stop end a motion that is being held.
Click(g, kind) ==
  /\ ByOperator(g)
  /\ held' = IF kind \in Halt
             THEN [held EXCEPT ![g] = FALSE] ELSE held
  /\ Queue(g, <<kind>>)

\* closeEvent: the timer ends, and the worker is asked to stop the robot and
\* close the client after everything that is queued already.
CloseWindow(g) ==
  /\ phase[g] = "open"
  /\ phase' = [phase EXCEPT ![g] = "closing"]
  /\ held' = [held EXCEPT ![g] = FALSE]
  /\ Queue(g, <<"stop", "close">>)
  /\ UNCHANGED <<sequence, wire, robotVars, clicks, beats, lost>>

-----------------------------------------------------------------------------
(* The client and its threads.                                             *)

\* Mutant: the counter is read before it is advanced.
SendUnnumbered(g) ==
  /\ calls[g] # <<>> /\ Head(calls[g]) # "close"
  /\ calls' = [calls EXCEPT ![g] = Tail(@)]
  /\ sequence' = [sequence EXCEPT ![g] = @ + 1]
  /\ wire' = [wire EXCEPT ![g] = Append(@,
       [kind |-> Head(calls[g]), sequence |-> sequence[g]])]
  /\ UNCHANGED <<phase, held, robotVars, clicks, beats, lost>>

\* CommunicationWorker._send and RobotRemoteFastDDSClient._send
Send(g) ==
  /\ calls[g] # <<>> /\ Head(calls[g]) # "close"
  /\ calls' = [calls EXCEPT ![g] = Tail(@)]
  /\ sequence' = [sequence EXCEPT ![g] = @ + 1]
  /\ wire' = [wire EXCEPT ![g] = Append(@,
       [kind |-> Head(calls[g]), sequence |-> sequence[g] + 1])]
  /\ UNCHANGED <<phase, held, robotVars, clicks, beats, lost>>

\* The end of CommunicationWorker.shutdown.
CloseClient(g) ==
  /\ calls[g] # <<>> /\ Head(calls[g]) = "close"
  /\ calls' = [calls EXCEPT ![g] = <<>>]
  /\ phase' = [phase EXCEPT ![g] = "ended"]
  /\ UNCHANGED <<held, sequence, wire, robotVars, clicks, beats, lost>>

\* One round of _heartbeat_loop.
Heartbeat(g) ==
  /\ phase[g] \in {"open", "closing"}
  /\ beats < MaxBeats
  /\ beats' = beats + 1
  /\ sequence' = [sequence EXCEPT ![g] = @ + 1]
  /\ UNCHANGED <<phase, held, calls, wire, robotVars, clicks, lost>>

\* The process is killed; what it has written is on its way.
Kill(g) ==
  /\ phase[g] \in {"open", "closing"}
  /\ phase' = [phase EXCEPT ![g] = "ended"]
  /\ held' = [held EXCEPT ![g] = FALSE]
  /\ calls' = [calls EXCEPT ![g] = <<>>]
  /\ UNCHANGED <<sequence, wire, robotVars, clicks, beats, lost>>

-----------------------------------------------------------------------------
(* The network, and the robot.                                             *)

Lose(g) ==
  /\ lost < MaxLost
  /\ lost' = lost + 1
  /\ \E i \in DOMAIN wire[g] : wire' = [wire EXCEPT ![g] = RemoveAt(@, i)]
  /\ UNCHANGED <<consoleVars, robotVars, clicks, beats>>

\* Mutant: a gap in the numbers counts as a disorder.
ValidConsecutive(m, inTime) == inTime /\ (last = -1 \/ m.sequence = last + 1)

\* _validate_command
Valid(m, inTime) == inTime /\ m.sequence > last

ToChassis(m) == m.kind \in {"manual_motion", "stop", "brake",
                            "emergency_stop", "reset_emergency_stop"}
LatchAfter(m) == CASE m.kind = "emergency_stop" -> TRUE
                   [] m.kind = "reset_emergency_stop" -> FALSE
                   [] OTHER -> estop

\* Mutant: a command renews the time but not the watchdog's flag.
ApplyNoRearm(m) ==
  /\ age' = "fresh"
  /\ estop' = LatchAfter(m)
  /\ brake' = (LatchAfter(m) \/ m.kind = "brake")
  /\ moving' = (m.kind = "manual_motion" /\ ~LatchAfter(m))
  /\ UNCHANGED timeoutStopSent

\* to_chassis_command, SafetyController.accept and apply_command
Apply(m) ==
  /\ timeoutStopSent' = FALSE
  /\ age' = "fresh"
  /\ estop' = LatchAfter(m)
  /\ brake' = (LatchAfter(m) \/ m.kind = "brake")
  /\ moving' = (m.kind = "manual_motion" /\ ~LatchAfter(m))

KeepDriving == UNCHANGED <<estop, age, timeoutStopSent, moving, brake>>

\* _on_command, receive_command and _handle_command.  inTime: the message is
\* at most max_command_age_s old.
Handle(g, inTime) ==
  /\ wire[g] # <<>>
  /\ wire' = [wire EXCEPT ![g] = Tail(@)]
  /\ late' = (late \/ ~inTime)
  /\ LET m == Head(wire[g])
     IN  \/ /\ ~Valid(m, inTime)
            /\ refused' = IF inTime /\ m.kind \in Halt
                          THEN refused \cup {<<g, m.kind>>} ELSE refused
            /\ UNCHANGED last /\ KeepDriving
         \/ /\ Valid(m, inTime)
            /\ last' = m.sequence
            /\ IF ToChassis(m) THEN Apply(m) ELSE KeepDriving
            /\ UNCHANGED refused
  /\ UNCHANGED <<consoleVars, clicks, beats, lost>>

Expire ==
  /\ age = "fresh"
  /\ age' = "expired"
  /\ UNCHANGED <<consoleVars, wire, last, estop, timeoutStopSent,
                 moving, brake, refused, late, clicks, beats, lost>>

\* The watchdog of run: stop_motor, and the brake as it is.
Watchdog ==
  /\ age = "expired" /\ ~timeoutStopSent
  /\ timeoutStopSent' = TRUE
  /\ moving' = FALSE
  /\ UNCHANGED <<consoleVars, wire, last, estop, age, brake, refused, late,
                 clicks, beats, lost>>

Operator(g) == Open(g) \/ Press(g) \/ CloseWindow(g) \/ Kill(g)
               \/ \E kind \in Buttons : Click(g, kind)
Worker(g) == Send(g) \/ CloseClient(g)
Receive(g) == \E inTime \in BOOLEAN : Handle(g, inTime)

Next ==
  \/ \E g \in Consoles : Operator(g) \/ RepeatMotion(g) \/ Worker(g)
                         \/ Heartbeat(g) \/ Lose(g) \/ Receive(g)
  \/ Expire
  \/ Watchdog

Spec == Init /\ [][Next]_vars

\* Queued slots run, a message that is not lost arrives, the robot's loop
\* handles what it has received and looks at its clock.
Fairness ==
  /\ \A g \in Consoles : WF_vars(Worker(g)) /\ WF_vars(Receive(g))
  /\ WF_vars(Expire)
  /\ WF_vars(Watchdog)
FairSpec == Spec /\ Fairness

-----------------------------------------------------------------------------
(* Properties                                                              *)

Holding == \E g \in Consoles : held[g]
Started == {g \in Consoles : phase[g] # "off"}
Quiet == \A g \in Consoles : calls[g] = <<>> /\ wire[g] = <<>>

\* The dead man's handle: when nobody holds a motion button (it was let go, the
\* window was closed or the console died) the robot comes to stand, whatever
\* the network lost and the robot refused.
DeadMan == ~Holding ~> (~moving \/ Holding)

\* Letting go stops the robot at once, not by the watchdog: when every message
\* of the only console has arrived in time, the robot stands.  (age "fresh":
\* the watchdog had no part in it.)
ReleaseStops ==
  (/\ Quiet /\ ~Holding /\ lost = 0 /\ ~late /\ age = "fresh"
   /\ \E g \in Consoles : Started = {g} /\ phase[g] = "open")
    => ~moving

\* A stop or an emergency stop that reaches the robot in time is not refused
\* for its number as long as one console runs, although the heartbeat thread
\* takes numbers from the same counter.
StopIsTaken ==
  \A g \in Consoles : Started = {g} =>
    \A kind \in Halt : <<g, kind>> \notin refused

\* mobile_platform/README.md:47: an emergency stop triggers the emergency stop
\* of the chassis, whichever console sends it.
AnyConsoleStops == \A g \in Consoles : <<g, "emergency_stop">> \notin refused

\* Types, and that no stop of a lone console is refused for its number.
LinkInvariant == TypeOK /\ StopIsTaken
=============================================================================
