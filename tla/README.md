# Formal model of the Robot320 patrol robot

TLA+ modules, TLC configurations and TLAPS proofs for the control software of the
Robot320 patrol robot. Source paths are relative to the repository.

## 1. Inventory

The robot is driven by an operator (GUI, CLI or a cloud client) over ROS 2 topics or
plain Fast DDS. On the robot's NUC a *gateway* turns operator commands into chassis
messages and Nav2 goals, and a *CAN bridge* turns chassis messages into CAN frames for
the motor controller, the brake and the steering actuator. Around this core there are
an exploration and mapping layer, a lift, a video link with a PTZ camera, network
failover and the LiDAR driver.

| Component (source) | State it keeps | Operations | Hard behaviour | What makes it correct |
|---|---|---|---|---|
| **CAN bridge** `mobile_platform/{ros2_node,safety,onboard_node,robot320,controlcan,ackermann}.py` | emergency-stop latch, time of the last command, "watchdog has fired" flag, `PlatformState` | `on_cmd_vel`, `on_brake`, `on_emergency_stop`, `on_mode`, `on_timer`, `connect`/`disconnect` | a callback is a series of frames with sleeps between them; each frame may be refused; Ctrl-C and kills fall between frames | latch holds, watchdog stops stale motion, telemetry tells the truth, no driving against the brake |
| **Gateway** `mobile_platform/fastdds_ros_gateway.py` | last sequence per client, navigation status, active handle, pending goal, velocity relay | `_poll_commands`/`_dispatch` (10 command kinds), goal response, result, feedback, `_on_nav_cmd_vel`, telemetry, heartbeats | Nav2 answers late: several goals outstanding at once; replies from four callbacks | only the current goal drives; abandoned goals are cancelled; one reply sequence per command; final states final |
| **Remote client** `remote_control/{fastdds_client,ros2_transport,gui}.py` | sequence number shared with the heartbeat thread, latest telemetry, reply queue | send, poll, heartbeat, close | two threads, restarts, lost and reordered messages | a stop is not rejected, replies match commands |
| **ROS-free node** `mobile_platform/fastdds_node.py` | as gateway and bridge together, in one loop | `run`, `_handle_command` | watchdog between commands | as above |
| **Demo transport** `remote_control/demo_transport.py` | a simulated robot | `publish_command`, `_advance` | goal progress against commands | behaves as the robot does |
| **Lift bridge** `scripts/robot320_onboard/lift_serial_bridge.py` | serial port, `_moving`, `_fault`, local queue | ROS command, socket command, reconnect, shutdown | executor thread and socket thread, 5 s wait, failing writes | answers tell what was done, status tells whether the lift moves |
| **CAN receiver** `scripts/robot320_onboard/{can_command_receiver,cmd_vel_to_ackermann_can,can_to_odom}.py` | enabled, current and previous rpm, ages of commands and of feedback | velocity, cycle of 20 ms, critical frames with three tries, feedback | partial failure, silence of either side, deaths | nothing is driven against the brake, the drive is switched off, the odometry comes to rest |
| **Network failover** `scripts/robot320_onboard/network_failover.py` | active link, counters | observe, switch | a switch that fails half way | services run again; no flapping |
| **PTZ control** `remote_control/camera_panel.py`, `video_relay/local/web_viewer.py`, `video_relay/robot/ptz_agent.py` | the held direction, a generation on either side, the dead-man timer | move, stop, repeat, automatic stop | an HTTP thread per request, requests sent over two endpoints, late answers | the camera stops when the button is let go, or 1.5 s after the last move |
| **Frontier explorer** `robot320_localization_bringup/frontier_explorer.py` | goal handle, active flag, deadline, blacklist | tick, response, result | late responses and results after a timeout | one goal at a time, each accounted for |
| **Map manager** `robot320_localization_bringup/persistent_map_manager.py` | the prefix of the files, busy | parameter callback, tick, save service, two chained service calls | a prefix that changes before its map is loaded; a response that never arrives or fails | no file gets another map's session |
| **Velocity relay, scan restamper, teleoperation** `robot320_localization_bringup/*.py` | last message, time | forward, time out | silence of the publisher | zero velocity after silence |
| **Navigation window** `remote_control/navigation_gui.py` | one goal handle, the back end, the map on screen, way points | goals, cancel, save, load, relocalise | a queue to the worker, services answered late, results of older goals, the manager's saves | a goal can be cancelled, files keep their maps, plans fit the map |
| **Radar and map panel** `remote_control/spatial_panel.py`, `scripts/robot320_onboard/{spatial_stream,spatial_bridge}.py`, `cloud/reverse_tunnel_selector.py` | two processes and their timers, a pending request, the map file | connect, upload, localise, relocalise | two processes that end in any order, two uplinks, statuses from before, a file overwritten while it is read | reconnected, the match follows the load, the uploaded map is used |
| **Industrial cameras** `remote_control/industrial_camera_panel.py`, `scripts/robot320_onboard/{hik_usb_record,hik_usb_snapshot}.py` | the action and its routes, what it believes, the session files, the exclusive camera | start, stop, status, list, picture | commands that go on without their process, a second route, a timer of the same actions | one worker, belief settles, buttons are released |
| **Video relay** `video_relay/robot/push_stream.py`, `local_rtsp_proxy.py` | child processes | start, watch, restart | a process that dies or hangs | restarted, one at a time |
| **LiDAR driver** `livox_ros_driver2/src/comm/{ldq,cache_index}.cpp` | ring indices, slot map | push, pop, allocate | threads, full ring, index wrap | no lost or repeated packet, no slot twice |
| **CAN codec** `mobile_platform/protocol.py` | none | frame encoders, speed parser | ranges of the fields | every command fits its frame |
| Sensor helpers, simulation, launch files, vendor code | - | - | floating point, configuration, third party | not modelled |

Interactions modelled: operator command -> gateway (validated, numbered) -> four chassis
topics `/robot320/{cmd_vel,brake,emergency_stop,mode}` -> CAN bridge -> frames -> drive;
gateway -> Nav2 goal requests and cancels; Nav2 -> goal responses, results and
velocities -> gateway -> `cmd_vel`; gateway -> replies. Navigation window -> queued
signals -> its worker -> Nav2, SLAM Toolbox or the map server, the map manager; explorer ->
Nav2. Converter -> UDP/Ackermann receiver -> frames -> drive -> feedback -> odometry.
Panels -> SSH or HTTP, over the LAN or the cloud host -> agent, recorder, bridge.

The hazards of the modelled components, each at its line, are in `PROJECT.json` ("hazards").

## 2. The modules

| Module | Models |
|---|---|
| `Chassis` | the CAN bridge and the drive behind it |
| `MotionAuthority` | abstract: who may move the robot autonomously |
| `Gateway` | the gateway, with Nav2 as its environment |
| `RobotSystem` | gateway and bridge composed over the four topics |
| `OperatorLink` | the GUI consoles, their clients, the Fast DDS link and the ROS-free node |
| `LiftBridge` | the lift's serial bridge and the control streams of the panels |
| `GoalState` | the goals of the navigation window and the explorer: variables, types, `GoalInvariant` |
| `NavGoals` | what the window, the frontier explorer and Nav2 do with these goals |
| `MapSession` | the map and its files: the window's worker, the map manager, the back end |
| `Navigation` | the navigation window and its worker: `NavGoals` and `MapSession` composed |
| `CameraControl` | PTZ panel, the local proxy, the agent and its dead-man timer |
| `RecordingState` | industrial camera panel, recorder and still capture: variables, types, `RecordingInvariant` |
| `Recording` | what panel, recorder and still capture do |
| `CanDrive` | Ackermann converter, CAN command receiver, drive, odometry |
| `SpatialLink` | tunnel, stream and the cloud host's choice of an uplink |
| `Spatial` | radar and map panel, stream and bridge over `SpatialLink` |
| `ChassisProofs`, `GatewayProofs`, `RobotSystemProofs`, `OperatorLinkProofs`, `LiftBridgeProofs`, `NavigationProofs`, `CanDriveProofs`, `CameraProofs` | the theorems about the module each is named after, and their proofs; those about `NavGoals` are in `NavigationProofs`, those about `CameraControl` and `Recording` in `CameraProofs` |

### Chassis

The node has a single-threaded executor. A callback looks at the safety gate at its
start and from then on only sends frames; the result of a transmission never changes
which frame follows. So a callback is one step that sets `todo` to its list of frames
(`Apply`, `OnTimer`), and `SendFrame` takes them one at a time, refused or not, at most
`MaxFaults` times. `shadow` is `PlatformState` (what telemetry reports), `drive` the
state of the hardware. `age` stands for `_last_command_time`: "never" (0.0, for which
`timed_out()` is false), "fresh", "expired". Speeds and steering are reduced to their
sign, with 0 for less than one rpm; clamping and the Ackermann formula do not change it.
`Shutdown` and `Close` are the two halves of `disconnect`, `Crash` a kill between any
two frames, `Start` a new process, which begins with a new latch and tells the drive
nothing. The receive thread only writes `speed_kmh` and `last_frame` and is left out.

### Gateway

Every callback of the node is one step. Commands are numbered as they first arrive and the
number stands for `command_id`. A command comes with an arbitrary sequence number and age, so
delay and reordering need no network of their own. Any message, accepted or refused, may be
kept by the transport (`copies`) and arrive again at any later time, with the same number,
client and sequence and an age that has only grown (`ArrivesAgain`): the gateway looks at age
and sequence and never at the `command_id`, refuses it and replies "rejected" under an id that
may have been completed long ago. `repeated` is the history variable that tells which. `request[id]`
follows a goal request at Nav2: unsent, sent, answered (the response waits for
`_on_nav_goal_response`), watched (`get_result_async`), finished (the result waits for
`_on_nav_result`), dropped or over. `active`, `activeCmd`, `pending`, `relay`, `nav` are
`_active_goal_handle`, `_active_nav_command`, `_pending_nav_command_id`,
`_nav_velocity_enabled` and `_navigation`. `out` is what the step published.

Not in the model: feedback (changes progress and message only), telemetry and lift
status merging, heartbeats, and exceptions inside `_dispatch` (a speed that is not a
number, for instance): such a command has cancelled navigation, forwards nothing and is
answered "failed".

### MotionAuthority and the refinement

`MotionAuthority` says: authority is asked for by one command at a time, granted at most
once, only while that command is the latest that has a say, and is gone for good with
the next such command. `Gateway` implements it with `latest` = the last overriding
command, `open` = a goal is pending, `holder` = the active goal while the relay is open.

### RobotSystem

`topic[t]` is the subscription of the bridge on topic t: it keeps the order of its own
messages, drops the oldest above `Depth`, and the executor may serve any ready one next.
`asked`, `hold` and `unsafe` are history variables. Each client sends its next number
(`NewMessage`) and no message comes twice (`MaxRepeats = 0`): a message that is refused publishes
nothing. Commands the gateway rejects publish nothing
and are left out; so are the ends of the bridge process, which `Chassis` has. Other
publishers on the chassis topics (keyboard teleoperation, `cmd_vel_relay`) are not
composed.

### OperatorLink

The other way from the operator to the drive: `gui.py` and `fastdds_client.py`, a link
that may lose messages, and `fastdds_node.py`. `held[g]` is a motion button held down
(`_motion` set, `motion_timer` running), `calls[g]` the slots the window has queued for
`CommunicationWorker`'s thread, `sequence[g]` the counter the worker and the heartbeat
thread share (a number is taken in one locked step). A call is numbered and stamped when the worker runs it.
`wire[g]` holds what the console has written and the robot has not handled, in the order
of the writer; any message of it may be lost or be too old when it is handled. `last` is
`_last_sequences` of the one client_id all consoles have by default; a console that opens
after another has ended is a restarted one. `estop`, `age`, `timeoutStopSent` are the gate
and the watchdog, `moving` and `brake` the drive after all frames of a command: refused
frames are the business of `Chassis`. `refused` and `late` are history variables.

### LiftBridge

`lift_serial_bridge.py` has an executor thread (the ROS subscription, the reconnect timer
and the timer that drains `_local_commands`) and a socket thread, which accepts one
connection at a time, queues its request and waits 5 s for the executor. `lift_control.py
--stream` runs once per panel and sends the panel's clicks one by one, waiting 6 s for each
answer. A request is a number in the order of the clicks; `stage` follows it from the
stream's stdin to the socket, `commands`, `working` and `done` through the bridge, `answer`
is what its stream prints. `Drain` is the round of the drain timer up to its `finally`,
`Finish` the `finally`, so that the socket thread can give up between the frame and
`done.set()`. `NotOpened` and `WriteFails` are the two ways a command fails; a write that
raises may have reached the lift. `sent` (frames the lift took) and `doubt` (the last write
failed) are history variables. A client may give up before the server only if its request
stood behind another one in the backlog (`behind`), because 6 s exceed 5 s.

### GoalState, NavGoals, MapSession, Navigation

The state of the goals stands in a module of its own, since `Navigation` keeps the same goals
beside the maps and what is proved of them there is the invariant `NavGoals` is checked for.

`goals` is every goal that was sent, with its state at Nav2 (`nav`) and at its client
(`client`: asked, held from the response on, done from the result on); `handle` is the
window's one `goal_handle`, which a result clears whichever goal it is of. `SendGoal` is
`send_goal` and `send_waypoints`, which differ in the action they call only. The explorer's
`_goal_active` and `_current_goal_handle` are separate, since its timeout drops the one and
leaves the other. `Frontiers` are places; a place that is reached is no frontier any more, a
place that failed is not tried again. `overlap` is a history variable.

A file of `MapSession` is a pose graph and a grid and holds a *session*, the name of the file
that first held it. `calls` are the worker's service calls, each of which takes effect where
it is answered, in any order and whether or not the window is still there, and the answers the
worker has not seen. The manager's parameter callback (`OnParameters`), the worker's reaction
to its answer (`OnMapPrefixChanged`, which sends the load) and the load itself (`Loaded`) are
three steps of three processes; so are an exported pose graph, the worker that hears of it and
the grid. When the worker shuts down (`WorkerGone`) its unseen answers are gone: a prefix
changed by then is followed by no load. `saving` is the manager's `_busy` with the call it
waits for. `owner` (which session the operator means a file to hold) and `upset` are history
variables; `upset` says that a change of map was refused or failed, met a save, found no
manager beside a running one, or lost its load because the window was closed.

`Navigation` adds the window: its signals wait in `toWorker`, whose thread takes them between
ROS callbacks; until it takes `shutdown` its callbacks go on, afterwards only the services and
the manager do. A load or a relocalisation may be refused (files of the session missing, no
service), which leaves map and goal as they were. Pose and relocalise do the same to this
state. `shown` is the session of the
map on screen, a way point remembers it. The explorer is left to `NavGoals` (`Frontiers = {}`).

### CameraControl

`requests` is what the panel has posted; each is tried over one or two endpoints, and each try
goes through the agent by itself: for a move "came", "moved" (the camera was asked, outside
the lock), "ok" (the timer is armed); for a stop "came", "locked" (the timer is cancelled, the
generation is new), "ok". `timer` and `stopping` are the dead-man timer and its stops on their
way. A timer whose generation has passed does nothing and is not kept. `stale` is the panel's
generation compared with the one of the request it waits for.

### RecordingState, Recording

`process[s]` is an SSH process of the panel: locally running, gone or never started, its command
at the NUC asked, waiting, answered, refused or over; a command goes on when its process was
killed after 20 s. For one that could not be started Qt emits no `finished`, and nothing else is
connected: `record_process` (`current`) keeps it (`Stranded`), unless a timer of an earlier try
is still to come, and a camera's button stays off (`capture.unstarted`). `tries` counts the single-shot timers of `_try_record_action`, which share `action` and
`routes`. The buttons are variables because they change only where `_update_buttons` runs.
`lock` is `CONTROL_LOCK`, held over the 8 s of a stop. `device` is the exclusive camera, which
worker and snapshot both open. The recorder starts its workers first and writes `STATE` last:
`worker` is the one `STATE` names, `strays` counts live ones it does not. A start may fail before
its worker or behind it; behind it a second camera's log or process stands for the failure, or
`STATE` itself. An answer to `list` has no "recording", so it counts as FALSE where it is taken
for another action's. `doubled` (a worker was started beside another) and `orphaned` (a start
failed behind its worker) are history variables. `OneWorker` says that the first comes of the
second only. Three more parts of
`RecordingInvariant` relate these: the camera is held by the one that uses it (`CameraHeld`),
the lock by one stop, beside which no worker that `STATE` names starts (`StopHoldsLock`), and the panel waits only
for what can still answer or was never started (`PanelGoesOn`: any other stranded action would
leave its buttons disabled).

### CanDrive

Speeds are zero, creep (below one rpm, which `int()` makes 0) and go. `wire` is the topic
between converter and receiver; `node` the receiver with the frame its callback is at and the
try it is in (the callback blocks between the tries); `motor` the drive. The controller obeys
a frame it got; `lost` is the history variable for a disable frame given up after three tries,
or a receiver that has gone. `feedback` is what the receiver last heard, `odom` what the
odometry node last heard; `mute` says the controller has stopped answering for good. Each age
is a boolean that time turns off.

### SpatialLink, Spatial

`tunnel` and `stream` are the two processes, `tunnelTimer` and `streamTimer` their single
shots. `path` is the uplink the selector gave the stream; an uplink falls silently, and the
stream hangs until the hosts give the connection up. A process that cannot be started
(`DoesNotStart`) is reported by `errorOccurred`, which is connected to a message and to no timer;
`unstarted` says that the last start failed. `Spatial` adds requests (`up`), lines of the stream
(`down`), the bridge with the depth-2 queue of its subscription and the request it is busy with,
and the map file (numbers of uploads; `Torn` is one half written, and as `upload` an scp that
could not be started).

`unit` is the localisation service as systemd has it: "off", "restarting" (the old processes
have up to 20 s to stop), "starting" (the script of a `Type=simple` unit runs: active for every
status) and "on" (AMCL runs on `loaded`, the file as the script found it). A request ends in
three ways: `Serves`; `ServesLate`, a timeout of `systemctl` (15 s) or of the status (3 s), whose
answer has no request id, while systemd goes on with what it was asked; `ServesNot`, a return
code that is not 0, with or without the old processes stopped. `UnitEnds` is the script that
gives up because it still sees the nodes it replaces, or AMCL ending. Mapping and localisation
exclude one another (`Conflicts=` in the unit). The bridge dies for good (`BridgeDies`): it is a
process of the sensors' launch file without `respawn`. Only someone who restarts the sensors'
service brings it back (`SensorsRestarted`), and with it systemd restarts the localisation that
requires it; no fairness is assumed of this.

## 3. The runs

| Run | Bounds | Checks |
|---|---|---|
| `chassis` | two refused frames, one restart | the seven properties of section 4, `StaleMotionStops` under `FairSpec` |
| `gateway` | one client, three commands, one message that comes twice, sequence 0..2, all answers of Nav2 | the gateway's four invariants, `FinalStateIsFinal`, `UnsettledStatesEnd`, the refinement |
| `robot_system` | two commands, goals accepted, twists 0 and 1, depth 2, no refused frame | `SystemInvariant` (`StopStops`), `EmergencyStopTakesEffect` |
| `operator_link` | two consoles, two clicks of five buttons, two repeats, one heartbeat, one lost message | `LinkInvariant` (`StopIsTaken`), `ReleaseStops`, `DeadMan` |
| `lift` | two panels, three clicks of two buttons, one ROS command, one failed open or write, one stream that ends | `LiftInvariant` (`StatusTellsMotion`, `CleanExitStops`), `OkMeansWritten`, `ClickOrder`, `LonePanelIsServed` |
| `nav_goals` | three goals, one frontier, one restart of Nav2 | `GoalInvariant`, `ExplorerGoesOn`, `CancelFrees` |
| `navigation` | two files, three signals, one goal, one way point, SLAM with and without the manager, AMCL, closing at any moment | `NavigationInvariant`, `PlanFitsMap` |
| `camera` | one hold, two moves, one request over both endpoints, one fault | `CameraInvariant`, `StopFollowsMoves`, `ReleaseStops` |
| `recording` | three clicks, two processes, two waiting timers, two faults (answers lost, processes or recordings not started, tunnel); link local, automatic, cloud | `RecordingInvariant`, `BeliefSettles`, `CaptureEnds` |
| `can` | two twists, queue of two, three refused frames, one death | `DriveInvariant`, `DriveStops`, `OdomSettles` |
| `spatial` | two uploads, two disturbances (ends, failed starts, late or refused requests, buttons), two lines on their way | `StreamReturns`, `MatchFollowsLoad`, `UploadTakesEffect` |
| `estop_lost` | as small as the case allows | a disagreement of the code with its documentation, section 6 |

An `...Invariant` is the type invariant of the module together with its main safety
invariants. The type invariants of `Chassis` and `Gateway` are proved (section 5), that of
`Spatial` is checked by `MCSpatialTypes.cfg`. Further configurations, `MCChassisLostStop`,
`MCBrakeOvertaken`, `MCManualModeStops`, `MCSecondConsole`, `MCLiftServerEnds`, `MCLiftExit`,
`MCCancelReaches` and `MCStopIsKept`, are not among the runs: each ends in the counterexample
that section 6 tells of.

Why the bounds are enough. `chassis`: a callback sends at most five frames; with two
refusals any pair of frames of one or of two callbacks may be lost, and one restart
brings every state a restart can find. `gateway`: the hard case needs a goal, a command
that supersedes it and a third that is decided on what the second left (a goal while an
earlier one is unanswered while a third is cancelled); sequences of one client suffice
since `_last_sequences` is kept per client and nothing else depends on the client; one repeated
message meets every state its command can be in, and further ones only add rejections. The
proofs hold for every bound. `robot_system`: a property relates the last command to the
one before it; depth 2 makes the queues overflow, which depth 10 would only do later.
`operator_link`: a release races with a repeat that waits behind it, so one press, one
release and two repeats are every order there is; one heartbeat makes the gap in the
numbers, one lost message the stop that never arrives, and the second console the restart.
`lift`: with two panels, one request of each and a third, every request can stand behind
another's timeout and be followed by a later click of its own panel; `lower` is like `raise`
for every property. `nav_goals`: the third goal is the one that an old goal's response or
result disturbs. `navigation`: an operator needs a load, a save and one more signal to mix two
sessions, and the manager saves as often as it likes; closing the window is not counted among the
three signals. `camera`: two moves, each perhaps twice
at the agent, and the stops of a release and of a late answer are all that can overtake one
another; a second hold adds no new pair. `recording`: two processes are one whose command goes
on and one that replaced it; two faults are a start that fails behind its worker and one more
thing that goes wrong. `can`: three refusals are what one critical frame needs to be
given up. `spatial`: with two disturbances tunnel and stream both end, or both uplinks fall;
two uploads are the old and the new map. Commands are finite in all runs, so a run may stop: deadlock is not an error there.

Fairness. `Chassis!Fairness`: the executor calls a ready timer and a callback that has
begun sends all its frames. `Gateway!NavFairness`: Nav2 answers each request and ends
each goal, ready callbacks run. `RobotSystem!Fairness`: the bridge does its steps
and no subscription is passed over for ever, since the executor of rclpy serves all that
one wait has found ready before it waits again; the order is open. `OperatorLink!Fairness`:
Qt runs queued slots, what is not lost arrives and is handled, and the robot's loop looks at
its clock after every receive, which waits 50 ms at most. `NavGoals`: Nav2 answers and ends what
is cancelled, callbacks run, the explorer's 90 s pass. `CameraControl`: requests are passed on
and threads run, the panel gets an answer or its 3 s pass; the camera obeys a request that does
not fail. `Recording`: timers fire, the tunnel is tried again, the NUC executes its commands,
a process that has its answer ends, one that was never started does not; a worker, known or
not, need not end. `CanDrive`: the executor serves timer
and subscription in turn (strong, since each is disabled while the other's callback blocks), ages
pass. `SpatialLink`, `Spatial`: timers fire, processes that were told to end do (the panel kills
them), the selector answers, scp and `systemctl` return or are given up, systemd kills what does
not stop, the unit's script goes on, and TCP gives a silent connection up; nothing brings the
bridge back.
Commands, crashes and restarts are
never fair: nothing depends on the operator acting.

## 4. What is checked

Chassis: `TelemetryIsTruthful`, `EStopHolds`, `EStopNeverDrives`, `NoDriveAgainstBrake`,
`WatchdogHasLastWord`, `CleanExitDisables`, `StaleMotionStops`. Gateway:
`RelayServesCurrentGoal`, `OverriddenGoalNeverDrives`, `AbandonedGoalIsCancelled`,
`ReplyProtocol`, `FinalStateIsFinal`, `UnsettledStatesEnd` (`SendingEnds` and
`CancelingEnds`), `ImplementsMotionAuthority`. System: `StopStops`, `EmergencyStopTakesEffect`. Link: `ReleaseStops`, `StopIsTaken`,
`DeadMan`. Lift: `OkMeansWritten`, `ClickOrder`, `StatusTellsMotion`, `CleanExitStops`,
`LonePanelIsServed`. Navigation: `LoneGoalIsReachable`, `ExplorerGoesOn`, `CancelFrees`,
`FilesKeptWhenCalm`, `PlanFitsMap`. Camera: `MovesAreGuarded`, `StopFollowsMoves`, `ReleaseStops`.
Recording: `OneWorker`, `CameraHeld`, `StopHoldsLock`, `PanelGoesOn`, `BeliefSettles`,
`CaptureEnds`. CAN: `DrivenOnlyReleased`, `EnabledIsKnown`, `DriveStops`,
`OdomSettles`. Radar and map: `StreamReturns`, `MatchFollowsLoad`, `UploadTakesEffect`. Each is
stated in words above its definition, and each has a mutant of the code (a definition of
the run's module or of one it composes, marked "Mutant" or "as a bug would have it") that breaks it. What a property
excuses is in its comment and is a real weakness of the code: `upset`, `overlap`, `lost`,
`stopFailed`, `moveFailed`, `orphaned`, `Stranded`, `unstarted` and `settled` are named in the
hazards, and a hazard whose own case is excused says so in its note.

## 5. What is proved

For every value of the constants that the `...Assumption` of the module allows. The
assumptions say that bounds are natural numbers, that the depth of a queue is not zero, and
in which sets the constants lie: `Outcomes` are among Nav2's three, `Buttons` among the
commands there are, a velocity is a sign, frontiers are finitely many and none is the window's
own goal, and a process has a number from 1 on. Number of consoles, panels, clicks, commands, faults and losses is open.

Each proof has one inductive invariant, `IInv`, and shows `Init => IInv`,
`IInv /\ [Next]_vars => IInv'` and that `IInv` implies the property. None of the properties
is inductive by itself; what has to be added is what the code relies on without saying so.

* `ChassisProofs`: the type invariant and every safety property of `Chassis`. The
  inductive invariant says, of the frames still to be sent, what the drive will look like
  after them: under the latch `todo` is a tail of the stop frames and what has been sent
  of them has had its effect; a `speed` frame in `todo` is preceded by a release; a
  disable frame is pending or has been sent whenever the watchdog flag is set. The properties
  speak only of states between callbacks, while a step goes from one frame to the next.
* `GatewayProofs`: the type invariant, the five safety properties and the refinement. The
  inductive invariant relates the handle fields with the stage of the goals' requests
  (the pending goal is the latest override and its request is unanswered, the active
  goal's is watched or finished, every other accepted one has been asked to cancel) and
  the replies with the stages. For the replies, with any number of repeated messages: what may
  come again is the message of a command that has arrived, one for each, and the number of a
  command that has run is below `_last_sequences` of its client (`CopiesArePast`), so a
  repetition is rejected and never dispatched. The refinement maps each step to a step of
  `MotionAuthority` or a stutter.
* `RobotSystemProofs`: `SystemInvariant`, that is, types and `StopStops`, for any depth of the
  subscriptions and any number of commands, also while `KEEP_LAST` drops messages. The
  invariants of the two nodes are taken over from their own proofs
  (`GP == INSTANCE GatewayProofs`, `CP == INSTANCE ChassisProofs`). Added are: after a stop the
  relay is shut and no goal is pending (`StopClosesRelay`), so no later callback of Nav2
  publishes a velocity; the zero of the stop is then the last message in `cmd_vel`
  (`ZeroIsLast`), and `Latest` keeps the last one; once it is taken, a disable frame is in
  `todo` or the motor is off, and no enable frame is (`EmptyDisables`). Moreover the
  composition implements `Gateway!Spec` and `Chassis!Spec`: joined by the topics neither node
  does what it would not do alone, so the theorems about each hold of it here;
  `RobotSystemKeepsParts` states those of them that are about motion.
* `OperatorLinkProofs`: types, `LinkInvariant` (`StopIsTaken`) and `ReleaseStops`. For the
  numbers: along the wire of a lone console they increase, above `last` and up to `sequence`
  (`LoneInOrder`), though the heartbeat thread takes some of them. For the release: from the
  drive back over the wire to the queue of the worker, each motion has a stop behind it or its
  button still held (`ReleaseFollows`). `NothingHeard` and `OffIsIdle` say what a console that
  has not been started cannot have done.
* `LiftBridgeProofs`: `LiftInvariant` (`StatusTellsMotion`, `CleanExitStops`),
  `OkMeansWritten`, `ClickOrder`, `LonePanelIsServed`. The order is a pipeline: what the lift
  took, what the executor works on, what it has queued, what waits for `accept` and what the
  panel has not sent stand one behind the other (`PipelineInOrder`). A request that is done
  has its response, and a response "ok" its frame (`DoneHasResponse`, `ResponseOkIsSent`). A
  closed port shows as a fault (`ClosedIsFault`), which is why a status without one is right.
  As long as one panel is alone, its stream is not gone before its answer (`LoneIsOpen`).
* `NavigationProofs`, the goals: `GoalInvariant` (`LoneGoalIsReachable`), for any `Frontiers`
  with the explorer. A goal whose client is done is over at Nav2 or was never taken
  (`DoneIsOver`), and without an overlap one goal at most is unfinished (`OneUnfinished`): the
  response or result that changes the one handle can then only be this goal's. `Navigation`
  implements `NavGoals!Spec`, so this holds in the window beside the maps.
* `NavigationProofs`, the maps: `NavigationInvariant` (`FilesKeptWhenCalm`) and `PlanFitsMap`.
  While nothing is upset, one change of map at most is under way and it is to the pose graph
  the worker knows (`OneChange`, `ChangesFit`), no export meets a load (`LoadsAlone`), and the
  manager, its relocalisation and the exports write the session that belongs there
  (`PrefixIsSession`, `PoseGraphIsSession`, `ExportsSession`). The prefix is ahead of the session
  only between its change and the load that follows; then the manager saves nothing
  (`ChangesFit`), and while it saves its prefix stays (`SavesPrefix`). A window that closes in
  between makes the state `upset`; one that closes at another moment leaves calls behind which
  take effect all the same. The grid
  the window writes itself may be wrong as long as its save is queued or exported, not
  afterwards (`GridKept`). For way points: the list is about the session of the back end as
  long as no load is queued (`PlannedHere`), and a queued plan as long as no load is ahead of
  it (`QueuedHere`), since a load that comes later clears the list.
* `CameraProofs`, the PTZ camera: `CameraInvariant` (`MovesAreGuarded`) and `StopFollowsMoves`. A try
  that the proxy has not made has not come to the agent (`Untried`); an answer that is waited
  for after a release is stale, so the panel will post the stop (`LateIsStale`). That the list
  of requests stays within its bound needs counting (`Posts`): each press, each answer still
  waited for and the closing bring one stop at most.
* `CameraProofs`, the USB cameras: `RecordingInvariant`, for any number of processes that were
  given up while their command goes on. No step of the panel disturbs a stop that waits at the
  NUC (`StopKept`): it starts processes in free slots only, and a stop whose process was killed
  keeps its slot until the NUC is done with it. A command at the NUC changes its own process
  alone (`AnsweredSlot`), so the one lock stays with the stop that took it (`LockFits`), and a
  start finds no stop under way, and no worker except one that a failed start has left behind
  (`Recorder`). An action without a name has no routes
  left, so a timer that comes late starts nothing.
* `CanDriveProofs`: types and `DriveInvariant` (`DrivenOnlyReleased`, `EnabledIsKnown`). The
  invariant says what the drive has been told when the receiver is at each of its frames
  (`FramesInOrder`): enabled before the release is sent, released before it is driven
  (`DrivingIsReleased`), and off when the receiver stands (`StandingIsOff`), unless a disable
  frame was given up.

Only model-checked:

* the liveness properties of all modules (`StaleMotionStops`, `UnsettledStatesEnd`,
  `EmergencyStopTakesEffect`, `DeadMan`, `ExplorerGoesOn`, `CancelFrees`, `ReleaseStops` of
  the camera, `BeliefSettles`, `CaptureEnds`, `DriveStops`, `OdomSettles`, `StreamReturns`,
  `MatchFollowsLoad`, `UploadTakesEffect`), because the prover does not handle ENABLED and
  with it fairness;
* the types of `Spatial`, whose run has liveness properties alone.

## 6. Where code and documentation disagree

The first is the run `estop_lost`. The others end in the counterexample of the
configuration named with them, which is not a run: `tlc -config X.cfg M`, with the module M
named beside it.

* **An emergency stop may be cleared by an earlier idle** (`estop_lost`), against
  `README.md:83`: mode and emergency stop are different topics without a common order.
* **A refused watchdog stop is never repeated** (`MCChassisLostStop.cfg`, `Chassis`). `on_timer` sets
  its flag whatever `stop_motor` returned (`ros2_node.py:122-125`), so one refused frame
  leaves the drive running until the next command, against `mobile_platform/README.md:81`.
* **A brake may be overtaken** (`MCBrakeOvertaken.cfg`, `RobotSystem`). A velocity that waits in `cmd_vel`
  is handled after the brake, releases it and drives, against `README.md:46`. `stop` is
  safe, since it travels on `cmd_vel` itself (`StopStops`, a part of `SystemInvariant`).
* **The mode that follows a manual twist stops the motor** (`MCManualModeStops.cfg`, `RobotSystem`),
  against `README.md:45` and `:81`: `on_mode` applies a command with zero speed.
* **A second or restarted console is refused, its emergency stop too**
  (`MCSecondConsole.cfg`, `OperatorLink`). All GUIs share one default client_id and number from 1; the robot
  refuses numbers it has seen, against `README.md:47`. As long as one console runs, no stop
  is refused (`StopIsTaken`, a part of `LinkInvariant`), and the dead man's handle works in
  any case (`DeadMan`).
* **A panel that leaves while it is served ends the lift's server**
  (`MCLiftServerEnds.cfg`, `LiftBridge`). `sendall` to a closed connection raises, and the `except` is
  outside the accept loop (`lift_serial_bridge.py:210-211`), against `lift_panel.py:34`. A
  panel alone, that stays, cannot do it (`LonePanelIsServed`).
* **An exit may leave the lift moving** (`MCLiftExit.cfg`, `LiftBridge`). Every failed command, an action
  the bridge does not have included, closes the port, and without a port the exit sends no
  stop, against `scripts/robot320_onboard/README.md:150`. If the last status shows no fault,
  it does (`CleanExitStops`, a part of `LiftInvariant`).
* **Cancel does not reach every goal** (`MCCancelReaches.cfg`, `NavGoals`). The button cancels
  the one `goal_handle` (`navigation_gui.py:1381`): of two goals that overlap the older one
  stays out of its reach, and before Nav2 has answered there is no handle at all, against
  `remote_control/README.md:331`. Unless a goal was sent before the one before it was over,
  a goal is reachable from its acceptance on (`LoneGoalIsReachable`, a part of
  `GoalInvariant`).
* **A stop of a recording may be replaced by the status timer** (`MCStopIsKept.cfg`, `Recording`).
  `run_record_action` looks at `record_process` only (`industrial_camera_panel.py:362`),
  which is None while the stop waits for the tunnel, against `remote_control/README.md:482`.

Disagreements that the models contain and the properties excuse; they have no configuration of
their own:

* **A repeated command is answered again.** A duplicate is refused by its sequence number and
  answered "rejected" under the `command_id` of the command it repeats
  (`fastdds_ros_gateway.py:183-186`), which may have been accepted or completed: a client that
  takes the last reply for the outcome is misled. `ReplyProtocol` allows it for `repeated` alone.
* **A load may leave the map of one place under the name of another.** The manager has its new
  prefix before the map is loaded (`persistent_map_manager.py:53-74`), so a load that fails, or
  that never follows because the window is closed in between, lets the next autosave write the
  old session over the chosen file, against `remote_control/README.md:278-283`. That a load cancels the
  navigation, as it says there, is true only of a load that is not refused
  (`navigation_gui.py:943-950`).
* **A recording nobody knows of.** `STATE` is written after all workers have started
  (`hik_usb_record.py:137-151`). A start that fails in between leaves a worker that no status
  shows and no stop reaches, and the panel's next try starts another one.
* **A process that cannot be started is waited for.** Qt emits `errorOccurred` and not
  `finished`. In the camera panel nobody listens (`industrial_camera_panel.py:385`, `:566`):
  recording actions, or a picture button, are blocked until the panel is opened again; likewise
  the upload of a map (`spatial_panel.py:572`). The radar panel shows "正在重连" for a tunnel or
  a stream (`spatial_panel.py:255`, `:259`) but starts no timer; the tunnel's button helps for
  the first, and for the second only once the tunnel has ended.
* **A localisation request that is too slow is answered without its id**
  (`spatial_bridge.py:252-253`), so the panel goes on waiting for that answer
  (`pending_mapping_request`) while systemd carries the request out; and a service that is
  called active may end without AMCL (`start_spatial_localization.sh:12-16`).
* **The bridge is not restarted.** It is an `ExecuteProcess` without `respawn`
  (`spatial_sensors.launch.py:16`), and the `Restart=on-failure` of its unit sees the launch,
  which goes on.

Weaknesses that contradict no text, each in the hazards with its line: a disable frame
refused three times is forgotten; Nav2's restart leaves the
window a handle that answers nothing; the automatic match is sent once, 500 ms after the
unit's "active", and not again when the bridge is not yet up; the WAN side gives a
request a new time stamp, so an old one is never too old.

## 7. Plan

Done: the chain from the operator to the drive, the two drive chains, navigation and maps
with their window, the camera and recording links, the radar and map link, and proofs of the
safety of everything that moves: chassis, gateway, both together, operator link, lift, goals,
maps, PTZ and USB cameras, CAN drive. What could follow:

1. A safety invariant of `Spatial` that is worth a proof, beyond its types.
2. The keyboard teleoperation as another publisher of `RobotSystem`.

## 8. Not modelled

* **Network failover**: one loop with one counter, whose effect is the route metric of
  NetworkManager and the units of systemd. What could go wrong (a failing `nmcli` after the
  services were stopped, `network_failover.py:77`) is a question about those two.
* **Video streams and link switch**: processes of ffmpeg started again when they end; no
  state beyond "runs", no command whose effect could be lost.
* **Demo transport**: a robot simulated in the GUI's own process, one thread, no failure.
* **Velocity relay, scan restamper, keyboard teleoperation**: relays of one message with a
  timeout, used with the simulator.
* **CAN codec and sensor helpers**: arithmetic on bytes and floating point, without state.
  `Chassis` and `CanDrive` take a frame for what it means. Likewise drawing, display and
  `map_model.py`.
* **LiDAR driver, its queues, RapidJSON, the preprocessing filter**: the vendor's code,
  used as it came.
* **Simulation, robot description, launch files**: configuration of third-party programs.

Within the modelled parts: `Gateway` has no feedback, telemetry, heartbeats or exceptions
inside `_dispatch`; `OperatorLink` no replies and no `set_mode`; `LiftBridge` no client that
connects and stays silent; `CanDrive` no pose; `Navigation` no sensor readings and no widget
that changes nothing else; `Recording` no downloads and no second camera; `Spatial` no radar
or pose messages. The notes of the components in `PROJECT.json` say so one by one.
