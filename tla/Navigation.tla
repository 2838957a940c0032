----------------------------- MODULE Navigation -----------------------------
(***************************************************************************)
(* The navigation window (NavigationWindow of navigation_gui.py) with its  *)
(* worker: NavGoals and MapSession together, beside the manager that saves *)
(* the running map.  The explorer, the other client of Nav2, is left to    *)
(* NavGoals alone.                                                         *)
(*                                                                         *)
(* The window emits signals, which the worker's thread takes in order and  *)
(* between ROS callbacks.  Loading a map shows the file at once, while the *)
(* back end still works on the old one, whose next message the window      *)
(* shows again.  A way point is known by the map it was chosen on.         *)
(***************************************************************************)
EXTENDS GoalState

CONSTANTS Files, Home, Backends,
  MaxClicks,    \* buttons that emit a signal
  MaxWaypoints  \* length of the list

ASSUME NavigationAssumption ==
  /\ {MaxClicks, MaxWaypoints} \subseteq Nat
  /\ Home \in Files /\ Backends \subseteq {"slam", "amcl"}

VARIABLES backend, managed, session, files, prefix, saving, poseGraph, calls,
          owner, upset
VARIABLES
  window,     \* the window has not been closed
  clicks,     \* signals emitted (bound)
  toWorker,   \* signals the worker has not taken
  shown,      \* NavigationWindow.snapshot: the session of the map on screen
  waypoints,  \* NavigationWindow.waypoints
  executed    \* history: the way points the worker took last, and whether
              \* the map was settled when they were chosen

goalVars == <<goals, handle, exActive, exHandle, failed, frontiers, closed,
              restarts, overlap>>
mapVars == <<backend, managed, session, files, prefix, saving, poseGraph,
             calls, owner, upset>>
windowVars == <<window, clicks, shown, waypoints>>
vars == <<goalVars, mapVars, windowVars, toWorker, executed>>

G == INSTANCE NavGoals
M == INSTANCE MapSession

Waypoint == [on : Files, settled : BOOLEAN]
Plan == UNION {[1..n -> Waypoint] : n \in 0..MaxWaypoints}
Signal == [do : {"goal", "cancel", "pose", "relocalize", "shutdown"}]
            \cup [do : {"load", "save"}, file : Files]
            \cup [do : {"waypoints"}, plan : Plan]

TypeOK ==
  /\ GoalTypeOK /\ M!TypeOK
  /\ window \in BOOLEAN
  /\ clicks \in 0..MaxClicks
  /\ toWorker \in Seq(Signal) /\ Len(toWorker) <= MaxClicks + 1
  /\ shown \in Files
  /\ waypoints \in Plan /\ executed \in Plan

\* No load or relocalisation is on its way.
Queued(d) == \E i \in DOMAIN toWorker : toWorker[i].do = d
Settled == ~M!Changing /\ ~Queued("load")

-----------------------------------------------------------------------------
Init ==
  /\ G!Init /\ M!Init
  /\ window = TRUE
  /\ clicks = 0
  /\ toWorker = <<>>
  /\ shown = Home
  /\ waypoints = <<>>
  /\ executed = <<>>

Emit(signal) ==
  /\ window
  /\ clicks < MaxClicks
  /\ clicks' = clicks + 1
  /\ toWorker' = Append(toWorker, signal)
  /\ UNCHANGED <<window, executed, goalVars>>

\* _send_goal, the cancel button, _set_initial_pose, the relocalise button.
Click ==
  /\ \E d \in {"goal", "cancel", "pose", "relocalize"} : Emit([do |-> d])
  /\ UNCHANGED <<shown, waypoints, mapVars>>

\* _add_waypoint with a pose chosen on the map on screen.
AddWaypoint ==
  /\ window
  /\ Len(waypoints) < MaxWaypoints
  /\ waypoints' = Append(waypoints, [on |-> shown, settled |-> Settled /\ shown = session])
  /\ UNCHANGED <<window, clicks, shown, toWorker, executed, goalVars, mapVars>>

\* _execute_waypoints: the list is copied.
ExecuteWaypoints ==
  /\ waypoints # <<>>
  /\ Emit([do |-> "waypoints", plan |-> waypoints])
  /\ UNCHANGED <<shown, waypoints, mapVars>>

\* Mutant: the list is kept.
LoadKeepsWaypoints ==
  /\ \E f \in Files : Emit([do |-> "load", file |-> f]) /\ shown' = files[f].grid
  /\ UNCHANGED <<waypoints, mapVars>>

\* _load_map_file: the list is cleared and the file shown.
LoadMapFile ==
  /\ \E f \in Files : Emit([do |-> "load", file |-> f]) /\ shown' = files[f].grid
  /\ waypoints' = <<>>
  /\ UNCHANGED mapVars

\* _save_current_map: the grid on screen is written at once.
SaveCurrentMap ==
  /\ \E f \in Files :
       /\ Emit([do |-> "save", file |-> f])
       /\ files' = [files EXCEPT ![f].grid = shown]
       /\ upset' = (upset \/ shown # session \/ ~Settled)
  /\ UNCHANGED <<shown, waypoints, backend, managed, session, prefix, saving,
                 poseGraph, calls, owner>>

\* _on_map: a message of the back end.
OnMap ==
  /\ window
  /\ shown' = session
  /\ UNCHANGED <<window, clicks, waypoints, toWorker, executed, goalVars, mapVars>>

\* closeEvent: shutdown is queued behind the signals and waited for.
Close ==
  /\ window
  /\ window' = FALSE
  /\ toWorker' = Append(toWorker, [do |-> "shutdown"])
  /\ UNCHANGED <<clicks, shown, waypoints, executed, goalVars, mapVars>>

-----------------------------------------------------------------------------
Take(d) ==
  /\ toWorker # <<>>
  /\ Head(toWorker).do = d
  /\ toWorker' = Tail(toWorker)
  /\ UNCHANGED windowVars

\* send_goal
SendGoal ==
  /\ Take("goal") /\ G!SendGoal
  /\ UNCHANGED <<executed, mapVars>>

\* send_waypoints
SendWaypoints ==
  /\ Take("waypoints") /\ G!SendGoal
  /\ executed' = IF handle = 0 THEN Head(toWorker).plan ELSE executed
  /\ UNCHANGED mapVars

\* cancel_goal
CancelGoal ==
  /\ Take("cancel") /\ G!CancelGoal
  /\ UNCHANGED <<executed, mapVars>>

\* save_map_session
SaveMapSession ==
  /\ Take("save") /\ M!SaveSession(Head(toWorker).file)
  /\ UNCHANGED <<executed, goalVars>>

\* load_map_session: without the session's files or without the service to load
\* it, the back end and the goal are left as they are.
LoadMapSession ==
  /\ Take("load")
  /\ \/ M!LoadSession(Head(toWorker).file) /\ G!CancelActiveGoal
     \/ UNCHANGED <<goalVars, mapVars>>
  /\ UNCHANGED executed

\* set_initial_pose and global_relocalize, which do the same to the state, and
\* may be refused for the same reasons.
Relocalize ==
  /\ Take("pose") \/ Take("relocalize")
  /\ \/ M!Relocalize /\ G!CancelActiveGoal
     \/ UNCHANGED <<goalVars, mapVars>>
  /\ UNCHANGED executed

\* shutdown; the node is gone, so that no callback runs any more.
Shutdown ==
  /\ Take("shutdown") /\ G!Shutdown /\ M!WorkerGone
  /\ UNCHANGED executed

Slot == \/ SendGoal \/ SendWaypoints \/ CancelGoal \/ SaveMapSession
        \/ LoadMapSession \/ Relocalize \/ Shutdown

Unrelated == UNCHANGED <<windowVars, toWorker, executed>>
GoalCallback == G!WindowCallback /\ UNCHANGED mapVars /\ Unrelated
MapCallback == ~closed /\ M!WorkerCallback /\ UNCHANGED goalVars /\ Unrelated
MapService == M!Service /\ UNCHANGED goalVars /\ Unrelated
ManagerStep == M!Manager /\ UNCHANGED goalVars /\ Unrelated
Nav2 == G!Nav2Step /\ UNCHANGED mapVars /\ Unrelated

Operator == \/ Click \/ AddWaypoint \/ ExecuteWaypoints \/ LoadMapFile
            \/ SaveCurrentMap \/ Close

Next == \/ Operator \/ OnMap \/ Slot
        \/ GoalCallback \/ MapCallback \/ MapService \/ ManagerStep \/ Nav2

Spec == Init /\ [][Next]_vars

-----------------------------------------------------------------------------
\* As long as changes of map and saves are neither refused nor mixed, and the
\* window is not closed between a change of the prefix and the load, every file
\* holds the session it is meant to hold, whatever the autosave does and however
\* late the calls of a window that is gone take effect.
Written(f) ==
  /\ ~M!Exporting(f)
  /\ \A i \in DOMAIN toWorker : toWorker[i] # [do |-> "save", file |-> f]
FilesKept ==
  backend = "slam" =>
    \A f \in Files : Written(f) => files[f] = [graph |-> owner[f], grid |-> owner[f]]
FilesKeptWhenCalm == ~upset => FilesKept

\* Way points that were chosen on the map of the back end, with no other on
\* its way, are executed on that map.
PlanFitsMap ==
  [][SendWaypoints /\ handle = 0 /\ ~upset =>
       \A i \in DOMAIN executed' : executed'[i].settled => executed'[i].on = session]_vars

\* Types, and that the files keep their sessions.
NavigationInvariant == TypeOK /\ FilesKeptWhenCalm
=============================================================================
