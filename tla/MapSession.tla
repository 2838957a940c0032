----------------------------- MODULE MapSession -----------------------------
(***************************************************************************)
(* The map the back end works on and the files it is kept in: the map part *)
(* of the navigation window's worker (navigation_gui.py), the manager that *)
(* saves the running session every 30 s (persistent_map_manager.py), and   *)
(* SLAM Toolbox or the map server, which are external.                     *)
(*                                                                         *)
(* A session is what was mapped in one place; it is named after the file   *)
(* that first held it.  A file pair (pose graph, grid) is one name: the    *)
(* worker and the manager pass its prefix around.                          *)
(*                                                                         *)
(* A call takes effect where it is answered, whether or not the window     *)
(* that sent it is still there, and calls are answered in any order.  The  *)
(* answers the worker acts upon wait among the calls for its thread; once  *)
(* the worker has shut down nobody waits for them.  save_interval is       *)
(* longer than the worker and SLAM Toolbox take for a load, so the         *)
(* autosave (whose clock a new prefix resets) does not start between the   *)
(* change of the prefix and the end of the load that follows it, where one *)
(* does; the service that saves on demand may.                             *)
(***************************************************************************)
EXTENDS Integers

CONSTANTS
  Files,     \* names of saved sessions; each holds its own at the beginning
  Home,      \* the one the back end starts with
  Backends   \* "slam", "amcl"

VARIABLES
  backend,    \* _localization_backend: which services there are
  managed,    \* the manager runs beside SLAM Toolbox
  session,    \* what the back end works on
  files,      \* what the files hold
  prefix,     \* PersistentMapManager._prefix
  saving,     \* its _busy: the call it waits for, with the file of the request
  poseGraph,  \* NavigationWorker.pose_graph
  calls,      \* calls of the worker, and answers it has not seen
  closed,     \* the worker has shut down
  owner,      \* history: the session the operator means a file to hold
  upset       \* history: a change of map or a save was refused or failed,
              \* the two met, or a load never followed the change of prefix

managerVars == <<prefix, saving>>
historyVars == <<owner, upset>>

Answers == {"prefixed", "refused", "exported"}
Op == {"prefix", "load", "reload", "static", "graph", "grid"} \cup Answers
Idle == [call |-> "none", file |-> Home]

TypeOK ==
  /\ backend \in {"slam", "amcl"} /\ managed \in BOOLEAN
  /\ session \in Files
  /\ files \in [Files -> [graph : Files, grid : Files]]
  /\ prefix \in Files /\ poseGraph \in Files
  /\ saving \in [call : {"none", "graph", "grid"}, file : Files]
  /\ calls \subseteq [op : Op, file : Files]
  /\ owner \in [Files -> Files] /\ upset \in BOOLEAN

Call(op, f) == [op |-> op, file |-> f]
Answer(op, f) == IF closed THEN {} ELSE {Call(op, f)}
Change == {"prefix", "prefixed", "load", "reload", "static"}
Changing == \E c \in calls : c.op \in Change
Exporting(f) == \E c \in calls : c.op \in {"graph", "exported", "grid"} /\ c.file = f
Busy == saving.call # "none"

-----------------------------------------------------------------------------
Init ==
  /\ backend \in Backends
  /\ managed \in IF backend = "slam" THEN BOOLEAN ELSE {FALSE}
  /\ session = Home
  /\ files = [f \in Files |-> [graph |-> f, grid |-> f]]
  /\ prefix = Home
  /\ saving = Idle
  /\ poseGraph = Home
  /\ calls = {}
  /\ owner = [f \in Files |-> f]
  /\ upset = FALSE

\* save_map_session(f).  Without the services only the grid is saved.
SaveSession(f) ==
  /\ \/ /\ backend = "slam"
        /\ calls' = calls \cup {Call("graph", f)}
        /\ upset' = (upset \/ Changing)
     \/ /\ UNCHANGED calls
        /\ upset' = (upset \/ Changing \/ backend = "slam")
  /\ owner' = [owner EXCEPT ![f] = session]
  /\ UNCHANGED <<backend, managed, session, files, managerVars, poseGraph>>

\* load_map_session(f), past its refusals.  A manager that is not found goes
\* on saving under its old prefix.
LoadSession(f) ==
  \E op \in IF backend = "amcl" THEN {"static"}
            ELSE IF managed THEN {"prefix", "load"} ELSE {"load"} :
    /\ calls' = calls \cup {Call(op, f)}
    /\ poseGraph' = IF backend = "slam" THEN f ELSE poseGraph
    /\ upset' = (upset \/ Changing \/ (\E g \in Files : Exporting(g))
                   \/ (op = "load" /\ managed))
    /\ UNCHANGED <<backend, managed, session, files, managerVars, owner>>

\* _relocalize_slam: the pose graph is loaded anew; AMCL is told a pose, which
\* set_initial_pose does too when SLAM Toolbox does not answer.
Relocalize ==
  /\ \/ backend = "slam" /\ calls' = calls \cup {Call("reload", poseGraph)}
     \/ UNCHANGED calls
  /\ upset' = (upset \/ Changing)
  /\ UNCHANGED <<backend, managed, session, files, managerVars, poseGraph, owner>>

\* _on_map_prefix_changed.
OnMapPrefixChanged(f) ==
  /\ \/ /\ Call("prefixed", f) \in calls
        /\ calls' = (calls \ {Call("prefixed", f)}) \cup {Call("load", f)}
     \/ /\ Call("refused", f) \in calls
        /\ calls' = calls \ {Call("refused", f)}
  /\ UNCHANGED <<backend, managed, session, files, managerVars, poseGraph, historyVars>>

\* _on_pose_graph_exported.
OnPoseGraphExported(f) ==
  /\ Call("exported", f) \in calls
  /\ calls' = (calls \ {Call("exported", f)}) \cup {Call("grid", f)}
  /\ UNCHANGED <<backend, managed, session, files, managerVars, poseGraph, historyVars>>

\* shutdown: the node is destroyed, and with it the answers on their way.
WorkerGone ==
  /\ calls' = {c \in calls : c.op \notin Answers}
  /\ upset' = (upset \/ \E c \in calls : c.op = "prefixed")
  /\ UNCHANGED <<backend, managed, session, files, managerVars, poseGraph, owner>>

-----------------------------------------------------------------------------
\* SLAM Toolbox and the map server.
Loaded(c) ==
  /\ c \in calls /\ c.op \in {"load", "reload", "static"}
  /\ calls' = calls \ {c}
  /\ \/ /\ session' = IF c.op = "static" THEN files[c.file].grid
                      ELSE files[c.file].graph
        /\ UNCHANGED upset
     \/ upset' = TRUE /\ UNCHANGED session
  /\ UNCHANGED <<backend, managed, files, managerVars, poseGraph, owner>>

GraphExported(f) ==
  /\ Call("graph", f) \in calls
  /\ \/ /\ files' = [files EXCEPT ![f].graph = session]
        /\ calls' = (calls \ {Call("graph", f)}) \cup Answer("exported", f)
        /\ UNCHANGED upset
     \/ /\ calls' = calls \ {Call("graph", f)}
        /\ upset' = TRUE
        /\ UNCHANGED files
  /\ UNCHANGED <<backend, managed, session, managerVars, poseGraph, owner>>

GridExported(f) ==
  /\ Call("grid", f) \in calls
  /\ calls' = calls \ {Call("grid", f)}
  /\ \/ files' = [files EXCEPT ![f].grid = session] /\ UNCHANGED upset
     \/ upset' = TRUE /\ UNCHANGED files
  /\ UNCHANGED <<backend, managed, session, managerVars, poseGraph, owner>>

-----------------------------------------------------------------------------
\* Mutant: the manager takes a new prefix while it saves.
OnParametersBusy(f) ==
  /\ Call("prefix", f) \in calls
  /\ prefix' = f
  /\ calls' = (calls \ {Call("prefix", f)}) \cup Answer("prefixed", f)
  /\ upset' = (upset \/ closed)
  /\ UNCHANGED <<backend, managed, session, files, saving, poseGraph, owner>>

\* PersistentMapManager._on_parameters: the new prefix holds from here on,
\* before the session of that name is loaded.
OnParameters(f) ==
  /\ Call("prefix", f) \in calls
  /\ IF Busy
     THEN /\ calls' = (calls \ {Call("prefix", f)}) \cup Answer("refused", f)
          /\ upset' = TRUE
          /\ UNCHANGED prefix
     ELSE /\ prefix' = f
          /\ calls' = (calls \ {Call("prefix", f)}) \cup Answer("prefixed", f)
          /\ upset' = (upset \/ closed)
  /\ UNCHANGED <<backend, managed, session, files, saving, poseGraph, owner>>

\* _request_save.
RequestSave ==
  /\ managed /\ ~Busy
  /\ saving' = [call |-> "graph", file |-> prefix]
  /\ UNCHANGED <<backend, managed, session, files, prefix, poseGraph, calls, owner>>

\* _tick.
Autosave ==
  /\ {Call("prefixed", prefix), Call("load", prefix)} \cap calls = {}
  /\ RequestSave
  /\ UNCHANGED upset

\* _save_service: /robot320/save_persistent_map.
SaveService ==
  /\ RequestSave
  /\ upset' = (upset \/ Changing)

\* _posegraph_saved: the second request has the prefix of that moment.
PoseGraphSaved ==
  /\ saving.call = "graph"
  /\ \/ /\ files' = [files EXCEPT ![saving.file].graph = session]
        /\ saving' = [call |-> "grid", file |-> prefix]
     \/ saving' = Idle /\ UNCHANGED files
  /\ UNCHANGED <<backend, managed, session, prefix, poseGraph, calls, historyVars>>

\* _map_saved.
MapSaved ==
  /\ saving.call = "grid"
  /\ saving' = Idle
  /\ \/ files' = [files EXCEPT ![saving.file].grid = session]
     \/ UNCHANGED files
  /\ UNCHANGED <<backend, managed, session, prefix, poseGraph, calls, historyVars>>

Service ==
  \/ \E c \in calls : Loaded(c)
  \/ \E f \in Files : GraphExported(f) \/ GridExported(f)
WorkerCallback == \E f \in Files : OnMapPrefixChanged(f) \/ OnPoseGraphExported(f)
Manager == \/ \E f \in Files : OnParameters(f)
           \/ Autosave \/ SaveService \/ PoseGraphSaved \/ MapSaved
=============================================================================
