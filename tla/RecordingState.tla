--------------------------- MODULE RecordingState ---------------------------
(***************************************************************************)
(* The panel of the two USB cameras, the processes it runs over SSH, and   *)
(* the recorder and the still capture at the NUC: what each keeps, and     *)
(* what every state of them satisfies.  Recording says what they do.       *)
(***************************************************************************)
EXTENDS Integers, Sequences, FiniteSets

CONSTANTS
  Links,      \* settings of link_selector: "local", "auto", "lan", "cloud"
  Slots,      \* processes that run at the same time, numbered from 1
  MaxClicks,  \* buttons pressed
  MaxTries,   \* timers that an action which waits for the tunnel may add to
  MaxLosses   \* processes without an answer or that cannot be started, failed
              \* starts of the recorder, and failures of the tunnel

ASSUME RecordingAssumption ==
  /\ Links \subseteq {"local", "auto", "lan", "cloud"}
  /\ Slots \subseteq Nat \ {0}
  /\ {MaxClicks, MaxTries, MaxLosses} \subseteq Nat

VARIABLES
  link, tunnel,   \* link_mode; the tunnel is Running
  action, routes, current,  \* record_action, record_routes, record_process
  tries,          \* timers that will call _try_record_action
  recording,      \* what the panel believes; record_timer is active
  startOn, stopOn, captureOn,  \* enabled buttons
  process,        \* the processes of run_record_action
  capture,        \* capture_routes and capture_processes of the camera
  shots,          \* snapshot commands the NUC has been given
  worker,         \* the worker process of the camera that STATE names
  strays,         \* how many live workers of the camera STATE does not name
  device,         \* who has opened the camera
  lock,           \* CONTROL_LOCK: the slot of a stop that waits, or 0
  clicks, losses, \* bounds
  doubled,        \* history: a worker was started beside another one
  orphaned        \* history: a start failed after its worker was started

Route == {"local", "lan", "cloud"}
Routes == UNION {[1..n -> Route] : n \in 0..2}
Action == {"start", "stop", "status", "list"}

Free == [action |-> "status", local |-> "free", remote |-> "over", says |-> FALSE]
\* One that could not be started: Qt emits no finished for it.
Unstarted == [Free EXCEPT !.local = "failed"]
Process == [action : Action, local : {"free", "running", "gone", "failed"},
            remote : {"asked", "waiting", "answered", "refused", "over"}, says : BOOLEAN]
NoCapture == [routes |-> <<>>, busy |-> FALSE, running |-> FALSE, unstarted |-> FALSE,
              tries |-> 0, got |-> FALSE]
Capture == [routes : Routes, busy : BOOLEAN, running : BOOLEAN, unstarted : BOOLEAN,
            tries : 0..1, got : BOOLEAN]

RecordingTypeOK ==
  /\ link \in Links /\ tunnel \in BOOLEAN
  /\ action \in Action \cup {""} /\ routes \in Routes
  /\ current \in Slots \cup {0} /\ tries \in Nat
  /\ {recording, startOn, stopOn, captureOn, doubled, orphaned} \subseteq BOOLEAN
  /\ process \in [Slots -> Process]
  /\ capture \in Capture
  /\ shots \in [asked : Nat, taking : BOOLEAN]
  /\ worker \in {"off", "opening", "on", "ending"}
  /\ strays \in Nat
  /\ device \in {"none", "worker", "stray", "snapshot"}
  /\ lock \in Slots \cup {0}
  /\ clicks \in 0..MaxClicks /\ losses \in 0..MaxLosses

-----------------------------------------------------------------------------
\* However often a start is tried again over another route while the one
\* before it is still under way, a camera gets no second worker: unless a start
\* failed between its worker and STATE, which the next one cannot know of.
OneWorker == doubled \/ strays > 0 => orphaned

\* The camera is held by the one that uses it: a worker that records has
\* opened it itself, a worker that has gone has let go of it, and a picture is
\* taken with the camera in hand.
CameraHeld ==
  /\ worker = "on" => device = "worker"
  /\ device = "worker" => worker \in {"on", "ending"}
  /\ device = "stray" => strays > 0
  /\ shots.taking <=> device = "snapshot"
  /\ shots.taking => shots.asked > 0

\* The lock belongs to one stop, whose process may be gone, and while it waits
\* for the worker that STATE names no other one begins.
StopHoldsLock ==
  /\ \A s \in Slots : process[s].remote = "waiting" <=> lock = s
  /\ \A s \in Slots : lock = s => process[s].action = "stop" /\ process[s].local # "free"
  /\ lock # 0 => worker \in {"off", "ending"}

\* record_process could not be started: nothing resets it but a timer that
\* was left from an earlier try.
Stranded == current # 0 /\ process[current].local = "failed"

\* The panel waits only for what can still answer it: record_process runs, an
\* action that is not over has a process or a timer, and so has a picture.  The
\* one exception is a process that could not be started.
PanelGoesOn ==
  /\ current # 0 => process[current].local = "running" \/ Stranded
  /\ action # "" => current # 0 \/ tries > 0
  /\ capture.busy <=> capture.running \/ capture.tries = 1 \/ capture.unstarted

\* What every state of panel and NUC satisfies.
RecordingInvariant == RecordingTypeOK /\ OneWorker /\ CameraHeld /\ StopHoldsLock /\ PanelGoesOn
=============================================================================
