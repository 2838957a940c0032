----------------------------- MODULE Recording -----------------------------
(***************************************************************************)
(* The two USB cameras on the NUC: the operator's panel                    *)
(* (industrial_camera_panel.py), the recorder it runs over SSH             *)
(* (hik_usb_record.py) and the still capture (hik_usb_snapshot.py).        *)
(*                                                                         *)
(* An action of the panel tries its routes one after another, each in a    *)
(* process of its own: the LAN first and then the tunnel through the cloud *)
(* server, for which it waits as long as it is down, trying again every    *)
(* second.  A process ends with an answer, with none, or is killed after   *)
(* 20 s (30 s for a picture) while the command goes on at the NUC; one     *)
(* that cannot be started never ends, since only finished is listened to.  *)
(* The timer that asks for the status every second is one more source of   *)
(* actions.  Buttons are enabled when _update_buttons runs, and only then. *)
(*                                                                         *)
(* The recorder starts its workers first and writes their numbers to STATE *)
(* last: a start that fails in between leaves a worker no command knows.   *)
(*                                                                         *)
(* One camera stands for both; their workers do not depend on each other.  *)
(***************************************************************************)
EXTENDS RecordingState

buttonVars == <<startOn, stopOn, captureOn>>
actionVars == <<action, routes, current, tries, recording, process>>
captureVars == <<capture, shots>>
nucVars == <<worker, strays, device, lock, doubled, orphaned>>
vars == <<link, tunnel, actionVars, buttonVars, captureVars, nucVars, clicks, losses>>

RoutesOf(mode) == CASE mode = "auto" -> <<"lan", "cloud">> [] OTHER -> <<mode>>
\* active_status: STATE names a worker that is alive.
Recorded == worker # "off"
RouteReady == link # "cloud" \/ tunnel

-----------------------------------------------------------------------------
\* _update_buttons, with the values that the step leaves behind.
UpdateButtons ==
  /\ startOn' = (current' = 0 /\ ~recording' /\ (link' # "cloud" \/ tunnel'))
  /\ stopOn' = (current' = 0 /\ recording' /\ (link' # "cloud" \/ tunnel'))
  /\ captureOn' = (~capture'.busy /\ ~recording' /\ (link' # "cloud" \/ tunnel'))

Init ==
  /\ link \in Links
  /\ tunnel = FALSE
  /\ action = "" /\ routes = <<>> /\ current = 0 /\ tries = 0
  /\ recording = FALSE
  /\ startOn = (link # "cloud") /\ stopOn = FALSE /\ captureOn = (link # "cloud")
  /\ process = [s \in Slots |-> Free]
  /\ capture = NoCapture
  /\ shots = [asked |-> 0, taking |-> FALSE]
  /\ worker = "off" /\ strays = 0 /\ device = "none" /\ lock = 0
  /\ doubled = FALSE /\ orphaned = FALSE
  /\ clicks = 0 /\ losses = 0

Click == clicks < MaxClicks /\ clicks' = clicks + 1
Fault == losses < MaxLosses /\ losses' = losses + 1

\* A slot for a process: record_process stands for one that could not be
\* started only until it is replaced.
Idle(s) == process[s] = Free \/ (process[s] = Unstarted /\ current # s)

\* _try_record_action, with n other timers running.
Try(a, rs, n) ==
  /\ UNCHANGED recording
  /\ \/ /\ rs = <<>>
        /\ action' = "" /\ routes' = <<>> /\ tries' = n
        /\ UNCHANGED <<current, process, captureVars, link, tunnel, losses>>
        /\ UpdateButtons
     \/ /\ rs # <<>> /\ Head(rs) = "cloud" /\ ~tunnel
        /\ n < tries \/ n < MaxTries
        /\ action' = a /\ routes' = rs /\ tries' = n + 1
        /\ UNCHANGED <<current, process, captureVars, link, tunnel, buttonVars, losses>>
     \/ /\ rs # <<>> /\ (Head(rs) = "cloud" => tunnel)
        /\ \E s \in Slots, started \in BOOLEAN :
             /\ Idle(s)
             /\ \A q \in Slots : Idle(q) => s <= q
             /\ process' = [process EXCEPT ![s] =
                              IF started
                              THEN [action |-> a, local |-> "running", remote |-> "asked",
                                    says |-> FALSE]
                              ELSE Unstarted]
             /\ current' = s
             /\ IF started THEN UNCHANGED losses ELSE Fault
        /\ action' = a /\ routes' = Tail(rs) /\ tries' = n
        /\ UNCHANGED <<captureVars, link, tunnel>>
        /\ UpdateButtons

\* run_record_action.
Run(a) ==
  IF current # 0
  THEN UNCHANGED <<actionVars, buttonVars, captureVars, link, tunnel, losses>>
  ELSE Try(a, IF a = "list" /\ link # "local" THEN <<"lan">> ELSE RoutesOf(link), tries)

\* The buttons, and refresh_records, which looks for the LAN first.
ClickRecord ==
  /\ Click
  /\ \/ startOn /\ Run("start")
     \/ stopOn /\ Run("stop")
     \/ Run("list")
  /\ UNCHANGED nucVars

\* record_timer.
Tick ==
  /\ recording /\ current = 0
  /\ Run("status")
  /\ UNCHANGED <<nucVars, clicks>>

\* The timers of _try_record_action, 1 s or none after they were set.
Retry ==
  /\ tries > 0
  /\ Try(action, routes, tries - 1)
  /\ UNCHANGED <<nucVars, clicks>>

\* Mutant: record_process is only reset when the action is over.
FinishKeepsProcess(s, valid, slot) ==
  /\ UNCHANGED <<link, tunnel, captureVars, nucVars, clicks>>
  /\ process' = [process EXCEPT ![s] = slot]
  /\ IF ~valid /\ routes # <<>>
     THEN /\ tries' = tries + 1
          /\ UNCHANGED <<action, routes, recording, current, buttonVars>>
     ELSE /\ routes' = <<>> /\ action' = "" /\ UNCHANGED tries
          /\ recording' = IF valid /\ action # "list" THEN process[s].says ELSE recording
          /\ current' = IF valid THEN 0 ELSE current
          /\ UpdateButtons

\* _record_finished, with what becomes of the slot.
Finish(s, valid, slot) ==
  /\ UNCHANGED <<link, tunnel, captureVars, nucVars, clicks>>
  /\ process' = [process EXCEPT ![s] = slot]
  /\ current' = 0
  /\ IF ~valid /\ routes # <<>>
     THEN /\ tries' = tries + 1
          /\ UNCHANGED <<action, routes, recording, buttonVars>>
     ELSE /\ routes' = <<>> /\ action' = ""
          /\ recording' = IF valid /\ action # "list" THEN process[s].says ELSE recording
          /\ UNCHANGED tries
          /\ UpdateButtons

\* The process has ended with an answer of the NUC.
Finished(s) ==
  /\ process[s].local = "running" /\ process[s].remote \in {"answered", "refused"}
  /\ Finish(s, process[s].remote = "answered", Free)
  /\ UNCHANGED losses

\* The connection failed, or 20 s are over and the NUC goes on by itself.
Failed(s) ==
  /\ process[s].local = "running" /\ process[s].remote \in {"asked", "waiting"}
  /\ Fault
  /\ \/ process[s].remote = "asked" /\ Finish(s, FALSE, Free)
     \/ Finish(s, FALSE, [process[s] EXCEPT !.local = "gone"])

-----------------------------------------------------------------------------
\* capture, _try_capture.
TryCapture(rs) ==
  /\ \/ /\ rs = <<>>
        /\ capture' = NoCapture
        /\ UNCHANGED <<actionVars, link, tunnel, shots, losses>>
        /\ UpdateButtons
     \/ /\ rs # <<>> /\ Head(rs) = "cloud" /\ ~tunnel
        /\ capture' = [NoCapture EXCEPT !.busy = TRUE, !.routes = rs, !.tries = 1]
        /\ captureOn' = FALSE
        /\ UNCHANGED <<actionVars, link, tunnel, startOn, stopOn, shots, losses>>
     \/ /\ rs # <<>> /\ (Head(rs) = "cloud" => tunnel)
        /\ Fault
        /\ capture' = [NoCapture EXCEPT !.busy = TRUE, !.routes = Tail(rs), !.unstarted = TRUE]
        /\ captureOn' = FALSE
        /\ UNCHANGED <<actionVars, link, tunnel, startOn, stopOn, shots>>
     \/ /\ rs # <<>> /\ (Head(rs) = "cloud" => tunnel)
        /\ capture' = [NoCapture EXCEPT !.busy = TRUE, !.routes = Tail(rs), !.running = TRUE]
        /\ shots' = [shots EXCEPT !.asked = @ + 1]
        /\ captureOn' = FALSE
        /\ UNCHANGED <<actionVars, link, tunnel, startOn, stopOn, losses>>

ClickCapture ==
  /\ captureOn /\ ~capture.busy
  /\ Click
  /\ TryCapture(RoutesOf(link))
  /\ UNCHANGED nucVars

RetryCapture ==
  /\ capture.tries = 1
  /\ TryCapture(capture.routes)
  /\ UNCHANGED <<nucVars, clicks>>

\* Mutant: after a failure the next route is not tried.
CaptureFinishedHangs(valid) ==
  /\ capture.running
  /\ capture.got \/ ~valid
  /\ IF valid \/ capture.routes = <<>>
     THEN capture' = NoCapture /\ UNCHANGED <<actionVars, link, tunnel, shots>> /\ UpdateButtons
     ELSE /\ capture' = [capture EXCEPT !.running = FALSE]
          /\ UNCHANGED <<actionVars, buttonVars, link, tunnel, shots>>
  /\ IF valid \/ capture.got THEN UNCHANGED losses ELSE Fault
  /\ UNCHANGED <<nucVars, clicks>>

\* _capture_finished: with a picture, or without one when the camera could not
\* be opened, the connection failed or 30 s were over.
CaptureFinished(valid) ==
  /\ capture.running
  /\ capture.got \/ ~valid
  /\ IF valid \/ capture.routes = <<>>
     THEN capture' = NoCapture /\ UNCHANGED <<actionVars, link, tunnel, shots>> /\ UpdateButtons
     ELSE /\ capture' = [capture EXCEPT !.running = FALSE, !.tries = 1, !.got = FALSE]
          /\ UNCHANGED <<actionVars, buttonVars, link, tunnel, shots>>
  /\ IF valid \/ capture.got THEN UNCHANGED losses ELSE Fault
  /\ UNCHANGED <<nucVars, clicks>>

-----------------------------------------------------------------------------
\* start_tunnel, _tunnel_ready; _tunnel_failed, which another try follows.
TunnelReady ==
  /\ ~tunnel /\ link # "local"
  /\ tunnel' = TRUE
  /\ UNCHANGED <<link, actionVars, captureVars, nucVars, clicks, losses>>
  /\ UpdateButtons

TunnelFailed ==
  /\ tunnel /\ Fault
  /\ tunnel' = FALSE
  /\ UNCHANGED <<link, actionVars, captureVars, nucVars, clicks>>
  /\ UpdateButtons

\* _link_changed.
LinkChanged ==
  /\ link # "local" /\ Click
  /\ link' \in Links \ {link, "local"}
  /\ UNCHANGED <<tunnel, actionVars, captureVars, nucVars, losses>>
  /\ UpdateButtons

-----------------------------------------------------------------------------
\* The NUC.
Answer(s, says) ==
  process' = [process EXCEPT ![s] = IF @.local = "gone" THEN Free
                                    ELSE [@ EXCEPT !.remote = "answered", !.says = says]]
Refuse(s) ==
  process' = [process EXCEPT ![s] = IF @.local = "gone" THEN Free
                                    ELSE [@ EXCEPT !.remote = "refused"]]
AtNuc(s, a) == process[s].local # "free" /\ process[s].remote = "asked" /\ process[s].action = a
OnNuc == UNCHANGED <<link, tunnel, action, routes, current, tries, recording, buttonVars,
                     clicks>>
\* A worker is started, beside another one or not.
Doubles == doubled' = (doubled \/ worker # "off" \/ strays > 0)

\* Mutant: what runs is not looked at.
StartUnchecked(s) ==
  /\ AtNuc(s, "start") /\ lock = 0
  /\ worker' = "opening" /\ Doubles
  /\ Answer(s, TRUE)
  /\ UNCHANGED <<strays, orphaned, device, lock, losses, captureVars>> /\ OnNuc

\* start_recording: one session at a time, under the lock.  It may fail before
\* or after the worker is started: STATE is written last.
StartRecording(s) ==
  /\ AtNuc(s, "start") /\ lock = 0
  /\ \/ Recorded /\ Refuse(s) /\ UNCHANGED <<worker, strays, doubled, orphaned, losses>>
     \/ /\ ~Recorded
        /\ worker' = "opening" /\ Doubles
        /\ Answer(s, TRUE)
        /\ UNCHANGED <<strays, orphaned, losses>>
     \/ /\ ~Recorded /\ Fault
        /\ \/ UNCHANGED <<strays, doubled, orphaned>>
           \/ strays' = strays + 1 /\ orphaned' = TRUE /\ Doubles
        /\ Refuse(s)
        /\ UNCHANGED worker
  /\ UNCHANGED <<device, lock, captureVars>> /\ OnNuc

\* stop_recording: the signal, then up to 8 s, then a signal that kills; to
\* the worker that STATE names.
StopRecording(s) ==
  /\ AtNuc(s, "stop") /\ lock = 0
  /\ lock' = s
  /\ worker' = IF Recorded THEN "ending" ELSE worker
  /\ process' = [process EXCEPT ![s].remote = "waiting"]
  /\ UNCHANGED <<device, strays, doubled, orphaned, losses, captureVars>> /\ OnNuc

StopWaited(s) ==
  /\ lock = s /\ lock' = 0
  /\ worker' = "off"
  /\ device' = IF device = "worker" THEN "none" ELSE device
  /\ Answer(s, FALSE)
  /\ UNCHANGED <<strays, doubled, orphaned, losses, captureVars>> /\ OnNuc

\* active_status and list_sessions, whose answer does not speak of recording.
Status(s) ==
  /\ \/ AtNuc(s, "status") /\ Answer(s, Recorded)
     \/ AtNuc(s, "list") /\ Answer(s, FALSE)
  /\ UNCHANGED <<nucVars, losses, captureVars>> /\ OnNuc

\* worker: the camera is opened for itself alone.
WorkerOpens ==
  /\ worker = "opening"
  /\ IF device = "none" THEN worker' = "on" /\ device' = "worker"
     ELSE worker' = "off" /\ UNCHANGED device
  /\ UNCHANGED <<strays, lock, doubled, orphaned, losses, captureVars, process>> /\ OnNuc

\* worker: the duration is over, it was told to stop, or it failed.
WorkerEnds ==
  /\ worker \in {"on", "ending"}
  /\ worker' = "off"
  /\ device' = IF device = "worker" THEN "none" ELSE device
  /\ UNCHANGED <<strays, lock, doubled, orphaned, losses, captureVars, process>> /\ OnNuc

\* A worker that STATE does not name opens the camera, or finds it taken, and
\* goes on until its duration is over: no stop reaches it.
StrayWorks ==
  /\ strays > 0
  /\ \/ device = "none" /\ device' = "stray" /\ UNCHANGED strays
     \/ device = "stray" /\ device' = "none" /\ strays' = strays - 1
     \/ /\ device # "none" /\ (device = "stray" => strays > 1)
        /\ strays' = strays - 1 /\ UNCHANGED device
  /\ UNCHANGED <<worker, lock, doubled, orphaned, losses, captureVars, process>> /\ OnNuc

\* hik_usb_snapshot.py: one at a time, over 5 s, or an error.
Snapshot ==
  /\ \/ /\ shots.asked > 0 /\ ~shots.taking
        /\ IF device = "none"
           THEN /\ device' = "snapshot"
                /\ shots' = [shots EXCEPT !.taking = TRUE]
                /\ UNCHANGED capture
           ELSE /\ shots' = [shots EXCEPT !.asked = @ - 1]
                /\ capture' = [capture EXCEPT !.got = capture.running /\ shots.asked = 1]
                /\ UNCHANGED device
     \/ /\ shots.taking
        /\ device' = "none"
        /\ shots' = [asked |-> shots.asked - 1, taking |-> FALSE]
        /\ capture' = [capture EXCEPT !.got = capture.running /\ shots.asked = 1]
  /\ UNCHANGED <<worker, strays, lock, doubled, orphaned, losses, process>> /\ OnNuc

Command(s) == StartRecording(s) \/ StopRecording(s) \/ StopWaited(s) \/ Status(s)
Nuc == Snapshot \/ \E s \in Slots : Command(s)

Next ==
  \/ ClickRecord \/ ClickCapture \/ LinkChanged
  \/ Tick \/ Retry \/ RetryCapture
  \/ \E s \in Slots : Finished(s) \/ Failed(s)
  \/ \E valid \in BOOLEAN : CaptureFinished(valid)
  \/ TunnelReady \/ TunnelFailed
  \/ Nuc \/ WorkerOpens \/ WorkerEnds \/ StrayWorks

Spec == Init /\ [][Next]_vars

\* Timers fire, the tunnel is started again as long as something waits for it,
\* the NUC works, and a process that was started ends at the latest when it is
\* killed.
Captured == capture.got /\ \E valid \in BOOLEAN : CaptureFinished(valid)
Fairness ==
  /\ WF_vars(Tick) /\ WF_vars(Retry) /\ WF_vars(RetryCapture) /\ WF_vars(Captured)
  /\ WF_vars(TunnelReady) /\ WF_vars(Snapshot) /\ WF_vars(WorkerOpens)
  /\ \A s \in Slots : WF_vars(Finished(s)) /\ WF_vars(Command(s))
FairSpec == Spec /\ Fairness

-----------------------------------------------------------------------------
\* The panel does not believe for ever that a recording goes on that has
\* ended, as long as not every connection fails; unless its record_process
\* could not be started, which keeps the status timer from asking (:350).
BeliefSettles ==
  (recording /\ worker = "off") ~> (~recording \/ worker # "off" \/ Stranded)

\* The button that takes a picture is released in the end, unless the process
\* that was to take it could not be started (:566).
CaptureEnds == capture.busy ~> (~capture.busy \/ capture.unstarted)

\* remote_control/README.md:482: the operator can stop; a stop is not replaced by another
\* action before it has been sent.
StopIsKept == [][action = "stop" /\ action' # "stop" => action' = ""]_vars
=============================================================================
