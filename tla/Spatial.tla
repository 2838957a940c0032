-------------------------------- MODULE Spatial --------------------------------
(* Mapping and localization over the radar panel: the panel's requests        *)
(* (spatial_panel.py: mapping_control, upload_localization_map) travel through *)
(* SpatialLink to spatial_stream.py and from there to spatial_bridge.py,       *)
(* which starts and stops the robot's services and answers with a status;     *)
(* the panel copies a map file to the robot beside that channel for a         *)
(* localization with it, and asks for a global match once a status says the   *)
(* service is active.                                                         *)
(*                                                                            *)
(* systemctl has 15 s, stopping the service may take 20 s: a request that is  *)
(* too slow is answered without its id, and systemd goes on by itself.  The   *)
(* service is active as soon as its script runs, which only seconds later     *)
(* starts AMCL with the file it then finds, or gives up because it still sees *)
(* the nodes of the service it replaces.  Nothing restarts the bridge, which  *)
(* is a process of the sensors' launch file.                                  *)
(*                                                                            *)
(* Of mapping_status the model keeps the request it answers and whether the    *)
(* localization is active; stamps grow in the order of sending.  Requests that *)
(* change no service (stop, initial_pose) are one action, "other".             *)
EXTENDS SpatialLink, Sequences, SequencesExt

CONSTANTS
  MaxUploads,           \* maps the operator loads
  MaxLines              \* lines on the way to the panel

VARIABLES
  sent,                 \* request ids used
  pending,              \* pending_mapping_request, 0 for None
  auto,                 \* auto_relocalize
  matchTimer,           \* the single shot of the automatic relocalize is due
  upload,               \* the map scp is copying, 0 for none, Torn for one that
                        \* could not be started and is waited for ever
  uploaded,             \* the last map that was copied
  localizeId,           \* the request that followed it, 0 if it was not sent
  taken,                \* systemd has taken that request
  up, down,             \* requests and lines inside the stream's session
  bridge,               \* the bridge node: is it alive, its queue, its request
  file,                 \* active.yaml and active.pgm on the robot
  unit,                 \* the localization service
  loaded                \* the map AMCL runs on, 0 when it does not run

panelVars == <<sent, pending, auto, matchTimer, upload, uploaded, localizeId,
               taken>>
robotVars == <<bridge, file, unit, loaded>>
vars == <<linkVars, panelVars, up, down, robotVars>>

Torn == MaxUploads + 1               \* a file half written
Maps == 0..Torn
Actions == {"localize", "relocalize", "start", "other"}
MaxIds == 2 * MaxUploads + MaxDisturbances
Request == [id : 1..MaxIds, action : Actions, waited : BOOLEAN]
Line == [ok : BOOLEAN, id : 0..MaxIds, active : BOOLEAN]
Nothing == [id |-> 0, action |-> "other", waited |-> FALSE]
Depth == 2                           \* of the DDS queue to the bridge
\* systemd waits for the old processes; the script runs; AMCL runs.
Units == {"off", "restarting", "starting", "on"}

TypeOK ==
  /\ LinkTypeOK
  /\ sent \in 0..MaxIds /\ pending \in 0..MaxIds /\ localizeId \in 0..MaxIds
  /\ auto \in BOOLEAN /\ matchTimer \in BOOLEAN /\ taken \in BOOLEAN
  /\ upload \in Maps /\ uploaded \in 0..MaxUploads
  /\ up \in Seq(Request) /\ down \in Seq(Line) /\ Len(down) <= MaxLines
  /\ bridge \in [alive : BOOLEAN, queue : Seq(Request),
                 busy : Request \union {Nothing}]
  /\ Len(bridge.queue) <= Depth
  /\ file \in Maps /\ loaded \in Maps /\ unit \in Units
  /\ loaded # 0 <=> unit = "on"

\* The robot may still localize on a map of an earlier session, which stands
\* for a torn one: it is not a map of this session either.
Init ==
  /\ LinkInit
  /\ sent = 0 /\ pending = 0 /\ auto = FALSE /\ matchTimer = FALSE
  /\ upload = 0 /\ uploaded = 0 /\ localizeId = 0 /\ taken = FALSE
  /\ up = <<>> /\ down = <<>>
  /\ bridge = [alive |-> TRUE, queue |-> <<>>, busy |-> Nothing]
  /\ file = Torn
  /\ \/ unit = "off" /\ loaded = 0
     \/ unit = "on" /\ loaded = Torn

-----------------------------------------------------------------------------
(* spatial_panel.py *)

\* mapping_control: without a stream process the request is not sent; one that
\* is ending still takes it.
MappingControl(action) ==
  IF stream = "off"
    THEN UNCHANGED <<sent, pending, up>>
    ELSE /\ sent' = sent + 1
         /\ pending' = sent + 1
         /\ up' = Append(up, [id |-> sent + 1, action |-> action, waited |-> FALSE])

\* The buttons for mapping and for the initial pose.
Ask(action) ==
  /\ ~closing /\ Disturb
  /\ MappingControl(action)
  /\ UNCHANGED <<sessionVars, auto, matchTimer, upload, uploaded, localizeId, taken,
                 down, robotVars>>

\* load_local_map and upload_localization_map; scp writes over the robot's
\* file, unless it cannot be started: then the button stays off.
LoadLocalMap ==
  /\ ~closing /\ upload = 0 /\ uploaded < MaxUploads /\ stream # "off"
  /\ \/ upload' = uploaded + 1 /\ file' = Torn /\ UNCHANGED disturbed
     \/ upload' = Torn /\ UNCHANGED file /\ Disturb
  /\ UNCHANGED <<sessionVars, sent, pending, auto, matchTimer, uploaded, localizeId,
                 taken, up, down, bridge, unit, loaded>>

\* _map_upload_finished, exit code 0: the match is armed whether or not the
\* localize request can be sent.
MapUploaded ==
  /\ upload \notin {0, Torn} /\ tunnel = "up"
  /\ upload' = 0 /\ uploaded' = upload /\ file' = upload
  /\ auto' = TRUE /\ taken' = FALSE
  /\ MappingControl("localize")
  /\ localizeId' = IF sent' = sent THEN 0 ELSE sent'
  /\ UNCHANGED <<linkVars, matchTimer, down, bridge, unit, loaded>>

\* The copy breaks off, with the tunnel or by itself; the file stays half written.
MapUploadFails ==
  /\ upload \notin {0, Torn}
  /\ \/ tunnel = "off" /\ UNCHANGED disturbed
     \/ tunnel = "up" /\ Disturb
  /\ upload' = 0
  /\ UNCHANGED <<sessionVars, sent, pending, auto, matchTimer, uploaded, localizeId, taken,
                 up, down, robotVars>>

\* update_data as a bug would have it: any status is good enough.
AnswersPendingAny(line) == TRUE

\* update_data: while a request is pending only its own answer counts.
AnswersPending(line) == pending \in {0, line.id}

\* _handle_wan_line and update_data.
ReadLine ==
  /\ Live /\ down # <<>>
  /\ down' = Tail(down)
  /\ LET line == Head(down)
         match == line.ok /\ AnswersPending(line) /\ auto /\ line.active
     IN  /\ pending' = IF pending # 0 /\ line.id = pending THEN 0 ELSE pending
         /\ auto' = (auto /\ ~match)
         /\ matchTimer' = (matchTimer \/ match)
  /\ UNCHANGED <<linkVars, sent, upload, uploaded, localizeId, taken, up,
                 robotVars>>

\* The automatic relocalize, half a second later.
MatchTimer ==
  /\ matchTimer /\ matchTimer' = FALSE
  /\ MappingControl("relocalize")
  /\ UNCHANGED <<linkVars, auto, upload, uploaded, localizeId, taken, down,
                 robotVars>>

\* shutdown: the panel's requests are gone with its processes.
Shutdown ==
  /\ CloseLink
  /\ upload' = 0 /\ matchTimer' = FALSE /\ up' = <<>> /\ down' = <<>>
  /\ UNCHANGED <<sent, pending, auto, uploaded, localizeId, taken, robotVars>>

-----------------------------------------------------------------------------
(* spatial_stream.py and spatial_bridge.py *)

\* A bounded DDS queue that keeps the newest.
Queued(queue, r) ==
  LET q == Append(queue, r) IN IF Len(q) > Depth THEN Tail(q) ELSE q

\* input_loop: without a bridge the request is refused (control_ack).
ForwardRequest ==
  /\ Live /\ up # <<>> /\ Len(down) < MaxLines
  /\ up' = Tail(up)
  /\ IF bridge.alive
       THEN /\ bridge' = [bridge EXCEPT !.queue =
                 Queued(@, [Head(up) EXCEPT
                              !.waited = bridge.busy # Nothing \/ bridge.queue # <<>>])]
            /\ UNCHANGED down
       ELSE /\ down' = Append(down, [ok |-> FALSE, id |-> Head(up).id, active |-> FALSE])
            /\ UNCHANGED bridge
  /\ UNCHANGED <<linkVars, panelVars, file, unit, loaded>>

\* mapping_status, as a running session hears it.
Status(id) == [ok |-> TRUE, id |-> id, active |-> unit' \in {"starting", "on"}]
Heard(id) ==
  IF stream = "up" /\ path # "none" /\ Len(down) < MaxLines
    THEN Append(down, Status(id)) ELSE down

\* mapping_control takes a request; one that waited may have expired, and its
\* refusal carries no id.
TakeRequest ==
  /\ bridge.alive /\ bridge.busy = Nothing /\ bridge.queue # <<>>
  /\ LET r == Head(bridge.queue)
     IN  \/ /\ bridge' = [bridge EXCEPT !.queue = Tail(@), !.busy = r]
            /\ UNCHANGED <<down, unit, loaded>>
         \/ /\ r.waited
            /\ bridge' = [bridge EXCEPT !.queue = Tail(@)]
            /\ UNCHANGED <<unit, loaded>> /\ down' = Heard(0)
  /\ UNCHANGED <<linkVars, panelVars, up, file>>

\* The verb of a localize as a bug would have it: start, which leaves a service
\* that runs alone.
LocalizeByStart ==
  IF unit \in {"starting", "on"} THEN UNCHANGED <<unit, loaded>>
  ELSE unit' = "starting" /\ loaded' = 0

\* The verb of a localize: restart, after which the file is read again.
Localize == unit' = "starting" /\ loaded' = 0

Stop == unit' = "off" /\ loaded' = 0

\* What the request does to the services; mapping and localization exclude
\* each other.
Serves(action) ==
  \/ action = "localize" /\ Localize
  \/ action = "start" /\ Stop
  \/ action \in {"relocalize", "other"} /\ UNCHANGED <<unit, loaded>>

\* systemctl, or the question for the state that follows, takes too long: the
\* answer carries no id, and systemd goes on.
ServesLate(action) ==
  \/ Serves(action)
  \/ action = "localize" /\ unit' = "restarting" /\ loaded' = 0

\* systemctl refuses, with the other service stopped or not.
ServesNot(action) ==
  /\ action \in {"localize", "start"}
  /\ Stop \/ UNCHANGED <<unit, loaded>>

ServeRequest ==
  /\ bridge.alive /\ bridge.busy # Nothing
  /\ LET r == bridge.busy
     IN  \/ /\ Serves(r.action) /\ down' = Heard(r.id)
            /\ taken' = (taken \/ r.id = localizeId)
            /\ UNCHANGED disturbed
         \/ /\ ServesLate(r.action) /\ down' = Heard(0)
            /\ taken' = (taken \/ r.id = localizeId)
            /\ Disturb
         \/ /\ ServesNot(r.action) /\ down' = Heard(r.id)
            /\ UNCHANGED taken
            /\ Disturb
  /\ bridge' = [bridge EXCEPT !.busy = Nothing]
  /\ UNCHANGED <<sessionVars, sent, pending, auto, matchTimer, upload, uploaded,
                 localizeId, up, file>>

\* The status of the bridge's timer.
PeriodicStatus ==
  /\ bridge.alive /\ bridge.busy = Nothing
  /\ Live /\ down = <<>>
  /\ UNCHANGED <<unit, loaded>> /\ down' = Heard(0)
  /\ UNCHANGED <<linkVars, panelVars, up, bridge, file>>

\* An exception in one of its callbacks, for which it may be enough that
\* systemctl does not say the state within 3 s, or a kill; systemd may go on
\* with what it was asked for.
BridgeDies ==
  /\ bridge.alive /\ Disturb
  /\ bridge' = [alive |-> FALSE, queue |-> <<>>, busy |-> Nothing]
  /\ UNCHANGED <<unit, loaded>> \/ ServesLate(bridge.busy.action)
  /\ UNCHANGED <<sessionVars, panelVars, up, down, file>>

\* Someone restarts the sensors' service, and systemd with it the localization
\* that requires it.
SensorsRestarted ==
  /\ ~bridge.alive /\ bridge' = [bridge EXCEPT !.alive = TRUE]
  /\ unit' = (IF unit = "off" THEN "off" ELSE "restarting") /\ loaded' = 0
  /\ UNCHANGED <<linkVars, panelVars, up, down, file>>

-----------------------------------------------------------------------------
(* The localization service *)

\* The processes of the old one are gone, at the latest when they were killed.
UnitStarts ==
  /\ unit = "restarting" /\ unit' = "starting"
  /\ UNCHANGED <<linkVars, panelVars, up, down, bridge, file, loaded>>

\* start_spatial_localization.sh starts AMCL with the file as it is now.
UnitReads ==
  /\ unit = "starting" /\ unit' = "on" /\ loaded' = file
  /\ UNCHANGED <<linkVars, panelVars, up, down, bridge, file>>

\* It still sees nodes of the service it replaces, and ends; or AMCL ends.
UnitEnds ==
  /\ unit \in {"starting", "on"} /\ Disturb
  /\ Stop
  /\ UNCHANGED <<sessionVars, panelVars, up, down, bridge, file>>

-----------------------------------------------------------------------------
\* A step of the link; what was inside the session ends with it.
Link ==
  /\ \/ TunnelTimer \/ ConnectData \/ StreamTimer \/ SelectBackend \/ TunnelEnds
     \/ StreamEnds \/ StreamFails
     \/ \E u \in Uplinks : UplinkFalls(u) \/ UplinkReturns(u)
  /\ IF stream # "off" /\ stream' = "off"
       THEN up' = <<>> /\ down' = <<>>
       ELSE UNCHANGED <<up, down>>
  /\ UNCHANGED <<panelVars, robotVars>>

Next ==
  \/ Link
  \/ \E action \in {"start", "other"} : Ask(action)
  \/ LoadLocalMap \/ MapUploaded \/ MapUploadFails \/ ReadLine \/ MatchTimer
  \/ Shutdown
  \/ ForwardRequest \/ TakeRequest \/ ServeRequest \/ PeriodicStatus
  \/ BridgeDies \/ SensorsRestarted
  \/ UnitStarts \/ UnitReads \/ UnitEnds

Spec == Init /\ [][Next]_vars

\* Timers fire, processes that were told to end do, the selector answers, scp
\* and systemctl return, systemd kills what does not stop, the service's script
\* goes on.
FairSpec ==
  /\ Spec
  /\ WF_vars(Link /\ TunnelTimer) /\ WF_vars(Link /\ StreamTimer)
  /\ WF_vars(Link /\ SelectBackend)
  /\ WF_vars(Link /\ StreamEnds)
  /\ WF_vars(MapUploaded \/ MapUploadFails) /\ WF_vars(MatchTimer)
  /\ WF_vars(ReadLine) /\ WF_vars(ForwardRequest)
  /\ WF_vars(TakeRequest) /\ WF_vars(ServeRequest)
  /\ WF_vars(UnitStarts) /\ WF_vars(UnitReads)

-----------------------------------------------------------------------------
(* Properties *)

\* The localize request of the last upload has not reached the bridge's hands.
InFlight ==
  /\ localizeId # 0
  /\ \E r \in ToSet(up) \union ToSet(bridge.queue) \union {bridge.busy} :
       r.id = localizeId

\* Whatever ends, in whatever order the two processes end, the panel is
\* connected again while one of the robot's uplinks works (_tunnel_finished,
\* _stream_finished, verified_backend): unless one of the processes could not
\* be started, after which nothing is tried again (spatial_panel.py:255).
StreamReturns ==
  <>[](closing \/ Live \/ unstarted \/ \A u \in Uplinks : ~uplink[u])

\* The automatic match is never asked while the localize request it belongs to
\* is still on its way: a status that says "active" of the map before does not
\* pass for its answer (update_data's pending request).
MatchFollowsLoad == [][matchTimer' /\ ~matchTimer => ~InFlight]_vars

\* A localize request is executed or lost, and once systemd has taken it AMCL
\* ends up on the map the operator uploaded last, if the file is whole, or does
\* not run at all: never on the map before, however late the restart comes,
\* whatever asks for the services meanwhile and though the file is only read
\* when the service is already called active ("always restart so a newly
\* uploaded active.yaml is re-read").
UploadTakesEffect ==
  <>[](upload \in {0, Torn} =>
         ~InFlight /\ (taken /\ file = uploaded => unit = "off" \/ loaded = uploaded))
=============================================================================
