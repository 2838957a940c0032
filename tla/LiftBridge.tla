----------------------------- MODULE LiftBridge -----------------------------
(***************************************************************************)
(* The lift: the bridge that keeps the serial port of the lift open        *)
(* (lift_serial_bridge.py), and the control streams of the operator panels *)
(* (lift_control.py --stream, one process per panel).                      *)
(*                                                                         *)
(* The bridge has two threads.  The executor runs ROS callbacks, among     *)
(* them the timer that drains the queue of local commands; a socket thread *)
(* serves one stream at a time: it puts its request into the queue and     *)
(* waits 5 s for the executor.  A stream sends one request at a time too   *)
(* and waits 6 s for the answer, so that it gives up first only if its     *)
(* request stood behind that of another stream.                            *)
(*                                                                         *)
(* Requests are numbered as they are clicked.  A frame that is written has *)
(* its effect on the lift; a write that fails may have had it or not.  A   *)
(* stream writes its request as soon as it has connected, so recv of the   *)
(* server does not time out.  Whatever a stream gets other than an answer  *)
(* is "gone".  A new process is not modelled: it knows nothing of the old. *)
(***************************************************************************)
EXTENDS Integers, SequencesExt

CONSTANTS
  Streams,       \* control streams
  Buttons,       \* actions that are asked for
  MaxRequests,   \* clicks
  MaxRos,        \* messages on lift/command
  MaxFaults,     \* connects and writes that fail
  MaxKills       \* streams that end

Action == {"raise", "lower", "stop"}     \* COMMANDS, ACTIONS

ASSUME LiftAssumption ==
  /\ Buttons \subseteq Action
  /\ {MaxRequests, MaxRos, MaxFaults, MaxKills} \subseteq Nat

Request == 1..MaxRequests

VARIABLES
  node,     \* "up"; "down" after a clean exit, "failed" after another
  port,     \* LiftSerialController.connected
  moving, fault,   \* _moving; _fault is not None
  commands, \* _local_commands
  working,  \* the request the drain timer is at, 0 if none
  response, \* LocalCommand.response
  done,     \* requests whose LocalCommand.done is set
  server,   \* the socket thread: "listening", "waiting", "dead"
  serving,  \* the request it waits for, 0 if none
  backlog,  \* connections that wait for accept
  ended,    \* streams whose process has ended
  request,  \* what was clicked
  stage,    \* of a request: "piped" to its stream, "connected", "closed"
  answer,   \* what the stream has printed
  behind,   \* requests that stood behind another in the backlog
  lift,     \* what the lift does (external)
  sent,     \* history: the requests whose frames the lift has taken
  doubt,    \* history: the last write failed
  ros, faults, kills   \* bounds

executorVars == <<port, moving, fault, lift, doubt, faults>>
streamVars == <<ended, request, stage, answer, behind, kills>>
serverVars == <<server, serving, backlog>>
queueVars == <<commands, working, response, done, sent>>
vars == <<node, executorVars, queueVars, serverVars, streamVars, ros>>

TypeOK ==
  /\ node \in {"up", "down", "failed"}
  /\ port \in BOOLEAN /\ moving \in BOOLEAN /\ fault \in BOOLEAN
  /\ commands \in Seq(Request) /\ backlog \in Seq(Request)
  /\ working \in Request \cup {0} /\ serving \in Request \cup {0}
  /\ response \in [Request -> {"unprocessed", "ok", "error"}]
  /\ done \subseteq Request /\ behind \subseteq Request
  /\ server \in {"listening", "waiting", "dead"}
  /\ ended \subseteq Streams
  /\ request \in Seq([stream : Streams, action : Action])
  /\ Len(request) <= MaxRequests
  /\ stage \in [Request -> {"none", "piped", "connected", "closed"}]
  /\ answer \in [Request -> {"none", "ok", "error", "timeout", "gone"}]
  /\ lift \in Action /\ doubt \in BOOLEAN
  /\ sent \in Seq(Request)
  /\ ros \in 0..MaxRos /\ faults \in 0..MaxFaults /\ kills \in 0..MaxKills

\* __init__ calls _ensure_connected once.
Init ==
  /\ node = "up"
  /\ \/ port = TRUE /\ fault = FALSE /\ faults = 0
     \/ MaxFaults > 0 /\ port = FALSE /\ fault = TRUE /\ faults = 1
  /\ moving = FALSE
  /\ commands = <<>> /\ working = 0 /\ done = {}
  /\ response = [r \in Request |-> "unprocessed"]
  /\ server = "listening" /\ serving = 0 /\ backlog = <<>>
  /\ ended = {} /\ request = <<>> /\ behind = {}
  /\ stage = [r \in Request |-> "none"]
  /\ answer = [r \in Request |-> "none"]
  /\ lift = "stop" /\ sent = <<>> /\ doubt = FALSE
  /\ ros = 0 /\ kills = 0

-----------------------------------------------------------------------------
(* The executor                                                            *)

\* send, then the state _apply_action sets.
Written(a) ==
  /\ port' = TRUE
  /\ lift' = a /\ doubt' = FALSE
  /\ moving' = (a # "stop") /\ fault' = FALSE
  /\ UNCHANGED faults

\* Mutant: the state is set before the frame is sent.
NotOpenedMoving(a) ==
  /\ ~port /\ faults < MaxFaults
  /\ faults' = faults + 1
  /\ fault' = TRUE /\ moving' = (a # "stop")
  /\ UNCHANGED <<port, lift, doubt>>

\* connect raises, and _handle_command_error follows.
NotOpened(a) ==
  /\ ~port /\ faults < MaxFaults
  /\ faults' = faults + 1
  /\ fault' = TRUE
  /\ UNCHANGED <<port, moving, lift, doubt>>

\* write or flush raises, or the write is short.
WriteFails(a) ==
  /\ faults < MaxFaults
  /\ faults' = faults + 1
  /\ fault' = TRUE /\ port' = FALSE
  /\ doubt' = TRUE
  /\ lift' \in {lift, a}
  /\ UNCHANGED moving

Idle == node = "up" /\ working = 0

EnsureConnected ==
  /\ Idle /\ ~port
  /\ \/ port' = TRUE /\ fault' = FALSE /\ UNCHANGED faults
     \/ faults < MaxFaults /\ faults' = faults + 1 /\ UNCHANGED <<port, fault>>
  /\ UNCHANGED <<node, moving, lift, doubt, queueVars, serverVars,
                 streamVars, ros>>

\* _on_command.  An action the bridge does not have (move_to) raises too.
OnCommand ==
  /\ Idle /\ ros < MaxRos
  /\ ros' = ros + 1
  /\ \/ \E a \in Buttons : Written(a) \/ NotOpened(a) \/ WriteFails(a)
     \/ /\ fault' = TRUE /\ port' = FALSE
        /\ UNCHANGED <<moving, lift, doubt, faults>>
  /\ UNCHANGED <<node, queueVars, serverVars, streamVars>>

\* Mutant: the queue is drained from its end.
TakeLast ==
  /\ working' = Last(commands)
  /\ commands' = Front(commands)

\* _local_commands.get_nowait
Take ==
  /\ working' = Head(commands)
  /\ commands' = Tail(commands)

Respond(r) == response' = [response EXCEPT ![working'] = r]

\* One round of _drain_local_commands up to its finally.
Drain ==
  /\ Idle /\ commands # <<>>
  /\ Take
  /\ LET a == request[working'].action
     IN  \/ Written(a) /\ Respond("ok") /\ sent' = Append(sent, working')
         \/ NotOpened(a) /\ Respond("error") /\ UNCHANGED sent
         \/ /\ WriteFails(a) /\ Respond("error")
            /\ sent' \in {sent, Append(sent, working')}
  /\ UNCHANGED <<node, done, serverVars, streamVars, ros>>

\* Its finally.
Finish ==
  /\ node = "up" /\ working # 0
  /\ done' = done \cup {working}
  /\ working' = 0
  /\ UNCHANGED <<node, executorVars, commands, response, sent, serverVars,
                 streamVars, ros>>

-----------------------------------------------------------------------------
(* The socket thread                                                       *)

Open(r) == stage[r] = "connected"

\* What the clients among R get when their connections break.
Break(R) ==
  /\ stage' = [r \in Request |-> IF r \in R THEN "closed" ELSE stage[r]]
  /\ answer' = [r \in Request |->
       IF r \in R /\ Open(r) THEN "gone" ELSE answer[r]]

Serve ==
  /\ node = "up" /\ server = "listening" /\ backlog # <<>>
  /\ server' = "waiting"
  /\ serving' = Head(backlog) /\ backlog' = Tail(backlog)
  /\ commands' = Append(commands, Head(backlog))
  /\ UNCHANGED <<node, executorVars, working, response, done, sent,
                 streamVars, ros>>

\* sendall.  A client that has gone makes it raise, which ends the thread
\* and, with its socket, every connection that waits.
Send(text) ==
  /\ serving' = 0
  /\ \/ /\ Open(serving)
        /\ answer' = [answer EXCEPT ![serving] = text]
        /\ stage' = [stage EXCEPT ![serving] = "closed"]
        /\ server' = "listening" /\ UNCHANGED backlog
     \/ /\ ~Open(serving)
        /\ server' = "dead" /\ backlog' = <<>>
        /\ Break(Range(backlog))
  /\ UNCHANGED <<node, executorVars, queueVars, ended, request, behind,
                 kills, ros>>

\* Mutant: one event for all requests, which nobody clears.
AnswerShared ==
  /\ node = "up" /\ server = "waiting" /\ done # {}
  /\ Send(response[CHOOSE r \in done : TRUE])

Answer ==
  /\ node = "up" /\ server = "waiting" /\ serving \in done
  /\ Send(response[serving])

\* Mutant: the response is sent without a look at the result of wait.
AnswerUnchecked ==
  /\ node = "up" /\ server = "waiting"
  /\ Send(response[serving])

\* done.wait(5.0) gives up.
AnswerTimeout ==
  /\ node = "up" /\ server = "waiting" /\ serving \notin done
  /\ Send("timeout")

-----------------------------------------------------------------------------
(* The panels and their streams                                            *)

Click(s, a) ==
  /\ s \notin ended /\ Len(request) < MaxRequests
  /\ request' = Append(request, [stream |-> s, action |-> a])
  /\ stage' = [stage EXCEPT ![Len(request) + 1] = "piped"]
  /\ UNCHANGED <<node, executorVars, queueVars, serverVars, ended, answer,
                 behind, kills, ros>>

Of(s) == {r \in 1..Len(request) : request[r].stream = s}

\* send_action: the next line of stdin, when the one before is answered.
Connect(s) ==
  /\ s \notin ended
  /\ \A r \in Of(s) : stage[r] # "connected"
  /\ \E r \in Of(s) :
       /\ stage[r] = "piped"
       /\ \A q \in Of(s) : q < r => stage[q] # "piped"
       /\ \/ /\ node = "up" /\ server # "dead"
             /\ stage' = [stage EXCEPT ![r] = "connected"]
             /\ backlog' = Append(backlog, r)
             /\ behind' = IF serving # 0 \/ backlog # <<>>
                          THEN behind \cup {r} ELSE behind
             /\ UNCHANGED answer
          \/ /\ node # "up" \/ server = "dead"
             /\ stage' = [stage EXCEPT ![r] = "closed"]
             /\ answer' = [answer EXCEPT ![r] = "gone"]
             /\ UNCHANGED <<backlog, behind>>
  /\ UNCHANGED <<node, executorVars, queueVars, server, serving, ended,
                 request, kills, ros>>

\* Mutant: the stream does not wait longer than the server.
GiveUpEarly(r) ==
  /\ Open(r)
  /\ Break({r})
  /\ UNCHANGED <<node, executorVars, queueVars, serverVars, ended, request,
                 behind, kills, ros>>

\* settimeout(6.0)
GiveUp(r) ==
  /\ Open(r) /\ r \in behind
  /\ Break({r})
  /\ UNCHANGED <<node, executorVars, queueVars, serverVars, ended, request,
                 behind, kills, ros>>

\* The panel is closed or its SSH connection lost.
EndStream(s) ==
  /\ s \notin ended /\ kills < MaxKills
  /\ kills' = kills + 1
  /\ ended' = ended \cup {s}
  /\ Break(Of(s))
  /\ UNCHANGED <<node, executorVars, queueVars, serverVars, request,
                 behind, ros>>

-----------------------------------------------------------------------------
(* The end of the process: spin returns or is interrupted, then            *)
(* destroy_node.  The connections end with the process.                    *)

\* Mutant: no stop is sent.
SafeStopNot ==
  node' = "down" /\ UNCHANGED <<lift, faults>>

\* disconnect(safe_stop=True)
SafeStop ==
  \/ ~port /\ node' = "down" /\ UNCHANGED <<lift, faults>>
  \/ port /\ node' = "down" /\ lift' = "stop" /\ UNCHANGED faults
  \/ /\ port /\ faults < MaxFaults
     /\ node' = "failed" /\ faults' = faults + 1
     /\ lift' \in {lift, "stop"}

Exit ==
  /\ node = "up"
  /\ SafeStop
  /\ server' = "dead" /\ serving' = 0 /\ backlog' = <<>>
  /\ Break({r \in Request : Open(r)})
  /\ port' = FALSE /\ commands' = <<>> /\ working' = 0
  /\ UNCHANGED <<moving, fault, doubt, response, done, sent, ended, request,
                 behind, kills, ros>>

Executor == EnsureConnected \/ OnCommand \/ Drain \/ Finish
Server == Serve \/ Answer \/ AnswerTimeout
Stream(s) == Connect(s) \/ EndStream(s) \/ \E a \in Buttons : Click(s, a)

Next ==
  \/ Executor
  \/ Server
  \/ \E s \in Streams : Stream(s)
  \/ \E r \in Request : GiveUp(r)
  \/ Exit

Spec == Init /\ [][Next]_vars

-----------------------------------------------------------------------------
(* Properties                                                              *)

\* scripts/robot320_onboard/README.md:155: a panel is told "ok" only when the
\* frame of this very request has been written.
OkMeansWritten ==
  \A r \in Request : answer[r] = "ok" => r \in Range(sent)

\* The frames of one panel are written in the order of its clicks and each at
\* most once (README.md:155 there), also after timeouts of either side, failed writes and
\* reconnects: no late raise after the stop that was clicked to end it.
ClickOrder ==
  \A i, j \in 1..Len(sent) :
    i < j /\ request[sent[i]].stream = request[sent[j]].stream
      => sent[i] < sent[j]

\* The status tells whether the lift moves, unless the last write failed.
StatusTellsMotion == ~doubt /\ node = "up" => (moving <=> lift # "stop")

\* A clean exit whose last status shows no fault leaves the lift at rest.
CleanExitStops == node = "down" /\ ~fault /\ ~doubt => lift = "stop"

\* A panel that has the lift to itself, and is not closed while it waits,
\* cannot end the server: it waits longer than the server does.
LonePanelIsServed ==
  (/\ node = "up" /\ kills = 0
   /\ \A p, q \in 1..Len(request) : request[p].stream = request[q].stream)
    => server # "dead"

\* lift_panel.py:34, the notice of the panel: when the link is unstable one may
\* click again and the command is sent again; so the server has to be there.
ServerStaysUp == node = "up" => server # "dead"

\* scripts/robot320_onboard/README.md:150: the service sends a stop when it
\* exits.
ExitStops == node = "down" => lift = "stop"

\* Types, and that the last status, an exit's too, tells whether the lift moves.
LiftInvariant == TypeOK /\ StatusTellsMotion /\ CleanExitStops
=============================================================================
