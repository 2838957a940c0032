--------------------------- MODULE CameraControl ---------------------------
(***************************************************************************)
(* Moving the PTZ camera: the operator's panel (camera_panel.py), the      *)
(* local web server that passes requests on (PtzProxy of web_viewer.py)    *)
(* and the agent on the NUC (ptz_agent.py) with its dead-man timer.        *)
(*                                                                         *)
(* The camera moves until it is told to stop.  While a button is held the  *)
(* panel asks for a move every 600 ms, one at a time, and it waits 3 s for *)
(* an answer.  The web server tries one endpoint of the agent and, when    *)
(* that does not answer in time, the other one: the agent may get a        *)
(* request twice.  The agent serves every request in a thread of its own,  *)
(* asks the camera outside its lock, and stops the camera 1.5 s after the  *)
(* last move.  Each of these steps may be late, so they come in any order. *)
(* A fault is a request that did not arrive, or one the camera answered    *)
(* with an error, whether it obeyed or not.                                *)
(***************************************************************************)
EXTENDS Integers, Sequences, FiniteSets

CONSTANTS
  MaxHolds,  \* buttons pressed
  MaxMoves,  \* moves asked for
  MaxRetries, \* requests that are passed on twice though they arrived
  MaxFaults  \* requests that are lost or fail

ASSUME CameraAssumption == {MaxHolds, MaxMoves, MaxRetries, MaxFaults} \subseteq Nat

VARIABLES
  held,      \* CameraPanel._direction is set and move_timer runs
  holds,     \* bound
  pending,   \* _move_pending: the request that is waited for, 0 for none
  stale,     \* _generation has changed since it was posted
  closed,    \* _closed
  requests,  \* what the panel has posted
  timer,     \* PtzController._timer: "none", "armed", or "fired" when its thread
             \* waits for the lock and _generation has not changed since; with
             \* another generation that thread does nothing, and is left out
  stopping,  \* automatic stops on their way to the camera
  camera,
  faults,    \* bound
  answered,  \* history: requests posted when the last move was answered
  stopFailed,  \* history: a stop failed
  moveFailed   \* history: a move failed while the panel waited for it ("seen"),
               \* or had given it up or gone ("unseen")

panelVars == <<held, holds, pending, stale, closed, answered>>
agentVars == <<timer, stopping>>
historyVars == <<stopFailed, moveFailed>>
vars == <<panelVars, requests, agentVars, camera, faults, historyVars>>

Stage == {"none", "lost", "came", "moved", "locked", "ok", "failed"}
Try == 1..2
Request == [kind : {"move", "stop"}, tries : 0..2, at : [Try -> Stage]]
\* Every answer brings at most one stop, every press and release another.
MaxRequests == 2 * MaxMoves + 2 * MaxHolds + 1

TypeOK ==
  /\ {held, stale, closed, stopFailed} \subseteq BOOLEAN
  /\ moveFailed \in {"no", "seen", "unseen"}
  /\ holds \in 0..MaxHolds /\ faults \in 0..MaxFaults
  /\ requests \in Seq(Request) /\ Len(requests) <= MaxRequests
  /\ pending \in 0..Len(requests) /\ answered \in 0..Len(requests)
  /\ timer \in {"none", "armed", "fired"} /\ stopping \in Nat
  /\ camera \in {"still", "moving"}

Moves == {r \in DOMAIN requests : requests[r].kind = "move"}
Posted(k) == [kind |-> k, tries |-> 0, at |-> [n \in Try |-> "none"]]

-----------------------------------------------------------------------------
Init ==
  /\ held = FALSE /\ holds = 0 /\ pending = 0 /\ stale = FALSE /\ closed = FALSE
  /\ requests = <<>>
  /\ timer = "none" /\ stopping = 0
  /\ camera = "still"
  /\ faults = 0 /\ answered = 0 /\ stopFailed = FALSE /\ moveFailed = "no"

-----------------------------------------------------------------------------
\* The panel.  A stop may be posted in addition to what the step posts.
Unseen == UNCHANGED <<agentVars, camera, faults, historyVars>>

\* start_move: the first request, unless an older one is still waited for.
StartMove ==
  /\ ~closed /\ ~held /\ holds < MaxHolds
  /\ holds' = holds + 1
  /\ held' = TRUE
  /\ IF pending # 0
     THEN stale' = TRUE /\ UNCHANGED <<pending, requests>>
     ELSE /\ Cardinality(Moves) < MaxMoves
          /\ requests' = Append(requests, Posted("move"))
          /\ pending' = Len(requests')
          /\ stale' = FALSE
  /\ UNCHANGED <<closed, answered>>
  /\ Unseen

\* move_timer: _send_move.
RepeatMove ==
  /\ held /\ pending = 0 /\ ~closed
  /\ Cardinality(Moves) < MaxMoves
  /\ requests' = Append(requests, Posted("move"))
  /\ pending' = Len(requests')
  /\ stale' = FALSE
  /\ UNCHANGED <<held, holds, closed, answered>>
  /\ Unseen

\* stop_move: the button is let go, or disabled by fetch_ptz_status, or the
\* page is left; also the button that stops, which nobody has to hold.
StopMove ==
  /\ ~closed
  /\ IF held THEN UNCHANGED holds ELSE holds < MaxHolds /\ holds' = holds + 1
  /\ held' = FALSE
  /\ stale' = (pending # 0)
  /\ requests' = Append(requests, Posted("stop"))
  /\ UNCHANGED <<pending, closed, answered>>
  /\ Unseen

\* shutdown.
Shutdown ==
  /\ ~closed
  /\ closed' = TRUE
  /\ IF held \/ pending # 0
     THEN /\ held' = FALSE
          /\ stale' = (pending # 0)
          /\ requests' = Append(requests, Posted("stop"))
     ELSE UNCHANGED <<held, stale, requests>>
  /\ UNCHANGED <<holds, pending, answered>>
  /\ Unseen

Obeyed(r) == requests[r].tries # 0 /\ requests[r].at[requests[r].tries] = "ok"

\* Mutant: a late answer is only dropped.
MoveAnsweredDropped(ok) ==
  /\ pending # 0
  /\ ok => Obeyed(pending)
  /\ pending' = 0 /\ stale' = FALSE
  /\ held' = (held /\ (stale \/ ok))
  /\ requests' = IF stale \/ closed \/ ok THEN requests
                 ELSE Append(requests, Posted("stop"))
  /\ answered' = Len(requests)
  /\ UNCHANGED <<holds, closed>>
  /\ Unseen

\* finished() of _send_move.  Without an answer it comes after 3 s, and the
\* web server may still be at work.  A late answer brings another stop.
MoveAnswered(ok) ==
  /\ pending # 0
  /\ ok => Obeyed(pending)
  /\ pending' = 0 /\ stale' = FALSE
  /\ held' = (held /\ (stale \/ ok))
  /\ requests' = IF stale \/ closed \/ ~ok THEN Append(requests, Posted("stop"))
                 ELSE requests
  /\ answered' = Len(requests)
  /\ UNCHANGED <<holds, closed>>
  /\ Unseen

-----------------------------------------------------------------------------
Reach(r, n, stage) == requests' = [requests EXCEPT ![r].at[n] = stage]
Fault == faults < MaxFaults /\ faults' = faults + 1

\* PtzProxy.request: the first endpoint, and the other one unless the agent
\* answered, with whatever result.
Attempt(r) ==
  /\ requests[r].tries < 2
  /\ LET n == requests[r].tries + 1
         asked(stage) == requests' = [requests EXCEPT ![r].tries = n, ![r].at[n] = stage]
     IN /\ requests[r].at[1] \notin {"ok", "failed"}
        /\ n = 2 /\ requests[r].at[1] # "lost" =>
             Cardinality({q \in DOMAIN requests : requests[q].tries = 2}) < MaxRetries
        /\ \/ asked("came") /\ UNCHANGED <<faults, historyVars>>
           \/ /\ asked("lost") /\ Fault
              /\ stopFailed' = (stopFailed \/ (requests[r].kind = "stop" /\ n = 2))
              /\ UNCHANGED moveFailed
  /\ UNCHANGED <<panelVars, agentVars, camera>>

At(r, n, kind, stage) == requests[r].kind = kind /\ requests[r].at[n] = stage

MoveSent(r, n, from, to) ==
  /\ At(r, n, "move", from)
  /\ \/ /\ camera' = "moving"
        /\ Reach(r, n, to)
        /\ UNCHANGED <<faults, moveFailed>>
     \/ /\ camera' \in {camera, "moving"}
        /\ Reach(r, n, "failed")
        /\ Fault
        /\ moveFailed' = IF pending = r /\ ~closed /\ moveFailed # "unseen"
                         THEN "seen" ELSE "unseen"
  /\ UNCHANGED <<panelVars, agentVars, stopFailed>>

TimerArmed(r, n, from, to) ==
  /\ At(r, n, "move", from)
  /\ timer' = "armed"
  /\ Reach(r, n, to)
  /\ UNCHANGED <<panelVars, stopping, camera, faults, historyVars>>

\* Mutant: the timer is armed before the camera is asked.
MoveArmsFirst(r, n) == TimerArmed(r, n, "came", "moved") \/ MoveSent(r, n, "moved", "ok")

\* PtzController.move: the request outside the lock, then the timer.  When the
\* request fails no timer is armed.
Move(r, n) == MoveSent(r, n, "came", "moved") \/ TimerArmed(r, n, "moved", "ok")

CameraStopped == camera' = "still" /\ UNCHANGED <<faults, stopFailed>>
CameraRefused == camera' \in {camera, "still"} /\ Fault /\ stopFailed' = TRUE

StopSent(r, n, from, to) ==
  /\ At(r, n, "stop", from)
  /\ \/ CameraStopped /\ Reach(r, n, to)
     \/ CameraRefused /\ Reach(r, n, "failed")
  /\ UNCHANGED <<panelVars, agentVars, moveFailed>>

TimerCanceled(r, n, from, to) ==
  /\ At(r, n, "stop", from)
  /\ timer' = "none"
  /\ Reach(r, n, to)
  /\ UNCHANGED <<panelVars, stopping, camera, faults, historyVars>>

\* Mutant: the camera is asked first and the timer cancelled afterwards.
StopCancelsLast(r, n) == StopSent(r, n, "came", "locked") \/ TimerCanceled(r, n, "locked", "ok")

\* PtzController.stop: the timer under the lock, then the request.
Stop(r, n) == TimerCanceled(r, n, "came", "locked") \/ StopSent(r, n, "locked", "ok")

\* The timer's thread has waited long enough; cancel() does nothing any more.
Fire ==
  /\ timer = "armed"
  /\ timer' = "fired"
  /\ UNCHANGED <<panelVars, requests, stopping, camera, faults, historyVars>>

\* _deadman_stop, under the lock.
DeadmanLocks ==
  /\ timer = "fired"
  /\ timer' = "none"
  /\ stopping' = stopping + 1
  /\ UNCHANGED <<panelVars, requests, camera, faults, historyVars>>

\* _deadman_stop: a failure is only printed.
DeadmanSends ==
  /\ stopping > 0
  /\ stopping' = stopping - 1
  /\ CameraStopped \/ CameraRefused
  /\ UNCHANGED <<panelVars, requests, timer, moveFailed>>

-----------------------------------------------------------------------------
Panel == StartMove \/ RepeatMove \/ StopMove \/ Shutdown \/ \E ok \in BOOLEAN : MoveAnswered(ok)
Agent ==
  \/ \E r \in DOMAIN requests, n \in Try : Move(r, n) \/ Stop(r, n)
  \/ Fire \/ DeadmanLocks \/ DeadmanSends

Next == Panel \/ Agent \/ \E r \in DOMAIN requests : Attempt(r)

Spec == Init /\ [][Next]_vars

\* Requests are passed on, threads run, timers fire, and the panel, while it
\* is there, gets an answer or its time is up.
Unanswered == ~closed /\ \E ok \in BOOLEAN : MoveAnswered(ok)
Delivery == \E r \in DOMAIN requests : requests[r].at[1] \in {"none", "lost"} /\ Attempt(r)
Fairness == WF_vars(Unanswered) /\ WF_vars(Delivery) /\ WF_vars(Agent)
FairSpec == Spec /\ Fairness

-----------------------------------------------------------------------------
\* The dead-man protection: a moving camera has a timer that will stop it, or
\* a step before it that arms the timer or stops the camera, in whatever
\* order threads, timers and repeated requests come, unless a request to the
\* camera failed.
MovesAreGuarded ==
  camera = "moving" /\ ~stopFailed /\ moveFailed = "no" =>
    \/ timer # "none" \/ stopping > 0
    \/ \E r \in DOMAIN requests, n \in Try : requests[r].at[n] \in {"moved", "locked"}

\* A delayed answer to a move does not undo a later stop: when the panel waits
\* for nothing and no button is held it has posted a stop since the last move
\* was answered.
StopFollowsMoves ==
  ~held /\ pending = 0 /\ Moves # {} =>
    \E r \in DOMAIN requests : r > answered /\ requests[r].kind = "stop"

\* Once no button is held the camera comes to rest, even when a move failed,
\* unless a stop failed too, or the panel had given the move up before, or was
\* closed afterwards.
Excused == stopFailed \/ moveFailed = "unseen" \/ (moveFailed = "seen" /\ closed)
ReleaseStops == <>[](~held) => <>[](camera = "still" \/ Excused)

\* Types, and that a moving camera is guarded by its dead-man timer.
CameraInvariant == TypeOK /\ MovesAreGuarded
=============================================================================
