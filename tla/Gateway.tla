------------------------------- MODULE Gateway -------------------------------
(***************************************************************************)
(* The communication gateway (fastdds_ros_gateway.py): it validates the    *)
(* commands of the remote clients, forwards them to the chassis topics,    *)
(* replies, and keeps the life of one Nav2 goal.                           *)
(*                                                                         *)
(* The node is single-threaded: every callback is one step.  A batch of up *)
(* to twenty commands handled by one _poll_commands is a run of such       *)
(* steps.  Nav2 is external: it may accept, refuse or lose a goal request  *)
(* and answers in its own time, so several goals can be outstanding while  *)
(* the gateway already serves a later command.                             *)
(*                                                                         *)
(* Left out: feedback (it changes the progress and the message of          *)
(* NavigationStatus, never its state), telemetry and heartbeats.           *)
(***************************************************************************)
EXTENDS Naturals, Sequences

CONSTANTS
  Clients,       \* client_ids in use
  MaxCommands,   \* commands sent before the model stops
  MaxRepeats,    \* messages the transport may deliver once more
  MaxSequence,   \* sequence numbers are 0..MaxSequence
  Outcomes,      \* answers Nav2 may give to a goal request
  Velocities,    \* twists, opaque to the gateway
  ZeroVelocity

ASSUME GatewayAssumption ==
  /\ MaxCommands \in Nat
  /\ MaxSequence \in Nat
  /\ MaxRepeats \in Nat
  /\ Outcomes \subseteq {"accepted", "refused", "failed"}
  /\ ZeroVelocity \in Velocities

None == 0             \* no command
Id == 1..MaxCommands  \* command_id, numbered as they first arrive

Mode == {"idle", "manual", "navigation"}
Age == {"fresh", "stale", "future"}
GoalResult == {"succeeded", "canceled", "aborted", "failed"}
FinalStates == GoalResult \cup {"rejected"}
NavState == {"idle", "sending", "executing", "canceling"} \cup FinalStates
ReplyStatus == {"accepted", "completed", "rejected", "failed"}

\* What _validate_command and the replies see of a command.  All of it is the
\* same when the message comes again, its age excepted, which only grows.
Message == [id : Id, client : Clients, seq : 0..MaxSequence, age : Age]
Later(age) == CASE age = "future" -> Age
                [] age = "fresh" -> {"fresh", "stale"}
                [] age = "stale" -> {"stale"}

VARIABLES
  lastSeq,      \* _last_sequences, -1 shifted to 0
  count,        \* commands that have arrived so far
  copies,       \* messages the transport delivers once more (external)
  repeats,      \* how many it has kept a copy of
  repeated,     \* history: the commands whose message has come again
  nav,          \* _navigation: its state and goal_id
  active,       \* _active_goal_handle, by the goal it stands for
  activeCmd,    \* _active_nav_command
  pending,      \* _pending_nav_command_id
  relay,        \* _nav_velocity_enabled
  request,      \* the goal requests: unsent, waiting for Nav2, answered, ...
  cancelAsked,  \* goals cancel_goal_async was called for (external, at Nav2)
  replies,      \* the statuses replied to each command
  out,          \* what the last step published: <<topic, message, cause>>
  lastOverride  \* history: the last command that took motion away from Nav2

handleVars == <<active, activeCmd, pending, relay>>
received == <<lastSeq, count, copies, repeats, repeated>>
vars == <<lastSeq, count, copies, repeats, repeated, nav, active, activeCmd,
          pending, relay, request, cancelAsked, replies, out, lastOverride>>

\* The life of a goal request: send_goal_async, the answer on its way to
\* _on_nav_goal_response, get_result_async, the result on its way to
\* _on_nav_result, and no callback left ("dropped": superseded once accepted).
Stage == {"unsent", "sent", "answered", "watched", "finished", "dropped",
          "over"}
RequestState == [stage : Stage, value : Outcomes \cup GoalResult \cup {"none"}]
At(stage) == [stage |-> stage, value |-> "none"]
Answered(o) == [stage |-> "answered", value |-> o]
Finished(r) == [stage |-> "finished", value |-> r]

TypeOK ==
  /\ lastSeq \in [Clients -> 0..MaxSequence + 1]
  /\ count \in 0..MaxCommands
  /\ copies \in SUBSET Message
  /\ repeats \in 0..MaxRepeats
  /\ repeated \in SUBSET Id
  /\ nav \in [state : NavState, goal : Id \cup {None}]
  /\ active \in Id \cup {None}
  /\ activeCmd \in Id \cup {None}
  /\ pending \in Id \cup {None}
  /\ relay \in BOOLEAN
  /\ request \in [Id -> RequestState]
  /\ cancelAsked \in SUBSET Id
  /\ replies \in [Id -> Seq(ReplyStatus)]
  /\ lastOverride \in Id \cup {None}

-----------------------------------------------------------------------------
Init ==
  /\ lastSeq = [c \in Clients |-> 0]
  /\ count = 0
  /\ copies = {} /\ repeats = 0 /\ repeated = {}
  /\ nav = [state |-> "idle", goal |-> None]
  /\ active = None /\ activeCmd = None /\ pending = None
  /\ relay = FALSE
  /\ request = [i \in Id |-> At("unsent")]
  /\ cancelAsked = {}
  /\ replies = [i \in Id |-> <<>>]
  /\ out = <<>>
  /\ lastOverride = None

Reply(id, status) == replies' = [replies EXCEPT ![id] = Append(@, status)]

\* Mutant: every cancel shows "canceling", also when nothing is under way.
NavAfterCancelAlways == [nav EXCEPT !.state = "canceling"]

\* _request_nav_cancel.  The handle stays until its result arrives; a request
\* that is still unanswered is only forgotten.
NavAfterCancel ==
  IF active # None \/ pending # None THEN [nav EXCEPT !.state = "canceling"]
  ELSE nav
CancelAskedAfter == cancelAsked \cup ({active} \ {None})

\* Mutants: the relay stays open, or the unanswered request is not forgotten.
RequestNavCancelRelayOpen ==
  /\ pending' = None
  /\ nav' = NavAfterCancel
  /\ cancelAsked' = CancelAskedAfter
  /\ UNCHANGED <<relay, active, activeCmd, request>>
RequestNavCancelKeepsPending ==
  /\ relay' = FALSE
  /\ nav' = NavAfterCancel
  /\ cancelAsked' = CancelAskedAfter
  /\ UNCHANGED <<pending, active, activeCmd, request>>

RequestNavCancel ==
  /\ relay' = FALSE
  /\ pending' = None
  /\ nav' = NavAfterCancel
  /\ cancelAsked' = CancelAskedAfter
  /\ UNCHANGED <<active, activeCmd, request>>

LeaveNavigation == UNCHANGED <<nav, handleVars, request, cancelAsked>>

Override(id) == lastOverride' = id
NoOverride == UNCHANGED lastOverride

-----------------------------------------------------------------------------
(* _dispatch, one branch for every kind of command.                        *)

ManualMotion(id, v) ==
  /\ RequestNavCancel
  /\ out' = <<<<"cmd_vel", v, "manual_motion">>,
              <<"mode", "manual", "manual_motion">>>>
  /\ Reply(id, "accepted")
  /\ Override(id)

Stop(id) ==
  /\ RequestNavCancel
  /\ out' = <<<<"cmd_vel", ZeroVelocity, "stop">>>>
  /\ Reply(id, "accepted")
  /\ Override(id)

BrakeCommand(id) ==
  /\ RequestNavCancel
  /\ out' = <<<<"brake", TRUE, "brake">>>>
  /\ Reply(id, "accepted")
  /\ Override(id)

EmergencyStop(id) ==
  /\ RequestNavCancel
  /\ out' = <<<<"emergency_stop", TRUE, "emergency_stop">>>>
  /\ Reply(id, "accepted")
  /\ Override(id)

\* The only stopping command that leaves a running goal alone.
ResetEmergencyStop(id) ==
  /\ out' = <<<<"mode", "idle", "reset_emergency_stop">>>>
  /\ Reply(id, "accepted")
  /\ LeaveNavigation
  /\ NoOverride

\* A missing mode is forwarded as "idle".
SetMode(id, m) ==
  /\ out' = <<<<"mode", m, "set_mode">>>>
  /\ Reply(id, "accepted")
  /\ IF m = "navigation" THEN LeaveNavigation /\ NoOverride
                         ELSE RequestNavCancel /\ Override(id)


\* _send_navigation_goal.  ready: the goal is present and nav_client is ready.
NavigationGoal(id, ready) ==
  \/ /\ ~ready
     /\ Reply(id, "rejected")
     /\ out' = <<>>
     /\ LeaveNavigation
     /\ NoOverride
  \/ /\ ready
     /\ cancelAsked' = CancelAskedAfter
     /\ active' = None
     /\ activeCmd' = None
     /\ relay' = FALSE
     /\ out' = <<<<"mode", "navigation", "navigation_goal">>>>
     /\ nav' = [state |-> "sending", goal |-> id]
     /\ pending' = id
     /\ request' = [request EXCEPT ![id] = At("sent")]
     /\ Override(id)
     /\ UNCHANGED replies

CancelNavigation(id) ==
  \/ /\ active = None /\ pending = None
     /\ Reply(id, "rejected")
     /\ out' = <<>>
     /\ LeaveNavigation
     /\ NoOverride
  \/ /\ active # None \/ pending # None
     /\ RequestNavCancel
     /\ out' = <<<<"cmd_vel", ZeroVelocity, "cancel_navigation">>>>
     /\ Reply(id, "accepted")
     /\ Override(id)

Lift(id) ==
  /\ out' = <<<<"lift", id, "lift">>>>
  /\ Reply(id, "accepted")
  /\ LeaveNavigation
  /\ NoOverride

Unsupported(id) ==
  /\ Reply(id, "rejected")
  /\ out' = <<>>
  /\ LeaveNavigation
  /\ NoOverride

Dispatch(id) ==
  \/ \E v \in Velocities : ManualMotion(id, v)
  \/ Stop(id)
  \/ BrakeCommand(id)
  \/ EmergencyStop(id)
  \/ ResetEmergencyStop(id)
  \/ \E m \in Mode : SetMode(id, m)
  \/ \E ready \in BOOLEAN : NavigationGoal(id, ready)
  \/ CancelNavigation(id)
  \/ Lift(id)
  \/ Unsupported(id)

\* Mutant: a sequence number is refused when it is lower than the last one, not
\* when it equals it.
ValidRepeated(m) == m.age = "fresh" /\ m.seq + 1 >= lastSeq[m.client]

\* _validate_command.  It looks at the age and the sequence number only, never
\* at the command_id.
Valid(m) == m.age = "fresh" /\ m.seq >= lastSeq[m.client]

\* The transport forgets a message it has delivered, or delivers it once more.
Copy(m, rest) ==
  \/ copies' = rest /\ UNCHANGED repeats
  \/ /\ repeats < MaxRepeats
     /\ repeats' = repeats + 1
     /\ copies' = rest \cup {m}

\* A command arrives for the first time, under a command_id of its own (a uuid
\* made by the client).  Its sequence number and age are arbitrary: messages
\* are delayed and reordered, and a client may restart.
Arrives(m) ==
  /\ count < MaxCommands
  /\ m.id = count + 1
  /\ count' = count + 1
  /\ Copy(m, copies)
  /\ UNCHANGED repeated

\* A command is delivered again, under the same command_id, from the same
\* client and with the same sequence number.
ArrivesAgain(m) ==
  /\ \E c \in copies :
       /\ m.id = c.id /\ m.client = c.client /\ m.seq = c.seq
       /\ m.age \in Later(c.age)
       /\ Copy(m, copies \ {c})
  /\ repeated' = repeated \cup {m.id}
  /\ UNCHANGED count

\* One receive_command of _poll_commands.
ReceiveCommand(m) == Arrives(m) \/ ArrivesAgain(m)

Accept(m) ==
  /\ ReceiveCommand(m)
  /\ Valid(m)
  /\ lastSeq' = [lastSeq EXCEPT ![m.client] = m.seq + 1]
  /\ Dispatch(m.id)

Reject(m) ==
  /\ ReceiveCommand(m)
  /\ ~Valid(m)
  /\ Reply(m.id, "rejected")
  /\ out' = <<>>
  /\ UNCHANGED lastSeq
  /\ LeaveNavigation
  /\ NoOverride

-----------------------------------------------------------------------------
(* Nav2, external.                                                         *)

NavAnswers(id, o) ==
  /\ request[id] = At("sent")
  /\ request' = [request EXCEPT ![id] = Answered(o)]
  /\ out' = <<>>
  /\ UNCHANGED <<received, nav, handleVars, cancelAsked, replies,
                 lastOverride>>

NavFinishes(id, r) ==
  /\ request[id] = At("watched")
  /\ request' = [request EXCEPT ![id] = Finished(r)]
  /\ out' = <<>>
  /\ UNCHANGED <<received, nav, handleVars, cancelAsked, replies,
                 lastOverride>>

-----------------------------------------------------------------------------
(* The callbacks of the Nav2 action client.                                *)

CallbackFrame == UNCHANGED <<received, lastOverride>> /\ out' = <<>>

\* Mutants: a superseded goal that was accepted is not cancelled, or its
\* status is left as it was.
ResponseSupersededNoCancel(id, o) ==
  /\ request[id] = Answered(o)
  /\ pending # id
  /\ request' = [request EXCEPT ![id] =
                   [stage |-> IF o = "accepted" THEN "dropped" ELSE "over",
                    value |-> o]]
  /\ Reply(id, "completed")
  /\ CallbackFrame
  /\ UNCHANGED <<nav, cancelAsked, handleVars>>
ResponseSupersededSilent(id, o) ==
  /\ request[id] = Answered(o)
  /\ pending # id
  /\ request' = [request EXCEPT ![id] =
                   [stage |-> IF o = "accepted" THEN "dropped" ELSE "over",
                    value |-> o]]
  /\ cancelAsked' = IF o = "accepted" THEN cancelAsked \cup {id}
                    ELSE cancelAsked
  /\ Reply(id, "completed")
  /\ CallbackFrame
  /\ UNCHANGED <<nav, handleVars>>

\* _on_nav_goal_response, of a goal that a later command has superseded.
ResponseSuperseded(id, o) ==
  /\ request[id] = Answered(o)
  /\ pending # id
  /\ request' = [request EXCEPT ![id] =
                   [stage |-> IF o = "accepted" THEN "dropped" ELSE "over",
                    value |-> o]]
  /\ cancelAsked' = IF o = "accepted" THEN cancelAsked \cup {id}
                    ELSE cancelAsked
  /\ nav' = IF o # "failed" /\ nav.goal = id
            THEN [nav EXCEPT !.state = "canceled"] ELSE nav
  /\ Reply(id, "completed")
  /\ CallbackFrame
  /\ UNCHANGED handleVars

\* Mutant: the operator is not told of a goal that failed.
ResponseRefusedSilent(id, o) ==
  /\ request[id] = Answered(o)
  /\ o \in {"refused", "failed"}
  /\ pending = id
  /\ pending' = None
  /\ Reply(id, IF o = "refused" THEN "rejected" ELSE "failed")
  /\ request' = [request EXCEPT ![id] = At("over")]
  /\ CallbackFrame
  /\ UNCHANGED <<nav, relay, active, activeCmd, cancelAsked>>

\* The request raised, or Nav2 refused the goal.  Only the latter closes the
\* velocity relay again.
ResponseRefused(id, o) ==
  /\ request[id] = Answered(o)
  /\ o \in {"refused", "failed"}
  /\ pending = id
  /\ pending' = None
  /\ relay' = IF o = "refused" THEN FALSE ELSE relay
  /\ nav' = [nav EXCEPT !.state = IF o = "refused" THEN "rejected"
                                  ELSE "failed"]
  /\ Reply(id, IF o = "refused" THEN "rejected" ELSE "failed")
  /\ request' = [request EXCEPT ![id] = At("over")]
  /\ CallbackFrame
  /\ UNCHANGED <<active, activeCmd, cancelAsked>>

\* Mutant: nobody looks whether the request is still the pending one.
ResponseAcceptedUnchecked(id) ==
  /\ request[id] = Answered("accepted")
  /\ pending' = None
  /\ active' = id
  /\ activeCmd' = id
  /\ relay' = TRUE
  /\ nav' = [nav EXCEPT !.state = "executing"]
  /\ Reply(id, "accepted")
  /\ request' = [request EXCEPT ![id] = At("watched")]
  /\ CallbackFrame
  /\ UNCHANGED cancelAsked

ResponseAccepted(id) ==
  /\ request[id] = Answered("accepted")
  /\ pending = id
  /\ pending' = None
  /\ active' = id
  /\ activeCmd' = id
  /\ relay' = TRUE
  /\ nav' = [nav EXCEPT !.state = "executing"]
  /\ Reply(id, "accepted")
  /\ request' = [request EXCEPT ![id] = At("watched")]
  /\ CallbackFrame
  /\ UNCHANGED cancelAsked

OnNavGoalResponse(id) ==
  \/ \E o \in Outcomes : ResponseSuperseded(id, o) \/ ResponseRefused(id, o)
  \/ ResponseAccepted(id)

\* Mutant: the status of Nav2 is replied as it is.
FinalReplyRaw(r) == r

\* _on_nav_result
FinalReply(r) == IF r \in {"succeeded", "canceled"} THEN "completed"
                 ELSE "failed"

ResultIgnored(id) ==
  /\ request[id].stage = "finished"
  /\ nav.goal # id
  /\ request' = [request EXCEPT ![id] = At("over")]
  /\ CallbackFrame
  /\ UNCHANGED <<nav, handleVars, cancelAsked, replies>>

ResultTaken(id, r) ==
  /\ request[id] = Finished(r)
  /\ nav.goal = id
  /\ request' = [request EXCEPT ![id] = At("over")]
  /\ nav' = [nav EXCEPT !.state = r]
  /\ relay' = FALSE
  /\ active' = None
  /\ activeCmd' = None
  /\ IF activeCmd # None THEN Reply(activeCmd, FinalReply(r))
     ELSE UNCHANGED replies
  /\ CallbackFrame
  /\ UNCHANGED <<pending, cancelAsked>>

OnNavResult(id) == ResultIgnored(id) \/ \E r \in GoalResult : ResultTaken(id, r)

\* Nav2 publishes velocities whenever it likes; _on_nav_cmd_vel drops them
\* while the relay is closed.
OnNavCmdVel(v) ==
  /\ relay
  /\ out' = <<<<"cmd_vel", v, "nav2">>>>
  /\ UNCHANGED <<received, nav, handleVars, request, cancelAsked,
                 replies, lastOverride>>

-----------------------------------------------------------------------------
Receive == \E m \in Message : Accept(m) \/ Reject(m)

Nav2Step == \E id \in Id : \/ \E o \in Outcomes : NavAnswers(id, o)
                           \/ \E r \in GoalResult : NavFinishes(id, r)

Callback == \/ \E id \in Id : OnNavGoalResponse(id) \/ OnNavResult(id)
            \/ \E v \in Velocities : OnNavCmdVel(v)

Next == Receive \/ Nav2Step \/ Callback

Spec == Init /\ [][Next]_vars

\* Nav2 answers every request, does not fail to deliver the answer, ends every
\* goal, and the executor runs every callback that is ready.
NavFairness == \A id \in Id :
  /\ WF_vars(\E o \in Outcomes : NavAnswers(id, o))
  /\ WF_vars(\E r \in GoalResult : NavFinishes(id, r))
  /\ WF_vars(OnNavGoalResponse(id))
  /\ WF_vars(OnNavResult(id))

FairSpec == Spec /\ NavFairness

-----------------------------------------------------------------------------
(* Properties                                                              *)

\* Velocities of Nav2 reach the chassis only while the goal shown to the
\* operator is the one being executed: it is accepted, no other goal is being
\* sent, and the status says "executing".
RelayServesCurrentGoal ==
  relay => /\ active # None /\ active = nav.goal /\ activeCmd = active
           /\ pending = None
           /\ nav.state = "executing"
           /\ request[active].stage \in {"watched", "finished"}

\* A goal the operator has overridden (manual motion, stop, brake, emergency
\* stop, mode change, cancel or a newer goal) never drives the robot again,
\* even when its acceptance arrives after the override.
OverriddenGoalNeverDrives == relay => active = lastOverride

\* Nav2 is never left executing a goal nobody follows: one that was accepted
\* and is not the active one has been asked to cancel.
AbandonedGoalIsCancelled ==
  \A id \in Id : (request[id].stage \in {"watched", "dropped"} /\ active # id)
                   => id \in cancelAsked

\* What a client gets under one command_id.  A command runs at most once,
\* however often its message is delivered: there is one acceptance at most, and
\* one final reply at most, after it.  A command delivered once is accepted,
\* rejected or neither, never both.  One that is repeated gets a "rejected" for
\* every delivery that is refused, and the client may find it anywhere: before
\* the acceptance, or after the command has long been completed.
Ends == {"completed", "failed"}
ReplyProtocol ==
  \A id \in Id : \A i, j \in DOMAIN replies[id] : i < j =>
    LET first == replies[id][i]
        second == replies[id][j]
    IN  /\ second = "accepted" => first = "rejected"
        /\ second \in Ends => first \in {"accepted", "rejected"}
        /\ "rejected" \in {first, second} => id \in repeated

\* A goal shown as finished stays finished: no late response, result or
\* cancel turns its final state into another one.
FinalStateIsFinal ==
  [][(nav.state \in FinalStates /\ nav'.goal = nav.goal)
       => nav'.state = nav.state]_vars

\* "sending" is not a state the operator can be left looking at.
SendingEnds == nav.state = "sending" ~> nav.state # "sending"

\* Nor is "canceling": the result of the cancelled goal, or its late response,
\* replaces it, unless the goal request itself raised (that branch of
\* _on_nav_goal_response replies and leaves the status as it is).
RequestRaised(id) == request[id] = [stage |-> "over", value |-> "failed"]
CancelingEnds ==
  nav.state = "canceling"
    ~> (nav.state # "canceling" \/ RequestRaised(nav.goal))

\* Both: no state the operator waits on stays for ever.
UnsettledStatesEnd == SendingEnds /\ CancelingEnds

\* The gateway implements the abstract promise about autonomous motion, also
\* when messages are repeated: the holder is the goal whose velocities are
\* relayed, and a command has had its effect when it has been accepted or its
\* goal has been sent.
Holder == IF relay THEN active ELSE None
Told == [id \in Id |-> {replies[id][i] : i \in DOMAIN replies[id]}]
Ran == {id \in Id : request[id].stage # "unsent" \/ "accepted" \in Told[id]}
Authority == INSTANCE MotionAuthority
               WITH Command <- Id, used <- Ran, latest <- lastOverride,
                    open <- pending # None, holder <- Holder
ImplementsMotionAuthority == Authority!Spec
=============================================================================
