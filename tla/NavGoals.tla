------------------------------ MODULE NavGoals ------------------------------
(***************************************************************************)
(* The goals that are sent to Nav2: by the navigation window's worker      *)
(* (NavigationWorker of navigation_gui.py) and by the frontier explorer    *)
(* (frontier_explorer.py), two clients of the same action servers.         *)
(*                                                                         *)
(* A client asks for a goal, is told later whether it was accepted, and    *)
(* only then asks for its result.  Both clients keep one handle and forget *)
(* it when a result arrives, whichever goal that result is of.  Slots and  *)
(* ROS callbacks of a client run in one thread, so each is one step.       *)
(*                                                                         *)
(* Goals are numbered as they are sent.  Nav2 is external: it accepts or   *)
(* refuses, ends a goal it runs at any time (another goal preempts it),    *)
(* and may be restarted, which leaves its clients without an answer.       *)
(***************************************************************************)
EXTENDS GoalState

explorerVars == <<exActive, exHandle, failed, frontiers>>
windowVars == <<handle, closed, overlap>>
vars == <<goals, windowVars, explorerVars, restarts>>

-----------------------------------------------------------------------------
Init ==
  /\ goals = <<>>
  /\ handle = 0
  /\ exActive = FALSE
  /\ exHandle = 0
  /\ failed = {}
  /\ frontiers = Frontiers
  /\ closed = FALSE
  /\ restarts = 0
  /\ overlap = FALSE

Ask(who) ==
  goals' = Append(goals, [by |-> who, nav |-> "asked", client |-> "asked",
                          cancel |-> FALSE])
Canceled(g) == [goals EXCEPT ![g].cancel = TRUE]

\* send_goal, send_waypoints: a goal is refused while there is a handle.
SendGoal ==
  /\ ~closed /\ Len(goals) < MaxGoals
  /\ IF handle # 0 THEN UNCHANGED <<goals, overlap>>
     ELSE Ask("window") /\ overlap' = (overlap \/ Unfinished # {})
  /\ UNCHANGED <<handle, closed, explorerVars, restarts>>

\* cancel_goal: the handle stays until the result comes.
CancelGoal ==
  /\ ~closed
  /\ IF handle = 0 THEN UNCHANGED goals ELSE goals' = Canceled(handle)
  /\ UNCHANGED <<windowVars, explorerVars, restarts>>

\* Mutant: the handle is dropped first.
CancelActiveGoalDropped ==
  /\ ~closed
  /\ handle' = 0
  /\ UNCHANGED <<goals, closed, explorerVars, restarts, overlap>>

\* _cancel_active_goal, when a map is loaded or the robot relocalised.
CancelActiveGoal ==
  /\ ~closed
  /\ IF handle = 0 THEN UNCHANGED goals ELSE goals' = Canceled(handle)
  /\ handle' = 0
  /\ UNCHANGED <<closed, explorerVars, restarts, overlap>>

Answered(g) == goals[g].client = "asked" /\ goals[g].nav \notin {"asked", "lost"}
Accepted(g) == goals[g].nav # "refused"

\* _on_goal_response, _on_waypoint_goal_response; _goal_response.
GoalResponse(g) ==
  /\ Answered(g)
  /\ goals' = [goals EXCEPT ![g].client = IF Accepted(g) THEN "held" ELSE "done"]
  /\ IF ByWindow(g)
     THEN /\ handle' = IF Accepted(g) THEN g ELSE handle
          /\ UNCHANGED explorerVars
     ELSE /\ exHandle' = IF Accepted(g) THEN g ELSE exHandle
          /\ exActive' = (exActive /\ Accepted(g))
          /\ failed' = IF Accepted(g) THEN failed ELSE failed \cup {goals[g].by}
          /\ UNCHANGED <<handle, frontiers>>
  /\ UNCHANGED <<closed, restarts, overlap>>

ResultReady(g) == goals[g].client = "held" /\ goals[g].nav \in {"succeeded", "failed"}

\* Mutant: the handle stays.
ResultKeepsHandle(g) ==
  /\ ResultReady(g)
  /\ goals' = [goals EXCEPT ![g].client = "done"]
  /\ IF ByWindow(g) THEN UNCHANGED explorerVars
     ELSE /\ exHandle' = 0 /\ exActive' = FALSE
          /\ failed' = failed /\ UNCHANGED frontiers
  /\ UNCHANGED <<windowVars, restarts>>

\* _on_result, _on_waypoint_result; _goal_result.
Result(g) ==
  /\ ResultReady(g)
  /\ goals' = [goals EXCEPT ![g].client = "done"]
  /\ IF ByWindow(g)
     THEN handle' = 0 /\ UNCHANGED explorerVars
     ELSE /\ exHandle' = 0
          /\ exActive' = FALSE
          /\ failed' = IF goals[g].nav = "succeeded" THEN failed
                       ELSE failed \cup {goals[g].by}
          /\ UNCHANGED <<handle, frontiers>>
  /\ UNCHANGED <<closed, restarts, overlap>>

\* shutdown: the goal that has a handle is cancelled.
Shutdown ==
  /\ ~closed
  /\ IF handle = 0 THEN UNCHANGED goals ELSE goals' = Canceled(handle)
  /\ closed' = TRUE
  /\ UNCHANGED <<handle, explorerVars, restarts, overlap>>

-----------------------------------------------------------------------------
\* Mutant: only a goal that was accepted can time out.
GoalTimeoutHeld ==
  /\ exActive /\ exHandle # 0
  /\ goals' = Canceled(exHandle)
  /\ exActive' = FALSE
  /\ UNCHANGED <<windowVars, exHandle, failed, frontiers, restarts>>

\* _tick, 90 s after the goal was sent.
GoalTimeout ==
  /\ exActive
  /\ IF exHandle = 0 THEN UNCHANGED goals ELSE goals' = Canceled(exHandle)
  /\ exActive' = FALSE
  /\ UNCHANGED <<windowVars, exHandle, failed, frontiers, restarts>>

\* find_frontiers, choose_frontier: one that is not near a failed goal.
Choices == frontiers \ failed

\* _tick: a goal at a frontier.
Explore ==
  /\ ~exActive
  /\ Len(goals) < MaxGoals
  /\ \E f \in Choices : Ask(f)
  /\ exActive' = TRUE
  /\ UNCHANGED <<windowVars, exHandle, failed, frontiers, restarts>>

-----------------------------------------------------------------------------
\* External: Nav2.
Set(g, state) == goals' = [goals EXCEPT ![g].nav = state]

Decide(g) ==
  /\ goals[g].nav = "asked"
  /\ Set(g, "running") \/ Set(g, "refused")
  /\ UNCHANGED <<windowVars, explorerVars, restarts>>

\* A goal that was cancelled, preempted or cannot be reached fails.  A place
\* that was reached is no frontier any more.
End(g) ==
  /\ goals[g].nav = "running"
  /\ \/ Set(g, "succeeded") /\ frontiers' = frontiers \ {goals[g].by}
     \/ Set(g, "failed") /\ UNCHANGED frontiers
  /\ UNCHANGED <<windowVars, exActive, exHandle, failed, restarts>>

Restart ==
  /\ restarts < MaxRestarts
  /\ restarts' = restarts + 1
  /\ goals' = [g \in DOMAIN goals |->
                 IF goals[g].nav \in {"asked", "running"}
                 THEN [goals[g] EXCEPT !.nav = "lost"] ELSE goals[g]]
  /\ UNCHANGED <<windowVars, explorerVars>>

WindowCallback ==
  ~closed /\ \E g \in DOMAIN goals : ByWindow(g) /\ (GoalResponse(g) \/ Result(g))
ExplorerCallback == \E g \in DOMAIN goals : ~ByWindow(g) /\ (GoalResponse(g) \/ Result(g))
Nav2Step == \E g \in DOMAIN goals : Decide(g) \/ End(g)

Next ==
  \/ SendGoal \/ CancelGoal \/ CancelActiveGoal \/ Shutdown \/ WindowCallback
  \/ Explore \/ GoalTimeout \/ ExplorerCallback
  \/ Nav2Step \/ Restart

Spec == Init /\ [][Next]_vars

\* Nav2 answers and ends what is cancelled, the window's thread runs its
\* callbacks, and the timer of the explorer fires after 90 s.
CanceledEnds == \E g \in DOMAIN goals : goals[g].cancel /\ End(g)
Decisions == \E g \in DOMAIN goals : Decide(g)
Fairness == /\ WF_vars(Decisions) /\ WF_vars(CanceledEnds)
            /\ WF_vars(WindowCallback) /\ WF_vars(GoalTimeout)
FairSpec == Spec /\ Fairness

-----------------------------------------------------------------------------
\* remote_control/README.md:331: the current navigation can be cancelled at any
\* time.
CancelReaches ==
  [][CancelGoal => \A g \in Live : Seen(g) => goals'[g].cancel]_vars

\* The explorer waits for no goal for ever, though Nav2 may be restarted.
ExplorerGoesOn == []<>(~exActive)

\* What the operator cancels comes to an end, and the window can send the
\* next goal, unless Nav2 was restarted or the window is closed.
CancelFrees ==
  \A g \in Id : (handle = g /\ goals[g].cancel)
                  ~> (handle # g \/ restarts > 0 \/ closed)
=============================================================================
