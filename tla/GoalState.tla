----------------------------- MODULE GoalState -----------------------------
(***************************************************************************)
(* The goals the navigation window and the frontier explorer send to Nav2, *)
(* what the two clients keep of them, and what every state satisfies.      *)
(* NavGoals says what the clients do with this state; Navigation does the  *)
(* same beside the maps.                                                   *)
(***************************************************************************)
EXTENDS Integers, Sequences, FiniteSets

CONSTANTS
  MaxGoals,     \* goals that are sent
  MaxRestarts,  \* restarts of Nav2
  Frontiers     \* the places an exploration can go to

ASSUME GoalsAssumption ==
  /\ {MaxGoals, MaxRestarts} \subseteq Nat
  /\ IsFiniteSet(Frontiers) /\ "window" \notin Frontiers

VARIABLES
  goals,      \* the goals sent so far
  handle,     \* NavigationWorker.goal_handle, 0 for None
  exActive, exHandle,   \* _goal_active, _current_goal_handle of the explorer
  failed,     \* _failed_goals
  frontiers,  \* what find_frontiers finds in the map
  closed,     \* the worker has shut down
  restarts,   \* bound
  overlap     \* history: the window sent a goal while one that it had sent
              \* before was not over

Id == 1..MaxGoals
Over == {"refused", "succeeded", "failed", "lost"}
Goal == [by : {"window"} \cup Frontiers,
         nav : {"asked", "running"} \cup Over,
         client : {"asked", "held", "done"},
         cancel : BOOLEAN]

GoalTypeOK ==
  /\ goals \in Seq(Goal) /\ Len(goals) <= MaxGoals
  /\ handle \in Id \cup {0} /\ exHandle \in Id \cup {0}
  /\ exActive \in BOOLEAN /\ closed \in BOOLEAN /\ overlap \in BOOLEAN
  /\ failed \subseteq Frontiers /\ frontiers \subseteq Frontiers
  /\ restarts \in 0..MaxRestarts

ByWindow(g) == goals[g].by = "window"
\* The window's goals that are not over for the window, and for Nav2.
Unfinished == {g \in DOMAIN goals : ByWindow(g) /\ goals[g].client # "done"}
Live == {g \in DOMAIN goals : ByWindow(g) /\ goals[g].nav \notin Over}

-----------------------------------------------------------------------------
\* A goal of the window that Nav2 is busy with, and whose acceptance the
\* window has seen, is the one it can cancel, or is being cancelled, unless
\* a goal was sent before the one before it was over.
Seen(g) == goals[g].client # "asked"
LoneGoalIsReachable ==
  ~overlap => \A g \in Live : Seen(g) => g = handle \/ goals[g].cancel

\* What every state of the two clients satisfies: their types, and that the
\* window can still reach the goal it sent.
GoalInvariant == GoalTypeOK /\ LoneGoalIsReachable
=============================================================================
