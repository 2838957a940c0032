--------------------------- MODULE MotionAuthority ---------------------------
(***************************************************************************)
(* What the gateway promises about autonomous motion, without Nav2, topics *)
(* or replies: a command has an effect at most once, however often its     *)
(* message comes, and the authority to move the robot autonomously is      *)
(* granted at most once for each navigation command, only while that       *)
(* command is the latest one that has a say in who moves the robot, and    *)
(* never again once it is gone.                                            *)
(***************************************************************************)
EXTENDS Naturals

CONSTANT Command   \* the names commands may have, all positive numbers

VARIABLES
  used,     \* the commands that have had their effect
  latest,   \* the last of them that took authority, or 0
  open,     \* that command asks for authority and has not been answered
  holder    \* the command that holds it, or 0

vars == <<used, latest, open, holder>>

Init == used = {} /\ latest = 0 /\ open = FALSE /\ holder = 0

Use(id) ==
  /\ id \notin used
  /\ used' = used \cup {id}

\* A command takes authority away; a navigation command asks for it.
Take(id, asks) ==
  /\ Use(id)
  /\ latest' = id
  /\ open' = asks
  /\ holder' = 0

\* A command that has no say in who moves the robot.
Pass(id) ==
  /\ Use(id)
  /\ UNCHANGED <<latest, open, holder>>

Grant ==
  /\ open
  /\ open' = FALSE
  /\ holder' = latest
  /\ UNCHANGED <<used, latest>>

Refuse ==
  /\ open
  /\ open' = FALSE
  /\ UNCHANGED <<used, latest, holder>>

Finish ==
  /\ holder # 0
  /\ holder' = 0
  /\ UNCHANGED <<used, latest, open>>

Next ==
  \/ \E id \in Command : Pass(id) \/ \E asks \in BOOLEAN : Take(id, asks)
  \/ Grant
  \/ Refuse
  \/ Finish

Spec == Init /\ [][Next]_vars
=============================================================================
