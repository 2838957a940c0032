-------------------------- MODULE NavigationProofs --------------------------
(***************************************************************************)
(* Proofs about the navigation window and its worker, for any number of    *)
(* goals, files, way points and signals.                                   *)
(*                                                                         *)
(* First the goals, whoever sends them, the explorer included.  The window *)
(* keeps one handle for all its goals: without an overlap the handle has   *)
(* only one goal to stand for, and whatever response or result arrives, it *)
(* is that goal's.                                                         *)
(*                                                                         *)
(* Then the map: as long as nothing is upset, one change of map is under   *)
(* way at most, no export meets it, and the manager saves what its prefix  *)
(* names.                                                                  *)
(***************************************************************************)
EXTENDS Navigation, SequenceTheorems, TLAPS

\* The handles are of goals that were sent.
HandlesKnown ==
  handle \in 0..Len(goals) /\ exHandle \in 0..Len(goals)

\* A goal that is over for its client is over for Nav2.
DoneIsOver ==
  \A g \in 1..Len(goals) : goals[g].client = "done" => goals[g].nav \in G!Over

\* Without an overlap the window has one goal that is not over, at most, and
\* its handle is that goal's.
OneUnfinished ==
  ~overlap =>
    /\ \A g, h \in 1..Len(goals) : g \in G!Unfinished /\ h \in G!Unfinished => g = h
    /\ handle # 0 => handle \in G!Unfinished /\ goals[handle].client = "held"

GoalsIInv ==
  /\ G!GoalTypeOK
  /\ HandlesKnown
  /\ DoneIsOver
  /\ OneUnfinished
  /\ G!LoneGoalIsReachable

\* NavGoals, instantiated with the window's own variables, says the same of a
\* state as GoalState.
LEMMA SameTypes == G!GoalTypeOK <=> GoalTypeOK
BY DEF GoalTypeOK, Goal, Over, Id, G!GoalTypeOK, G!Goal, G!Over, G!Id

LEMMA SameReach == G!LoneGoalIsReachable <=> LoneGoalIsReachable
BY DEF LoneGoalIsReachable, Live, Seen, ByWindow, Over,
       G!LoneGoalIsReachable, G!Live, G!Seen, G!ByWindow, G!Over

-----------------------------------------------------------------------------
(* What a step makes of the goals.                                         *)

LEMMA Sent ==
  ASSUME G!GoalTypeOK
  PROVE  /\ goals \in [1..Len(goals) -> G!Goal] /\ DOMAIN goals = 1..Len(goals)
         /\ Len(goals) \in Nat /\ Len(goals) <= MaxGoals
BY LenProperties DEF G!GoalTypeOK

LEMMA FunctionIsSeq ==
  ASSUME NEW S, NEW n \in Nat, NEW f \in [1..n -> S]
  PROVE  f \in Seq(S) /\ Len(f) = n
<1>1. f \in Seq(S)
  BY SeqDef
<1>2. DOMAIN f = 1..n /\ DOMAIN f = 1..Len(f) /\ Len(f) \in Nat
  BY <1>1, LenProperties
<1>. QED
  BY <1>1, <1>2

\* A step that keeps the goals that were sent, each with its sender.
KeepsGoals ==
  /\ goals' \in Seq(G!Goal) /\ Len(goals') = Len(goals)
  /\ \A g \in 1..Len(goals) : goals'[g].by = goals[g].by

LEMMA CancelStep ==
  ASSUME G!GoalTypeOK, NEW h, goals' = G!Canceled(h)
  PROVE  /\ KeepsGoals
         /\ \A g \in 1..Len(goals) :
              /\ goals'[g].nav = goals[g].nav /\ goals'[g].client = goals[g].client
              /\ goals'[g].cancel <=> (goals[g].cancel \/ g = h)
<1>1. goals \in [1..Len(goals) -> G!Goal] /\ Len(goals) \in Nat
  BY Sent
<1>2. \A g \in 1..Len(goals) :
        goals'[g] = IF g = h THEN [goals[g] EXCEPT !.cancel = TRUE] ELSE goals[g]
  BY <1>1 DEF G!Canceled
<1>3. goals' \in [1..Len(goals) -> G!Goal]
  BY <1>1 DEF G!Canceled, G!Goal
<1>4. goals' \in Seq(G!Goal) /\ Len(goals') = Len(goals)
  BY <1>1, <1>3, FunctionIsSeq
<1>5. ASSUME NEW g \in 1..Len(goals)
      PROVE  /\ goals'[g].by = goals[g].by
             /\ goals'[g].nav = goals[g].nav /\ goals'[g].client = goals[g].client
             /\ goals'[g].cancel <=> (goals[g].cancel \/ g = h)
  <2>1. goals[g] \in G!Goal
    BY <1>1
  <2>. QED
    BY <1>2, <2>1 DEF G!Goal
<1>. QED
  BY <1>4, <1>5 DEF KeepsGoals

LEMMA ClientStep ==
  ASSUME G!GoalTypeOK, NEW h \in 1..Len(goals), NEW c \in {"held", "done"},
         goals' = [goals EXCEPT ![h].client = c]
  PROVE  /\ KeepsGoals
         /\ \A g \in 1..Len(goals) :
              /\ goals'[g].nav = goals[g].nav
              /\ goals'[g].client = IF g = h THEN c ELSE goals[g].client
              /\ goals'[g].cancel = goals[g].cancel
<1>1. goals \in [1..Len(goals) -> G!Goal] /\ Len(goals) \in Nat
  BY Sent
<1>2. \A g \in 1..Len(goals) :
        goals'[g] = IF g = h THEN [goals[g] EXCEPT !.client = c] ELSE goals[g]
  BY <1>1
<1>3. goals' \in [1..Len(goals) -> G!Goal]
  BY <1>1 DEF G!Goal
<1>4. goals' \in Seq(G!Goal) /\ Len(goals') = Len(goals)
  BY <1>1, <1>3, FunctionIsSeq
<1>5. ASSUME NEW g \in 1..Len(goals)
      PROVE  /\ goals'[g].by = goals[g].by
             /\ goals'[g].nav = goals[g].nav
             /\ goals'[g].client = IF g = h THEN c ELSE goals[g].client
             /\ goals'[g].cancel = goals[g].cancel
  <2>1. goals[g] \in G!Goal
    BY <1>1
  <2>. QED
    BY <1>2, <2>1 DEF G!Goal
<1>. QED
  BY <1>4, <1>5 DEF KeepsGoals

\* Nav2 moves goals on, and never back from where they are over.
NavStep ==
  /\ KeepsGoals
  /\ \A g \in 1..Len(goals) :
       /\ goals'[g].client = goals[g].client /\ goals'[g].cancel = goals[g].cancel
       /\ goals[g].nav \in G!Over => goals'[g].nav = goals[g].nav

LEMMA SetStep ==
  ASSUME G!GoalTypeOK, NEW h \in 1..Len(goals), goals[h].nav \notin G!Over,
         NEW state \in {"running"} \cup G!Over, G!Set(h, state)
  PROVE  NavStep
<1>1. goals \in [1..Len(goals) -> G!Goal] /\ Len(goals) \in Nat
  BY Sent
<1>2. \A g \in 1..Len(goals) :
        goals'[g] = IF g = h THEN [goals[g] EXCEPT !.nav = state] ELSE goals[g]
  BY <1>1 DEF G!Set
<1>3. goals' \in [1..Len(goals) -> G!Goal]
  BY <1>1 DEF G!Set, G!Goal
<1>4. goals' \in Seq(G!Goal) /\ Len(goals') = Len(goals)
  BY <1>1, <1>3, FunctionIsSeq
<1>5. ASSUME NEW g \in 1..Len(goals)
      PROVE  /\ goals'[g].by = goals[g].by
             /\ goals'[g].client = goals[g].client /\ goals'[g].cancel = goals[g].cancel
             /\ goals[g].nav \in G!Over => goals'[g].nav = goals[g].nav
  <2>1. goals[g] \in G!Goal
    BY <1>1
  <2>. QED
    BY <1>2, <2>1 DEF G!Goal
<1>. QED
  BY <1>4, <1>5 DEF KeepsGoals, NavStep

LEMMA RestartStep ==
  ASSUME G!GoalTypeOK, G!Restart
  PROVE  NavStep
<1>1. goals \in [1..Len(goals) -> G!Goal] /\ Len(goals) \in Nat /\ DOMAIN goals = 1..Len(goals)
  BY Sent
<1>2. \A g \in 1..Len(goals) :
        goals'[g] = IF goals[g].nav \in {"asked", "running"}
                    THEN [goals[g] EXCEPT !.nav = "lost"] ELSE goals[g]
  BY <1>1 DEF G!Restart
<1>3. goals' \in [1..Len(goals) -> G!Goal]
  BY <1>1 DEF G!Restart, G!Goal, G!Over
<1>4. goals' \in Seq(G!Goal) /\ Len(goals') = Len(goals)
  BY <1>1, <1>3, FunctionIsSeq
<1>5. ASSUME NEW g \in 1..Len(goals)
      PROVE  /\ goals'[g].by = goals[g].by
             /\ goals'[g].client = goals[g].client /\ goals'[g].cancel = goals[g].cancel
             /\ goals[g].nav \in G!Over => goals'[g].nav = goals[g].nav
  <2>1. goals[g] \in G!Goal
    BY <1>1
  <2>. QED
    BY <1>2, <2>1 DEF G!Goal, G!Over
<1>. QED
  BY <1>4, <1>5 DEF KeepsGoals, NavStep

LEMMA AskStep ==
  ASSUME G!GoalTypeOK, Len(goals) < MaxGoals, NEW who \in {"window"} \cup Frontiers, G!Ask(who)
  PROVE  /\ goals' \in Seq(G!Goal) /\ Len(goals') = Len(goals) + 1 /\ Len(goals') <= MaxGoals
         /\ \A g \in 1..Len(goals) : goals'[g] = goals[g]
         /\ goals'[Len(goals) + 1] = [by |-> who, nav |-> "asked", client |-> "asked",
                                      cancel |-> FALSE]
<1>. DEFINE new == [by |-> who, nav |-> "asked", client |-> "asked", cancel |-> FALSE]
<1>1. new \in G!Goal
  BY DEF G!Goal
<1>2. goals \in Seq(G!Goal) /\ Len(goals) \in Nat /\ MaxGoals \in Nat
  BY Sent, GoalsAssumption DEF G!GoalTypeOK
<1>3. goals' = Append(goals, new)
  BY DEF G!Ask
<1>. HIDE DEF new
<1>4. /\ goals' \in Seq(G!Goal) /\ Len(goals') = Len(goals) + 1
      /\ \A g \in 1..Len(goals) : goals'[g] = goals[g]
      /\ goals'[Len(goals) + 1] = new
  BY <1>1, <1>2, <1>3, AppendProperties
<1>. QED
  BY <1>2, <1>4 DEF new

-----------------------------------------------------------------------------
(* Types.                                                                  *)

LEMMA GoalsTypeInit == G!Init => G!GoalTypeOK
<1>. SUFFICES ASSUME G!Init PROVE G!GoalTypeOK
  OBVIOUS
<1>1. goals \in Seq(G!Goal) /\ Len(goals) = 0
  BY EmptySeq DEF G!Init
<1>2. MaxGoals \in Nat /\ MaxRestarts \in Nat
  BY GoalsAssumption
<1>3. Len(goals) <= MaxGoals /\ restarts \in 0..MaxRestarts
  BY <1>1, <1>2 DEF G!Init
<1>4. /\ exActive \in BOOLEAN /\ closed \in BOOLEAN /\ overlap \in BOOLEAN
      /\ failed \subseteq Frontiers /\ frontiers \subseteq Frontiers
  BY DEF G!Init
<1>5. handle \in G!Id \cup {0} /\ exHandle \in G!Id \cup {0}
  BY DEF G!Init
<1>. QED
  BY <1>1, <1>3, <1>4, <1>5 DEF G!GoalTypeOK

LEMMA GoalOf ==
  ASSUME G!GoalTypeOK, NEW g \in 1..Len(goals)
  PROVE  /\ goals[g] \in G!Goal /\ g \in G!Id /\ g # 0
         /\ ~G!ByWindow(g) => goals[g].by \in Frontiers
<1>1. goals[g] \in G!Goal
  BY Sent
<1>. QED
  BY <1>1, Sent, GoalsAssumption DEF G!Id, G!Goal, G!ByWindow

LEMMA CallbackStep ==
  ASSUME G!GoalTypeOK, NEW g \in 1..Len(goals), G!GoalResponse(g) \/ G!Result(g)
  PROVE  /\ KeepsGoals
         /\ \E c \in {"held", "done"} : \A h \in 1..Len(goals) :
              /\ goals'[h].nav = goals[h].nav
              /\ goals'[h].client = IF h = g THEN c ELSE goals[h].client
              /\ goals'[h].cancel = goals[h].cancel
<1>1. CASE G!GoalResponse(g)
  <2>1. PICK c \in {"held", "done"} : goals' = [goals EXCEPT ![g].client = c]
    BY <1>1 DEF G!GoalResponse
  <2>. QED
    BY <2>1, ClientStep
<1>2. CASE G!Result(g)
  <2>1. goals' = [goals EXCEPT ![g].client = "done"]
    BY <1>2 DEF G!Result
  <2>. QED
    BY <2>1, ClientStep
<1>. QED
  BY <1>1, <1>2

LEMMA GoalsTypeStep == G!GoalTypeOK /\ [G!Next]_G!vars => G!GoalTypeOK'
<1>. SUFFICES ASSUME G!GoalTypeOK, [G!Next]_G!vars PROVE G!GoalTypeOK'
  OBVIOUS
<1>b. MaxGoals \in Nat /\ MaxRestarts \in Nat
  BY GoalsAssumption
<1>g. goals \in Seq(G!Goal) /\ Len(goals) <= MaxGoals /\ Len(goals) \in Nat
      /\ DOMAIN goals = 1..Len(goals)
  BY Sent DEF G!GoalTypeOK
<1>r. /\ handle \in G!Id \cup {0} /\ exHandle \in G!Id \cup {0}
      /\ exActive \in BOOLEAN /\ closed \in BOOLEAN /\ overlap \in BOOLEAN
      /\ failed \subseteq Frontiers /\ frontiers \subseteq Frontiers
      /\ restarts \in 0..MaxRestarts
  BY DEF G!GoalTypeOK
<1>k. KeepsGoals => goals' \in Seq(G!Goal) /\ Len(goals') <= MaxGoals
  BY <1>g DEF KeepsGoals
<1>1. CASE G!SendGoal
  <2>1. goals' \in Seq(G!Goal) /\ Len(goals') <= MaxGoals
    <3>1. CASE handle # 0
      BY <1>1, <1>g, <3>1 DEF G!SendGoal
    <3>2. CASE handle = 0
      BY <1>1, <3>2, AskStep DEF G!SendGoal
    <3>. QED
      BY <3>1, <3>2
  <2>2. overlap' \in BOOLEAN
    BY <1>1, <1>r DEF G!SendGoal
  <2>. QED
    BY <1>1, <1>r, <2>1, <2>2 DEF G!SendGoal, G!explorerVars, G!GoalTypeOK
<1>2. CASE G!CancelGoal \/ G!CancelActiveGoal \/ G!Shutdown \/ G!GoalTimeout
  <2>1. goals' = goals \/ \E h \in {handle, exHandle} : goals' = G!Canceled(h)
    BY <1>2 DEF G!CancelGoal, G!CancelActiveGoal, G!Shutdown, G!GoalTimeout
  <2>2. goals' \in Seq(G!Goal) /\ Len(goals') <= MaxGoals
    BY <1>g, <1>k, <2>1, CancelStep
  <2>. QED
    BY <1>2, <1>r, <2>2
    DEF G!CancelGoal, G!CancelActiveGoal, G!Shutdown, G!GoalTimeout, G!explorerVars, G!windowVars, G!GoalTypeOK
<1>3. CASE G!WindowCallback \/ G!ExplorerCallback
  <2>1. PICK g \in 1..Len(goals) : G!GoalResponse(g) \/ G!Result(g)
    BY <1>3, <1>g DEF G!WindowCallback, G!ExplorerCallback
  <2>2. goals' \in Seq(G!Goal) /\ Len(goals') <= MaxGoals
    BY <1>k, <2>1, CallbackStep
  <2>3. /\ handle' \in {handle, 0, g} /\ exHandle' \in {exHandle, 0, g}
        /\ UNCHANGED <<frontiers, closed, restarts, overlap>>
        /\ failed' \subseteq Frontiers
    BY <1>r, <2>1, GoalOf DEF G!GoalResponse, G!Result, G!explorerVars
  <2>4. exActive' \in BOOLEAN
    BY <1>r, <2>1 DEF G!GoalResponse, G!Result, G!explorerVars, G!Accepted
  <2>. QED
    BY <1>r, <2>1, <2>2, <2>3, <2>4, GoalOf DEF G!GoalTypeOK
<1>4. CASE G!Explore
  <2>1. PICK f \in G!Choices : G!Ask(f)
    BY <1>4 DEF G!Explore
  <2>2. goals' \in Seq(G!Goal) /\ Len(goals') <= MaxGoals
    BY <1>4, <1>r, <2>1, AskStep DEF G!Explore, G!Choices
  <2>. QED
    BY <1>4, <1>r, <2>2 DEF G!Explore, G!windowVars, G!GoalTypeOK
<1>5. CASE G!Nav2Step
  <2>1. PICK g \in 1..Len(goals) : G!Decide(g) \/ G!End(g)
    BY <1>5, <1>g DEF G!Nav2Step
  <2>2. goals' \in Seq(G!Goal) /\ Len(goals') <= MaxGoals
    BY <1>k, <2>1, SetStep DEF G!Decide, G!End, NavStep, G!Over
  <2>. QED
    BY <1>r, <2>1, <2>2 DEF G!Decide, G!End, G!windowVars, G!explorerVars, G!GoalTypeOK
<1>6. CASE G!Restart
  <2>1. goals' \in Seq(G!Goal) /\ Len(goals') <= MaxGoals
    BY <1>k, <1>6, RestartStep DEF NavStep
  <2>. QED
    BY <1>6, <1>r, <1>b, <2>1 DEF G!Restart, G!windowVars, G!explorerVars, G!GoalTypeOK
<1>7. CASE UNCHANGED G!vars
  BY <1>7 DEF G!vars, G!windowVars, G!explorerVars, G!GoalTypeOK
<1>. QED
  BY <1>1, <1>2, <1>3, <1>4, <1>5, <1>6, <1>7 DEF G!Next

-----------------------------------------------------------------------------
(* Every step preserves the invariant.                                     *)

LEMMA GoalsInit == G!Init => GoalsIInv
<1>. SUFFICES ASSUME G!Init PROVE GoalsIInv
  OBVIOUS
<1>1. Len(goals) = 0 /\ DOMAIN goals = {} /\ handle = 0 /\ exHandle = 0
  BY EmptySeq DEF G!Init
<1>. QED
  BY <1>1, GoalsTypeInit
  DEF GoalsIInv, HandlesKnown, DoneIsOver, OneUnfinished, G!LoneGoalIsReachable, G!Live

\* The window's goals, by number.
WindowGoals ==
  /\ G!Unfinished = {g \in 1..Len(goals) : goals[g].by = "window" /\ goals[g].client # "done"}
  /\ G!Live = {g \in 1..Len(goals) : goals[g].by = "window" /\ goals[g].nav \notin G!Over}

LEMMA Unfolded == G!GoalTypeOK => WindowGoals
BY Sent DEF G!Unfinished, G!Live, G!ByWindow, WindowGoals

LEMMA GoalsNext == GoalsIInv /\ [G!Next]_G!vars => GoalsIInv'
<1>. SUFFICES ASSUME GoalsIInv, [G!Next]_G!vars PROVE GoalsIInv'
  OBVIOUS
<1>t. G!GoalTypeOK /\ G!GoalTypeOK'
  BY GoalsTypeStep DEF GoalsIInv
<1>g. Len(goals) \in Nat /\ DOMAIN goals = 1..Len(goals)
  BY <1>t, Sent
<1>u. /\ G!Unfinished = {g \in 1..Len(goals) : goals[g].by = "window" /\ goals[g].client # "done"}
      /\ G!Live = {g \in 1..Len(goals) : goals[g].by = "window" /\ goals[g].nav \notin G!Over}
  BY <1>t, Unfolded DEF WindowGoals
<1>v. /\ G!Unfinished' = {g \in 1..Len(goals') : goals'[g].by = "window" /\ goals'[g].client # "done"}
      /\ G!Live' = {g \in 1..Len(goals') : goals'[g].by = "window" /\ goals'[g].nav \notin G!Over}
  <2>1. WindowGoals'
    BY <1>t, Unfolded, PTL
  <2>. QED
    BY <2>1 DEF WindowGoals
<1>i. HandlesKnown /\ DoneIsOver /\ OneUnfinished /\ G!LoneGoalIsReachable
  BY DEF GoalsIInv
<1>. SUFFICES HandlesKnown' /\ DoneIsOver' /\ OneUnfinished' /\ G!LoneGoalIsReachable'
  BY <1>t DEF GoalsIInv
<1>. USE DEF HandlesKnown, DoneIsOver, OneUnfinished, G!LoneGoalIsReachable, G!Seen
<1>1. CASE G!SendGoal
  <2>1. CASE handle # 0
    BY <1>1, <1>i, <1>u, <1>v, <2>1 DEF G!SendGoal, G!explorerVars
  <2>2. CASE handle = 0
    <3>1. /\ Len(goals') = Len(goals) + 1
          /\ \A g \in 1..Len(goals) : goals'[g] = goals[g]
          /\ goals'[Len(goals) + 1] = [by |-> "window", nav |-> "asked", client |-> "asked",
                                       cancel |-> FALSE]
      BY <1>1, <1>t, <2>2, AskStep DEF G!SendGoal
    <3>2. overlap' <=> (overlap \/ G!Unfinished # {})
      BY <1>1, <2>2 DEF G!SendGoal
    <3>3. handle' = handle /\ exHandle' = exHandle
      BY <1>1 DEF G!SendGoal, G!explorerVars
    <3>. QED
      BY <1>g, <1>i, <1>u, <1>v, <2>2, <3>1, <3>2, <3>3 DEF G!Over
  <2>. QED
    BY <2>1, <2>2
<1>2. CASE G!CancelGoal \/ G!Shutdown \/ G!GoalTimeout
  <2>1. goals' = goals \/ \E h \in {handle, exHandle} : goals' = G!Canceled(h)
    BY <1>2 DEF G!CancelGoal, G!Shutdown, G!GoalTimeout
  <2>2. /\ Len(goals') = Len(goals)
        /\ \A g \in 1..Len(goals) :
              /\ goals'[g].by = goals[g].by /\ goals'[g].nav = goals[g].nav
              /\ goals'[g].client = goals[g].client
              /\ goals[g].cancel => goals'[g].cancel
    BY <1>t, <2>1, CancelStep DEF KeepsGoals
  <2>3. UNCHANGED <<handle, exHandle, overlap>>
    BY <1>2 DEF G!CancelGoal, G!Shutdown, G!GoalTimeout, G!windowVars, G!explorerVars
  <2>. QED
    BY <1>g, <1>i, <1>u, <1>v, <2>2, <2>3
<1>3. CASE G!CancelActiveGoal
  <2>1. (goals' = goals /\ handle = 0) \/ goals' = G!Canceled(handle)
    BY <1>3 DEF G!CancelActiveGoal
  <2>2. /\ Len(goals') = Len(goals)
        /\ \A g \in 1..Len(goals) :
              /\ goals'[g].by = goals[g].by /\ goals'[g].nav = goals[g].nav
              /\ goals'[g].client = goals[g].client
              /\ goals'[g].cancel <=> (goals[g].cancel \/ g = handle)
    BY <1>t, <1>g, <2>1, CancelStep DEF KeepsGoals
  <2>3. handle' = 0 /\ UNCHANGED <<exHandle, overlap>>
    BY <1>3 DEF G!CancelActiveGoal, G!explorerVars
  <2>. QED
    BY <1>g, <1>i, <1>u, <1>v, <2>2, <2>3
<1>4. CASE G!WindowCallback
  <2>1. PICK g \in 1..Len(goals) : goals[g].by = "window" /\ (G!GoalResponse(g) \/ G!Result(g))
    BY <1>4, <1>g DEF G!WindowCallback, G!ByWindow
  <2>2. Len(goals') = Len(goals) /\ (\A h \in 1..Len(goals) : goals'[h].by = goals[h].by)
    BY <1>t, <2>1, CallbackStep DEF KeepsGoals
  <2>3. UNCHANGED <<exHandle, overlap>>
    BY <2>1 DEF G!GoalResponse, G!Result, G!explorerVars, G!ByWindow
  <2>4. CASE G!GoalResponse(g) /\ G!Accepted(g)
    <3>1. /\ goals' = [goals EXCEPT ![g].client = "held"] /\ handle' = g
          /\ goals[g].client = "asked"
      BY <2>1, <2>4 DEF G!GoalResponse, G!ByWindow, G!Answered
    <3>2. \A h \in 1..Len(goals) :
            /\ goals'[h].nav = goals[h].nav
            /\ goals'[h].client = IF h = g THEN "held" ELSE goals[h].client
            /\ goals'[h].cancel = goals[h].cancel
      BY <1>t, <3>1, ClientStep
    <3>. QED
      BY <1>g, <1>i, <1>u, <1>v, <2>1, <2>2, <2>3, <3>1, <3>2
  <2>5. CASE ~(G!GoalResponse(g) /\ G!Accepted(g))
    <3>1. /\ goals' = [goals EXCEPT ![g].client = "done"]
          /\ (handle' = handle /\ goals[g].client = "asked") \/ handle' = 0
          /\ goals[g].nav \in G!Over
      BY <2>1, <2>5 DEF G!GoalResponse, G!Result, G!ByWindow, G!Answered, G!Accepted, G!ResultReady, G!Over
    <3>2. \A h \in 1..Len(goals) :
            /\ goals'[h].nav = goals[h].nav
            /\ goals'[h].client = IF h = g THEN "done" ELSE goals[h].client
            /\ goals'[h].cancel = goals[h].cancel
      BY <1>t, <3>1, ClientStep
    <3>3. HandlesKnown' /\ DoneIsOver'
      BY <1>g, <1>i, <2>2, <2>3, <3>1, <3>2
    <3>4. /\ G!Unfinished' = G!Unfinished \ {g} /\ G!Live' = G!Live
          /\ g \notin G!Live /\ g \in 1..Len(goals)
      BY <1>u, <1>v, <2>2, <3>1, <3>2
    <3>5. ~overlap /\ goals[g].client = "asked" => handle # g
      BY <1>i
    <3>6. ~overlap /\ handle # 0 /\ handle' = 0 => g = handle
      BY <1>i, <1>u, <2>1, <2>5, <3>1 DEF G!GoalResponse, G!Result, G!Answered, G!ResultReady, G!ByWindow
    <3>7. OneUnfinished'
      BY <1>g, <1>i, <2>2, <2>3, <3>1, <3>2, <3>4, <3>5
    <3>8. G!LoneGoalIsReachable'
      BY <1>u, <1>i, <2>2, <2>3, <3>1, <3>2, <3>4, <3>6
    <3>. QED
      BY <3>3, <3>7, <3>8
  <2>. QED
    BY <2>4, <2>5
<1>5. CASE G!ExplorerCallback
  <2>1. PICK g \in 1..Len(goals) : ~G!ByWindow(g) /\ (G!GoalResponse(g) \/ G!Result(g))
    BY <1>5, <1>g DEF G!ExplorerCallback
  <2>2. /\ Len(goals') = Len(goals) /\ (\A h \in 1..Len(goals) : goals'[h].by = goals[h].by)
        /\ \A h \in 1..Len(goals) :
              /\ goals'[h].nav = goals[h].nav /\ goals'[h].cancel = goals[h].cancel
              /\ h # g => goals'[h].client = goals[h].client
    BY <1>t, <2>1, CallbackStep DEF KeepsGoals
  <2>3. goals'[g].client = "done" => goals[g].nav \in G!Over
    <3>1. goals' = [goals EXCEPT ![g].client = IF G!GoalResponse(g) /\ G!Accepted(g) THEN "held" ELSE "done"]
      BY <2>1 DEF G!GoalResponse, G!Result, G!Answered, G!ResultReady
    <3>2. G!GoalResponse(g) /\ G!Accepted(g) => goals'[g].client = "held"
      BY <1>t, <3>1, ClientStep
    <3>. QED
      BY <2>1, <3>2 DEF G!GoalResponse, G!Result, G!Answered, G!Accepted, G!ResultReady, G!Over
  <2>4. UNCHANGED <<handle, overlap>> /\ exHandle' \in {exHandle, 0, g} /\ goals[g].by # "window"
    BY <2>1 DEF G!GoalResponse, G!Result, G!ByWindow
  <2>5. HandlesKnown' /\ DoneIsOver'
    BY <1>g, <1>i, <2>1, <2>2, <2>3, <2>4
  <2>6. G!Unfinished' = G!Unfinished /\ G!Live' = G!Live /\ g \notin G!Unfinished /\ g \notin G!Live
    BY <1>u, <1>v, <2>2, <2>4
  <2>7. OneUnfinished'
    BY <1>g, <1>i, <1>u, <2>2, <2>4, <2>6
  <2>8. G!LoneGoalIsReachable'
    BY <1>i, <1>u, <2>2, <2>4, <2>6
  <2>. QED
    BY <2>5, <2>7, <2>8
<1>6. CASE G!Explore
  <2>1. PICK f \in G!Choices : G!Ask(f)
    BY <1>6 DEF G!Explore
  <2>2. f \in Frontiers /\ f # "window"
    BY <1>t, GoalsAssumption DEF G!GoalTypeOK, G!Choices
  <2>3. /\ Len(goals') = Len(goals) + 1
        /\ \A g \in 1..Len(goals) : goals'[g] = goals[g]
        /\ goals'[Len(goals) + 1] = [by |-> f, nav |-> "asked", client |-> "asked",
                                     cancel |-> FALSE]
    BY <1>6, <1>t, <2>1, <2>2, AskStep DEF G!Explore
  <2>4. UNCHANGED <<handle, exHandle, overlap>>
    BY <1>6 DEF G!Explore, G!windowVars
  <2>. QED
    BY <1>g, <1>i, <1>u, <1>v, <2>2, <2>3, <2>4
<1>7. CASE G!Nav2Step \/ G!Restart
  <2>1. NavStep
    <3>1. CASE G!Restart
      BY <1>t, <3>1, RestartStep
    <3>2. CASE G!Nav2Step
      BY <1>t, <1>g, <3>2, SetStep DEF G!Nav2Step, G!Decide, G!End, G!Over
    <3>. QED
      BY <1>7, <3>1, <3>2
  <2>2. UNCHANGED <<handle, exHandle, overlap>>
    BY <1>7 DEF G!Nav2Step, G!Decide, G!End, G!Restart, G!windowVars, G!explorerVars
  <2>. QED
    BY <1>g, <1>i, <1>u, <1>v, <2>1, <2>2 DEF NavStep, KeepsGoals
<1>8. CASE UNCHANGED G!vars
  BY <1>8, <1>i, <1>u, <1>v DEF G!vars, G!windowVars, G!explorerVars
<1>. QED
  BY <1>1, <1>2, <1>3, <1>4, <1>5, <1>6, <1>7, <1>8 DEF G!Next

LEMMA GoalsInvariance == G!Spec => []GoalsIInv
BY GoalsInit, GoalsNext, PTL DEF G!Spec

-----------------------------------------------------------------------------
(* The theorems.                                                           *)

\* Types: no goal is numbered beyond what was sent, and every handle is a goal's.
THEOREM NavGoalsTypeOK == G!Spec => [](G!GoalTypeOK /\ HandlesKnown)
<1>1. GoalsIInv => G!GoalTypeOK /\ HandlesKnown
  BY DEF GoalsIInv
<1>. QED
  BY <1>1, GoalsInvariance, PTL

\* _on_goal_response, _on_result, cancel_goal: though the window has one handle
\* for all its goals and any of their results clears it, a goal that Nav2 works
\* on is the one it can cancel, unless goals overlapped.
THEOREM NavGoalsGoalInvariant == G!Spec => []GoalInvariant
<1>1. GoalsIInv => GoalInvariant
  BY SameTypes, SameReach DEF GoalsIInv, GoalInvariant
<1>. QED
  BY <1>1, GoalsInvariance, PTL

-----------------------------------------------------------------------------
(* The map: what holds while nothing is upset.                             *)

Change == {"prefix", "prefixed", "load", "reload", "static"}
Loading == \E c \in calls : c.op \in {"prefix", "prefixed", "load", "static"}
Exports(f) == \E c \in calls : c.op \in {"graph", "exported", "grid"} /\ c.file = f
Calm == ~upset /\ backend = "slam"

\* A save of the manager is of the prefix, which stays while it lasts.
SavesPrefix == M!Busy => managed /\ saving.file = prefix

AmclCalls == backend = "amcl" => ~managed /\ \A c \in calls : c.op = "static"

\* One change of map is under way at most, to the pose graph the worker knows.
OneChange ==
  Calm => \A c, d \in calls : c.op \in Change /\ d.op \in Change => c = d
ChangesFit ==
  Calm => \A c \in calls :
    /\ c.op # "static"
    /\ c.op \in Change => c.file = poseGraph
    /\ c.op \in {"prefix", "prefixed"} => managed
    /\ c.op \in {"prefixed", "load"} /\ managed => prefix = c.file /\ ~M!Busy

\* No map is loaded while one is exported.
LoadsAlone == Calm /\ Loading => \A f \in Files : ~Exports(f)

\* What the manager saves, what a relocalisation loads again, and what is
\* exported is the session that belongs there.
PrefixIsSession ==
  Calm /\ managed /\ (\A c \in calls : c.op \notin {"prefixed", "load"})
    => owner[prefix] = session
PoseGraphIsSession == Calm /\ ~Loading => files[poseGraph].graph = session
ExportsSession == Calm => \A f \in Files : Exports(f) => owner[f] = session

GraphKept ==
  Calm => \A f \in Files :
    (\A c \in calls : ~(c.op = "graph" /\ c.file = f)) => files[f].graph = owner[f]

MapInv ==
  /\ M!TypeOK
  /\ SavesPrefix /\ AmclCalls
  /\ OneChange /\ ChangesFit /\ LoadsAlone
  /\ PrefixIsSession /\ PoseGraphIsSession /\ ExportsSession
  /\ GraphKept

\* What a step does to the grids, and what way points see of it.
GridStep ==
  Calm' => /\ Calm
           /\ \A f \in Files :
                \/ files'[f].grid = files[f].grid /\ owner'[f] = owner[f]
                \/ files'[f].grid = session /\ owner'[f] = session
HereStep == ~upset' => ~upset /\ (~Loading => ~Loading' /\ session' = session)

LEMMA CallFacts ==
  ASSUME M!TypeOK
  PROVE  /\ \A c \in calls : c \in [op : M!Op, file : Files]
         /\ \A c \in calls : c = M!Call(c.op, c.file)
         /\ \A op, f : M!Call(op, f).op = op /\ M!Call(op, f).file = f
         /\ \A op \in M!Op, f \in Files : M!Call(op, f) \in [op : M!Op, file : Files]
         /\ M!Changing <=> \E c \in calls : c.op \in Change
         /\ \A f : M!Exporting(f) <=> Exports(f)
         /\ \A op, f : M!Answer(op, f) = IF closed THEN {} ELSE {M!Call(op, f)}
<1>1. \A c \in calls : c \in [op : M!Op, file : Files]
  BY DEF M!TypeOK
<1>2. \A c \in calls : c = M!Call(c.op, c.file)
  BY <1>1 DEF M!Call
<1>3. \A op, f : M!Call(op, f).op = op /\ M!Call(op, f).file = f
  BY DEF M!Call
<1>4. \A op \in M!Op, f \in Files : M!Call(op, f) \in [op : M!Op, file : Files]
  BY DEF M!Call
<1>8. \A op, f : M!Answer(op, f) = IF closed THEN {} ELSE {M!Call(op, f)}
  BY DEF M!Answer
<1>5. M!Changing <=> \E c \in calls : c.op \in Change
  BY DEF M!Changing, M!Change, Change
<1>6. ASSUME NEW f PROVE M!Exporting(f) <=> Exports(f)
  BY DEF M!Exporting, Exports
<1>. QED
  BY <1>1, <1>2, <1>3, <1>4, <1>5, <1>6, <1>8

WritesGraph(f, s) == files' = [files EXCEPT ![f].graph = s]
WritesGrid(f, s) == files' = [files EXCEPT ![f].grid = s]

LEMMA GraphWritten ==
  ASSUME M!TypeOK, NEW f \in Files, NEW s \in Files, WritesGraph(f, s)
  PROVE  /\ files' \in [Files -> [graph : Files, grid : Files]]
         /\ files'[f].graph = s
         /\ \A g \in Files : /\ files'[g].grid = files[g].grid
                             /\ g # f => files'[g].graph = files[g].graph
<1>1. files \in [Files -> [graph : Files, grid : Files]]
  BY DEF M!TypeOK
<1>2. files' \in [Files -> [graph : Files, grid : Files]]
  BY <1>1 DEF WritesGraph
<1>3. ASSUME NEW g \in Files
      PROVE  /\ files'[g].grid = files[g].grid
             /\ files'[g].graph = IF g = f THEN s ELSE files[g].graph
  <2>1. files[g] \in [graph : Files, grid : Files]
    BY <1>1
  <2>. QED
    BY <1>1, <2>1 DEF WritesGraph
<1>4. files'[f].graph = s
  BY <1>1 DEF WritesGraph
<1>. QED
  BY <1>2, <1>3, <1>4

LEMMA GridWritten ==
  ASSUME M!TypeOK, NEW f \in Files, NEW s \in Files, WritesGrid(f, s)
  PROVE  /\ files' \in [Files -> [graph : Files, grid : Files]]
         /\ files'[f].grid = s
         /\ \A g \in Files : /\ files'[g].graph = files[g].graph
                             /\ g # f => files'[g].grid = files[g].grid
<1>1. files \in [Files -> [graph : Files, grid : Files]]
  BY DEF M!TypeOK
<1>2. files' \in [Files -> [graph : Files, grid : Files]]
  BY <1>1 DEF WritesGrid
<1>3. ASSUME NEW g \in Files
      PROVE  /\ files'[g].graph = files[g].graph
             /\ files'[g].grid = IF g = f THEN s ELSE files[g].grid
  <2>1. files[g] \in [graph : Files, grid : Files]
    BY <1>1
  <2>. QED
    BY <1>1, <2>1 DEF WritesGrid
<1>4. files'[f].grid = s
  BY <1>1 DEF WritesGrid
<1>. QED
  BY <1>2, <1>3, <1>4

LEMMA MapTypeStep ==
  ASSUME M!TypeOK,
         \/ \E f \in Files : M!SaveSession(f) \/ M!LoadSession(f)
         \/ M!Relocalize \/ M!WorkerCallback \/ M!WorkerGone
         \/ M!Service \/ M!Manager \/ UNCHANGED mapVars
  PROVE  M!TypeOK'
<1>t. /\ backend \in {"slam", "amcl"} /\ managed \in BOOLEAN /\ session \in Files
      /\ files \in [Files -> [graph : Files, grid : Files]]
      /\ prefix \in Files /\ poseGraph \in Files
      /\ saving \in [call : {"none", "graph", "grid"}, file : Files]
      /\ calls \subseteq [op : M!Op, file : Files]
      /\ owner \in [Files -> Files] /\ upset \in BOOLEAN
  BY DEF M!TypeOK
<1>f. \A f \in Files : files[f].graph \in Files /\ files[f].grid \in Files
  BY <1>t
<1>c. \A op \in M!Op, f \in Files : M!Call(op, f) \in [op : M!Op, file : Files]
  BY CallFacts
<1>o. Change \cup {"graph", "exported", "grid", "refused"} \subseteq M!Op
  BY DEF Change, M!Op, M!Answers
<1>a. \A op \in M!Op, f \in Files : M!Answer(op, f) \subseteq [op : M!Op, file : Files]
  BY <1>c, CallFacts
<1>1. ASSUME NEW f \in Files, M!SaveSession(f)
      PROVE  M!TypeOK'
  <2>1. calls' \subseteq [op : M!Op, file : Files]
    BY <1>1, <1>t, <1>c, <1>o DEF M!SaveSession
  <2>2. upset' \in BOOLEAN /\ owner' \in [Files -> Files]
    BY <1>1, <1>t DEF M!SaveSession
  <2>. QED
    BY <1>1, <1>t, <2>1, <2>2 DEF M!SaveSession, M!TypeOK, M!managerVars
<1>2. ASSUME NEW f \in Files, M!LoadSession(f)
      PROVE  M!TypeOK'
  <2>1. \E op \in Change : calls' = calls \cup {M!Call(op, f)}
    BY <1>2 DEF M!LoadSession, Change
  <2>2. calls' \subseteq [op : M!Op, file : Files]
    BY <1>t, <1>c, <1>o, <2>1
  <2>3. upset' \in BOOLEAN
    BY <1>2, <1>t DEF M!LoadSession
  <2>. QED
    BY <1>2, <1>t, <2>2, <2>3 DEF M!LoadSession, M!TypeOK, M!managerVars
<1>3. CASE M!Relocalize
  <2>1. calls' \subseteq [op : M!Op, file : Files]
    BY <1>3, <1>t, <1>c, <1>o DEF M!Relocalize, Change
  <2>2. upset' \in BOOLEAN
    BY <1>3, <1>t DEF M!Relocalize
  <2>. QED
    BY <1>3, <1>t, <2>1, <2>2 DEF M!Relocalize, M!TypeOK, M!managerVars
<1>4. ASSUME NEW c \in calls, M!Loaded(c)
      PROVE  M!TypeOK'
  <2>1. c.file \in Files
    BY <1>t
  <2>. QED
    BY <1>4, <1>t, <1>f, <2>1 DEF M!Loaded, M!TypeOK, M!managerVars
<1>5. ASSUME NEW f \in Files, M!OnParameters(f)
      PROVE  M!TypeOK'
  <2>1. /\ M!Answer("prefixed", f) \subseteq [op : M!Op, file : Files]
        /\ M!Answer("refused", f) \subseteq [op : M!Op, file : Files]
    BY <1>a, <1>o DEF Change
  <2>2. calls' \subseteq [op : M!Op, file : Files] /\ prefix' \in Files
    BY <1>5, <1>t, <2>1 DEF M!OnParameters
  <2>3. upset' \in BOOLEAN
    BY <1>5, <1>t DEF M!OnParameters
  <2>. QED
    BY <1>5, <1>t, <2>2, <2>3 DEF M!OnParameters, M!TypeOK
<1>11. ASSUME NEW f \in Files, M!OnMapPrefixChanged(f) \/ M!OnPoseGraphExported(f)
       PROVE  M!TypeOK'
  <2>1. calls' \subseteq [op : M!Op, file : Files]
    <3>1. {M!Call("load", f), M!Call("grid", f)} \subseteq [op : M!Op, file : Files]
      BY <1>c, <1>o DEF Change
    <3>. QED
      BY <1>11, <1>t, <3>1 DEF M!OnMapPrefixChanged, M!OnPoseGraphExported
  <2>. QED
    BY <1>11, <1>t, <2>1
    DEF M!OnMapPrefixChanged, M!OnPoseGraphExported, M!TypeOK, M!managerVars, M!historyVars
<1>12. CASE M!WorkerGone
  <2>1. calls' \subseteq [op : M!Op, file : Files] /\ upset' \in BOOLEAN
    BY <1>12, <1>t DEF M!WorkerGone
  <2>. QED
    BY <1>12, <1>t, <2>1 DEF M!WorkerGone, M!TypeOK, M!managerVars
<1>6. ASSUME NEW f \in Files, M!GraphExported(f)
      PROVE  M!TypeOK'
  <2>1. calls' \subseteq [op : M!Op, file : Files]
    BY <1>6, <1>t, <1>a, <1>o DEF M!GraphExported
  <2>2. files' \in [Files -> [graph : Files, grid : Files]]
    BY <1>6, <1>t, GraphWritten DEF M!GraphExported, WritesGraph
  <2>. QED
    BY <1>6, <1>t, <2>1, <2>2 DEF M!GraphExported, M!TypeOK, M!managerVars
<1>7. ASSUME NEW f \in Files, M!GridExported(f)
      PROVE  M!TypeOK'
  <2>1. files' \in [Files -> [graph : Files, grid : Files]]
    BY <1>7, <1>t, GridWritten DEF M!GridExported, WritesGrid
  <2>. QED
    BY <1>7, <1>t, <2>1 DEF M!GridExported, M!TypeOK, M!managerVars
<1>8. CASE M!Autosave \/ M!SaveService
  BY <1>8, <1>t DEF M!Autosave, M!SaveService, M!RequestSave, M!TypeOK
<1>9. CASE M!PoseGraphSaved \/ M!MapSaved
  <2>1. files' \in [Files -> [graph : Files, grid : Files]]
    BY <1>9, <1>t, GraphWritten, GridWritten
    DEF M!PoseGraphSaved, M!MapSaved, WritesGraph, WritesGrid
  <2>2. saving' \in [call : {"none", "graph", "grid"}, file : Files]
    BY <1>9, <1>t, NavigationAssumption DEF M!PoseGraphSaved, M!MapSaved, M!Idle
  <2>. QED
    BY <1>9, <1>t, <2>1, <2>2 DEF M!PoseGraphSaved, M!MapSaved, M!TypeOK, M!historyVars
<1>10. CASE UNCHANGED mapVars
  BY <1>10, <1>t DEF mapVars, M!TypeOK
<1>. QED
  BY <1>1, <1>2, <1>3, <1>4, <1>5, <1>6, <1>7, <1>8, <1>9, <1>10, <1>11, <1>12
  DEF M!Service, M!Manager, M!WorkerCallback

\* The worker's slots.
LEMMA SaveSessionStep ==
  ASSUME MapInv, NEW f \in Files, M!SaveSession(f)
  PROVE  /\ MapInv' /\ HereStep
         /\ Calm' => /\ Calm /\ files' = files /\ Exports(f)'
                     /\ \A g \in Files : owner'[g] = IF g = f THEN session ELSE owner[g]
<1>t. M!TypeOK /\ M!TypeOK'
  BY MapTypeStep DEF MapInv
<1>u. UNCHANGED <<backend, managed, session, files, prefix, saving, poseGraph>>
  BY DEF M!SaveSession, M!managerVars
<1>1. CASE UNCHANGED calls /\ upset' = (upset \/ M!Changing \/ backend = "slam")
  <2>1. (~upset' => ~upset) /\ ~Calm'
    BY <1>1, <1>u DEF Calm
  <2>. QED
    BY <1>1, <1>t, <1>u, <2>1
    DEF MapInv, SavesPrefix, M!Busy, AmclCalls, OneChange, ChangesFit, LoadsAlone,
        PrefixIsSession, PoseGraphIsSession, ExportsSession, GraphKept, HereStep, Loading
<1>2. CASE /\ backend = "slam" /\ calls' = calls \cup {M!Call("graph", f)}
         /\ upset' = (upset \/ M!Changing)
  <2>. DEFINE n == M!Call("graph", f)
  <2>1. calls' = calls \cup {n} /\ n.op = "graph" /\ n.file = f
    BY <1>2, <1>t, CallFacts
  <2>2. ~upset' => ~upset /\ \A c \in calls : c.op \notin Change
    BY <1>2, <1>t, CallFacts
  <2>3. \A g \in Files : owner'[g] = IF g = f THEN session ELSE owner[g]
    BY <1>t DEF M!SaveSession, M!TypeOK
  <2>. HIDE DEF n
  <2>4. SavesPrefix' /\ AmclCalls'
    BY <1>2, <1>u DEF MapInv, SavesPrefix, M!Busy, AmclCalls
  <2>5. ~upset' => \A c \in calls' : c.op \notin Change
    BY <2>1, <2>2 DEF Change
  <2>6. ~upset' => ~Loading' /\ ~Loading
    BY <2>2, <2>5 DEF Loading, Change
  <2>7. OneChange' /\ ChangesFit' /\ LoadsAlone'
    BY <2>5, <2>6 DEF OneChange, ChangesFit, LoadsAlone, Calm, Change
  <2>8. PrefixIsSession'
    <3>1. ~upset' => \A c \in calls : c.op \notin {"prefixed", "load"}
      BY <2>2 DEF Change
    <3>2. prefix \in Files
      BY <1>t DEF M!TypeOK
    <3>. QED
      BY <1>u, <2>2, <2>3, <3>1, <3>2 DEF MapInv, PrefixIsSession, Calm
  <2>9. PoseGraphIsSession'
    BY <1>u, <2>2, <2>6 DEF MapInv, PoseGraphIsSession, Calm
  <2>10. ExportsSession'
    BY <1>u, <2>1, <2>2, <2>3 DEF MapInv, ExportsSession, Exports, Calm
  <2>11. GraphKept'
    BY <1>u, <2>1, <2>2, <2>3 DEF MapInv, GraphKept, Calm
  <2>12. Calm' => Calm /\ Exports(f)'
    BY <1>u, <2>1, <2>2 DEF Exports, Calm
  <2>13. HereStep
    BY <1>u, <2>2, <2>6 DEF HereStep
  <2>. QED
    BY <1>t, <1>u, <2>3, <2>4, <2>7, <2>8, <2>9, <2>10, <2>11, <2>12, <2>13 DEF MapInv
<1>. QED
  BY <1>1, <1>2 DEF M!SaveSession

LEMMA LoadSessionStep ==
  ASSUME MapInv, NEW f \in Files, M!LoadSession(f)
  PROVE  MapInv' /\ GridStep /\ (~upset' => ~upset) /\ session' = session
<1>t. M!TypeOK /\ M!TypeOK'
  BY MapTypeStep DEF MapInv
<1>u. UNCHANGED <<backend, managed, session, files, prefix, saving, owner>>
  BY DEF M!LoadSession, M!managerVars
<1>0. PICK op \in {"static", "prefix", "load"} :
        /\ op = "static" <=> backend = "amcl"
        /\ op = "prefix" => managed
        /\ calls' = calls \cup {M!Call(op, f)}
        /\ upset' = (upset \/ M!Changing \/ (\E g \in Files : M!Exporting(g))
                       \/ (op = "load" /\ managed))
  <2>1. CASE backend = "amcl"
    BY <2>1 DEF M!LoadSession
  <2>2. CASE backend # "amcl" /\ managed
    BY <2>2 DEF M!LoadSession
  <2>3. CASE backend # "amcl" /\ ~managed
    BY <2>3 DEF M!LoadSession
  <2>. QED
    BY <2>1, <2>2, <2>3
<1>1. /\ op \in {"prefix", "load", "static"}
      /\ op = "static" <=> backend = "amcl"
      /\ op = "prefix" => managed
      /\ ~upset' /\ op = "load" => ~managed
      /\ backend = "amcl" => ~managed
  BY <1>0 DEF MapInv, AmclCalls
<1>. DEFINE n == M!Call(op, f)
<1>2. calls' = calls \cup {n} /\ n.op = op /\ n.file = f
  BY <1>0, <1>t, CallFacts
<1>3. ~upset' => /\ ~upset /\ \A c \in calls : c.op \notin Change
                 /\ \A g \in Files : ~Exports(g)
  BY <1>0, <1>t, CallFacts
<1>4. backend = "slam" => poseGraph' = f
  BY DEF M!LoadSession
<1>. HIDE DEF n
<1>5. SavesPrefix' /\ AmclCalls'
  BY <1>u, <1>1, <1>2 DEF MapInv, SavesPrefix, M!Busy, AmclCalls
<1>6. OneChange'
  BY <1>2, <1>3 DEF OneChange, Calm
<1>7. ChangesFit'
  BY <1>u, <1>1, <1>2, <1>3, <1>4 DEF MapInv, ChangesFit, Calm, Change
<1>8. op \in Change /\ Loading'
  BY <1>1, <1>2 DEF Loading, Change
<1>9. LoadsAlone' /\ ExportsSession'
  <2>1. ~upset' => \A g \in Files : ~Exports(g)'
    BY <1>1, <1>2, <1>3 DEF Exports
  <2>. QED
    BY <2>1 DEF LoadsAlone, ExportsSession, Calm
<1>10. PrefixIsSession'
  BY <1>u, <1>2, <1>3 DEF MapInv, PrefixIsSession, Calm
<1>11. PoseGraphIsSession'
  BY <1>8 DEF PoseGraphIsSession
<1>12. GraphKept' /\ GridStep
  BY <1>u, <1>2, <1>3 DEF MapInv, GraphKept, GridStep, Exports, Calm
<1>. QED
  BY <1>t, <1>u, <1>3, <1>5, <1>6, <1>7, <1>9, <1>10, <1>11, <1>12 DEF MapInv

LEMMA RelocalizeStep ==
  ASSUME MapInv, M!Relocalize
  PROVE  MapInv' /\ GridStep /\ HereStep
<1>t. M!TypeOK /\ M!TypeOK'
  BY MapTypeStep DEF MapInv
<1>u. UNCHANGED <<backend, managed, session, files, prefix, saving, poseGraph, owner>>
  BY DEF M!Relocalize, M!managerVars
<1>1. CASE calls' = calls
  <2>1. ~upset' => ~upset
    BY <1>t DEF M!Relocalize, M!TypeOK
  <2>2. (Calm' => Calm) /\ (M!Busy' <=> M!Busy) /\ (Loading' <=> Loading)
    BY <1>1, <1>u, <2>1 DEF Calm, M!Busy, Loading
  <2>3. \A f \in Files : Exports(f)' <=> Exports(f)
    BY <1>1 DEF Exports
  <2>4. SavesPrefix' /\ AmclCalls' /\ OneChange' /\ ChangesFit' /\ GraphKept'
    BY <1>1, <1>u, <2>2 DEF MapInv, SavesPrefix, AmclCalls, OneChange, ChangesFit, GraphKept
  <2>5. LoadsAlone' /\ PrefixIsSession' /\ PoseGraphIsSession' /\ ExportsSession'
    BY <1>1, <1>u, <2>2, <2>3
    DEF MapInv, LoadsAlone, PrefixIsSession, PoseGraphIsSession, ExportsSession
  <2>6. GridStep /\ HereStep
    BY <1>u, <2>1, <2>2 DEF GridStep, HereStep
  <2>. QED
    BY <1>t, <2>4, <2>5, <2>6 DEF MapInv
<1>2. CASE backend = "slam" /\ calls' = calls \cup {M!Call("reload", poseGraph)}
  <2>. DEFINE n == M!Call("reload", poseGraph)
  <2>1. calls' = calls \cup {n} /\ n.op = "reload" /\ n.file = poseGraph
    BY <1>2, <1>t, CallFacts
  <2>2. ~upset' => ~upset /\ \A c \in calls : c.op \notin Change
    BY <1>t, CallFacts DEF M!Relocalize
  <2>. HIDE DEF n
  <2>3. SavesPrefix' /\ AmclCalls'
    BY <1>2, <1>u DEF MapInv, SavesPrefix, M!Busy, AmclCalls
  <2>4. OneChange'
    BY <2>1, <2>2 DEF OneChange, Calm
  <2>5. ChangesFit'
    BY <1>u, <2>1, <2>2 DEF MapInv, ChangesFit, Calm, Change
  <2>6. ~upset' => ~Loading' /\ ~Loading
    BY <2>1, <2>2 DEF Loading, Change
  <2>7. LoadsAlone' /\ PoseGraphIsSession'
    BY <1>u, <2>2, <2>6 DEF MapInv, LoadsAlone, PoseGraphIsSession, Calm
  <2>8. PrefixIsSession'
    BY <1>u, <2>1, <2>2 DEF MapInv, PrefixIsSession, Calm
  <2>9. ExportsSession' /\ GridStep
    BY <1>u, <2>1, <2>2 DEF MapInv, ExportsSession, GridStep, Exports, Calm
  <2>10. GraphKept'
    BY <1>u, <2>1, <2>2 DEF MapInv, GraphKept, Calm
  <2>11. HereStep
    BY <1>u, <2>2, <2>6 DEF HereStep
  <2>. QED
    BY <1>t, <2>3, <2>4, <2>5, <2>7, <2>8, <2>9, <2>10, <2>11 DEF MapInv
<1>. QED
  BY <1>1, <1>2 DEF M!Relocalize

\* The services' answers.
LEMMA LoadedStep ==
  ASSUME MapInv, NEW c \in calls, M!Loaded(c)
  PROVE  MapInv' /\ GridStep /\ HereStep
<1>t. M!TypeOK /\ M!TypeOK'
  BY MapTypeStep DEF MapInv, M!Service
<1>u. /\ UNCHANGED <<backend, managed, files, prefix, saving, poseGraph, owner>>
      /\ calls' = calls \ {c} /\ c.op \in {"load", "reload", "static"}
  BY DEF M!Loaded, M!managerVars
<1>1. SavesPrefix' /\ AmclCalls'
  BY <1>u DEF MapInv, SavesPrefix, M!Busy, AmclCalls
<1>2. ~upset' => ~upset /\ session' = IF c.op = "static" THEN files[c.file].grid
                                      ELSE files[c.file].graph
  BY <1>t DEF M!Loaded, M!TypeOK
<1>3. ASSUME Calm'
      PROVE  /\ Calm /\ c.op \in {"load", "reload"} /\ c.file = poseGraph
             /\ session' = files[poseGraph].graph
             /\ \A d \in calls' : d.op \notin Change
  <2>1. Calm
    BY <1>3, <1>u, <1>2 DEF Calm
  <2>2. c.op \in {"load", "reload"} /\ c.file = poseGraph
    BY <2>1, <1>u DEF MapInv, ChangesFit, Change
  <2>3. \A d \in calls' : d.op \notin Change
    BY <2>1, <1>u DEF MapInv, OneChange, Change
  <2>. QED
    BY <1>2, <1>3, <2>1, <2>2, <2>3 DEF Calm
<1>4. Calm' => ~Loading'
  BY <1>3 DEF Loading, Change
<1>5. Calm' /\ c.op = "reload" => ~Loading /\ session' = session
  <2>1. ASSUME Calm', c.op = "reload" PROVE ~Loading
    BY <2>1, <1>3 DEF MapInv, OneChange, Loading, Change
  <2>. QED
    BY <2>1, <1>3 DEF MapInv, PoseGraphIsSession
<1>6. c.op = "load" => Loading
  BY DEF Loading
<1>7. \A f \in Files : Exports(f)' <=> Exports(f)
  BY <1>u DEF Exports
<1>8. OneChange' /\ ChangesFit' /\ LoadsAlone' /\ PoseGraphIsSession'
  BY <1>u, <1>3, <1>4 DEF OneChange, ChangesFit, LoadsAlone, PoseGraphIsSession, Change
<1>9. GraphKept'
  BY <1>u, <1>3 DEF MapInv, GraphKept
<1>10. ExportsSession'
  BY <1>u, <1>3, <1>5, <1>6, <1>7 DEF MapInv, ExportsSession, LoadsAlone
<1>11. PrefixIsSession'
  <2>. SUFFICES ASSUME Calm', managed PROVE owner[prefix] = session'
    BY <1>u DEF PrefixIsSession
  <2>1. CASE c.op = "reload"
    <3>1. \A d \in calls : d.op \notin {"prefixed", "load"}
      BY <2>1, <1>3, <1>u DEF MapInv, OneChange, Change
    <3>. QED
      BY <2>1, <3>1, <1>3, <1>5 DEF MapInv, PrefixIsSession
  <2>2. CASE c.op = "load"
    <3>1. prefix = poseGraph
      BY <2>2, <1>3 DEF MapInv, ChangesFit
    <3>2. poseGraph \in Files /\ ~Exports(poseGraph)
      BY <2>2, <1>3, <1>6, <1>t DEF MapInv, LoadsAlone, M!TypeOK
    <3>3. files[poseGraph].graph = owner[poseGraph]
      BY <3>2, <1>3 DEF MapInv, GraphKept, Exports
    <3>. QED
      BY <3>1, <3>3, <1>3
  <2>. QED
    BY <2>1, <2>2, <1>3
<1>12. GridStep
  BY <1>u, <1>3, <1>7 DEF GridStep
<1>13. HereStep
  <2>1. ~upset' /\ backend # "slam" => c.op = "static" /\ Loading
    <3>1. backend # "slam" => c.op = "static"
      BY <1>t DEF MapInv, AmclCalls, M!TypeOK
    <3>. QED
      BY <3>1 DEF Loading
  <2>2. Loading' => Loading
    BY <1>u DEF Loading
  <2>. QED
    BY <1>u, <1>2, <1>3, <1>5, <1>6, <2>1, <2>2 DEF HereStep, Calm
<1>. QED
  BY <1>t, <1>1, <1>8, <1>9, <1>10, <1>11, <1>12, <1>13 DEF MapInv

LEMMA OnParametersStep ==
  ASSUME MapInv, NEW f \in Files, M!OnParameters(f)
  PROVE  MapInv' /\ GridStep /\ HereStep
<1>t. M!TypeOK /\ M!TypeOK'
  BY MapTypeStep DEF MapInv, M!Manager
<1>u. UNCHANGED <<backend, managed, session, files, saving, poseGraph, owner>>
  BY DEF M!OnParameters
<1>. DEFINE c == M!Call("prefix", f)
            n == M!Call("prefixed", f)
<1>c. c \in calls /\ c.op = "prefix" /\ c.file = f /\ n.op = "prefixed" /\ n.file = f
  BY <1>t, CallFacts DEF M!OnParameters
<1>1. AmclCalls' /\ (backend = "amcl" => FALSE)
  BY <1>c, <1>u DEF MapInv, AmclCalls
<1>m. Calm => managed
  BY <1>c DEF MapInv, ChangesFit
<1>2. CASE M!Busy \/ closed
  <2>1. upset' = TRUE
    BY <1>2, <1>t DEF M!OnParameters, M!TypeOK
  <2>2. M!Busy => prefix' = prefix
    BY DEF M!OnParameters
  <2>. QED
    BY <1>t, <1>u, <1>1, <2>1, <2>2
    DEF MapInv, SavesPrefix, M!Busy, OneChange, ChangesFit, LoadsAlone, PrefixIsSession,
        PoseGraphIsSession, ExportsSession, GraphKept, Calm, GridStep, HereStep
<1>3. CASE ~M!Busy /\ ~closed
  <2>1. prefix' = f /\ calls' = (calls \ {c}) \cup {n} /\ upset' = upset
    BY <1>3, <1>t DEF M!OnParameters, M!Answer, M!TypeOK
  <2>. HIDE DEF c, n
  <2>2. SavesPrefix'
    BY <1>3, <1>u DEF SavesPrefix, M!Busy
  <2>3. Calm' <=> Calm
    BY <1>u, <2>1 DEF Calm
  <2>4. Loading /\ Loading'
    BY <1>c, <2>1 DEF Loading
  <2>5. \A g \in Files : Exports(g)' <=> Exports(g)
    BY <1>c, <2>1 DEF Exports
  <2>6. Calm => \A d \in calls' : d.op \in Change => d = n
    BY <1>c, <2>1 DEF MapInv, OneChange, Change
  <2>7. OneChange'
    BY <2>3, <2>6 DEF OneChange
  <2>8. ChangesFit'
    <3>1. Calm => f = poseGraph
      BY <1>c DEF MapInv, ChangesFit, Change
    <3>2. ~M!Busy'
      BY <1>3, <1>u DEF M!Busy
    <3>. QED
      BY <3>1, <3>2, <1>u, <1>c, <1>m, <2>1, <2>3, <2>6 DEF MapInv, ChangesFit, Change
  <2>9. LoadsAlone' /\ PoseGraphIsSession' /\ ExportsSession'
    BY <1>u, <2>3, <2>4, <2>5 DEF MapInv, LoadsAlone, PoseGraphIsSession, ExportsSession
  <2>10. PrefixIsSession'
    BY <1>c, <2>1 DEF PrefixIsSession
  <2>11. GraphKept'
    BY <1>u, <1>c, <2>1, <2>3 DEF MapInv, GraphKept
  <2>12. GridStep /\ HereStep
    BY <1>u, <2>1, <2>3, <2>4, <2>5 DEF GridStep, HereStep
  <2>. QED
    BY <1>t, <1>1, <2>2, <2>7, <2>8, <2>9, <2>10, <2>11, <2>12 DEF MapInv
<1>. QED
  BY <1>2, <1>3

\* The worker's callbacks.
LEMMA OnMapPrefixChangedStep ==
  ASSUME MapInv, NEW f \in Files, M!OnMapPrefixChanged(f)
  PROVE  MapInv' /\ GridStep /\ HereStep
<1>t. M!TypeOK /\ M!TypeOK'
  BY MapTypeStep DEF MapInv, M!WorkerCallback
<1>u. UNCHANGED <<backend, managed, session, files, prefix, saving, poseGraph, owner, upset>>
  BY DEF M!OnMapPrefixChanged, M!managerVars, M!historyVars
<1>. DEFINE c == M!Call("prefixed", f)
            n == M!Call("load", f)
            r == M!Call("refused", f)
<1>c. /\ c.op = "prefixed" /\ c.file = f /\ n.op = "load" /\ n.file = f
      /\ r.op = "refused"
  BY <1>t, CallFacts
<1>d. \/ c \in calls /\ calls' = (calls \ {c}) \cup {n}
      \/ r \in calls /\ calls' = calls \ {r}
  BY DEF M!OnMapPrefixChanged
<1>. HIDE DEF c, n, r
<1>0. (Calm' <=> Calm) /\ (M!Busy' <=> M!Busy)
  BY <1>u DEF Calm, M!Busy
<1>1. SavesPrefix' /\ AmclCalls'
  BY <1>c, <1>d, <1>u DEF MapInv, SavesPrefix, M!Busy, AmclCalls
<1>2. CASE c \in calls /\ calls' = (calls \ {c}) \cup {n}
  <2>1. Loading /\ Loading'
    BY <1>c, <1>2 DEF Loading
  <2>2. \A g \in Files : Exports(g)' <=> Exports(g)
    BY <1>c, <1>2 DEF Exports
  <2>3. Calm => \A d \in calls' : d.op \in Change => d = n
    BY <1>c, <1>2 DEF MapInv, OneChange, Change
  <2>4. Calm => f = poseGraph /\ managed /\ prefix = f /\ ~M!Busy
    BY <1>c, <1>2 DEF MapInv, ChangesFit, Change
  <2>5. OneChange' /\ ChangesFit'
    BY <1>0, <1>c, <1>u, <2>3, <2>4 DEF OneChange, ChangesFit, Change
  <2>6. LoadsAlone' /\ PoseGraphIsSession' /\ ExportsSession' /\ PrefixIsSession'
    BY <1>0, <1>c, <1>2, <1>u, <2>1, <2>2
    DEF MapInv, LoadsAlone, PoseGraphIsSession, ExportsSession, PrefixIsSession
  <2>7. GraphKept' /\ GridStep /\ HereStep
    BY <1>0, <1>c, <1>2, <1>u, <2>1 DEF MapInv, GraphKept, GridStep, HereStep
  <2>. QED
    BY <1>t, <1>1, <2>5, <2>6, <2>7 DEF MapInv
<1>3. CASE r \in calls /\ calls' = calls \ {r}
  <2>1. \A d : d.op # "refused" => (d \in calls' <=> d \in calls)
    BY <1>c, <1>3
  <2>2. Loading' <=> Loading
    BY <2>1 DEF Loading
  <2>3. \A g \in Files : Exports(g)' <=> Exports(g)
    BY <2>1 DEF Exports
  <2>4. OneChange' /\ ChangesFit'
    BY <1>0, <1>3, <1>u DEF MapInv, OneChange, ChangesFit
  <2>5. LoadsAlone' /\ PoseGraphIsSession' /\ ExportsSession' /\ PrefixIsSession'
    BY <1>0, <1>u, <2>1, <2>2, <2>3
    DEF MapInv, LoadsAlone, PoseGraphIsSession, ExportsSession, PrefixIsSession
  <2>6. GraphKept' /\ GridStep /\ HereStep
    BY <1>0, <1>u, <2>1, <2>2 DEF MapInv, GraphKept, GridStep, HereStep
  <2>. QED
    BY <1>t, <1>1, <2>4, <2>5, <2>6 DEF MapInv
<1>. QED
  BY <1>2, <1>3, <1>d

\* The node is destroyed, with the answers on their way.
LEMMA WorkerGoneStep ==
  ASSUME MapInv, M!WorkerGone
  PROVE  MapInv' /\ GridStep /\ HereStep
<1>t. M!TypeOK /\ M!TypeOK'
  BY MapTypeStep DEF MapInv
<1>u. UNCHANGED <<backend, managed, session, files, prefix, saving, poseGraph, owner>>
  BY DEF M!WorkerGone, M!managerVars
<1>c. calls' = {c \in calls : c.op \notin {"prefixed", "refused", "exported"}}
  BY DEF M!WorkerGone, M!Answers
<1>0. ~upset' => ~upset /\ \A c \in calls : c.op # "prefixed"
  BY <1>t DEF M!WorkerGone, M!TypeOK
<1>1. (Calm' => Calm) /\ (M!Busy' <=> M!Busy)
  BY <1>0, <1>u DEF Calm, M!Busy
<1>2. SavesPrefix' /\ AmclCalls'
  BY <1>c, <1>u DEF MapInv, SavesPrefix, M!Busy, AmclCalls
<1>3. ~upset' => (Loading' <=> Loading)
  BY <1>0, <1>c DEF Loading
<1>4. \A g \in Files : Exports(g)' => Exports(g)
  BY <1>c DEF Exports
<1>5. OneChange' /\ ChangesFit'
  BY <1>1, <1>c, <1>u DEF MapInv, OneChange, ChangesFit
<1>6. LoadsAlone' /\ PoseGraphIsSession' /\ ExportsSession'
  BY <1>1, <1>3, <1>4, <1>u DEF MapInv, LoadsAlone, PoseGraphIsSession, ExportsSession, Calm
<1>7. PrefixIsSession' /\ GraphKept'
  BY <1>0, <1>1, <1>c, <1>u DEF MapInv, PrefixIsSession, GraphKept, Calm
<1>8. GridStep /\ HereStep
  BY <1>0, <1>1, <1>3, <1>u DEF GridStep, HereStep
<1>. QED
  BY <1>t, <1>2, <1>5, <1>6, <1>7, <1>8 DEF MapInv

LEMMA ExportedStep ==
  ASSUME MapInv, NEW f \in Files,
         M!GraphExported(f) \/ M!OnPoseGraphExported(f) \/ M!GridExported(f)
  PROVE  MapInv' /\ GridStep /\ HereStep
<1>t. M!TypeOK /\ M!TypeOK'
  BY MapTypeStep DEF MapInv, M!Service, M!WorkerCallback
<1>u. UNCHANGED <<backend, managed, session, prefix, saving, poseGraph, owner>>
  BY DEF M!GraphExported, M!OnPoseGraphExported, M!GridExported, M!managerVars, M!historyVars
<1>s. session \in Files
  BY <1>t DEF M!TypeOK
<1>. DEFINE c == M!Call("graph", f)
            e == M!Call("exported", f)
            n == M!Call("grid", f)
<1>c. /\ c.op = "graph" /\ c.file = f /\ e.op = "exported" /\ e.file = f
      /\ n.op = "grid" /\ n.file = f
  BY <1>t, CallFacts
<1>1. PICK gone \in {c, e, n} :
        /\ gone \in calls
        /\ calls \ {gone} \subseteq calls' /\ calls' \subseteq (calls \ {gone}) \cup {e, n}
        /\ ~upset' =>
             /\ ~upset
             /\ gone = c => WritesGraph(f, session) /\ c \notin calls'
             /\ gone = e => files' = files
             /\ gone = n => WritesGrid(f, session)
  <2>1. CASE M!GraphExported(f)
    <3>1. c \in calls /\ c # n /\ c # e
      BY <2>1, <1>c DEF M!GraphExported
    <3>2. \/ /\ WritesGraph(f, session) /\ upset' = upset
             /\ calls' = (calls \ {c}) \cup M!Answer("exported", f)
          \/ calls' = calls \ {c} /\ upset' = TRUE
      BY <2>1 DEF M!GraphExported, WritesGraph
    <3>3. M!Answer("exported", f) \subseteq {e}
      BY <1>t, CallFacts
    <3>. HIDE DEF c, e, n
    <3>4. CASE calls' = calls \ {c} /\ upset' = TRUE
      BY <3>1, <3>4
    <3>5. CASE /\ WritesGraph(f, session) /\ upset' = upset
               /\ calls' = (calls \ {c}) \cup M!Answer("exported", f)
      BY <3>1, <3>3, <3>5
    <3>. QED
      BY <3>2, <3>4, <3>5
  <2>2. CASE M!OnPoseGraphExported(f)
    <3>1. e \in calls /\ e # c /\ e # n
      BY <2>2, <1>c DEF M!OnPoseGraphExported
    <3>2. calls' = (calls \ {e}) \cup {n} /\ files' = files /\ upset' = upset
      BY <2>2 DEF M!OnPoseGraphExported, M!historyVars
    <3>. HIDE DEF c, e, n
    <3>. QED
      BY <3>1, <3>2
  <2>3. CASE M!GridExported(f)
    <3>1. n \in calls /\ n # c /\ n # e /\ calls' = calls \ {n}
      BY <2>3, <1>c DEF M!GridExported
    <3>2. ~upset' => ~upset /\ WritesGrid(f, session)
      BY <2>3, <1>t DEF M!GridExported, M!TypeOK, WritesGrid
    <3>. HIDE DEF c, e, n
    <3>. QED
      BY <3>1, <3>2
  <2>. QED
    BY <2>1, <2>2, <2>3
<1>. HIDE DEF c, e, n
<1>2. gone.file = f /\ gone.op \in {"graph", "exported", "grid"} /\ Exports(f)
  BY <1>1, <1>c DEF Exports
<1>3. /\ \A d \in calls' : d.op \notin {"graph", "exported", "grid"} => d \in calls
      /\ \A d \in calls : d.op \notin {"graph", "exported", "grid"} => d \in calls'
  BY <1>1, <1>c
<1>4. SavesPrefix' /\ AmclCalls'
  <2>1. backend = "amcl" => FALSE
    BY <1>1, <1>2 DEF MapInv, AmclCalls
  <2>. QED
    BY <2>1, <1>u DEF MapInv, SavesPrefix, M!Busy, AmclCalls
<1>5. Loading' <=> Loading
  BY <1>3 DEF Loading
<1>6. HereStep
  BY <1>1, <1>5, <1>u DEF HereStep
<1>7. ASSUME Calm' PROVE Calm /\ owner[f] = session /\ ~Loading
  <2>1. Calm
    BY <1>7, <1>1, <1>u DEF Calm
  <2>. QED
    BY <2>1, <1>2 DEF MapInv, ExportsSession, LoadsAlone
<1>8. OneChange' /\ ChangesFit'
  <2>1. \A d \in calls' : d.op \in Change => d \in calls
    BY <1>3 DEF Change
  <2>2. M!Busy' <=> M!Busy
    BY <1>u DEF M!Busy
  <2>3. \A d \in calls' : d.op \in Change \cup {"static", "prefix", "prefixed", "load"} => d \in calls
    BY <2>1 DEF Change
  <2>. QED
    BY <2>1, <2>2, <2>3, <1>7, <1>u DEF MapInv, OneChange, ChangesFit, Change
<1>9. LoadsAlone'
  BY <1>5, <1>7 DEF LoadsAlone
<1>10. PrefixIsSession'
  BY <1>3, <1>7, <1>u DEF MapInv, PrefixIsSession
<1>11. Calm' => \A g \in Files :
         /\ files'[g].graph = files[g].graph \/ (g = f /\ files'[g].graph = session)
         /\ files'[g].grid = files[g].grid \/ (g = f /\ files'[g].grid = session)
         /\ gone = c => (g = f => files'[g].graph = session)
  <2>. SUFFICES ASSUME Calm', NEW g \in Files
       PROVE  /\ files'[g].graph = files[g].graph \/ (g = f /\ files'[g].graph = session)
              /\ files'[g].grid = files[g].grid \/ (g = f /\ files'[g].grid = session)
              /\ gone = c => (g = f => files'[g].graph = session)
    OBVIOUS
  <2>0. c # n /\ c # e
    BY <1>c
  <2>1. CASE gone = c
    <3>1. WritesGraph(f, session)
      BY <2>1, <1>1 DEF Calm
    <3>2. /\ files'[g].grid = files[g].grid
          /\ g # f => files'[g].graph = files[g].graph
          /\ files'[f].graph = session
      BY <3>1, <1>t, <1>s, GraphWritten
    <3>. QED
      BY <3>2
  <2>2. CASE gone = n
    <3>1. WritesGrid(f, session)
      BY <2>2, <1>1 DEF Calm
    <3>2. /\ files'[g].graph = files[g].graph
          /\ g # f => files'[g].grid = files[g].grid
          /\ files'[f].grid = session
      BY <3>1, <1>t, <1>s, GridWritten
    <3>. QED
      BY <2>0, <2>2, <3>2
  <2>3. CASE gone = e
    BY <2>0, <2>3, <1>1 DEF Calm
  <2>. QED
    BY <2>1, <2>2, <2>3, <1>1
<1>12. PoseGraphIsSession'
  <2>1. poseGraph \in Files
    BY <1>t DEF M!TypeOK
  <2>. QED
    BY <2>1, <1>5, <1>7, <1>11, <1>u DEF MapInv, PoseGraphIsSession
<1>13. \A g \in Files : Exports(g)' => Exports(g)
  BY <1>1, <1>2, <1>c DEF Exports
<1>14. ExportsSession'
  BY <1>7, <1>13, <1>u DEF MapInv, ExportsSession
<1>15. GraphKept'
  <2>. SUFFICES ASSUME Calm', NEW g \in Files, \A d \in calls' : ~(d.op = "graph" /\ d.file = g)
       PROVE  files'[g].graph = owner[g]
    BY <1>u DEF GraphKept
  <2>1. CASE gone = c /\ g = f
    BY <2>1, <1>7, <1>11
  <2>2. CASE ~(gone = c /\ g = f)
    <3>1. \A d \in calls : ~(d.op = "graph" /\ d.file = g)
      BY <2>2, <1>1, <1>c
    <3>2. files[g].graph = owner[g]
      BY <3>1, <1>7 DEF MapInv, GraphKept
    <3>. QED
      BY <3>2, <1>7, <1>11
  <2>. QED
    BY <2>1, <2>2
<1>16. GridStep
  BY <1>7, <1>11, <1>u DEF GridStep
<1>. QED
  BY <1>t, <1>4, <1>6, <1>8, <1>9, <1>10, <1>12, <1>14, <1>15, <1>16 DEF MapInv

\* The manager.
LEMMA RequestSaveStep ==
  ASSUME MapInv, M!Autosave \/ M!SaveService
  PROVE  MapInv' /\ GridStep /\ HereStep
<1>t. M!TypeOK /\ M!TypeOK'
  BY MapTypeStep DEF MapInv, M!Manager
<1>u. /\ UNCHANGED <<backend, managed, session, files, prefix, poseGraph, calls, owner>>
      /\ managed /\ ~M!Busy /\ saving' = [call |-> "graph", file |-> prefix]
  BY DEF M!Autosave, M!SaveService, M!RequestSave
<1>1. ~upset' => /\ ~upset
                 /\ \/ /\ M!Call("load", prefix) \notin calls
                       /\ M!Call("prefixed", prefix) \notin calls
                    \/ \A c \in calls : c.op \notin Change
  BY <1>t, CallFacts DEF M!Autosave, M!SaveService, M!RequestSave
<1>2. SavesPrefix' /\ AmclCalls'
  <2>1. saving'.file = prefix
    BY <1>u
  <2>. QED
    BY <1>u, <2>1 DEF MapInv, SavesPrefix, AmclCalls
<1>3. Calm' => \A c \in calls : c.op \notin {"prefixed", "load"}
  <2>. SUFFICES ASSUME Calm', NEW c \in calls, c.op \in {"prefixed", "load"} PROVE FALSE
    OBVIOUS
  <2>1. c.file = prefix
    BY <1>1, <1>u DEF MapInv, ChangesFit, Calm
  <2>2. c \in {M!Call("prefixed", prefix), M!Call("load", prefix)}
    BY <2>1, <1>t, CallFacts
  <2>. QED
    BY <2>2, <1>1 DEF Calm, Change
<1>4. Calm' => Calm
  BY <1>1, <1>u DEF Calm
<1>5. Loading' <=> Loading
  BY <1>u DEF Loading
<1>6. \A g \in Files : Exports(g)' <=> Exports(g)
  BY <1>u DEF Exports
<1>7. OneChange' /\ ChangesFit'
  BY <1>u, <1>3, <1>4 DEF MapInv, OneChange, ChangesFit
<1>8. LoadsAlone' /\ PrefixIsSession' /\ PoseGraphIsSession' /\ ExportsSession' /\ GraphKept'
  BY <1>u, <1>4, <1>5, <1>6
  DEF MapInv, LoadsAlone, PrefixIsSession, PoseGraphIsSession, ExportsSession, GraphKept
<1>9. GridStep /\ HereStep
  BY <1>u, <1>1, <1>4, <1>5, <1>6 DEF GridStep, HereStep
<1>. QED
  BY <1>t, <1>2, <1>7, <1>8, <1>9 DEF MapInv

LEMMA SavedStep ==
  ASSUME MapInv, M!PoseGraphSaved \/ M!MapSaved
  PROVE  MapInv' /\ GridStep /\ HereStep
<1>t. M!TypeOK /\ M!TypeOK'
  BY MapTypeStep DEF MapInv, M!Manager
<1>. DEFINE f == saving.file
<1>u. UNCHANGED <<backend, managed, session, prefix, poseGraph, calls, owner, upset>>
  BY DEF M!PoseGraphSaved, M!MapSaved, M!historyVars
<1>b. M!Busy /\ managed /\ f = prefix /\ f \in Files /\ session \in Files
  BY <1>t DEF MapInv, SavesPrefix, M!Busy, M!TypeOK, M!PoseGraphSaved, M!MapSaved
<1>1. M!Busy' => saving'.file = prefix
  BY <1>u DEF M!PoseGraphSaved, M!MapSaved, M!Busy, M!Idle
<1>2. files' = files \/ WritesGraph(f, session) \/ WritesGrid(f, session)
  BY DEF M!PoseGraphSaved, M!MapSaved, WritesGraph, WritesGrid
<1>. HIDE DEF f
<1>3. \A g \in Files :
        /\ files'[g].graph = files[g].graph \/ (g = prefix /\ files'[g].graph = session)
        /\ files'[g].grid = files[g].grid \/ (g = prefix /\ files'[g].grid = session)
  <2>. SUFFICES ASSUME NEW g \in Files
       PROVE  /\ files'[g].graph = files[g].graph \/ (g = prefix /\ files'[g].graph = session)
              /\ files'[g].grid = files[g].grid \/ (g = prefix /\ files'[g].grid = session)
    OBVIOUS
  <2>1. CASE WritesGraph(f, session)
    <3>1. /\ files'[g].grid = files[g].grid
          /\ g # f => files'[g].graph = files[g].graph
          /\ files'[f].graph = session
      BY <2>1, <1>t, <1>b, GraphWritten
    <3>. QED
      BY <3>1, <1>b
  <2>2. CASE WritesGrid(f, session)
    <3>1. /\ files'[g].graph = files[g].graph
          /\ g # f => files'[g].grid = files[g].grid
          /\ files'[f].grid = session
      BY <2>2, <1>t, <1>b, GridWritten
    <3>. QED
      BY <3>1, <1>b
  <2>. QED
    BY <1>2, <2>1, <2>2
<1>4. SavesPrefix' /\ AmclCalls'
  BY <1>u, <1>b, <1>1 DEF MapInv, SavesPrefix, AmclCalls
<1>5. (Calm' <=> Calm) /\ (Loading' <=> Loading)
  BY <1>u DEF Calm, Loading
<1>6. \A g \in Files : Exports(g)' <=> Exports(g)
  BY <1>u DEF Exports
<1>7. Calm => (\A c \in calls : c.op \notin {"prefixed", "load"}) /\ owner[prefix] = session
  BY <1>b DEF MapInv, ChangesFit, PrefixIsSession
<1>8. OneChange' /\ ChangesFit'
  BY <1>u, <1>5, <1>7 DEF MapInv, OneChange, ChangesFit
<1>9. LoadsAlone' /\ PrefixIsSession' /\ ExportsSession'
  BY <1>u, <1>5, <1>6 DEF MapInv, LoadsAlone, PrefixIsSession, ExportsSession
<1>10. PoseGraphIsSession'
  <2>1. poseGraph \in Files
    BY <1>t DEF M!TypeOK
  <2>. QED
    BY <2>1, <1>u, <1>3, <1>5 DEF MapInv, PoseGraphIsSession
<1>11. GraphKept'
  BY <1>u, <1>3, <1>5, <1>7 DEF MapInv, GraphKept
<1>12. GridStep /\ HereStep
  BY <1>u, <1>3, <1>5, <1>6, <1>7 DEF GridStep, HereStep
<1>. QED
  BY <1>t, <1>4, <1>8, <1>9, <1>10, <1>11, <1>12 DEF MapInv

LEMMA MapSame ==
  ASSUME MapInv, UNCHANGED mapVars
  PROVE  MapInv' /\ GridStep /\ HereStep
<1>t. M!TypeOK /\ M!TypeOK'
  BY MapTypeStep DEF MapInv
<1>. QED
  BY <1>t
  DEF mapVars, MapInv, SavesPrefix, M!Busy, AmclCalls, OneChange, ChangesFit, LoadsAlone,
      PrefixIsSession, PoseGraphIsSession, ExportsSession, GraphKept, Calm, Loading, Exports,
      GridStep, HereStep

LEMMA MapCallbackStep ==
  ASSUME MapInv, M!WorkerCallback \/ M!Service \/ M!Manager
  PROVE  MapInv' /\ GridStep /\ HereStep
BY LoadedStep, OnParametersStep, OnMapPrefixChangedStep, ExportedStep, RequestSaveStep, SavedStep
DEF M!WorkerCallback, M!Service, M!Manager

\* The window writes the grid it shows: while nothing is upset, that of the back
\* end's session.
LEMMA GridShownStep ==
  ASSUME MapInv, NEW f \in Files, shown \in Files,
         files' = [files EXCEPT ![f].grid = shown],
         upset' = (upset \/ shown # session \/ ~Settled),
         UNCHANGED <<backend, managed, session, prefix, saving, poseGraph, calls, owner>>
  PROVE  /\ MapInv' /\ HereStep /\ (Calm' => Calm)
         /\ \A g \in Files : g # f => files'[g] = files[g]
         /\ Calm' => shown = session /\ Settled /\ ~Loading' /\ files'[f].grid = session'
<1>t. M!TypeOK
  BY DEF MapInv
<1>1. /\ files' \in [Files -> [graph : Files, grid : Files]]
      /\ \A g \in Files : files'[g].graph = files[g].graph
  BY <1>t, GridWritten DEF WritesGrid
<1>2. M!TypeOK'
  BY <1>t, <1>1 DEF M!TypeOK
<1>3. \A g \in Files : g # f => files'[g] = files[g]
  BY <1>t DEF M!TypeOK
<1>4. ~upset' => ~upset
  BY <1>t DEF M!TypeOK
<1>5. poseGraph \in Files
  BY <1>t DEF M!TypeOK
<1>6. Calm' => shown = session /\ Settled /\ ~Loading'
  <2>1. Calm' => shown = session /\ Settled
    BY <1>t DEF Calm, M!TypeOK
  <2>2. Settled => ~Loading
    BY <1>t, CallFacts DEF Settled, Loading, Change
  <2>. QED
    BY <2>1, <2>2 DEF Loading
<1>7. files'[f].grid = shown
  BY <1>t, GridWritten DEF WritesGrid
<1>. QED
  BY <1>1, <1>2, <1>3, <1>4, <1>5, <1>6, <1>7
  DEF MapInv, SavesPrefix, M!Busy, AmclCalls, OneChange, ChangesFit, LoadsAlone,
      PrefixIsSession, PoseGraphIsSession, ExportsSession, GraphKept, Calm, Loading, Exports,
      HereStep

-----------------------------------------------------------------------------
(* The window: its signals, its way points and the grids it writes.        *)

LoadQueued == \E i \in 1..Len(toWorker) : toWorker[i].do = "load"
SaveQueued(f) == \E i \in 1..Len(toWorker) : toWorker[i] = [do |-> "save", file |-> f]

WindowTypeOK ==
  /\ window \in BOOLEAN /\ clicks \in 0..MaxClicks
  /\ toWorker \in Seq(Signal)
  /\ Len(toWorker) <= clicks + 1 /\ (window => Len(toWorker) <= clicks)
  /\ shown \in Files /\ waypoints \in Plan /\ executed \in Plan

GridKept ==
  Calm => \A f \in Files : ~SaveQueued(f) => files[f].grid = owner[f]

\* A save that is queued is of the grid of the back end's session, with no load
\* ahead of it.
Shows(f) == ~Loading /\ files[f].grid = session
SavesHere ==
  Calm => \A i \in 1..Len(toWorker) : toWorker[i].do = "save" =>
    /\ Shows(toWorker[i].file)
    /\ \A j \in 1..(i - 1) : toWorker[j].do # "load"

\* The way points chosen on a settled map are on that of the back end, and no
\* load is ahead of them.
PlanFits(plan) ==
  \A k \in 1..Len(plan) : plan[k].settled => plan[k].on = session /\ ~Loading
SomeSettled(plan) == \E k \in 1..Len(plan) : plan[k].settled

PlannedHere ==
  ~upset => PlanFits(waypoints) /\ (SomeSettled(waypoints) => ~LoadQueued)
QueuedHere ==
  ~upset => \A i \in 1..Len(toWorker) : toWorker[i].do = "waypoints" =>
    /\ PlanFits(toWorker[i].plan)
    /\ SomeSettled(toWorker[i].plan) => \A j \in 1..(i - 1) : toWorker[j].do # "load"

WindowInv == WindowTypeOK /\ GridKept /\ SavesHere /\ PlannedHere /\ QueuedHere

LEMMA SignalFacts ==
  ASSUME NEW s \in Signal
  PROVE  /\ s.do \in {"load", "save"} => s.file \in Files
         /\ s.do = "waypoints" => s.plan \in Plan
BY DEF Signal

LEMMA PlanFacts ==
  ASSUME NEW p \in Plan
  PROVE  /\ p \in Seq(Waypoint) /\ Len(p) \in 0..MaxWaypoints
         /\ p \in [1..Len(p) -> Waypoint] /\ DOMAIN p = 1..Len(p)
<1>1. PICK n \in 0..MaxWaypoints : p \in [1..n -> Waypoint]
  BY DEF Plan
<1>2. n \in Nat
  BY NavigationAssumption
<1>3. p \in Seq(Waypoint) /\ Len(p) = n
  BY <1>1, <1>2, FunctionIsSeq
<1>. QED
  BY <1>1, <1>3

LEMMA PlanGrows ==
  ASSUME NEW p \in Plan, Len(p) < MaxWaypoints, NEW w \in Waypoint
  PROVE  /\ Append(p, w) \in Plan
         /\ Len(Append(p, w)) = Len(p) + 1
         /\ \A k \in 1..Len(p) : Append(p, w)[k] = p[k]
         /\ Append(p, w)[Len(p) + 1] = w
<1>1. p \in Seq(Waypoint) /\ Len(p) \in Nat /\ MaxWaypoints \in Nat
  BY PlanFacts, NavigationAssumption
<1>2. /\ Append(p, w) \in Seq(Waypoint)
      /\ Len(Append(p, w)) = Len(p) + 1
      /\ \A k \in 1..Len(p) : Append(p, w)[k] = p[k]
      /\ Append(p, w)[Len(p) + 1] = w
  BY <1>1, AppendProperties
<1>3. Append(p, w) \in [1..(Len(p) + 1) -> Waypoint]
  BY <1>2, LenProperties
<1>4. Len(p) + 1 \in 0..MaxWaypoints
  BY <1>1
<1>. QED
  BY <1>2, <1>3, <1>4 DEF Plan

LEMMA QueueAppended ==
  ASSUME toWorker \in Seq(Signal), NEW s \in Signal, toWorker' = Append(toWorker, s)
  PROVE  /\ toWorker' \in Seq(Signal)
         /\ Len(toWorker) \in Nat /\ Len(toWorker') = Len(toWorker) + 1
         /\ \A i \in 1..Len(toWorker) : toWorker'[i] = toWorker[i]
         /\ toWorker'[Len(toWorker) + 1] = s
BY AppendProperties, LenProperties

LEMMA QueueTaken ==
  ASSUME toWorker \in Seq(Signal), toWorker # <<>>, toWorker' = Tail(toWorker)
  PROVE  /\ toWorker' \in Seq(Signal)
         /\ Len(toWorker) \in Nat \ {0} /\ Len(toWorker') = Len(toWorker) - 1
         /\ \A i \in 1..Len(toWorker') : toWorker'[i] = toWorker[i + 1]
         /\ Head(toWorker) = toWorker[1] /\ Head(toWorker) \in Signal
<1>1. Len(toWorker) \in Nat \ {0}
  BY EmptySeq, LenProperties
<1>2. /\ Tail(toWorker) \in Seq(Signal) /\ Len(Tail(toWorker)) = Len(toWorker) - 1
      /\ \A i \in 1..Len(Tail(toWorker)) : Tail(toWorker)[i] = toWorker[i + 1]
      /\ Head(toWorker) = toWorker[1]
  BY HeadTailProperties
<1>3. toWorker[1] \in Signal
  BY <1>1, ElementOfSeq
<1>. QED
  BY <1>1, <1>2, <1>3

\* A plan fits as long as the map stays.
LEMMA PlanStillFits ==
  ASSUME HereStep, ~upset'
  PROVE  \A p : PlanFits(p) => (\A k \in 1..Len(p) : p[k].settled =>
                                  p[k].on = session' /\ ~Loading')
BY DEF HereStep, PlanFits

\* The queue, when a signal is emitted.
LEMMA EmitStep ==
  ASSUME WindowInv, NEW s \in Signal, toWorker' = Append(toWorker, s),
         HereStep, s.do = "waypoints" => s.plan = waypoints
  PROVE  /\ QueuedHere'
         /\ LoadQueued' <=> LoadQueued \/ s.do = "load"
         /\ \A f \in Files : SaveQueued(f)' <=> SaveQueued(f) \/ s = [do |-> "save", file |-> f]
<1>1. /\ Len(toWorker) \in Nat /\ Len(toWorker') = Len(toWorker) + 1
      /\ \A i \in 1..Len(toWorker) : toWorker'[i] = toWorker[i]
      /\ toWorker'[Len(toWorker) + 1] = s
  BY QueueAppended DEF WindowInv, WindowTypeOK
<1>2. \A i \in 1..Len(toWorker') : i \in 1..Len(toWorker) \/ i = Len(toWorker) + 1
  BY <1>1
<1>3. /\ \A i \in 1..Len(toWorker) : i \in 1..Len(toWorker')
      /\ Len(toWorker) + 1 \in 1..Len(toWorker')
  BY <1>1
<1>4. LoadQueued' <=> LoadQueued \/ s.do = "load"
  BY <1>1, <1>2, <1>3 DEF LoadQueued
<1>5. ASSUME NEW f \in Files
      PROVE  SaveQueued(f)' <=> SaveQueued(f) \/ s = [do |-> "save", file |-> f]
  <2>. DEFINE r == [do |-> "save", file |-> f]
  <2>. HIDE DEF r
  <2>1. (\E i \in 1..Len(toWorker') : toWorker'[i] = r)
          <=> (\E i \in 1..Len(toWorker) : toWorker[i] = r) \/ s = r
    BY <1>1, <1>2, <1>3
  <2>. QED
    BY <2>1 DEF SaveQueued, r
<1>6. QueuedHere'
  <2>. SUFFICES ASSUME ~upset', NEW i \in 1..Len(toWorker'), toWorker'[i].do = "waypoints"
       PROVE  /\ PlanFits(toWorker[i].plan)'
              /\ SomeSettled(toWorker[i].plan)' => \A j \in 1..(i - 1) : toWorker'[j].do # "load"
    BY DEF QueuedHere
  <2>0. ~upset
    BY DEF HereStep
  <2>1. CASE i \in 1..Len(toWorker)
    <3>1. toWorker'[i] = toWorker[i]
      BY <2>1, <1>1
    <3>2. /\ PlanFits(toWorker[i].plan)
          /\ SomeSettled(toWorker[i].plan) => \A j \in 1..(i - 1) : toWorker[j].do # "load"
      BY <2>0, <2>1, <3>1 DEF WindowInv, QueuedHere
    <3>3. PlanFits(toWorker[i].plan)'
      BY <3>1, <3>2, PlanStillFits DEF PlanFits
    <3>4. \A j \in 1..(i - 1) : j \in 1..Len(toWorker) /\ toWorker'[j] = toWorker[j]
      BY <2>1, <1>1
    <3>5. SomeSettled(toWorker[i].plan)' => SomeSettled(toWorker[i].plan)
      BY <3>1 DEF SomeSettled
    <3>. QED
      BY <3>2, <3>3, <3>4, <3>5
  <2>2. CASE i = Len(toWorker) + 1
    <3>1. toWorker'[i].plan = waypoints
      BY <2>2, <1>1
    <3>2. PlanFits(waypoints) /\ (SomeSettled(waypoints) => ~LoadQueued)
      BY <2>0 DEF WindowInv, PlannedHere
    <3>3. PlanFits(toWorker[i].plan)'
      BY <3>1, <3>2, PlanStillFits DEF PlanFits
    <3>4. \A j \in 1..(i - 1) : j \in 1..Len(toWorker) /\ toWorker'[j] = toWorker[j]
      BY <2>2, <1>1
    <3>5. SomeSettled(toWorker[i].plan)' => SomeSettled(waypoints)
      BY <3>1 DEF SomeSettled
    <3>. QED
      BY <3>2, <3>3, <3>4, <3>5 DEF LoadQueued
  <2>. QED
    BY <1>2, <2>1, <2>2
<1>. QED
  BY <1>4, <1>5, <1>6

\* The queue, when the worker takes a signal.
LEMMA TakeStep ==
  ASSUME WindowInv, toWorker # <<>>, toWorker' = Tail(toWorker), ~upset' => ~upset
  PROVE  /\ LoadQueued <=> LoadQueued' \/ Head(toWorker).do = "load"
         /\ \A f \in Files : SaveQueued(f)
              <=> SaveQueued(f)' \/ Head(toWorker) = [do |-> "save", file |-> f]
         /\ HereStep \/ Head(toWorker).do = "load" => QueuedHere'
<1>1. /\ Len(toWorker) \in Nat \ {0} /\ Len(toWorker') = Len(toWorker) - 1
      /\ \A i \in 1..Len(toWorker') : toWorker'[i] = toWorker[i + 1]
      /\ Head(toWorker) = toWorker[1]
  BY QueueTaken DEF WindowInv, WindowTypeOK
<1>2. \A i \in 1..Len(toWorker) :
        i = 1 \/ (i - 1 \in 1..Len(toWorker') /\ toWorker'[i - 1] = toWorker[i])
  <2>1. \A i \in 1..Len(toWorker) : i = 1 \/ (i - 1 \in 1..Len(toWorker') /\ (i - 1) + 1 = i)
    BY <1>1
  <2>. QED
    BY <1>1, <2>1
<1>3. /\ \A i \in 1..Len(toWorker') : i + 1 \in 1..Len(toWorker)
      /\ 1 \in 1..Len(toWorker)
  BY <1>1
<1>4. LoadQueued <=> LoadQueued' \/ Head(toWorker).do = "load"
  <2>1. ASSUME LoadQueued PROVE LoadQueued' \/ Head(toWorker).do = "load"
    <3>1. PICK i \in 1..Len(toWorker) : toWorker[i].do = "load"
      BY <2>1 DEF LoadQueued
    <3>2. CASE i = 1
      BY <1>1, <3>1, <3>2
    <3>3. CASE i - 1 \in 1..Len(toWorker') /\ toWorker'[i - 1] = toWorker[i]
      BY <3>1, <3>3 DEF LoadQueued
    <3>. QED
      BY <1>2, <3>2, <3>3
  <2>2. LoadQueued' => LoadQueued
    BY <1>1, <1>3 DEF LoadQueued
  <2>3. Head(toWorker).do = "load" => LoadQueued
    BY <1>1, <1>3 DEF LoadQueued
  <2>. QED
    BY <2>1, <2>2, <2>3
<1>5. ASSUME NEW f \in Files
      PROVE  SaveQueued(f) <=> SaveQueued(f)' \/ Head(toWorker) = [do |-> "save", file |-> f]
  <2>. DEFINE r == [do |-> "save", file |-> f]
  <2>. HIDE DEF r
  <2>1. (\E i \in 1..Len(toWorker) : toWorker[i] = r)
          <=> (\E i \in 1..Len(toWorker') : toWorker'[i] = r) \/ Head(toWorker) = r
    BY <1>1, <1>2, <1>3
  <2>. QED
    BY <2>1 DEF SaveQueued, r
<1>6. ASSUME HereStep \/ Head(toWorker).do = "load" PROVE QueuedHere'
  <2>. SUFFICES ASSUME ~upset', NEW i \in 1..Len(toWorker'), toWorker'[i].do = "waypoints"
       PROVE  /\ PlanFits(toWorker[i].plan)'
              /\ SomeSettled(toWorker[i].plan)' => \A j \in 1..(i - 1) : toWorker'[j].do # "load"
    BY DEF QueuedHere
  <2>1. i + 1 \in 1..Len(toWorker) /\ toWorker'[i] = toWorker[i + 1]
    BY <1>1, <1>3
  <2>2. /\ PlanFits(toWorker[i + 1].plan)
        /\ SomeSettled(toWorker[i + 1].plan) => \A j \in 1..((i + 1) - 1) : toWorker[j].do # "load"
    BY <2>1 DEF WindowInv, QueuedHere
  <2>3. SomeSettled(toWorker[i].plan)' => SomeSettled(toWorker[i + 1].plan)
    BY <2>1 DEF SomeSettled
  <2>4. \A j \in 1..(i - 1) : /\ j \in 1..Len(toWorker') /\ toWorker'[j] = toWorker[j + 1]
                              /\ j + 1 \in 1..((i + 1) - 1)
    BY <1>1, <2>1
  <2>5. 1 \in 1..((i + 1) - 1)
    BY <1>1
  <2>6. PlanFits(toWorker[i].plan)'
    <3>1. CASE HereStep
      BY <2>1, <2>2, <3>1, PlanStillFits DEF PlanFits
    <3>2. CASE Head(toWorker).do = "load"
      <4>1. ~SomeSettled(toWorker[i + 1].plan)
        BY <3>2, <2>2, <2>5, <1>1
      <4>. QED
        BY <4>1, <2>1 DEF SomeSettled, PlanFits
    <3>. QED
      BY <1>6, <3>1, <3>2
  <2>. QED
    BY <2>2, <2>3, <2>4, <2>6
<1>. QED
  BY <1>4, <1>5, <1>6

\* What a step may do to the grids.
LEMMA GridStaysKept ==
  ASSUME WindowInv, GridStep, \A f \in Files : SaveQueued(f) => SaveQueued(f)'
  PROVE  GridKept'
BY DEF WindowInv, GridKept, GridStep

LEMMA StillShows ==
  ASSUME GridStep, HereStep
  PROVE  (Calm' => Calm) /\ \A f \in Files : Calm' /\ Shows(f) => Shows(f)'
BY DEF GridStep, HereStep, Shows, Calm

\* The saves that are queued, when a signal is emitted and when one is taken.
LEMMA SavesEmitted ==
  ASSUME WindowInv, NEW s \in Signal, toWorker' = Append(toWorker, s), Calm' => Calm,
         \A f \in Files : Calm' /\ Shows(f) => Shows(f)',
         s.do = "save" => (Calm' => Shows(s.file)' /\ ~LoadQueued)
  PROVE  SavesHere'
<1>. SUFFICES ASSUME Calm', NEW i \in 1..Len(toWorker'), toWorker'[i].do = "save"
     PROVE  /\ Shows(toWorker[i].file)'
            /\ \A j \in 1..(i - 1) : toWorker'[j].do # "load"
  BY DEF SavesHere
<1>1. /\ toWorker \in Seq(Signal) /\ Len(toWorker) \in Nat
      /\ Len(toWorker') = Len(toWorker) + 1
      /\ \A k \in 1..Len(toWorker) : toWorker'[k] = toWorker[k]
      /\ toWorker'[Len(toWorker) + 1] = s
  BY QueueAppended DEF WindowInv, WindowTypeOK
<1>2. CASE i \in 1..Len(toWorker)
  <2>1. toWorker'[i] = toWorker[i] /\ toWorker[i] \in Signal
    BY <1>1, <1>2, ElementOfSeq
  <2>2. PICK f \in Files : f = toWorker[i].file
    BY <2>1, SignalFacts
  <2>3. Shows(toWorker[i].file) /\ \A j \in 1..(i - 1) : toWorker[j].do # "load"
    BY <1>2, <2>1 DEF WindowInv, SavesHere
  <2>4. Shows(f)'
    BY <2>2, <2>3 DEF Shows
  <2>5. \A j \in 1..(i - 1) : j \in 1..Len(toWorker) /\ toWorker'[j] = toWorker[j]
    BY <1>1, <1>2
  <2>. QED
    BY <2>1, <2>2, <2>3, <2>4, <2>5 DEF Shows
<1>3. CASE i = Len(toWorker) + 1
  <2>1. toWorker'[i] = s
    BY <1>1, <1>3
  <2>2. Shows(s.file)' /\ ~LoadQueued
    BY <2>1
  <2>3. \A j \in 1..(i - 1) : j \in 1..Len(toWorker) /\ toWorker'[j] = toWorker[j]
    BY <1>1, <1>3
  <2>. QED
    BY <2>1, <2>2, <2>3 DEF Shows, LoadQueued
<1>. QED
  BY <1>1, <1>2, <1>3

LEMMA SavesTaken ==
  ASSUME WindowInv, toWorker # <<>>, toWorker' = Tail(toWorker), Calm' => Calm,
         \/ Head(toWorker).do = "load"
         \/ \A f \in Files : Calm' /\ Shows(f) => Shows(f)'
  PROVE  SavesHere'
<1>. SUFFICES ASSUME Calm', NEW i \in 1..Len(toWorker'), toWorker'[i].do = "save"
     PROVE  /\ Shows(toWorker[i].file)'
            /\ \A j \in 1..(i - 1) : toWorker'[j].do # "load"
  BY DEF SavesHere
<1>1. /\ toWorker \in Seq(Signal) /\ Len(toWorker) \in Nat \ {0}
      /\ Len(toWorker') = Len(toWorker) - 1
      /\ \A k \in 1..Len(toWorker') : toWorker'[k] = toWorker[k + 1]
      /\ Head(toWorker) = toWorker[1]
  BY QueueTaken DEF WindowInv, WindowTypeOK
<1>2. i + 1 \in 1..Len(toWorker) /\ 1 \in 1..((i + 1) - 1) /\ (i + 1) - 1 = i
  BY <1>1
<1>3. toWorker'[i] = toWorker[i + 1] /\ toWorker[i + 1] \in Signal
  BY <1>1, <1>2, ElementOfSeq
<1>4. PICK f \in Files : f = toWorker[i + 1].file
  BY <1>3, SignalFacts
<1>5. Shows(toWorker[i + 1].file) /\ \A j \in 1..i : toWorker[j].do # "load"
  BY <1>2, <1>3 DEF WindowInv, SavesHere
<1>6. Shows(f)'
  BY <1>1, <1>2, <1>4, <1>5 DEF Shows
<1>7. \A j \in 1..(i - 1) : /\ j \in 1..Len(toWorker') /\ toWorker'[j] = toWorker[j + 1]
                            /\ j + 1 \in 1..i
  BY <1>1
<1>. QED
  BY <1>3, <1>4, <1>5, <1>6, <1>7 DEF Shows

LEMMA SavesStay ==
  ASSUME WindowInv, GridStep, HereStep, toWorker' = toWorker
  PROVE  SavesHere'
<1>. SUFFICES ASSUME Calm', NEW i \in 1..Len(toWorker), toWorker[i].do = "save"
     PROVE  /\ Shows(toWorker[i].file)'
            /\ \A j \in 1..(i - 1) : toWorker[j].do # "load"
  BY DEF SavesHere, Shows
<1>1. toWorker[i] \in Signal
  BY ElementOfSeq DEF WindowInv, WindowTypeOK
<1>2. PICK f \in Files : f = toWorker[i].file
  BY <1>1, SignalFacts
<1>3. Shows(f) /\ \A j \in 1..(i - 1) : toWorker[j].do # "load"
  BY <1>2, StillShows DEF WindowInv, SavesHere, Shows
<1>4. Shows(f)'
  BY <1>3, StillShows
<1>. QED
  BY <1>2, <1>3, <1>4 DEF Shows

\* The plan on the window's list.
LEMMA PlanStaysHere ==
  ASSUME WindowInv, HereStep, waypoints' = waypoints, LoadQueued' => LoadQueued
  PROVE  PlannedHere'
<1>. SUFFICES ASSUME ~upset'
     PROVE  PlanFits(waypoints)' /\ (SomeSettled(waypoints)' => ~LoadQueued')
  BY DEF PlannedHere
<1>1. PlanFits(waypoints) /\ (SomeSettled(waypoints) => ~LoadQueued)
  BY DEF WindowInv, PlannedHere, HereStep
<1>2. PlanFits(waypoints)'
  BY <1>1, PlanStillFits DEF PlanFits
<1>. QED
  BY <1>1, <1>2 DEF SomeSettled

LEMMA EmitType ==
  ASSUME WindowInv, NEW s \in Signal, Emit(s), shown' \in Files, waypoints' \in Plan
  PROVE  WindowTypeOK'
<1>1. toWorker' = Append(toWorker, s)
  BY DEF Emit
<1>2. /\ toWorker' \in Seq(Signal) /\ Len(toWorker) \in Nat
      /\ Len(toWorker') = Len(toWorker) + 1
  BY <1>1, QueueAppended DEF WindowInv, WindowTypeOK
<1>3. window /\ clicks < MaxClicks /\ clicks' = clicks + 1 /\ UNCHANGED <<window, executed>>
  BY DEF Emit
<1>. QED
  BY <1>2, <1>3, NavigationAssumption DEF WindowInv, WindowTypeOK

\* A signal that is neither a load nor way points, with the map left alone.
LEMMA PlainEmit ==
  ASSUME MapInv, WindowInv, NEW s \in Signal, Emit(s),
         s.do \in {"goal", "cancel", "pose", "relocalize"},
         UNCHANGED <<shown, waypoints, mapVars>>
  PROVE  MapInv' /\ WindowInv'
<1>1. MapInv' /\ GridStep /\ HereStep
  BY MapSame
<1>2. toWorker' = Append(toWorker, s)
  BY DEF Emit
<1>3. /\ QueuedHere'
      /\ LoadQueued' <=> LoadQueued \/ s.do = "load"
      /\ \A f \in Files : SaveQueued(f)' <=> SaveQueued(f) \/ s = [do |-> "save", file |-> f]
  BY <1>1, <1>2, EmitStep
<1>4. WindowTypeOK'
  BY EmitType DEF WindowInv, WindowTypeOK
<1>5. GridKept'
  BY <1>1, <1>3, GridStaysKept
<1>6. PlannedHere'
  BY <1>1, <1>3, PlanStaysHere
<1>7. SavesHere'
  BY <1>1, <1>2, StillShows, SavesEmitted
<1>. QED
  BY <1>1, <1>3, <1>4, <1>5, <1>6, <1>7 DEF WindowInv

\* The operator.
LEMMA OperatorStep ==
  ASSUME MapInv, WindowInv, Operator
  PROVE  MapInv' /\ WindowInv'
<1>t. /\ shown \in Files /\ waypoints \in Plan /\ executed \in Plan /\ toWorker \in Seq(Signal)
      /\ window \in BOOLEAN /\ clicks \in 0..MaxClicks
      /\ Len(toWorker) <= clicks + 1 /\ (window => Len(toWorker) <= clicks)
  BY DEF WindowInv, WindowTypeOK
<1>m. M!TypeOK
  BY DEF MapInv
<1>1. CASE Click
  <2>1. PICK d \in {"goal", "cancel", "pose", "relocalize"} : Emit([do |-> d])
    BY <1>1 DEF Click
  <2>. DEFINE s == [do |-> d]
  <2>2. s \in Signal
    <3>1. CASE d \in {"goal", "cancel", "pose", "relocalize", "shutdown"}
      BY <3>1 DEF Signal
    <3>. QED
      BY <2>1, <3>1
  <2>3. s.do \in {"goal", "cancel", "pose", "relocalize"} /\ Emit(s)
    BY <2>1
  <2>4. UNCHANGED <<shown, waypoints, mapVars>>
    BY <1>1 DEF Click
  <2>. HIDE DEF s
  <2>. QED
    BY <2>2, <2>3, <2>4, PlainEmit
<1>2. CASE AddWaypoint
  <2>. DEFINE w == [on |-> shown, settled |-> Settled /\ shown = session]
  <2>1. /\ Len(waypoints) < MaxWaypoints /\ waypoints' = Append(waypoints, w)
        /\ UNCHANGED <<window, clicks, shown, toWorker, executed, mapVars>>
    BY <1>2 DEF AddWaypoint
  <2>2. w \in Waypoint
    <3>1. (Settled /\ shown = session) \in BOOLEAN
      BY DEF Settled
    <3>. QED
      BY <3>1, <1>t DEF Waypoint
  <2>3. w.settled => w.on = session /\ ~Loading /\ ~LoadQueued
    <3>1. w.settled <=> (Settled /\ shown = session)
      OBVIOUS
    <3>2. w.on = shown
      OBVIOUS
    <3>3. Settled => ~Loading
      BY <1>m, CallFacts DEF Settled, Loading, Change
    <3>4. Settled => ~LoadQueued
      BY <1>t, LenProperties DEF Settled, Queued, LoadQueued
    <3>. QED
      BY <3>1, <3>2, <3>3, <3>4
  <2>. HIDE DEF w
  <2>4. /\ waypoints' \in Plan /\ Len(waypoints) \in Nat /\ Len(waypoints') = Len(waypoints) + 1
        /\ \A k \in 1..Len(waypoints) : waypoints'[k] = waypoints[k]
        /\ waypoints'[Len(waypoints) + 1] = w
    BY <2>1, <2>2, <1>t, PlanGrows, PlanFacts
  <2>5. MapInv' /\ GridStep /\ HereStep
    BY <2>1, MapSame
  <2>6. WindowTypeOK'
    BY <1>t, <2>1, <2>4 DEF WindowTypeOK
  <2>7. GridKept'
    BY <2>1, <2>5, GridStaysKept DEF SaveQueued
  <2>8. (LoadQueued' <=> LoadQueued) /\ (Loading' <=> Loading) /\ session' = session /\ upset' = upset
    BY <2>1 DEF LoadQueued, Loading, mapVars
  <2>9. \A k \in 1..Len(waypoints') : k \in 1..Len(waypoints) \/ k = Len(waypoints) + 1
    BY <2>4
  <2>10. PlannedHere'
    <3>. SUFFICES ASSUME ~upset', NEW k \in 1..Len(waypoints'), waypoints'[k].settled
         PROVE  waypoints'[k].on = session /\ ~Loading /\ ~LoadQueued
      BY <2>8 DEF PlannedHere, PlanFits, SomeSettled
    <3>1. CASE k \in 1..Len(waypoints)
      <4>1. waypoints[k].settled
        BY <2>4, <3>1
      <4>2. waypoints[k].on = session /\ ~Loading /\ ~LoadQueued
        BY <2>8, <3>1, <4>1 DEF WindowInv, PlannedHere, PlanFits, SomeSettled
      <4>. QED
        BY <2>4, <3>1, <4>2
    <3>2. CASE k = Len(waypoints) + 1
      BY <2>3, <2>4, <3>2
    <3>. QED
      BY <2>9, <3>1, <3>2
  <2>11. QueuedHere'
    BY <2>1, <2>8 DEF WindowInv, QueuedHere, PlanFits, SomeSettled
  <2>12. SavesHere'
    BY <2>1, <2>5, SavesStay
  <2>. QED
    BY <2>5, <2>6, <2>7, <2>10, <2>11, <2>12 DEF WindowInv
<1>3. CASE ExecuteWaypoints
  <2>. DEFINE s == [do |-> "waypoints", plan |-> waypoints]
  <2>1. s \in Signal
    BY <1>t DEF Signal
  <2>2. s.do = "waypoints" /\ s.plan = waypoints /\ \A f : s # [do |-> "save", file |-> f]
    OBVIOUS
  <2>3. Emit(s) /\ UNCHANGED <<shown, waypoints, mapVars>>
    BY <1>3 DEF ExecuteWaypoints
  <2>. HIDE DEF s
  <2>4. MapInv' /\ GridStep /\ HereStep
    BY <2>3, MapSame
  <2>5. /\ QueuedHere'
        /\ LoadQueued' <=> LoadQueued \/ s.do = "load"
        /\ \A f \in Files : SaveQueued(f)' <=> SaveQueued(f) \/ s = [do |-> "save", file |-> f]
    BY <2>1, <2>2, <2>3, <2>4, EmitStep DEF Emit
  <2>6. WindowTypeOK'
    BY <1>t, <2>1, <2>3, EmitType
  <2>7. GridKept'
    BY <2>4, <2>5, GridStaysKept
  <2>8. PlannedHere'
    BY <2>2, <2>3, <2>4, <2>5, PlanStaysHere
  <2>9. SavesHere'
    BY <2>1, <2>2, <2>3, <2>4, StillShows, SavesEmitted DEF Emit
  <2>. QED
    BY <2>4, <2>5, <2>6, <2>7, <2>8, <2>9 DEF WindowInv
<1>4. CASE LoadMapFile
  <2>1. PICK f \in Files : Emit([do |-> "load", file |-> f]) /\ shown' = files[f].grid
    BY <1>4 DEF LoadMapFile
  <2>. DEFINE s == [do |-> "load", file |-> f]
  <2>2. s \in Signal /\ s.do = "load" /\ \A g : s # [do |-> "save", file |-> g]
    BY DEF Signal
  <2>3. Emit(s) /\ waypoints' = <<>> /\ UNCHANGED mapVars
    BY <1>4, <2>1 DEF LoadMapFile
  <2>. HIDE DEF s
  <2>4. MapInv' /\ GridStep /\ HereStep
    BY <2>3, MapSame
  <2>5. /\ QueuedHere'
        /\ \A g \in Files : SaveQueued(g)' <=> SaveQueued(g) \/ s = [do |-> "save", file |-> g]
    BY <2>2, <2>3, <2>4, EmitStep DEF Emit
  <2>6. waypoints' \in Plan /\ Len(waypoints') = 0
    <3>1. <<>> \in [1..0 -> Waypoint] /\ 0 \in 0..MaxWaypoints
      BY NavigationAssumption
    <3>. QED
      BY <2>3, <3>1 DEF Plan
  <2>7. shown' \in Files
    BY <2>1, <1>m DEF M!TypeOK
  <2>8. WindowTypeOK'
    BY <2>2, <2>3, <2>6, <2>7, EmitType
  <2>9. GridKept'
    BY <2>4, <2>5, GridStaysKept
  <2>10. PlannedHere'
    BY <2>6 DEF PlannedHere, PlanFits, SomeSettled
  <2>11. SavesHere'
    BY <2>2, <2>3, <2>4, StillShows, SavesEmitted DEF Emit
  <2>. QED
    BY <2>4, <2>5, <2>8, <2>9, <2>10, <2>11 DEF WindowInv
<1>5. CASE SaveCurrentMap
  <2>1. PICK f \in Files :
          /\ Emit([do |-> "save", file |-> f])
          /\ files' = [files EXCEPT ![f].grid = shown]
          /\ upset' = (upset \/ shown # session \/ ~Settled)
    BY <1>5 DEF SaveCurrentMap
  <2>2. UNCHANGED <<shown, waypoints, backend, managed, session, prefix, saving, poseGraph,
                    calls, owner>>
    BY <1>5 DEF SaveCurrentMap
  <2>. DEFINE s == [do |-> "save", file |-> f]
  <2>3. s \in Signal /\ s.do = "save"
    BY DEF Signal
  <2>4. Emit(s)
    BY <2>1
  <2>5. /\ MapInv' /\ HereStep /\ (Calm' => Calm)
        /\ \A g \in Files : g # f => files'[g] = files[g]
    BY <1>t, <2>1, <2>2, GridShownStep
  <2>6. s = [do |-> "save", file |-> f] /\ s.file = f
    OBVIOUS
  <2>11. Calm' => shown = session /\ Settled /\ ~Loading' /\ files'[f].grid = session'
    BY <1>t, <2>1, <2>2, GridShownStep
  <2>. HIDE DEF s
  <2>7. /\ QueuedHere'
        /\ LoadQueued' <=> LoadQueued \/ s.do = "load"
        /\ \A g \in Files : SaveQueued(g)' <=> SaveQueued(g) \/ s = [do |-> "save", file |-> g]
    BY <2>3, <2>4, <2>5, EmitStep DEF Emit
  <2>8. WindowTypeOK'
    BY <1>t, <2>2, <2>3, <2>4, EmitType
  <2>9. GridKept'
    <3>1. \A g \in Files : ~SaveQueued(g)' => g # f /\ ~SaveQueued(g)
      BY <2>6, <2>7
    <3>. QED
      BY <2>2, <2>5, <3>1 DEF WindowInv, GridKept
  <2>10. PlannedHere'
    BY <2>2, <2>3, <2>5, <2>7, PlanStaysHere
  <2>12. SavesHere'
    <3>1. Settled => ~LoadQueued
      BY <1>t, LenProperties DEF Settled, Queued, LoadQueued
    <3>2. Calm' => Shows(f)'
      BY <2>11 DEF Shows
    <3>3. ASSUME NEW g \in Files, Calm', Shows(g) PROVE Shows(g)'
      BY <2>2, <2>5, <2>11, <3>2, <3>3 DEF Shows
    <3>4. s.do = "save" => (Calm' => Shows(s.file)' /\ ~LoadQueued)
      BY <2>6, <2>11, <3>1, <3>2 DEF Shows
    <3>. QED
      BY <2>3, <2>4, <2>5, <3>3, <3>4, SavesEmitted DEF Emit
  <2>. QED
    BY <2>5, <2>7, <2>8, <2>9, <2>10, <2>12 DEF WindowInv
<1>6. CASE Close
  <2>. DEFINE s == [do |-> "shutdown"]
  <2>1. s \in Signal /\ s.do = "shutdown" /\ \A f : s # [do |-> "save", file |-> f]
    BY DEF Signal
  <2>2. /\ window /\ window' = FALSE /\ toWorker' = Append(toWorker, s)
        /\ UNCHANGED <<clicks, shown, waypoints, executed, mapVars>>
    BY <1>6 DEF Close
  <2>. HIDE DEF s
  <2>3. MapInv' /\ GridStep /\ HereStep
    BY <2>2, MapSame
  <2>4. /\ QueuedHere'
        /\ LoadQueued' <=> LoadQueued \/ s.do = "load"
        /\ \A f \in Files : SaveQueued(f)' <=> SaveQueued(f) \/ s = [do |-> "save", file |-> f]
    BY <2>1, <2>2, <2>3, EmitStep
  <2>5. WindowTypeOK'
    <3>1. /\ toWorker' \in Seq(Signal) /\ Len(toWorker) \in Nat
          /\ Len(toWorker') = Len(toWorker) + 1
      BY <1>t, <2>1, <2>2, QueueAppended
    <3>2. clicks' \in 0..MaxClicks /\ Len(toWorker') <= clicks' + 1
      BY <1>t, <2>2, <3>1, NavigationAssumption
    <3>3. window' \in BOOLEAN /\ ~window'
      BY <2>2
    <3>4. shown' \in Files /\ waypoints' \in Plan /\ executed' \in Plan
      BY <1>t, <2>2
    <3>. QED
      BY <3>1, <3>2, <3>3, <3>4 DEF WindowTypeOK
  <2>6. GridKept'
    BY <2>3, <2>4, GridStaysKept
  <2>7. PlannedHere'
    BY <2>1, <2>2, <2>3, <2>4, PlanStaysHere
  <2>8. SavesHere'
    BY <2>1, <2>2, <2>3, StillShows, SavesEmitted
  <2>. QED
    BY <2>3, <2>4, <2>5, <2>6, <2>7, <2>8 DEF WindowInv
<1>. QED
  BY <1>1, <1>2, <1>3, <1>4, <1>5, <1>6 DEF Operator

\* The worker's slots: what a taken signal is, and the queue that is left.
LEMMA TakeType ==
  ASSUME WindowInv, NEW d, Take(d), executed' \in Plan
  PROVE  /\ WindowTypeOK'
         /\ Head(toWorker) \in Signal /\ Head(toWorker).do = d
         /\ Head(toWorker) = toWorker[1] /\ 1 \in 1..Len(toWorker)
         /\ toWorker # <<>> /\ toWorker' = Tail(toWorker) /\ waypoints' = waypoints
<1>1. /\ toWorker # <<>> /\ toWorker' = Tail(toWorker) /\ Head(toWorker).do = d
      /\ UNCHANGED <<window, clicks, shown, waypoints>>
  BY DEF Take, windowVars
<1>2. /\ toWorker' \in Seq(Signal)
      /\ Len(toWorker) \in Nat \ {0} /\ Len(toWorker') = Len(toWorker) - 1
      /\ Head(toWorker) = toWorker[1] /\ Head(toWorker) \in Signal
  BY <1>1, QueueTaken DEF WindowInv, WindowTypeOK
<1>3. WindowTypeOK'
  BY <1>1, <1>2, NavigationAssumption DEF WindowInv, WindowTypeOK
<1>. QED
  BY <1>1, <1>2, <1>3

LEMMA SlotStep ==
  ASSUME MapInv, WindowInv, Slot
  PROVE  MapInv' /\ WindowInv'
<1>t. executed \in Plan
  BY DEF WindowInv, WindowTypeOK
<1>1. ASSUME NEW d, Take(d), d # "save", executed' \in Plan,
             MapInv' /\ GridStep /\ HereStep
      PROVE  MapInv' /\ WindowInv'
  <2>1. /\ WindowTypeOK' /\ Head(toWorker).do = d
        /\ toWorker # <<>> /\ toWorker' = Tail(toWorker) /\ waypoints' = waypoints
    BY <1>1, TakeType
  <2>2. \A f \in Files : Head(toWorker) # [do |-> "save", file |-> f]
    BY <1>1, <2>1
  <2>3. /\ LoadQueued <=> LoadQueued' \/ Head(toWorker).do = "load"
        /\ \A f \in Files : SaveQueued(f)
             <=> SaveQueued(f)' \/ Head(toWorker) = [do |-> "save", file |-> f]
        /\ QueuedHere'
    BY <1>1, <2>1, TakeStep DEF HereStep
  <2>4. GridKept'
    BY <1>1, <2>2, <2>3, GridStaysKept
  <2>5. PlannedHere'
    BY <1>1, <2>1, <2>3, PlanStaysHere
  <2>6. SavesHere'
    BY <1>1, <2>1, StillShows, SavesTaken
  <2>. QED
    BY <1>1, <2>1, <2>3, <2>4, <2>5, <2>6 DEF WindowInv
<1>2. CASE SendGoal \/ CancelGoal \/ Shutdown
  <2>1. PICK d \in {"goal", "cancel", "shutdown"} : Take(d)
    BY <1>2 DEF SendGoal, CancelGoal, Shutdown
  <2>2. executed' = executed /\ (UNCHANGED mapVars \/ M!WorkerGone)
    BY <1>2 DEF SendGoal, CancelGoal, Shutdown
  <2>. QED
    BY <1>t, <1>1, <2>1, <2>2, MapSame, WorkerGoneStep
<1>3. CASE SendWaypoints
  <2>1. /\ Take("waypoints") /\ UNCHANGED mapVars
        /\ executed' = executed \/ executed' = Head(toWorker).plan
    BY <1>3 DEF SendWaypoints
  <2>2. Head(toWorker) \in Signal /\ Head(toWorker).do = "waypoints"
    BY <2>1, QueueTaken DEF Take, WindowInv, WindowTypeOK
  <2>3. executed' \in Plan
    BY <1>t, <2>1, <2>2, SignalFacts
  <2>. QED
    BY <1>1, <2>1, <2>3, MapSame
<1>4. CASE Relocalize
  <2>1. PICK d \in {"pose", "relocalize"} : Take(d)
    BY <1>4 DEF Relocalize
  <2>2. executed' = executed /\ (M!Relocalize \/ UNCHANGED mapVars)
    BY <1>4 DEF Relocalize
  <2>. QED
    BY <1>t, <1>1, <2>1, <2>2, RelocalizeStep, MapSame
<1>5. CASE SaveMapSession
  <2>1. Take("save") /\ M!SaveSession(Head(toWorker).file) /\ executed' = executed
    BY <1>5 DEF SaveMapSession
  <2>2. /\ WindowTypeOK' /\ Head(toWorker) \in Signal /\ Head(toWorker).do = "save"
        /\ Head(toWorker) = toWorker[1] /\ 1 \in 1..Len(toWorker)
        /\ toWorker # <<>> /\ toWorker' = Tail(toWorker) /\ waypoints' = waypoints
    BY <1>t, <2>1, TakeType
  <2>3. PICK f \in Files : f = Head(toWorker).file
    BY <2>2, SignalFacts
  <2>0. M!SaveSession(f)
    BY <2>1, <2>3
  <2>4. /\ MapInv' /\ HereStep
        /\ Calm' => /\ Calm /\ files' = files
                    /\ \A g \in Files : owner'[g] = IF g = f THEN session ELSE owner[g]
    BY <2>0, SaveSessionStep
  <2>5. /\ LoadQueued <=> LoadQueued' \/ Head(toWorker).do = "load"
        /\ \A g \in Files : SaveQueued(g)
             <=> SaveQueued(g)' \/ Head(toWorker) = [do |-> "save", file |-> g]
        /\ QueuedHere'
    BY <2>2, <2>4, TakeStep DEF HereStep
  <2>6. Calm => files[f].grid = session
    BY <2>2, <2>3 DEF WindowInv, SavesHere, Shows
  <2>7. \A g \in Files : Head(toWorker) = [do |-> "save", file |-> g] => g = f
    BY <2>3
  <2>8. GridKept'
    BY <2>4, <2>5, <2>6, <2>7 DEF WindowInv, GridKept
  <2>9. PlannedHere'
    BY <2>2, <2>4, <2>5, PlanStaysHere
  <2>10. SavesHere'
    <3>1. ASSUME NEW g \in Files, Calm', Shows(g) PROVE Shows(g)'
      BY <2>4, <3>1 DEF Shows, HereStep, Calm
    <3>. QED
      BY <2>2, <2>4, <3>1, SavesTaken
  <2>. QED
    BY <2>2, <2>4, <2>5, <2>8, <2>9, <2>10 DEF WindowInv
<1>6. CASE LoadMapSession /\ UNCHANGED mapVars
  <2>1. Take("load") /\ executed' = executed
    BY <1>6 DEF LoadMapSession
  <2>. QED
    BY <1>t, <1>1, <1>6, <2>1, MapSame
<1>7. CASE LoadMapSession /\ M!LoadSession(Head(toWorker).file)
  <2>1. Take("load") /\ M!LoadSession(Head(toWorker).file) /\ executed' = executed
    BY <1>7 DEF LoadMapSession
  <2>2. /\ WindowTypeOK' /\ Head(toWorker) \in Signal /\ Head(toWorker).do = "load"
        /\ Head(toWorker) = toWorker[1] /\ 1 \in 1..Len(toWorker)
        /\ toWorker # <<>> /\ toWorker' = Tail(toWorker) /\ waypoints' = waypoints
    BY <1>t, <2>1, TakeType
  <2>3. PICK f \in Files : f = Head(toWorker).file
    BY <2>2, SignalFacts
  <2>0. M!LoadSession(f)
    BY <2>1, <2>3
  <2>4. MapInv' /\ GridStep /\ (~upset' => ~upset) /\ session' = session
    BY <2>0, LoadSessionStep
  <2>5. /\ LoadQueued <=> LoadQueued' \/ Head(toWorker).do = "load"
        /\ \A g \in Files : SaveQueued(g)
             <=> SaveQueued(g)' \/ Head(toWorker) = [do |-> "save", file |-> g]
        /\ QueuedHere'
    BY <2>2, <2>4, TakeStep
  <2>6. \A g \in Files : Head(toWorker) # [do |-> "save", file |-> g]
    BY <2>2
  <2>7. GridKept'
    BY <2>4, <2>5, <2>6, GridStaysKept
  <2>9. SavesHere'
    BY <2>2, <2>4, SavesTaken DEF GridStep
  <2>8. PlannedHere'
    <3>1. ~upset => ~SomeSettled(waypoints)
      BY <2>2, <2>5 DEF WindowInv, PlannedHere
    <3>. QED
      BY <2>2, <2>4, <3>1 DEF PlannedHere, PlanFits, SomeSettled
  <2>. QED
    BY <2>2, <2>4, <2>5, <2>7, <2>8, <2>9 DEF WindowInv
<1>. QED
  BY <1>2, <1>3, <1>4, <1>5, <1>6, <1>7 DEF Slot, LoadMapSession

\* The callbacks, the manager and the map's messages leave the queue alone.
LEMMA BackgroundStep ==
  ASSUME MapInv, WindowInv, MapInv' /\ GridStep /\ HereStep,
         UNCHANGED <<window, clicks, waypoints, toWorker, executed>>, shown' \in Files
  PROVE  MapInv' /\ WindowInv'
<1>1. WindowTypeOK'
  BY DEF WindowInv, WindowTypeOK
<1>2. (LoadQueued' <=> LoadQueued) /\ \A f \in Files : SaveQueued(f)' <=> SaveQueued(f)
  BY DEF LoadQueued, SaveQueued
<1>3. GridKept' /\ PlannedHere'
  BY <1>2, GridStaysKept, PlanStaysHere
<1>4. QueuedHere'
  <2>. SUFFICES ASSUME ~upset', NEW i \in 1..Len(toWorker), toWorker[i].do = "waypoints"
       PROVE  /\ PlanFits(toWorker[i].plan)'
              /\ SomeSettled(toWorker[i].plan)' => \A j \in 1..(i - 1) : toWorker[j].do # "load"
    BY DEF QueuedHere
  <2>1. /\ PlanFits(toWorker[i].plan)
        /\ SomeSettled(toWorker[i].plan) => \A j \in 1..(i - 1) : toWorker[j].do # "load"
    BY DEF WindowInv, QueuedHere, HereStep
  <2>2. PlanFits(toWorker[i].plan)'
    BY <2>1, PlanStillFits DEF PlanFits
  <2>. QED
    BY <2>1, <2>2 DEF SomeSettled
<1>5. SavesHere'
  BY SavesStay
<1>. QED
  BY <1>1, <1>3, <1>4, <1>5 DEF WindowInv

-----------------------------------------------------------------------------
(* The window, its worker and the manager together.                        *)

\* A step of the window's worker or of Nav2 is one of the goals' or none of
\* theirs.
LEMMA GoalsStep ==
  ASSUME [Next]_vars
  PROVE  [G!Next]_G!vars
<1>0. UNCHANGED goalVars => UNCHANGED G!vars
  BY DEF goalVars, G!vars, G!windowVars, G!explorerVars
<1>1. CASE Operator \/ OnMap
  <2>1. UNCHANGED goalVars
    BY <1>1 DEF Operator, Click, AddWaypoint, ExecuteWaypoints, LoadMapFile, SaveCurrentMap,
                Close, OnMap, Emit
  <2>. QED
    BY <1>0, <2>1
<1>2. CASE Slot
  <2>1. CASE SendGoal \/ SendWaypoints \/ CancelGoal \/ LoadMapSession \/ Relocalize \/ Shutdown
    <3>1. UNCHANGED goalVars \/ G!SendGoal \/ G!CancelGoal \/ G!CancelActiveGoal \/ G!Shutdown
      BY <2>1 DEF SendGoal, SendWaypoints, CancelGoal, LoadMapSession, Relocalize, Shutdown
    <3>. QED
      BY <1>0, <3>1 DEF G!Next
  <2>2. CASE SaveMapSession
    BY <1>0, <2>2 DEF SaveMapSession
  <2>. QED
    BY <1>2, <2>1, <2>2 DEF Slot
<1>3. CASE GoalCallback \/ Nav2
  BY <1>3 DEF GoalCallback, Nav2, G!Next
<1>4. CASE MapCallback \/ MapService \/ ManagerStep
  BY <1>0, <1>4 DEF MapCallback, MapService, ManagerStep
<1>5. CASE UNCHANGED vars
  BY <1>0, <1>5 DEF vars
<1>. QED
  BY <1>1, <1>2, <1>3, <1>4, <1>5 DEF Next

IInv == GoalsIInv /\ MapInv /\ WindowInv

LEMMA InitIInv == Init => IInv
<1>. SUFFICES ASSUME Init PROVE IInv
  OBVIOUS
<1>1. GoalsIInv
  BY GoalsInit DEF Init
<1>2. /\ backend \in {"slam", "amcl"} /\ managed \in BOOLEAN /\ (backend # "slam" => ~managed)
      /\ session = Home /\ files = [f \in Files |-> [graph |-> f, grid |-> f]]
      /\ prefix = Home /\ saving = [call |-> "none", file |-> Home] /\ poseGraph = Home
      /\ calls = {} /\ owner = [f \in Files |-> f] /\ upset = FALSE
  BY NavigationAssumption DEF Init, M!Init, M!Idle
<1>3. Home \in Files
  BY NavigationAssumption
<1>4. M!TypeOK
  BY <1>2, <1>3 DEF M!TypeOK
<1>5. \A f \in Files : files[f].graph = f /\ files[f].grid = f /\ owner[f] = f
  BY <1>2
<1>6. SavesPrefix /\ AmclCalls /\ OneChange /\ ChangesFit /\ LoadsAlone /\ ExportsSession
  BY <1>2 DEF SavesPrefix, M!Busy, AmclCalls, OneChange, ChangesFit, LoadsAlone, ExportsSession,
              Loading, Exports
<1>7. PrefixIsSession /\ PoseGraphIsSession /\ GraphKept
  BY <1>2, <1>3, <1>5 DEF PrefixIsSession, PoseGraphIsSession, GraphKept
<1>8. /\ window = TRUE /\ clicks = 0 /\ toWorker = <<>> /\ shown = Home
      /\ waypoints = <<>> /\ executed = <<>>
  BY DEF Init
<1>9. <<>> \in Plan
  <2>1. <<>> \in [1..0 -> Waypoint] /\ 0 \in 0..MaxWaypoints
    BY NavigationAssumption
  <2>. QED
    BY <2>1 DEF Plan
<1>10. WindowTypeOK
  BY <1>3, <1>8, <1>9, NavigationAssumption DEF WindowTypeOK
<1>11. GridKept /\ SavesHere /\ PlannedHere /\ QueuedHere
  BY <1>5, <1>8 DEF GridKept, SavesHere, PlannedHere, QueuedHere, PlanFits, SomeSettled
<1>. QED
  BY <1>1, <1>4, <1>6, <1>7, <1>10, <1>11 DEF IInv, MapInv, WindowInv

LEMMA NextIInv == IInv /\ [Next]_vars => IInv'
<1>. SUFFICES ASSUME IInv, [Next]_vars PROVE IInv'
  OBVIOUS
<1>i. MapInv /\ WindowInv
  BY DEF IInv
<1>s. shown \in Files /\ session \in Files
  BY <1>i DEF MapInv, WindowInv, WindowTypeOK, M!TypeOK
<1>1. GoalsIInv'
  BY GoalsStep, GoalsNext DEF IInv
<1>2. MapInv' /\ WindowInv'
  <2>1. CASE Operator
    BY <1>i, <2>1, OperatorStep
  <2>2. CASE Slot
    BY <1>i, <2>2, SlotStep
  <2>3. CASE OnMap \/ GoalCallback \/ Nav2 \/ UNCHANGED vars
    <3>1. /\ UNCHANGED mapVars /\ shown' \in Files
          /\ UNCHANGED <<window, clicks, waypoints, toWorker, executed>>
      BY <1>s, <2>3 DEF OnMap, GoalCallback, Nav2, Unrelated, windowVars, vars
    <3>. QED
      BY <1>i, <3>1, MapSame, BackgroundStep
  <2>4. CASE MapCallback \/ MapService \/ ManagerStep
    <3>1. /\ M!WorkerCallback \/ M!Service \/ M!Manager
          /\ UNCHANGED <<window, clicks, waypoints, toWorker, executed>> /\ shown' \in Files
      BY <1>s, <2>4 DEF MapCallback, MapService, ManagerStep, Unrelated, windowVars
    <3>. QED
      BY <1>i, <3>1, MapCallbackStep, BackgroundStep
  <2>. QED
    BY <2>1, <2>2, <2>3, <2>4 DEF Next
<1>. QED
  BY <1>1, <1>2 DEF IInv

LEMMA Invariance == Spec => []IInv
BY InitIInv, NextIInv, PTL DEF Spec

\* The window and its worker do to the goals what NavGoals says, so that what is
\* proved of the goals holds beside the maps.
THEOREM NavigationImplementsGoals == Spec => G!Spec
<1>1. Init => G!Init
  BY DEF Init
<1>2. [Next]_vars => [G!Next]_G!vars
  BY GoalsStep
<1>. QED
  BY <1>1, <1>2, PTL DEF Spec, G!Spec

\* save_map_session, load_map_session and PersistentMapManager: as long as
\* changes of map are neither refused nor mixed with saves, every file holds the
\* session it is meant to hold, whatever the autosave does.
THEOREM NavigationKeepsFiles == Spec => []NavigationInvariant
<1>1. IInv => NavigationInvariant
  <2>. SUFFICES ASSUME IInv PROVE NavigationInvariant
    OBVIOUS
  <2>m. M!TypeOK
    BY DEF IInv, MapInv
  <2>w. WindowTypeOK
    BY DEF IInv, WindowInv
  <2>1. TypeOK
    <3>1. Len(toWorker) <= MaxClicks + 1
      BY <2>w, NavigationAssumption, LenProperties DEF WindowTypeOK
    <3>. QED
      BY <2>m, <2>w, <3>1, SameTypes DEF TypeOK, WindowTypeOK, IInv, GoalsIInv
  <2>2. ASSUME ~upset, backend = "slam", NEW f \in Files, Written(f)
        PROVE  files[f] = [graph |-> owner[f], grid |-> owner[f]]
    <3>1. ~Exports(f)
      BY <2>2, <2>m, CallFacts DEF Written
    <3>2. ~SaveQueued(f)
      BY <2>2, <2>w, LenProperties DEF Written, SaveQueued, WindowTypeOK
    <3>3. files[f].graph = owner[f]
      BY <2>2, <3>1 DEF IInv, MapInv, GraphKept, Calm, Exports
    <3>4. files[f].grid = owner[f]
      BY <2>2, <3>2 DEF IInv, WindowInv, GridKept, Calm
    <3>5. files[f] \in [graph : Files, grid : Files]
      BY <2>m DEF M!TypeOK
    <3>. QED
      BY <3>3, <3>4, <3>5
  <2>. QED
    BY <2>1, <2>2 DEF NavigationInvariant, FilesKeptWhenCalm, FilesKept
<1>. QED
  BY <1>1, Invariance, PTL

\* _execute_waypoints, load_map_session: way points that were chosen on the map
\* of the back end, with no other on its way, are executed on that map, however
\* many signals and answers come in between.
THEOREM NavigationPlanFitsMap == Spec => PlanFitsMap
<1>1. IInv /\ [Next]_vars =>
        [SendWaypoints /\ handle = 0 /\ ~upset =>
           \A i \in DOMAIN executed' : executed'[i].settled => executed'[i].on = session]_vars
  <2>. SUFFICES ASSUME IInv, SendWaypoints, handle = 0, ~upset
       PROVE  \A i \in DOMAIN executed' : executed'[i].settled => executed'[i].on = session
    OBVIOUS
  <2>1. executed' = Head(toWorker).plan /\ Take("waypoints")
    BY DEF SendWaypoints
  <2>2. /\ Head(toWorker) = toWorker[1] /\ Head(toWorker) \in Signal
        /\ Head(toWorker).do = "waypoints" /\ 1 \in 1..Len(toWorker)
    BY <2>1, QueueTaken DEF Take, IInv, WindowInv, WindowTypeOK
  <2>3. Head(toWorker).plan \in Plan
    BY <2>2, SignalFacts
  <2>4. PlanFits(Head(toWorker).plan)
    BY <2>2 DEF IInv, WindowInv, QueuedHere
  <2>. QED
    BY <2>1, <2>3, <2>4, PlanFacts DEF PlanFits
<1>. QED
  BY <1>1, Invariance, PTL DEF Spec, PlanFitsMap
=============================================================================
