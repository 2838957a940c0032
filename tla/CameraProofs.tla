---------------------------- MODULE CameraProofs ----------------------------
(***************************************************************************)
(* Proofs about the cameras, for any number of clicks, processes, repeated *)
(* requests and faults.                                                    *)
(*                                                                         *)
(* First the moving of the PTZ camera.  Whoever takes the timer away is    *)
(* marked as someone who will stop the camera, and who has moved the       *)
(* camera as someone who will arm the timer.  No step takes such a mark    *)
(* away, because a request of the web server starts each attempt with a    *)
(* fresh one.                                                              *)
(*                                                                         *)
(* Then the two USB cameras, whose state is other than the PTZ camera's: a *)
(* step of their panel disturbs no stop that waits at the NUC, and a       *)
(* command at the NUC no process but its own.                              *)
(***************************************************************************)
EXTENDS CameraControl, RecordingState, SequenceTheorems, FiniteSetTheorems, TLAPS

\* An attempt the web server has not made has not come to the agent either.
Untried ==
  \A r \in DOMAIN requests, n \in Try :
    n > requests[r].tries => requests[r].at[n] = "none"

\* A move that is waited for without its button was overtaken by a stop.
LateIsStale == pending # 0 /\ ~held => stale

Waits == IF pending # 0 THEN 1 ELSE 0
Holds == IF held THEN 1 ELSE 0
Opens == IF closed THEN 0 ELSE 1
\* Every answer brings at most one stop, every press at most two requests more.
Posts ==
  /\ Cardinality(Moves) <= MaxMoves
  /\ Len(requests) + Waits + Holds + Opens
       <= 2 * Cardinality(Moves) + 2 * holds + 1

IInv ==
  /\ TypeOK
  /\ Posts
  /\ Untried
  /\ LateIsStale
  /\ MovesAreGuarded
  /\ StopFollowsMoves

-----------------------------------------------------------------------------
(* The requests.                                                           *)

LEMMA Bounds == MaxHolds \in Nat /\ MaxMoves \in Nat /\ MaxRetries \in Nat /\ MaxFaults \in Nat
BY CameraAssumption

LEMMA RequestFacts ==
  ASSUME TypeOK
  PROVE  /\ Len(requests) \in Nat /\ DOMAIN requests = 1..Len(requests)
         /\ \A r \in DOMAIN requests : requests[r] \in Request
         /\ IsFiniteSet(Moves) /\ Cardinality(Moves) \in Nat /\ Len(requests) + 1 \notin Moves
<1>1. requests \in Seq(Request)
  BY DEF TypeOK
<1>2. /\ Len(requests) \in Nat /\ DOMAIN requests = 1..Len(requests)
      /\ \A r \in DOMAIN requests : requests[r] \in Request
  BY <1>1, LenProperties, ElementOfSeq
<1>3. Moves \subseteq 1..Len(requests)
  BY <1>2 DEF Moves
<1>4. IsFiniteSet(1..Len(requests))
  BY <1>2, FS_Interval
<1>5. IsFiniteSet(Moves) /\ Cardinality(Moves) \in Nat
  BY <1>3, <1>4, FS_Subset, FS_CardinalityType
<1>. QED
  BY <1>2, <1>3, <1>5

\* The panel posts a request.
LEMMA PostFacts ==
  ASSUME TypeOK, NEW k \in {"move", "stop"}, requests' = Append(requests, Posted(k))
  PROVE  /\ requests' \in Seq(Request) /\ Len(requests') = Len(requests) + 1
         /\ DOMAIN requests' = DOMAIN requests \cup {Len(requests) + 1}
         /\ \A r \in DOMAIN requests : requests'[r] = requests[r]
         /\ requests'[Len(requests) + 1] = Posted(k)
         /\ Cardinality(Moves') = Cardinality(Moves) + (IF k = "move" THEN 1 ELSE 0)
<1>1. /\ requests \in Seq(Request) /\ Len(requests) \in Nat
      /\ DOMAIN requests = 1..Len(requests)
  BY RequestFacts DEF TypeOK
<1>2. Posted(k) \in Request /\ Posted(k).kind = k
  BY DEF Posted, Request, Stage
<1>3. /\ requests' \in Seq(Request) /\ Len(requests') = Len(requests) + 1
      /\ \A r \in 1..Len(requests) : requests'[r] = requests[r]
      /\ requests'[Len(requests) + 1] = Posted(k)
  BY <1>1, <1>2, AppendProperties
<1>4. DOMAIN requests' = 1..(Len(requests) + 1)
  BY <1>3, LenProperties
<1>5. 1..(Len(requests) + 1) = DOMAIN requests \cup {Len(requests) + 1}
  BY <1>1
<1>6. Moves' = IF k = "move" THEN Moves \cup {Len(requests) + 1} ELSE Moves
  BY <1>1, <1>2, <1>3, <1>4, <1>5 DEF Moves
<1>7. Cardinality(Moves \cup {Len(requests) + 1}) = Cardinality(Moves) + 1
  BY RequestFacts, FS_AddElement
<1>8. Cardinality(Moves') = Cardinality(Moves) + (IF k = "move" THEN 1 ELSE 0)
  BY <1>6, <1>7, RequestFacts
<1>. QED
  BY <1>1, <1>3, <1>4, <1>5, <1>8

\* A request is at another place of the agent.
LEMMA ReachFacts ==
  ASSUME TypeOK, NEW r \in DOMAIN requests, NEW n \in Try, NEW st \in Stage, NEW t \in 0..2,
         \/ requests' = [requests EXCEPT ![r].at[n] = st] /\ t = requests[r].tries
         \/ requests' = [requests EXCEPT ![r].tries = t, ![r].at[n] = st]
  PROVE  /\ requests' \in Seq(Request) /\ Len(requests') = Len(requests)
         /\ DOMAIN requests' = DOMAIN requests /\ Moves' = Moves
         /\ \A q \in DOMAIN requests : /\ requests'[q].kind = requests[q].kind
                                       /\ q # r => requests'[q] = requests[q]
         /\ requests'[r].tries = t /\ requests'[r].at[n] = st
         /\ \A m \in Try : m # n => requests'[r].at[m] = requests[r].at[m]
<1>1. /\ requests \in Seq(Request) /\ Len(requests) \in Nat /\ DOMAIN requests = 1..Len(requests)
      /\ requests \in [1..Len(requests) -> Request]
  BY RequestFacts, LenProperties DEF TypeOK
<1>2. requests[r] \in Request
  BY RequestFacts
<1>. DEFINE new == [requests[r] EXCEPT !.tries = t, !.at[n] = st]
<1>3. /\ new \in Request /\ new.kind = requests[r].kind /\ new.tries = t /\ new.at[n] = st
      /\ \A m \in Try : m # n => new.at[m] = requests[r].at[m]
  BY <1>2 DEF Request
<1>4. requests' = [requests EXCEPT ![r] = new]
  BY <1>1, <1>2 DEF Request
<1>. HIDE DEF new
<1>5. requests' \in [1..Len(requests) -> Request]
  BY <1>1, <1>3, <1>4
<1>6. requests' \in Seq(Request) /\ Len(requests') = Len(requests)
  BY <1>1, <1>5, SeqDef, LenProperties
<1>7. DOMAIN requests' = DOMAIN requests
  BY <1>1, <1>5
<1>8. \A q \in DOMAIN requests : requests'[q] = IF q = r THEN new ELSE requests[q]
  BY <1>1, <1>4
<1>9. \A q \in DOMAIN requests : requests'[q].kind = requests[q].kind
  BY <1>3, <1>8
<1>10. Moves' = Moves
  BY <1>7, <1>9 DEF Moves
<1>. QED
  BY <1>3, <1>6, <1>7, <1>8, <1>9, <1>10

-----------------------------------------------------------------------------
(* The panel.                                                              *)

LEMMA PostBound ==
  ASSUME TypeOK, Posts', requests' \in Seq(Request), holds' \in 0..MaxHolds
  PROVE  Len(requests') \in Nat /\ Len(requests') <= MaxRequests
<1>. DEFINE c == Cardinality(Moves')
<1>1. c \in Nat /\ Len(requests') \in Nat
  <2>1. Len(requests') \in Nat /\ DOMAIN requests' = 1..Len(requests')
    BY LenProperties
  <2>2. Moves' \subseteq 1..Len(requests') /\ IsFiniteSet(1..Len(requests'))
    BY <2>1, FS_Interval DEF Moves
  <2>. QED
    BY <2>1, <2>2, FS_Subset, FS_CardinalityType
<1>2. Waits' \in {0, 1} /\ Holds' \in {0, 1} /\ Opens' \in {0, 1}
  BY DEF Waits, Holds, Opens
<1>3. /\ Waits' \in {0, 1} /\ Holds' \in {0, 1} /\ Opens' \in {0, 1}
      /\ c <= MaxMoves
      /\ Len(requests') + Waits' + Holds' + Opens' <= 2 * c + 2 * holds' + 1
  BY <1>2 DEF Posts
<1>. DEFINE n == Len(requests')
            g == holds'
<1>4. n \in Nat /\ g \in Nat /\ c \in Nat /\ g <= MaxHolds /\ c <= MaxMoves
  BY <1>1, <1>3, Bounds
<1>5. n <= 2 * c + 2 * g + 1
  <2>. DEFINE w == Waits'
              h == Holds'
              o == Opens'
  <2>1. w \in {0, 1} /\ h \in {0, 1} /\ o \in {0, 1}
    BY <1>2
  <2>2. n + w + h + o <= 2 * c + 2 * g + 1
    BY <1>3
  <2>. HIDE DEF w, h, o, n, g, c
  <2>. QED
    BY <1>4, <2>1, <2>2
<1>. HIDE DEF n, g, c
<1>6. n <= 2 * MaxMoves + 2 * MaxHolds + 1
  BY <1>4, <1>5, Bounds
<1>. QED
  BY <1>4, <1>6 DEF MaxRequests, n

LEMMA PanelPosts ==
  ASSUME Panel
  PROVE  /\ Unseen
         /\ requests' = requests \/ \E k \in {"move", "stop"} : requests' = Append(requests, Posted(k))
<1>1. Unseen
  BY DEF Panel, StartMove, RepeatMove, StopMove, Shutdown, MoveAnswered
<1>2. \/ requests' = requests
      \/ requests' = Append(requests, Posted("move")) \/ requests' = Append(requests, Posted("stop"))
  BY DEF Panel, StartMove, RepeatMove, StopMove, Shutdown, MoveAnswered
<1>. QED
  BY <1>1, <1>2

LEMMA PanelGuards ==
  ASSUME TypeOK, Untried, MovesAreGuarded, Panel
  PROVE  /\ Untried' /\ MovesAreGuarded'
         /\ requests' \in Seq(Request) /\ DOMAIN requests \subseteq DOMAIN requests'
<1>1. UNCHANGED <<timer, stopping, camera, stopFailed, moveFailed>>
  BY PanelPosts DEF Unseen, agentVars, historyVars
<1>2. CASE requests' = requests
  BY <1>1, <1>2 DEF TypeOK, Untried, MovesAreGuarded
<1>3. ASSUME NEW k \in {"move", "stop"}, requests' = Append(requests, Posted(k))
      PROVE  /\ Untried' /\ MovesAreGuarded'
             /\ requests' \in Seq(Request) /\ DOMAIN requests \subseteq DOMAIN requests'
  <2>1. /\ requests' \in Seq(Request)
        /\ DOMAIN requests' = DOMAIN requests \cup {Len(requests) + 1}
        /\ \A r \in DOMAIN requests : requests'[r] = requests[r]
        /\ requests'[Len(requests) + 1] = Posted(k)
    BY <1>3, PostFacts
  <2>2. \A n \in Try : Posted(k).at[n] = "none"
    BY DEF Posted
  <2>3. Untried'
    BY <2>1, <2>2 DEF Untried
  <2>4. MovesAreGuarded'
    BY <1>1, <2>1 DEF MovesAreGuarded
  <2>. QED
    BY <2>1, <2>3, <2>4
<1>. QED
  BY <1>2, <1>3, PanelPosts

LEMMA PanelCounts ==
  ASSUME TypeOK, Posts, Panel
  PROVE  /\ Posts' /\ held' \in BOOLEAN /\ stale' \in BOOLEAN /\ closed' \in BOOLEAN
         /\ holds' \in 0..MaxHolds
         /\ pending' = 0 \/ pending' = pending \/ pending' = Len(requests')
<1>. DEFINE c == Cardinality(Moves)
            l == Len(requests)
            p == Waits
            h == Holds
            o == Opens
            Flags == held' \in BOOLEAN /\ stale' \in BOOLEAN /\ closed' \in BOOLEAN
            Counts == /\ Posts' /\ holds' \in 0..MaxHolds
                      /\ pending' = 0 \/ pending' = pending \/ pending' = Len(requests')
<1>t. /\ c \in Nat /\ l \in Nat /\ holds \in Nat /\ c <= MaxMoves
      /\ p \in {0, 1} /\ h \in {0, 1} /\ o \in {0, 1}
      /\ l + p + h + o <= 2 * c + 2 * holds + 1
  <2>1. c \in Nat /\ l \in Nat
    BY RequestFacts
  <2>2. holds \in Nat
    BY DEF TypeOK
  <2>3. p \in {0, 1} /\ h \in {0, 1} /\ o \in {0, 1}
    BY DEF Waits, Holds, Opens
  <2>4. c <= MaxMoves /\ l + p + h + o <= 2 * c + 2 * holds + 1
    BY DEF Posts
  <2>. QED
    BY <2>1, <2>2, <2>3, <2>4
<1>b. held \in BOOLEAN /\ closed \in BOOLEAN /\ stale \in BOOLEAN /\ holds \in 0..MaxHolds
  BY DEF TypeOK
<1>s. ASSUME NEW k \in {"move", "stop"}, requests' = Append(requests, Posted(k))
      PROVE  /\ Len(requests') = l + 1 /\ l + 1 # 0
             /\ Cardinality(Moves') = c + (IF k = "move" THEN 1 ELSE 0)
  BY <1>s, <1>t, PostFacts
<1>u. ASSUME requests' = requests
      PROVE  Len(requests') = l /\ Cardinality(Moves') = c
  BY <1>u DEF Moves
<1>p. ASSUME NEW l2 \in {l, l + 1}, NEW c2 \in {c, c + 1}, NEW g2 \in {holds, holds + 1},
             NEW p2 \in {0, 1}, NEW h2 \in {0, 1}, NEW o2 \in {0, 1},
             Len(requests') = l2, Cardinality(Moves') = c2, holds' = g2,
             Waits' = p2, Holds' = h2, Opens' = o2,
             c2 <= MaxMoves, l2 + p2 + h2 + o2 <= 2 * c2 + 2 * g2 + 1
      PROVE  Posts'
  BY <1>p DEF Posts
<1>1. CASE StartMove
  <2>1. /\ held = FALSE /\ held' = TRUE /\ closed = FALSE /\ closed' = FALSE
        /\ holds' = holds + 1 /\ holds' \in 0..MaxHolds
    BY <1>1, <1>t, <1>b, Bounds DEF StartMove
  <2>2. h = 0 /\ Holds' = 1 /\ o = 1 /\ Opens' = 1
    BY <2>1 DEF Waits, Holds, Opens
  <2>3. CASE pending # 0
    <3>1. requests' = requests /\ pending' = pending /\ stale' = TRUE
      BY <1>1, <2>3 DEF StartMove
    <3>2. p = 1 /\ Waits' = 1
      BY <2>3, <3>1 DEF Waits, Holds, Opens
    <3>3. Len(requests') = l /\ Cardinality(Moves') = c
      BY <1>u, <3>1
    <3>. HIDE DEF c, l, p, h, o
    <3>4. l + 1 + 1 + 1 <= 2 * c + 2 * (holds + 1) + 1
      BY <1>t, <2>2, <3>2
    <3>5. Posts'
      BY <1>p, <1>t, <2>1, <2>2, <3>2, <3>3, <3>4
    <3>. QED
      BY <2>1, <3>1, <3>5
  <2>4. CASE pending = 0
    <3>1. requests' = Append(requests, Posted("move")) /\ c < MaxMoves /\ stale' = FALSE
          /\ pending' = Len(requests')
      BY <1>1, <2>4 DEF StartMove
    <3>2. Len(requests') = l + 1 /\ Cardinality(Moves') = c + 1 /\ l + 1 # 0
      BY <1>s, <3>1
    <3>3. p = 0 /\ Waits' = 1
      BY <2>4, <3>1, <3>2 DEF Waits, Holds, Opens
    <3>. HIDE DEF c, l, p, h, o
    <3>4. l + 1 + 1 + 1 + 1 <= 2 * (c + 1) + 2 * (holds + 1) + 1 /\ c + 1 <= MaxMoves
      BY <1>t, <2>2, <3>1, <3>3, Bounds
    <3>5. Posts'
      BY <1>p, <1>t, <2>1, <2>2, <3>2, <3>3, <3>4
    <3>. QED
      BY <2>1, <3>1, <3>5
  <2>. QED
    BY <2>3, <2>4
<1>2. CASE RepeatMove
  <2>1. /\ held = TRUE /\ held' = TRUE /\ closed = FALSE /\ closed' = FALSE /\ holds' = holds
        /\ requests' = Append(requests, Posted("move")) /\ c < MaxMoves /\ stale' = FALSE
        /\ pending = 0 /\ pending' = Len(requests')
    BY <1>2, <1>b DEF RepeatMove
  <2>2. Len(requests') = l + 1 /\ Cardinality(Moves') = c + 1 /\ l + 1 # 0
    BY <1>s, <2>1
  <2>3. /\ h = 1 /\ Holds' = 1 /\ o = 1 /\ Opens' = 1 /\ p = 0 /\ Waits' = 1
    BY <2>1, <2>2 DEF Waits, Holds, Opens
  <2>. HIDE DEF c, l, p, h, o
  <2>4. l + 1 + 1 + 1 + 1 <= 2 * (c + 1) + 2 * holds + 1 /\ c + 1 <= MaxMoves
    BY <1>t, <2>1, <2>3, Bounds
  <2>5. Posts'
    BY <1>p, <1>t, <2>1, <2>2, <2>3, <2>4
  <2>. QED
    BY <1>b, <2>1, <2>5
<1>3. CASE StopMove
  <2>1. /\ held' = FALSE /\ closed = FALSE /\ closed' = FALSE /\ pending' = pending
        /\ stale' = (pending # 0)
        /\ requests' = Append(requests, Posted("stop"))
    BY <1>3, <1>b DEF StopMove
  <2>2. Len(requests') = l + 1 /\ Cardinality(Moves') = c
    BY <1>s, <1>t, <2>1
  <2>3. Holds' = 0 /\ o = 1 /\ Opens' = 1 /\ Waits' = p
    BY <2>1 DEF Waits, Holds, Opens
  <2>4. /\ (holds' = holds /\ h = 1) \/ holds' = holds + 1
        /\ holds' \in 0..MaxHolds
    <3>1. CASE held = TRUE
      BY <1>3, <1>b, <3>1 DEF StopMove, Waits, Holds, Opens
    <3>2. CASE held = FALSE
      BY <1>3, <1>t, <3>2, Bounds DEF StopMove
    <3>. QED
      BY <1>b, <3>1, <3>2
  <2>. HIDE DEF c, l, p, h, o
  <2>5. l + 1 + p + 0 + 1 <= 2 * c + 2 * holds' + 1
    <3>1. CASE holds' = holds /\ h = 1
      BY <1>t, <2>3, <3>1
    <3>2. CASE holds' = holds + 1
      BY <1>t, <2>3, <3>2
    <3>. QED
      BY <2>4, <3>1, <3>2
  <2>6. Posts'
    BY <1>p, <1>t, <2>2, <2>3, <2>4, <2>5
  <2>. QED
    BY <2>1, <2>4, <2>6
<1>4. CASE Shutdown
  <2>1. closed = FALSE /\ closed' = TRUE /\ holds' = holds /\ pending' = pending
    BY <1>4, <1>b DEF Shutdown
  <2>2. o = 1 /\ Opens' = 0 /\ Waits' = p
    BY <2>1 DEF Waits, Holds, Opens
  <2>3. CASE held \/ pending # 0
    <3>1. /\ held' = FALSE /\ stale' = (pending # 0) /\ requests' = Append(requests, Posted("stop"))
      BY <1>4, <2>3 DEF Shutdown
    <3>2. Len(requests') = l + 1 /\ Cardinality(Moves') = c /\ Holds' = 0
      BY <1>s, <1>t, <3>1 DEF Waits, Holds, Opens
    <3>. HIDE DEF c, l, p, h, o
    <3>3. l + 1 + p + 0 + 0 <= 2 * c + 2 * holds + 1
      BY <1>t, <2>2
    <3>4. Posts'
      BY <1>p, <1>t, <2>1, <2>2, <3>2, <3>3
    <3>. QED
      BY <1>b, <2>1, <3>1, <3>4
  <2>4. CASE ~(held \/ pending # 0)
    <3>1. UNCHANGED <<held, stale, requests>>
      BY <1>4, <2>4 DEF Shutdown
    <3>2. Len(requests') = l /\ Cardinality(Moves') = c /\ Holds' = h
      BY <1>u, <3>1 DEF Holds
    <3>. HIDE DEF c, l, p, h, o
    <3>3. l + p + h + 0 <= 2 * c + 2 * holds + 1
      BY <1>t, <2>2
    <3>4. Posts'
      BY <1>p, <1>t, <2>1, <2>2, <3>2, <3>3
    <3>. QED
      BY <1>b, <2>1, <3>1, <3>4
  <2>. QED
    BY <2>3, <2>4
<1>5. ASSUME NEW ok \in BOOLEAN, MoveAnswered(ok)
      PROVE  Counts /\ Flags
  <2>1. /\ pending # 0 /\ pending' = 0 /\ stale' = FALSE /\ closed' = closed /\ holds' = holds
        /\ held' = (held /\ (stale \/ ok))
        /\ requests' = Append(requests, Posted("stop")) \/ requests' = requests
    BY <1>5 DEF MoveAnswered
  <2>2. Cardinality(Moves') = c /\ (Len(requests') = l + 1 \/ Len(requests') = l)
    BY <1>s, <1>u, <1>t, <2>1
  <2>3. held' \in BOOLEAN /\ (held' = held \/ held' = FALSE)
    BY <1>b, <2>1
  <2>4. Holds' = h \/ Holds' = 0
    BY <2>3 DEF Waits, Holds, Opens
  <2>5. p = 1 /\ Waits' = 0 /\ Opens' = o
    BY <2>1 DEF Waits, Holds, Opens
  <2>. HIDE DEF c, l, p, h, o
  <2>6. Len(requests') + 0 + Holds' + o <= 2 * c + 2 * holds + 1
    BY <1>t, <2>2, <2>4, <2>5
  <2>7. Posts'
    BY <1>p, <1>t, <2>1, <2>2, <2>4, <2>5, <2>6
  <2>. QED
    BY <1>b, <2>1, <2>3, <2>7
<1>. QED
  BY <1>1, <1>2, <1>3, <1>4, <1>5 DEF Panel

LEMMA PanelType ==
  ASSUME TypeOK, Posts, Untried, MovesAreGuarded, Panel
  PROVE  TypeOK' /\ Posts'
<1>1. /\ Posts' /\ held' \in BOOLEAN /\ stale' \in BOOLEAN /\ closed' \in BOOLEAN
      /\ holds' \in 0..MaxHolds
      /\ pending' = 0 \/ pending' = pending \/ pending' = Len(requests')
  BY PanelCounts
<1>2. requests' \in Seq(Request)
  BY PanelGuards
<1>3. Len(requests') \in Nat /\ Len(requests') <= MaxRequests
  BY <1>1, <1>2, PostBound
<1>4. Len(requests') = Len(requests) \/ Len(requests') = Len(requests) + 1
  BY PanelPosts, PostFacts
<1>5. Len(requests) \in Nat /\ pending \in 0..Len(requests) /\ answered \in 0..Len(requests)
  BY RequestFacts DEF TypeOK
<1>6. answered' = answered \/ answered' = Len(requests)
  BY DEF Panel, StartMove, RepeatMove, StopMove, Shutdown, MoveAnswered
<1>7. pending' \in 0..Len(requests') /\ answered' \in 0..Len(requests')
  BY <1>1, <1>3, <1>4, <1>5, <1>6
<1>8. UNCHANGED <<timer, stopping, camera, faults, stopFailed, moveFailed>>
  BY PanelPosts DEF Unseen, agentVars, historyVars
<1>. QED
  BY <1>1, <1>2, <1>3, <1>7, <1>8 DEF TypeOK

\* A stop is posted after everything that was answered.
LEMMA NewStop ==
  ASSUME TypeOK, requests' = Append(requests, Posted("stop")),
         answered' = answered \/ answered' = Len(requests)
  PROVE  StopFollowsMoves'
<1>1. Len(requests) \in Nat /\ answered \in 0..Len(requests)
  BY RequestFacts DEF TypeOK
<1>2. Len(requests) + 1 > answered'
  BY <1>1
<1>3. /\ Len(requests) + 1 \in DOMAIN requests'
      /\ requests'[Len(requests) + 1] = Posted("stop")
  BY PostFacts
<1>4. requests'[Len(requests) + 1].kind = "stop"
  BY <1>3 DEF Posted
<1>. QED
  BY <1>2, <1>3, <1>4 DEF StopFollowsMoves

LEMMA PanelStops ==
  ASSUME TypeOK, LateIsStale, StopFollowsMoves, Panel
  PROVE  LateIsStale' /\ StopFollowsMoves'
<1>t. held \in BOOLEAN /\ stale \in BOOLEAN /\ closed \in BOOLEAN /\ Len(requests) \in Nat
  BY RequestFacts DEF TypeOK
<1>1. CASE StartMove \/ RepeatMove
  <2>1. held' = TRUE
    BY <1>1, <1>t DEF StartMove, RepeatMove
  <2>. QED
    BY <2>1 DEF LateIsStale, StopFollowsMoves
<1>2. CASE StopMove
  BY <1>2, NewStop DEF StopMove, LateIsStale
<1>3. CASE Shutdown
  <2>1. CASE held \/ pending # 0
    BY <1>3, <2>1, NewStop DEF Shutdown, LateIsStale
  <2>2. CASE ~(held \/ pending # 0)
    <3>1. UNCHANGED <<held, stale, requests, pending, answered>> /\ pending = 0
      BY <1>3, <2>2 DEF Shutdown
    <3>. QED
      BY <3>1 DEF LateIsStale, StopFollowsMoves, Moves
  <2>. QED
    BY <2>1, <2>2
<1>4. ASSUME NEW ok \in BOOLEAN, MoveAnswered(ok)
      PROVE  LateIsStale' /\ StopFollowsMoves'
  <2>1. /\ pending # 0 /\ pending' = 0 /\ held' = (held /\ (stale \/ ok))
        /\ answered' = Len(requests)
        /\ requests' = IF stale \/ closed \/ ~ok THEN Append(requests, Posted("stop"))
                       ELSE requests
    BY <1>4 DEF MoveAnswered
  <2>2. LateIsStale'
    BY <2>1 DEF LateIsStale
  <2>3. CASE stale \/ closed \/ ~ok
    BY <2>1, <2>2, <2>3, NewStop
  <2>4. CASE ~(stale \/ closed \/ ~ok)
    <3>1. held
      BY <2>1, <2>4 DEF LateIsStale
    <3>2. held'
      BY <2>1, <2>4, <3>1
    <3>. QED
      BY <2>2, <3>2 DEF StopFollowsMoves
  <2>. QED
    BY <2>3, <2>4
<1>. QED
  BY <1>1, <1>2, <1>3, <1>4 DEF Panel

-----------------------------------------------------------------------------
(* The web server and the agent.                                           *)

\* A request that is somewhere else leaves the panel alone.
LEMMA AgentFrame ==
  ASSUME TypeOK, Posts, LateIsStale, StopFollowsMoves, UNCHANGED panelVars,
         requests' \in Seq(Request), Len(requests') = Len(requests),
         DOMAIN requests' = DOMAIN requests, Moves' = Moves,
         \A q \in DOMAIN requests : requests'[q].kind = requests[q].kind,
         faults' \in 0..MaxFaults, stopFailed' \in BOOLEAN,
         moveFailed' \in {"no", "seen", "unseen"}, camera' \in {"still", "moving"},
         timer' \in {"none", "armed", "fired"}, stopping' \in Nat
  PROVE  TypeOK' /\ Posts' /\ LateIsStale' /\ StopFollowsMoves'
<1>1. UNCHANGED <<held, holds, pending, stale, closed, answered>>
  BY DEF panelVars
<1>2. TypeOK'
  BY <1>1 DEF TypeOK
<1>3. UNCHANGED <<Waits, Holds, Opens>>
  BY <1>1 DEF Waits, Holds, Opens
<1>4. Posts'
  BY <1>1, <1>3 DEF Posts
<1>5. LateIsStale' /\ StopFollowsMoves'
  BY <1>1 DEF LateIsStale, StopFollowsMoves
<1>. QED
  BY <1>2, <1>4, <1>5

Rest == TypeOK /\ Posts /\ LateIsStale /\ StopFollowsMoves

LEMMA FaultType == ASSUME TypeOK, Fault PROVE faults' \in 0..MaxFaults
BY Bounds DEF TypeOK, Fault

LEMMA AttemptStep ==
  ASSUME Rest, Untried, MovesAreGuarded, NEW r \in DOMAIN requests, Attempt(r)
  PROVE  Rest' /\ Untried' /\ MovesAreGuarded'
<1>. DEFINE n == requests[r].tries + 1
<1>t. TypeOK /\ requests[r] \in Request
  BY RequestFacts DEF Rest
<1>1. n \in Try /\ n \in 0..2 /\ requests[r].tries < 2 /\ requests[r].tries \in 0..2
  BY <1>t DEF Attempt, Try, Request
<1>2. PICK st \in {"came", "lost"} :
        requests' = [requests EXCEPT ![r].tries = n, ![r].at[n] = st]
  BY DEF Attempt
<1>3. requests[r].at[n] = "none"
  BY <1>1 DEF Untried
<1>4. /\ UNCHANGED <<panelVars, timer, stopping, camera, moveFailed>>
      /\ stopFailed' \in BOOLEAN /\ (stopFailed => stopFailed')
      /\ faults' = faults \/ Fault
  <2>1. UNCHANGED <<panelVars, timer, stopping, camera>>
    BY DEF Attempt, agentVars
  <2>2. \/ UNCHANGED <<faults, historyVars>>
        \/ /\ Fault /\ UNCHANGED moveFailed
           /\ stopFailed' = (stopFailed \/ (requests[r].kind = "stop" /\ n = 2))
    BY DEF Attempt
  <2>3. stopFailed \in BOOLEAN
    BY <1>t DEF TypeOK
  <2>. HIDE DEF n
  <2>4. UNCHANGED moveFailed /\ (faults' = faults \/ Fault)
    BY <2>2 DEF historyVars
  <2>5. stopFailed' \in BOOLEAN /\ (stopFailed => stopFailed')
    <3>1. CASE UNCHANGED <<faults, historyVars>>
      BY <2>3, <3>1 DEF historyVars
    <3>2. CASE stopFailed' = (stopFailed \/ (requests[r].kind = "stop" /\ n = 2))
      BY <2>3, <3>2
    <3>. QED
      BY <2>2, <3>1, <3>2
  <2>. QED
    BY <2>1, <2>4, <2>5
<1>5. faults' \in 0..MaxFaults
  BY <1>t, <1>4, FaultType DEF TypeOK
<1>. HIDE DEF n
<1>6. st \in Stage
  BY DEF Stage
<1>7. /\ requests' \in Seq(Request) /\ Len(requests') = Len(requests)
      /\ DOMAIN requests' = DOMAIN requests /\ Moves' = Moves
      /\ \A q \in DOMAIN requests : /\ requests'[q].kind = requests[q].kind
                                    /\ q # r => requests'[q] = requests[q]
      /\ requests'[r].tries = n /\ requests'[r].at[n] = st
      /\ \A m \in Try : m # n => requests'[r].at[m] = requests[r].at[m]
  BY <1>t, <1>1, <1>2, <1>6, ReachFacts
<1>8. Rest'
  <2>1. /\ moveFailed' \in {"no", "seen", "unseen"} /\ camera' \in {"still", "moving"}
        /\ timer' \in {"none", "armed", "fired"} /\ stopping' \in Nat
    BY <1>t, <1>4 DEF TypeOK
  <2>. QED
    BY <1>4, <1>5, <1>7, <2>1, AgentFrame DEF Rest
<1>9. Untried'
  <2>1. \A m \in Try : m > n => m # n /\ m > requests[r].tries
    BY <1>1 DEF n, Try
  <2>. QED
    BY <1>7, <2>1 DEF Untried
<1>10. MovesAreGuarded'
  <2>1. \A q \in DOMAIN requests, m \in Try :
          requests[q].at[m] \in {"moved", "locked"} => requests'[q].at[m] = requests[q].at[m]
    BY <1>3, <1>7
  <2>. QED
    BY <1>4, <1>7, <2>1 DEF MovesAreGuarded
<1>. QED
  BY <1>8, <1>9, <1>10

\* A step of the agent with a request: the mark it takes away is the one of
\* this step alone.
LEMMA AgentAsks ==
  ASSUME Rest, Untried, NEW r \in DOMAIN requests, NEW n \in Try, NEW st \in Stage,
         Reach(r, n, st), requests[r].at[n] # "none",
         UNCHANGED panelVars,
         faults' = faults \/ Fault, stopFailed' \in BOOLEAN,
         moveFailed' \in {"no", "seen", "unseen"}, camera' \in {"still", "moving"},
         timer' \in {"none", "armed", "fired"}, stopping' \in Nat
  PROVE  /\ Rest' /\ Untried' /\ DOMAIN requests' = DOMAIN requests
         /\ requests'[r].at[n] = st
         /\ \A q \in DOMAIN requests, m \in Try :
              q # r \/ m # n => requests'[q].at[m] = requests[q].at[m]
<1>t. TypeOK /\ requests[r] \in Request /\ requests[r].tries \in 0..2
  BY RequestFacts DEF Rest, Request
<1>1. requests' = [requests EXCEPT ![r].at[n] = st]
  BY DEF Reach
<1>2. /\ requests' \in Seq(Request) /\ Len(requests') = Len(requests)
      /\ DOMAIN requests' = DOMAIN requests /\ Moves' = Moves
      /\ \A q \in DOMAIN requests : /\ requests'[q].kind = requests[q].kind
                                    /\ q # r => requests'[q] = requests[q]
      /\ requests'[r].tries = requests[r].tries /\ requests'[r].at[n] = st
      /\ \A m \in Try : m # n => requests'[r].at[m] = requests[r].at[m]
  BY <1>t, <1>1, ReachFacts
<1>3. faults' \in 0..MaxFaults
  BY <1>t, FaultType DEF TypeOK
<1>4. Rest'
  BY <1>t, <1>2, <1>3, AgentFrame DEF Rest
<1>5. Untried'
  <2>1. ~(n > requests[r].tries)
    BY DEF Untried
  <2>. QED
    BY <1>2, <2>1 DEF Untried
<1>. QED
  BY <1>2, <1>4, <1>5

LEMMA MoveStep ==
  ASSUME Rest, Untried, MovesAreGuarded, NEW r \in DOMAIN requests, NEW n \in Try, Move(r, n)
  PROVE  Rest' /\ Untried' /\ MovesAreGuarded'
<1>t. /\ timer \in {"none", "armed", "fired"} /\ stopping \in Nat /\ stopFailed \in BOOLEAN
      /\ moveFailed \in {"no", "seen", "unseen"} /\ camera \in {"still", "moving"}
  BY DEF Rest, TypeOK
<1>1. CASE MoveSent(r, n, "came", "moved")
  <2>1. UNCHANGED <<panelVars, timer, stopping, stopFailed>> /\ requests[r].at[n] = "came"
    BY <1>1 DEF MoveSent, At, agentVars
  <2>2. CASE Reach(r, n, "moved") /\ camera' = "moving" /\ UNCHANGED <<faults, moveFailed>>
    <3>1. /\ Rest' /\ Untried' /\ DOMAIN requests' = DOMAIN requests
          /\ requests'[r].at[n] = "moved"
      BY <1>t, <2>1, <2>2, AgentAsks DEF Stage
    <3>2. MovesAreGuarded'
      BY <3>1 DEF MovesAreGuarded
    <3>. QED
      BY <3>1, <3>2
  <2>3. CASE /\ Reach(r, n, "failed") /\ camera' \in {camera, "moving"} /\ Fault
             /\ moveFailed' \in {"seen", "unseen"}
    <3>1. Rest' /\ Untried'
      BY <1>t, <2>1, <2>3, AgentAsks DEF Stage
    <3>2. MovesAreGuarded'
      BY <2>3 DEF MovesAreGuarded
    <3>. QED
      BY <3>1, <3>2
  <2>. QED
    BY <1>1, <2>2, <2>3 DEF MoveSent
<1>2. CASE TimerArmed(r, n, "moved", "ok")
  <2>1. /\ UNCHANGED <<panelVars, stopping, camera, faults, stopFailed, moveFailed>>
        /\ timer' = "armed" /\ Reach(r, n, "ok") /\ requests[r].at[n] = "moved"
    BY <1>2 DEF TimerArmed, At, historyVars
  <2>2. Rest' /\ Untried'
    BY <1>t, <2>1, AgentAsks DEF Stage
  <2>3. MovesAreGuarded'
    BY <2>1 DEF MovesAreGuarded
  <2>. QED
    BY <2>2, <2>3
<1>. QED
  BY <1>1, <1>2 DEF Move

LEMMA StopStep ==
  ASSUME Rest, Untried, MovesAreGuarded, NEW r \in DOMAIN requests, NEW n \in Try, Stop(r, n)
  PROVE  Rest' /\ Untried' /\ MovesAreGuarded'
<1>t. /\ timer \in {"none", "armed", "fired"} /\ stopping \in Nat /\ stopFailed \in BOOLEAN
      /\ moveFailed \in {"no", "seen", "unseen"} /\ camera \in {"still", "moving"}
  BY DEF Rest, TypeOK
<1>1. CASE TimerCanceled(r, n, "came", "locked")
  <2>1. /\ UNCHANGED <<panelVars, stopping, camera, faults, stopFailed, moveFailed>>
        /\ timer' = "none" /\ Reach(r, n, "locked") /\ requests[r].at[n] = "came"
    BY <1>1 DEF TimerCanceled, At, historyVars
  <2>2. /\ Rest' /\ Untried' /\ DOMAIN requests' = DOMAIN requests
        /\ requests'[r].at[n] = "locked"
    BY <1>t, <2>1, AgentAsks DEF Stage
  <2>3. MovesAreGuarded'
    BY <2>2 DEF MovesAreGuarded
  <2>. QED
    BY <2>2, <2>3
<1>2. CASE StopSent(r, n, "locked", "ok")
  <2>1. UNCHANGED <<panelVars, timer, stopping, moveFailed>> /\ requests[r].at[n] = "locked"
    BY <1>2 DEF StopSent, At, agentVars
  <2>2. CASE Reach(r, n, "ok") /\ CameraStopped
    <3>1. camera' = "still" /\ UNCHANGED <<faults, stopFailed>>
      BY <2>2 DEF CameraStopped
    <3>2. Rest' /\ Untried'
      BY <1>t, <2>1, <2>2, <3>1, AgentAsks DEF Stage
    <3>. QED
      BY <3>1, <3>2 DEF MovesAreGuarded
  <2>3. CASE Reach(r, n, "failed") /\ CameraRefused
    <3>1. camera' \in {camera, "still"} /\ Fault /\ stopFailed' = TRUE
      BY <2>3 DEF CameraRefused
    <3>2. Rest' /\ Untried'
      BY <1>t, <2>1, <2>3, <3>1, AgentAsks DEF Stage
    <3>. QED
      BY <3>1, <3>2 DEF MovesAreGuarded
  <2>. QED
    BY <1>2, <2>2, <2>3 DEF StopSent
<1>. QED
  BY <1>1, <1>2 DEF Stop

\* The dead-man timer: from armed to fired to a stop under way.
LEMMA TimerStep ==
  ASSUME Rest, Untried, MovesAreGuarded, Fire \/ DeadmanLocks \/ DeadmanSends
  PROVE  Rest' /\ Untried' /\ MovesAreGuarded'
<1>t. /\ timer \in {"none", "armed", "fired"} /\ stopping \in Nat /\ stopFailed \in BOOLEAN
      /\ moveFailed \in {"no", "seen", "unseen"} /\ camera \in {"still", "moving"}
      /\ faults \in 0..MaxFaults /\ requests \in Seq(Request) /\ TypeOK
  BY DEF Rest, TypeOK
<1>1. UNCHANGED <<panelVars, requests, moveFailed>>
  BY DEF Fire, DeadmanLocks, DeadmanSends, historyVars
<1>2. Moves' = Moves
  BY <1>1 DEF Moves
<1>3. Untried'
  BY <1>1 DEF Untried
<1>4. CASE Fire \/ DeadmanLocks
  <2>1. /\ UNCHANGED <<camera, faults, stopFailed>>
        /\ (timer' = "fired" /\ stopping' = stopping) \/ (timer' = "none" /\ stopping' = stopping + 1)
    BY <1>4 DEF Fire, DeadmanLocks, historyVars
  <2>2. Rest'
    BY <1>t, <1>1, <1>2, <2>1, AgentFrame DEF Rest
  <2>3. timer' # "none" \/ stopping' > 0
    BY <1>t, <2>1
  <2>. QED
    BY <1>3, <2>2, <2>3 DEF MovesAreGuarded
<1>5. CASE DeadmanSends
  <2>1. /\ stopping > 0 /\ stopping' = stopping - 1 /\ timer' = timer
        /\ \/ camera' = "still" /\ UNCHANGED <<faults, stopFailed>>
           \/ camera' \in {camera, "still"} /\ Fault /\ stopFailed' = TRUE
    BY <1>5 DEF DeadmanSends, CameraStopped, CameraRefused
  <2>2. stopping' \in Nat /\ faults' \in 0..MaxFaults
    BY <1>t, <2>1, FaultType
  <2>3. Rest'
    BY <1>t, <1>1, <1>2, <2>1, <2>2, AgentFrame DEF Rest
  <2>4. MovesAreGuarded'
    BY <2>1 DEF MovesAreGuarded
  <2>. QED
    BY <1>3, <2>3, <2>4
<1>. QED
  BY <1>4, <1>5

-----------------------------------------------------------------------------
(* The theorems.                                                           *)

LEMMA InitIInv == Init => IInv
<1>. SUFFICES ASSUME Init PROVE IInv
  OBVIOUS
<1>1. requests = <<>> /\ <<>> \in Seq(Request) /\ Len(<<>>) = 0 /\ DOMAIN <<>> = {}
  BY EmptySeq DEF Init
<1>2. Moves = {} /\ Cardinality(Moves) = 0
  BY <1>1, FS_EmptySet DEF Moves
<1>3. Waits = 0 /\ Holds = 0 /\ Opens = 1
  BY DEF Init, Waits, Holds, Opens
<1>4. Posts
  BY <1>1, <1>2, <1>3, Bounds DEF Posts, Init
<1>5. Len(requests) <= MaxRequests
  BY <1>1, Bounds DEF MaxRequests
<1>6. TypeOK
  <2>1. holds \in 0..MaxHolds /\ faults \in 0..MaxFaults
    BY Bounds DEF Init
  <2>2. pending \in 0..Len(requests) /\ answered \in 0..Len(requests)
    BY <1>1 DEF Init
  <2>3. {held, stale, closed, stopFailed} \subseteq BOOLEAN /\ moveFailed \in {"no", "seen", "unseen"}
    BY DEF Init
  <2>4. timer \in {"none", "armed", "fired"} /\ stopping \in Nat /\ camera \in {"still", "moving"}
    BY DEF Init
  <2>. QED
    BY <1>1, <1>5, <2>1, <2>2, <2>3, <2>4 DEF TypeOK
<1>7. Untried /\ LateIsStale /\ MovesAreGuarded /\ StopFollowsMoves
  BY <1>1, <1>2 DEF Init, Untried, LateIsStale, MovesAreGuarded, StopFollowsMoves
<1>. QED
  BY <1>4, <1>6, <1>7 DEF IInv

LEMMA NextIInv == IInv /\ [Next]_vars => IInv'
<1>. SUFFICES ASSUME IInv, [Next]_vars PROVE IInv'
  OBVIOUS
<1>1. Rest /\ Untried /\ MovesAreGuarded
  BY DEF IInv, Rest
<1>. SUFFICES Rest' /\ Untried' /\ MovesAreGuarded'
  BY DEF IInv, Rest
<1>2. CASE Panel
  BY <1>1, <1>2, PanelType, PanelGuards, PanelStops DEF Rest
<1>3. CASE Agent
  BY <1>1, <1>3, MoveStep, StopStep, TimerStep DEF Agent
<1>4. CASE \E r \in DOMAIN requests : Attempt(r)
  BY <1>1, <1>4, AttemptStep
<1>5. CASE UNCHANGED vars
  <2>1. UNCHANGED <<held, holds, pending, stale, closed, answered, requests, timer, stopping, camera,
                    faults, stopFailed, moveFailed>>
    BY <1>5 DEF vars, panelVars, agentVars, historyVars
  <2>2. Moves' = Moves /\ UNCHANGED <<Waits, Holds, Opens>>
    BY <2>1 DEF Moves, Waits, Holds, Opens
  <2>3. TypeOK' /\ Posts' /\ LateIsStale' /\ StopFollowsMoves'
    BY <1>1, <2>1, <2>2 DEF Rest, TypeOK, Posts, LateIsStale, StopFollowsMoves
  <2>. QED
    BY <1>1, <2>1, <2>3 DEF Rest, Untried, MovesAreGuarded
<1>. QED
  BY <1>2, <1>3, <1>4, <1>5 DEF Next

LEMMA Invariance == Spec => []IInv
BY InitIInv, NextIInv, PTL DEF Spec

\* Types hold, the panel never posts more than its buttons and answers bring,
\* and a moving camera is guarded by the dead-man timer of PtzController:
\* threads, timers and requests that arrive twice may come in any order.
THEOREM CameraControlInvariant == Spec => []CameraInvariant
<1>1. IInv => CameraInvariant
  BY DEF IInv, CameraInvariant
<1>. QED
  BY <1>1, Invariance, PTL

\* A panel that waits for nothing and holds no button has posted a stop since
\* its last move was answered: stop_move, shutdown and finished() of
\* _send_move between them forget none.
THEOREM CameraControlStopFollowsMoves == Spec => []StopFollowsMoves
<1>1. IInv => StopFollowsMoves
  BY DEF IInv
<1>. QED
  BY <1>1, Invariance, PTL

-----------------------------------------------------------------------------
(* The two USB cameras.                                                   *)

\* What the panel and the NUC do; a state means the same in both.
R == INSTANCE Recording

\* The record half of the panel.
PanelTyped ==
  /\ link \in Links /\ tunnel \in BOOLEAN
  /\ action \in R!Action \cup {""} /\ routes \in R!Routes
  /\ current \in Slots \cup {0} /\ tries \in Nat
  /\ recording \in BOOLEAN
  /\ process \in [Slots -> R!Process]
RecordPanel ==
  /\ PanelTyped
  /\ current # 0 => process[current].local \in {"running", "failed"}
  /\ action # "" => current # 0 \/ tries > 0
  /\ action = "" => routes = <<>>

\* Its picture half, with what the NUC was asked for.
CapturePanel ==
  /\ capture \in R!Capture
  /\ capture.busy <=> capture.running \/ capture.tries = 1 \/ capture.unstarted

ButtonsTyped == startOn \in BOOLEAN /\ stopOn \in BOOLEAN /\ captureOn \in BOOLEAN
BoundsTyped == clicks \in 0..MaxClicks /\ losses \in 0..MaxLosses

\* The recorder.
Recorder ==
  /\ worker \in {"off", "opening", "on", "ending"}
  /\ strays \in Nat /\ doubled \in BOOLEAN /\ orphaned \in BOOLEAN
  /\ device \in {"none", "worker", "stray", "snapshot"}
  /\ doubled \/ strays > 0 => orphaned
  /\ device = "stray" => strays > 0
  /\ worker = "on" => device = "worker"
  /\ device = "worker" => worker \in {"on", "ending"}
  /\ lock # 0 => worker \in {"off", "ending"}

\* The still capture.
Shots ==
  /\ shots \in [asked : Nat, taking : BOOLEAN]
  /\ shots.taking <=> device = "snapshot"
  /\ shots.taking => shots.asked > 0

\* The lock and the processes.
LockFits ==
  /\ lock \in Slots \cup {0}
  /\ \A s \in Slots : process[s].remote = "waiting" <=> lock = s
  /\ \A s \in Slots : lock = s => process[s].action = "stop" /\ process[s].local # "free"

RecordingIInv ==
  RecordPanel /\ CapturePanel /\ ButtonsTyped /\ BoundsTyped /\ Recorder /\ Shots /\ LockFits

-----------------------------------------------------------------------------
(* The operators of the panel.                                             *)

LEMMA RouteFacts ==
  ASSUME NEW rs \in R!Routes
  PROVE  /\ <<>> \in R!Routes
         /\ rs # <<>> => Head(rs) \in R!Route /\ Tail(rs) \in R!Routes
<1>1. PICK n \in 0..2 : rs \in [1..n -> R!Route]
  BY DEF R!Routes
<1>2. rs \in Seq(R!Route) /\ Len(rs) = n
  <2>1. rs \in Seq(R!Route)
    BY <1>1, SeqDef
  <2>2. DOMAIN rs = 1..n /\ DOMAIN rs = 1..Len(rs) /\ Len(rs) \in Nat
    BY <1>1, <2>1, LenProperties
  <2>. QED
    BY <2>1, <2>2
<1>3. <<>> \in R!Routes
  <2>1. <<>> \in [1..0 -> R!Route]
    OBVIOUS
  <2>. QED
    BY <2>1 DEF R!Routes
<1>4. ASSUME rs # <<>> PROVE Head(rs) \in R!Route /\ Tail(rs) \in R!Routes
  <2>1. Head(rs) \in R!Route /\ Tail(rs) \in Seq(R!Route) /\ Len(Tail(rs)) = n - 1
    BY <1>2, <1>4, HeadTailProperties
  <2>2. n - 1 \in 0..2
    BY <1>2, <1>4, EmptySeq, LenProperties
  <2>3. Tail(rs) \in [1..(n - 1) -> R!Route]
    BY <2>1, LenProperties
  <2>. QED
    BY <2>1, <2>2, <2>3 DEF R!Routes
<1>. QED
  BY <1>3, <1>4

LEMMA RoutesOfLink ==
  ASSUME link \in Links
  PROVE  R!RoutesOf(link) \in R!Routes /\ <<"lan">> \in R!Routes
<1>1. \A r \in R!Route : <<r>> \in [1..1 -> R!Route]
  OBVIOUS
<1>2. <<"lan", "cloud">> \in [1..2 -> R!Route]
  BY DEF R!Route
<1>3. {<<"lan", "cloud">>} \cup {<<r>> : r \in R!Route} \subseteq R!Routes
  BY <1>1, <1>2 DEF R!Routes
<1>4. link \in {"local", "auto", "lan", "cloud"}
  BY RecordingAssumption
<1>5. link = "auto" => R!RoutesOf(link) = <<"lan", "cloud">>
  BY DEF R!RoutesOf
<1>6. link # "auto" => R!RoutesOf(link) = <<link>>
  BY DEF R!RoutesOf
<1>7. "lan" \in R!Route /\ (link # "auto" => link \in R!Route)
  BY <1>4 DEF R!Route
<1>. QED
  BY <1>3, <1>5, <1>6, <1>7

LEMMA ButtonsUpdated == ASSUME R!UpdateButtons PROVE ButtonsTyped'
BY DEF R!UpdateButtons, ButtonsTyped

LEMMA FreeSlot ==
  /\ R!Free \in R!Process
  /\ R!Free.remote = "over" /\ R!Free.local = "free"
  /\ R!Unstarted \in R!Process
  /\ R!Unstarted.remote = "over" /\ R!Unstarted.local = "failed"
BY DEF R!Free, R!Unstarted, R!Process, R!Action

\* A step that does not touch the stop that waits.
StopKept ==
  \A s \in Slots :
    /\ process'[s].remote = "waiting" <=> process[s].remote = "waiting"
    /\ process[s].remote = "waiting" =>
         /\ process'[s].action = process[s].action
         /\ process[s].local # "free" => process'[s].local # "free"

LEMMA SameProcesses == ASSUME process' = process PROVE StopKept
BY DEF StopKept

LEMMA LockSame == ASSUME LockFits, StopKept, lock' = lock PROVE LockFits'
BY DEF LockFits, StopKept

\* One slot gets another process.
LEMMA SlotChanged ==
  ASSUME process \in [Slots -> R!Process], NEW s \in Slots, NEW p \in R!Process,
         process' = [process EXCEPT ![s] = p]
  PROVE  /\ process' \in [Slots -> R!Process] /\ process'[s] = p
         /\ \A q \in Slots : q # s => process'[q] = process[q]
OBVIOUS

\* The bounds.
LEMMA ClickBound == ASSUME BoundsTyped, R!Click PROVE clicks' \in 0..MaxClicks
BY RecordingAssumption DEF BoundsTyped, R!Click

LEMMA LossBound == ASSUME BoundsTyped, R!Fault PROVE losses' \in 0..MaxLosses
BY RecordingAssumption DEF BoundsTyped, R!Fault

LEMMA OneMore == \A n \in Nat : n + 1 \in Nat /\ n + 1 > 0
OBVIOUS

-----------------------------------------------------------------------------
(* The actions of the panel.                                               *)

LEMMA TryStep ==
  ASSUME RecordPanel, ButtonsTyped, NEW a \in R!Action \cup {""}, NEW rs \in R!Routes,
         NEW n \in Nat, R!Try(a, rs, n), a = "" => rs = <<>>
  PROVE  /\ RecordPanel' /\ ButtonsTyped' /\ StopKept
         /\ UNCHANGED <<capture, shots, link, tunnel>>
         /\ losses' = losses \/ R!Fault
<1>t. PanelTyped
  BY DEF RecordPanel
<1>r. <<>> \in R!Routes /\ (rs # <<>> => Tail(rs) \in R!Routes)
  BY RouteFacts
<1>1. CASE rs = <<>> /\ action' = "" /\ routes' = <<>> /\ tries' = n
           /\ UNCHANGED <<current, process, capture, shots, link, tunnel, recording, losses>>
           /\ R!UpdateButtons
  <2>1. PanelTyped'
    BY <1>1, <1>t, <1>r DEF PanelTyped
  <2>2. StopKept
    BY <1>1, SameProcesses
  <2>. QED
    BY <1>1, <2>1, <2>2, ButtonsUpdated DEF RecordPanel
<1>2. CASE rs # <<>> /\ action' = a /\ routes' = rs /\ tries' = n + 1
           /\ UNCHANGED <<current, process, capture, shots, link, tunnel, recording,
                          startOn, stopOn, captureOn, losses>>
  <2>1. tries' \in Nat /\ tries' > 0
    <3>1. tries' = n + 1
      BY <1>2
    <3>. QED
      BY <3>1, OneMore
  <2>2. StopKept
    BY <1>2, SameProcesses
  <2>3. PanelTyped'
    BY <1>2, <1>t, <2>1 DEF PanelTyped
  <2>4. RecordPanel'
    BY <1>2, <2>1, <2>3 DEF RecordPanel
  <2>. QED
    BY <1>2, <2>2, <2>4 DEF ButtonsTyped
<1>3. CASE rs # <<>> /\ action' = a /\ routes' = Tail(rs) /\ tries' = n
           /\ UNCHANGED <<capture, shots, link, tunnel, recording>> /\ R!UpdateButtons
           /\ \E s \in Slots, started \in BOOLEAN :
                /\ R!Idle(s)
                /\ process' = [process EXCEPT ![s] =
                                 IF started
                                 THEN [action |-> a, local |-> "running", remote |-> "asked",
                                       says |-> FALSE]
                                 ELSE R!Unstarted]
                /\ current' = s
                /\ IF started THEN UNCHANGED losses ELSE R!Fault
  <2>1. PICK s \in Slots, started \in BOOLEAN :
          /\ R!Idle(s) /\ current' = s
          /\ process' = [process EXCEPT ![s] =
                           IF started
                           THEN [action |-> a, local |-> "running", remote |-> "asked",
                                 says |-> FALSE]
                           ELSE R!Unstarted]
          /\ IF started THEN UNCHANGED losses ELSE R!Fault
    BY <1>3
  <2>. DEFINE asked == [action |-> a, local |-> "running", remote |-> "asked", says |-> FALSE]
              p == IF started THEN asked ELSE R!Unstarted
  <2>2. p \in R!Process /\ p.local \in {"running", "failed"} /\ p.remote # "waiting"
    <3>1. asked \in R!Process /\ asked.local = "running" /\ asked.remote = "asked"
      BY <1>3 DEF R!Process
    <3>. HIDE DEF asked
    <3>. QED
      BY <3>1, FreeSlot
  <2>3. process' = [process EXCEPT ![s] = p]
    BY <2>1
  <2>. HIDE DEF p
  <2>8. process[s].remote # "waiting"
    BY <2>1, FreeSlot DEF R!Idle
  <2>4. /\ process' \in [Slots -> R!Process] /\ process'[s] = p
        /\ \A q \in Slots : q # s => process'[q] = process[q]
    BY <1>t, <2>2, <2>3, SlotChanged DEF PanelTyped
  <2>5. StopKept
    BY <2>2, <2>4, <2>8 DEF StopKept
  <2>6. PanelTyped'
    BY <1>3, <1>t, <1>r, <2>1, <2>4 DEF PanelTyped
  <2>7. /\ current' # 0 /\ process'[current'].local \in {"running", "failed"}
        /\ action' # ""
    BY <1>3, <2>1, <2>2, <2>4, RecordingAssumption
  <2>9. losses' = losses \/ R!Fault
    BY <2>1
  <2>. QED
    BY <1>3, <2>5, <2>6, <2>7, <2>9, ButtonsUpdated DEF RecordPanel
<1>. QED
  BY <1>1, <1>2, <1>3 DEF R!Try, R!captureVars, R!buttonVars

LEMMA RunStep ==
  ASSUME RecordPanel, ButtonsTyped, NEW a \in R!Action, R!Run(a)
  PROVE  /\ RecordPanel' /\ ButtonsTyped' /\ StopKept
         /\ UNCHANGED <<capture, shots, link, tunnel>>
         /\ losses' = losses \/ R!Fault
<1>t. PanelTyped
  BY DEF RecordPanel
<1>1. CASE current # 0
  <2>1. UNCHANGED <<action, routes, current, tries, recording, process, startOn, stopOn,
                    captureOn, capture, shots, link, tunnel, losses>>
    BY <1>1 DEF R!Run, R!actionVars, R!buttonVars, R!captureVars
  <2>. QED
    BY <2>1, SameProcesses DEF RecordPanel, PanelTyped, ButtonsTyped
<1>2. CASE current = 0
  <2>. DEFINE rs == IF a = "list" /\ link # "local" THEN <<"lan">> ELSE R!RoutesOf(link)
  <2>1. rs \in R!Routes
    BY <1>t, RoutesOfLink DEF PanelTyped
  <2>2. R!Try(a, rs, tries)
    BY <1>2 DEF R!Run
  <2>3. a # "" /\ tries \in Nat
    BY <1>t DEF R!Action, PanelTyped
  <2>. HIDE DEF rs
  <2>. QED
    BY <2>1, <2>2, <2>3, TryStep
<1>. QED
  BY <1>1, <1>2

LEMMA RetryStep ==
  ASSUME RecordPanel, ButtonsTyped, R!Retry
  PROVE  /\ RecordPanel' /\ ButtonsTyped' /\ StopKept
         /\ UNCHANGED <<capture, shots, link, tunnel>>
         /\ losses' = losses \/ R!Fault
<1>1. /\ action \in R!Action \cup {""} /\ routes \in R!Routes /\ tries - 1 \in Nat
      /\ (action = "" => routes = <<>>)
  <2>1. tries > 0
    BY DEF R!Retry
  <2>2. tries \in Nat
    BY DEF RecordPanel, PanelTyped
  <2>3. tries - 1 \in Nat
    BY <2>1, <2>2
  <2>. QED
    BY <2>3 DEF RecordPanel, PanelTyped
<1>2. R!Try(action, routes, tries - 1)
  BY DEF R!Retry
<1>. QED
  BY <1>1, <1>2, TryStep

\* _record_finished.
LEMMA FinishStep ==
  ASSUME RecordPanel, ButtonsTyped, NEW s \in Slots, NEW valid \in BOOLEAN,
         NEW slot \in R!Process, R!Finish(s, valid, slot),
         process[s].remote = "waiting" <=> slot.remote = "waiting",
         slot.remote = "waiting" => slot.local # "free" /\ slot.action = process[s].action
  PROVE  /\ RecordPanel' /\ ButtonsTyped' /\ StopKept
         /\ UNCHANGED <<capture, shots, link, tunnel, clicks, worker, strays, device, lock, doubled, orphaned>>
<1>t. PanelTyped
  BY DEF RecordPanel
<1>1. /\ process' = [process EXCEPT ![s] = slot] /\ current' = 0
      /\ UNCHANGED <<capture, shots, link, tunnel, clicks, worker, strays, device, lock, doubled, orphaned>>
  BY DEF R!Finish, R!captureVars, R!nucVars
<1>2. /\ process' \in [Slots -> R!Process] /\ process'[s] = slot
      /\ \A q \in Slots : q # s => process'[q] = process[q]
  BY <1>1, <1>t, SlotChanged DEF PanelTyped
<1>3. StopKept
  BY <1>2 DEF StopKept
<1>4. CASE ~valid /\ routes # <<>>
  <2>1. tries' = tries + 1 /\ UNCHANGED <<action, routes, recording, startOn, stopOn, captureOn>>
    BY <1>4 DEF R!Finish, R!buttonVars
  <2>. QED
    <3>1. tries' \in Nat /\ tries' > 0
      <4>1. tries' = tries + 1 /\ tries \in Nat
        BY <1>t, <2>1 DEF PanelTyped
      <4>. QED
        BY <4>1
    <3>2. PanelTyped'
      BY <1>1, <1>2, <1>t, <2>1, <3>1 DEF PanelTyped
    <3>3. action' = "" => routes' = <<>>
      BY <2>1 DEF RecordPanel
    <3>. QED
      BY <1>1, <1>3, <2>1, <3>1, <3>2, <3>3 DEF RecordPanel, ButtonsTyped
<1>5. CASE ~(~valid /\ routes # <<>>)
  <2>1. /\ routes' = <<>> /\ action' = "" /\ tries' = tries /\ R!UpdateButtons
        /\ recording' = IF valid /\ action # "list" THEN process[s].says ELSE recording
    BY <1>5 DEF R!Finish
  <2>2. recording' \in BOOLEAN
    BY <1>t, <2>1 DEF PanelTyped, R!Process
  <2>3. <<>> \in R!Routes
    BY <1>t, RouteFacts DEF PanelTyped
  <2>4. PanelTyped'
    BY <1>1, <1>2, <1>t, <2>1, <2>2, <2>3 DEF PanelTyped
  <2>. QED
    BY <1>1, <1>3, <2>1, <2>4, ButtonsUpdated DEF RecordPanel
<1>. QED
  BY <1>4, <1>5

-----------------------------------------------------------------------------
(* Taking a picture.                                                       *)

LEMMA NoCaptureFits ==
  R!NoCapture \in R!Capture
<1>1. <<>> \in R!Routes
  <2>1. <<>> \in [1..0 -> R!Route] /\ 0 \in 0..2
    OBVIOUS
  <2>. QED
    BY <2>1 DEF R!Routes
<1>. QED
  BY <1>1 DEF R!NoCapture, R!Capture

\* A picture that a timer will ask for.
LEMMA TimerSet ==
  ASSUME NEW A, NEW T, NEW t \in T, NEW rs \in A,
         NEW c \in [routes : A, busy : BOOLEAN, running : BOOLEAN, unstarted : BOOLEAN,
                    tries : T, got : BOOLEAN]
  PROVE  /\ [c EXCEPT !.busy = TRUE, !.routes = rs, !.tries = t]
              \in [routes : A, busy : BOOLEAN, running : BOOLEAN, unstarted : BOOLEAN,
                   tries : T, got : BOOLEAN]
         /\ [c EXCEPT !.busy = TRUE, !.routes = rs, !.tries = t].busy = TRUE
         /\ [c EXCEPT !.busy = TRUE, !.routes = rs, !.tries = t].tries = t
         /\ [c EXCEPT !.running = FALSE, !.tries = t, !.got = FALSE]
              \in [routes : A, busy : BOOLEAN, running : BOOLEAN, unstarted : BOOLEAN,
                   tries : T, got : BOOLEAN]
         /\ [c EXCEPT !.running = FALSE, !.tries = t, !.got = FALSE].busy = c.busy
         /\ [c EXCEPT !.running = FALSE, !.tries = t, !.got = FALSE].tries = t
OBVIOUS

LEMMA OneTimer == 1 \in 0..1
OBVIOUS

LEMMA TryCaptureStep ==
  ASSUME RecordPanel, CapturePanel, ButtonsTyped, Shots, NEW rs \in R!Routes, R!TryCapture(rs)
  PROVE  /\ CapturePanel' /\ ButtonsTyped' /\ shots'.taking = shots.taking
         /\ shots' \in [asked : Nat, taking : BOOLEAN] /\ (shots.taking => shots'.asked > 0)
         /\ UNCHANGED <<action, routes, current, tries, recording, process, link, tunnel>>
         /\ losses' = losses \/ R!Fault
<1>s. shots \in [asked : Nat, taking : BOOLEAN] /\ (shots.taking => shots.asked > 0)
  BY DEF Shots
<1>1. CASE /\ capture' = R!NoCapture /\ shots' = shots /\ R!UpdateButtons /\ losses' = losses
           /\ UNCHANGED <<action, routes, current, tries, recording, process, link, tunnel>>
  <2>1. CapturePanel'
    BY <1>1, NoCaptureFits DEF CapturePanel, R!NoCapture
  <2>. QED
    BY <1>1, <1>s, <2>1, ButtonsUpdated
<1>2. CASE /\ capture' = [R!NoCapture EXCEPT !.busy = TRUE, !.routes = rs, !.tries = 1]
           /\ shots' = shots /\ captureOn' = FALSE /\ losses' = losses
           /\ UNCHANGED <<action, routes, current, tries, recording, process, link, tunnel,
                          startOn, stopOn>>
  <2>1. CapturePanel'
    <3>1. /\ capture'.busy = TRUE /\ capture'.tries = 1
          /\ capture' \in R!Capture
      BY <1>2, NoCaptureFits, TimerSet, OneTimer, Zenon DEF R!Capture
    <3>. QED
      BY <3>1 DEF CapturePanel
  <2>. QED
    BY <1>2, <1>s, <2>1 DEF ButtonsTyped
<1>3. CASE /\ rs # <<>>
           /\ capture' = [R!NoCapture EXCEPT !.busy = TRUE, !.routes = Tail(rs), !.running = TRUE]
           /\ shots' = [shots EXCEPT !.asked = @ + 1] /\ captureOn' = FALSE
           /\ losses' = losses
           /\ UNCHANGED <<action, routes, current, tries, recording, process, link, tunnel,
                          startOn, stopOn>>
  <2>1. Tail(rs) \in R!Routes
    BY <1>3, RouteFacts
  <2>2. CapturePanel'
    BY <1>3, <2>1, NoCaptureFits DEF CapturePanel, R!NoCapture, R!Capture
  <2>3. shots' \in [asked : Nat, taking : BOOLEAN] /\ shots'.asked = shots.asked + 1
        /\ shots'.taking = shots.taking
    BY <1>3, <1>s
  <2>4. shots'.asked > 0
    BY <1>s, <2>3
  <2>. QED
    BY <1>3, <2>2, <2>3, <2>4 DEF ButtonsTyped
<1>4. CASE /\ rs # <<>> /\ R!Fault /\ shots' = shots /\ captureOn' = FALSE
           /\ capture' = [R!NoCapture EXCEPT !.busy = TRUE, !.routes = Tail(rs),
                                             !.unstarted = TRUE]
           /\ UNCHANGED <<action, routes, current, tries, recording, process, link, tunnel,
                          startOn, stopOn>>
  <2>1. Tail(rs) \in R!Routes
    BY <1>4, RouteFacts
  <2>2. CapturePanel'
    BY <1>4, <2>1, NoCaptureFits DEF CapturePanel, R!NoCapture, R!Capture
  <2>. QED
    BY <1>4, <1>s, <2>2 DEF ButtonsTyped
<1>. QED
  BY <1>1, <1>2, <1>3, <1>4 DEF R!TryCapture, R!actionVars

LEMMA CaptureFinishedStep ==
  ASSUME CapturePanel, ButtonsTyped, NEW valid \in BOOLEAN, R!CaptureFinished(valid)
  PROVE  /\ CapturePanel' /\ ButtonsTyped' /\ shots' = shots
         /\ UNCHANGED <<action, routes, current, tries, recording, process, link, tunnel>>
<1>1. CASE valid \/ capture.routes = <<>>
  <2>1. /\ capture' = R!NoCapture /\ shots' = shots /\ R!UpdateButtons
        /\ UNCHANGED <<action, routes, current, tries, recording, process, link, tunnel>>
    BY <1>1 DEF R!CaptureFinished, R!actionVars
  <2>2. CapturePanel'
    BY <2>1, NoCaptureFits DEF CapturePanel, R!NoCapture
  <2>. QED
    BY <2>1, <2>2, ButtonsUpdated
<1>2. CASE ~(valid \/ capture.routes = <<>>)
  <2>1. /\ capture' = [capture EXCEPT !.running = FALSE, !.tries = 1, !.got = FALSE]
        /\ capture.running
        /\ UNCHANGED <<action, routes, current, tries, recording, process, link, tunnel, shots,
                       startOn, stopOn, captureOn>>
    BY <1>2 DEF R!CaptureFinished, R!actionVars, R!buttonVars
  <2>2. CapturePanel'
    <3>1. /\ capture' = [capture EXCEPT !.running = FALSE, !.tries = 1, !.got = FALSE]
          /\ capture.busy
          /\ capture \in R!Capture
      BY <2>1 DEF CapturePanel
    <3>2. /\ capture'.busy /\ capture'.tries = 1
          /\ capture' \in R!Capture
      <4>1. <<>> \in R!Routes
        BY NoCaptureFits DEF R!NoCapture, R!Capture
      <4>. QED
        BY <3>1, <4>1, TimerSet, OneTimer, Zenon DEF R!Capture
    <3>. QED
      BY <3>2 DEF CapturePanel
  <2>. QED
    BY <2>1, <2>2 DEF ButtonsTyped
<1>. QED
  BY <1>1, <1>2

\* hik_usb_snapshot.py.
LEMMA SnapshotStep ==
  ASSUME CapturePanel, Recorder, Shots, R!Snapshot
  PROVE  /\ CapturePanel' /\ Recorder' /\ Shots'
         /\ UNCHANGED <<link, tunnel, action, routes, current, tries, recording, process,
                        startOn, stopOn, captureOn, clicks, losses, lock>>
<1>u. UNCHANGED <<link, tunnel, action, routes, current, tries, recording, process,
                  startOn, stopOn, captureOn, clicks, losses, worker, strays, lock, doubled,
                  orphaned>>
  BY DEF R!Snapshot, R!OnNuc, R!buttonVars
<1>s. /\ shots \in [asked : Nat, taking : BOOLEAN]
      /\ shots.taking <=> device = "snapshot"
      /\ shots.taking => shots.asked > 0
  BY DEF Shots
<1>g. ASSUME NEW b \in BOOLEAN, capture' = [capture EXCEPT !.got = b] PROVE CapturePanel'
  BY <1>g DEF CapturePanel, R!Capture
<1>b. (capture.running /\ shots.asked = 1) \in BOOLEAN
  BY DEF CapturePanel, R!Capture
<1>1. CASE /\ shots.asked > 0 /\ device = "none" /\ device' = "snapshot"
           /\ shots' = [shots EXCEPT !.taking = TRUE] /\ capture' = capture
  <2>1. CapturePanel'
    BY <1>1 DEF CapturePanel
  <2>2. Recorder'
    BY <1>1, <1>u DEF Recorder
  <2>3. shots'.taking = TRUE /\ shots'.asked = shots.asked
        /\ shots' \in [asked : Nat, taking : BOOLEAN]
    BY <1>1, <1>s
  <2>4. Shots'
    BY <1>1, <2>3 DEF Shots
  <2>. QED
    BY <1>u, <2>1, <2>2, <2>4
<1>2. CASE /\ shots.asked > 0 /\ ~shots.taking /\ device' = device
           /\ shots' = [shots EXCEPT !.asked = @ - 1]
           /\ capture' = [capture EXCEPT !.got = capture.running /\ shots.asked = 1]
  <2>1. CapturePanel'
    BY <1>2, <1>g, <1>b
  <2>2. Recorder'
    BY <1>2, <1>u DEF Recorder
  <2>3. shots'.taking = shots.taking /\ shots' \in [asked : Nat, taking : BOOLEAN]
    BY <1>2, <1>s
  <2>4. Shots'
    BY <1>2, <1>s, <2>3 DEF Shots
  <2>. QED
    BY <1>u, <2>1, <2>2, <2>4
<1>3. CASE /\ shots.taking /\ device' = "none"
           /\ shots' = [asked |-> shots.asked - 1, taking |-> FALSE]
           /\ capture' = [capture EXCEPT !.got = capture.running /\ shots.asked = 1]
  <2>1. CapturePanel'
    BY <1>3, <1>g, <1>b
  <2>2. device = "snapshot"
    BY <1>3, <1>s
  <2>3. Recorder'
    BY <1>3, <1>u, <2>2 DEF Recorder
  <2>4. shots.asked - 1 \in Nat
    BY <1>3, <1>s
  <2>5. Shots'
    BY <1>3, <2>4 DEF Shots
  <2>. QED
    BY <1>u, <2>1, <2>3, <2>5
<1>. QED
  BY <1>1, <1>2, <1>3 DEF R!Snapshot

-----------------------------------------------------------------------------
(* The recorder.                                                           *)

\* What a command at the NUC answers its process.
LEMMA AnsweredSlot ==
  ASSUME RecordPanel, NEW s \in Slots, process[s].local # "free",
         NEW r \in {"answered", "refused"}, NEW b \in BOOLEAN,
         process' = [process EXCEPT ![s] = IF @.local = "gone" THEN R!Free
                                           ELSE [@ EXCEPT !.remote = r, !.says = b]],
         UNCHANGED <<link, tunnel, action, routes, current, tries, recording>>
  PROVE  /\ RecordPanel'
         /\ process'[s].remote # "waiting"
         /\ \A q \in Slots : q # s => process'[q] = process[q]
<1>t. PanelTyped
  BY DEF RecordPanel
<1>. DEFINE p == IF process[s].local = "gone" THEN R!Free
                 ELSE [process[s] EXCEPT !.remote = r, !.says = b]
<1>1. /\ p \in R!Process /\ p.remote # "waiting"
      /\ process[s].local \in {"running", "failed"} => p.local = process[s].local
  <2>1. process[s] \in R!Process
    BY <1>t DEF PanelTyped
  <2>2. CASE process[s].local = "gone"
    BY <2>2, FreeSlot
  <2>3. CASE process[s].local # "gone"
    BY <2>1, <2>3 DEF R!Process
  <2>. QED
    BY <2>2, <2>3
<1>2. process' = [process EXCEPT ![s] = p]
  BY <1>t DEF PanelTyped
<1>. HIDE DEF p
<1>3. /\ process' \in [Slots -> R!Process] /\ process'[s] = p
      /\ \A q \in Slots : q # s => process'[q] = process[q]
  BY <1>t, <1>1, <1>2, SlotChanged DEF PanelTyped
<1>4. PanelTyped'
  BY <1>t, <1>3 DEF PanelTyped
<1>5. current' # 0 => process'[current'].local \in {"running", "failed"}
  <2>1. ASSUME current # 0 PROVE process'[current].local \in {"running", "failed"}
    <3>1. current \in Slots /\ process[current].local \in {"running", "failed"}
      BY <1>t, <2>1 DEF RecordPanel, PanelTyped
    <3>. QED
      BY <1>1, <1>3, <3>1
  <2>. QED
    BY <2>1
<1>. QED
  BY <1>1, <1>3, <1>4, <1>5 DEF RecordPanel

\* What a command at the NUC leaves alone.
LEMMA OnNucSame ==
  ASSUME R!OnNuc, ButtonsTyped, BoundsTyped, losses' = losses \/ R!Fault
  PROVE  /\ UNCHANGED <<link, tunnel, action, routes, current, tries, recording>>
         /\ ButtonsTyped' /\ BoundsTyped'
<1>1. losses' \in 0..MaxLosses
  BY LossBound DEF BoundsTyped
<1>. QED
  BY <1>1 DEF R!OnNuc, R!buttonVars, ButtonsTyped, BoundsTyped

LEMMA CommandStep ==
  ASSUME RecordingIInv, NEW s \in Slots, R!Command(s)
  PROVE  RecordingIInv'
<1>i. /\ RecordPanel /\ CapturePanel /\ ButtonsTyped /\ BoundsTyped /\ Recorder /\ Shots
      /\ LockFits /\ s # 0
  BY RecordingAssumption DEF RecordingIInv
<1>t. PanelTyped
  BY <1>i DEF RecordPanel
<1>1. R!OnNuc /\ UNCHANGED <<capture, shots>> /\ (losses' = losses \/ R!Fault)
  BY DEF R!Command, R!StartRecording, R!StopRecording, R!StopWaited, R!Status, R!captureVars
<1>2. /\ UNCHANGED <<link, tunnel, action, routes, current, tries, recording, capture, shots>>
      /\ ButtonsTyped' /\ BoundsTyped' /\ CapturePanel'
  BY <1>1, <1>i, OnNucSame DEF CapturePanel
<1>k. ASSUME device' = device \/ (device = "worker" /\ device' = "none") PROVE Shots'
  BY <1>i, <1>2, <1>k DEF Shots
\* A command that was asked for holds no lock.
<1>a. ASSUME process[s].local # "free", process[s].remote = "asked", lock' = lock,
             \E r \in {"answered", "refused"}, b \in BOOLEAN :
               process' = [process EXCEPT ![s] = IF @.local = "gone" THEN R!Free
                                                 ELSE [@ EXCEPT !.remote = r, !.says = b]]
      PROVE  RecordPanel' /\ LockFits'
  <2>1. /\ RecordPanel' /\ process'[s].remote # "waiting"
        /\ \A q \in Slots : q # s => process'[q] = process[q]
    BY <1>a, <1>i, <1>2, AnsweredSlot
  <2>2. lock # s
    BY <1>a, <1>i DEF LockFits
  <2>3. LockFits'
    BY <1>a, <1>i, <2>1, <2>2 DEF LockFits
  <2>. QED
    BY <2>1, <2>3
<1>3. CASE R!StartRecording(s)
  <2>1. /\ process[s].local # "free" /\ process[s].remote = "asked" /\ lock = 0
        /\ lock' = lock /\ device' = device
    BY <1>3 DEF R!StartRecording, R!AtNuc
  <2>. DEFINE Refused == process' = [process EXCEPT ![s] =
                                       IF @.local = "gone" THEN R!Free
                                       ELSE [@ EXCEPT !.remote = "refused"]]
  <2>r. ASSUME Refused PROVE RecordPanel' /\ LockFits'
    <3>2. process[s] \in R!Process
      BY <1>t DEF PanelTyped
    <3>3. [process[s] EXCEPT !.remote = "refused"]
            = [process[s] EXCEPT !.remote = "refused", !.says = process[s].says]
          /\ process[s].says \in BOOLEAN
      BY <3>2 DEF R!Process
    <3>4. process' = [process EXCEPT ![s] =
                        IF @.local = "gone" THEN R!Free
                        ELSE [@ EXCEPT !.remote = "refused", !.says = process[s].says]]
      BY <2>r, <3>3, <1>t DEF PanelTyped
    <3>. QED
      BY <1>a, <2>1, <3>3, <3>4
  <2>2. CASE UNCHANGED <<worker, strays, doubled, orphaned>> /\ Refused
    <3>1. Recorder' /\ Shots'
      BY <1>i, <1>k, <2>1, <2>2 DEF Recorder
    <3>. QED
      BY <1>2, <2>2, <2>r, <3>1 DEF RecordingIInv
  <2>3. CASE /\ worker' = worker /\ strays' = strays + 1 /\ orphaned' = TRUE
             /\ doubled' = (doubled \/ worker # "off" \/ strays > 0) /\ Refused
    <3>1. strays' \in Nat /\ strays' > 0
      BY <1>i, <2>3 DEF Recorder
    <3>2. doubled' \in BOOLEAN
      BY <2>3
    <3>3. Recorder' /\ Shots'
      BY <1>i, <1>k, <2>1, <2>3, <3>1, <3>2 DEF Recorder
    <3>. QED
      BY <1>2, <2>3, <2>r, <3>3 DEF RecordingIInv
  <2>4. CASE /\ worker = "off" /\ worker' = "opening" /\ strays' = strays /\ orphaned' = orphaned
             /\ doubled' = (doubled \/ worker # "off" \/ strays > 0)
             /\ process' = [process EXCEPT ![s] =
                              IF @.local = "gone" THEN R!Free
                              ELSE [@ EXCEPT !.remote = "answered", !.says = TRUE]]
    <3>1. RecordPanel' /\ LockFits'
      BY <1>a, <2>1, <2>4
    <3>2. device # "worker" /\ doubled' \in BOOLEAN /\ (doubled' => orphaned')
      BY <1>i, <2>4 DEF Recorder
    <3>3. Recorder' /\ Shots'
      BY <1>i, <1>k, <2>1, <2>4, <3>2 DEF Recorder
    <3>. QED
      BY <1>2, <3>1, <3>3 DEF RecordingIInv
  <2>. QED
    <3>1. \/ R!Refuse(s) /\ UNCHANGED <<worker, strays, doubled, orphaned>>
          \/ R!Refuse(s) /\ strays' = strays + 1 /\ orphaned' = TRUE /\ R!Doubles
             /\ UNCHANGED worker
          \/ worker = "off" /\ worker' = "opening" /\ R!Doubles /\ R!Answer(s, TRUE)
             /\ UNCHANGED <<strays, orphaned>>
      BY <1>3 DEF R!StartRecording, R!Recorded
    <3>. QED
      BY <2>2, <2>3, <2>4, <3>1 DEF R!Refuse, R!Answer, R!Doubles
<1>4. CASE R!StopRecording(s)
  <2>1. /\ process[s].local # "free" /\ process[s].remote = "asked" /\ lock = 0
        /\ process[s].action = "stop" /\ lock' = s
        /\ UNCHANGED <<device, strays, doubled, orphaned>>
        /\ process' = [process EXCEPT ![s].remote = "waiting"]
    BY <1>4 DEF R!StopRecording, R!AtNuc
  <2>2. worker' = IF worker # "off" THEN "ending" ELSE "off"
    BY <1>4 DEF R!StopRecording, R!Recorded
  <2>. DEFINE p == [process[s] EXCEPT !.remote = "waiting"]
  <2>3. p \in R!Process /\ p.remote = "waiting" /\ p.action = process[s].action
        /\ p.local = process[s].local
    BY <1>t DEF PanelTyped, R!Process
  <2>4. process' = [process EXCEPT ![s] = p]
    BY <2>1
  <2>. HIDE DEF p
  <2>5. /\ process' \in [Slots -> R!Process] /\ process'[s] = p
        /\ \A q \in Slots : q # s => process'[q] = process[q]
    BY <1>t, <2>3, <2>4, SlotChanged DEF PanelTyped
  <2>6. PanelTyped'
    BY <1>2, <1>t, <2>5 DEF PanelTyped
  <2>7. RecordPanel'
    <3>1. \A q \in Slots : process'[q].local = process[q].local
      BY <2>3, <2>5
    <3>2. current # 0 => process'[current].local \in {"running", "failed"}
      BY <1>i, <1>t, <3>1 DEF RecordPanel, PanelTyped
    <3>. QED
      BY <1>i, <1>2, <2>6, <3>2 DEF RecordPanel
  <2>8. LockFits'
    <3>1. \A q \in Slots : process[q].remote # "waiting"
      BY <1>i, <2>1, RecordingAssumption DEF LockFits
    <3>2. /\ process'[s].remote = "waiting" /\ process'[s].action = "stop"
          /\ process'[s].local # "free" /\ lock' = s
      BY <2>1, <2>3, <2>5
    <3>3. \A q \in Slots : process'[q].remote = "waiting" <=> lock' = q
      BY <2>5, <3>1, <3>2
    <3>. QED
      BY <3>2, <3>3 DEF LockFits
  <2>9. Recorder' /\ Shots'
    BY <1>i, <1>k, <2>1, <2>2 DEF Recorder
  <2>. QED
    BY <1>2, <2>7, <2>8, <2>9 DEF RecordingIInv
<1>5. CASE R!StopWaited(s)
  <2>1. /\ lock = s /\ lock' = 0 /\ worker' = "off" /\ UNCHANGED <<strays, doubled, orphaned>>
        /\ device' = IF device = "worker" THEN "none" ELSE device
        /\ process' = [process EXCEPT ![s] = IF @.local = "gone" THEN R!Free
                                             ELSE [@ EXCEPT !.remote = "answered", !.says = FALSE]]
    BY <1>5 DEF R!StopWaited, R!Answer
  <2>2. process[s].local # "free"
    BY <1>i, <2>1 DEF LockFits
  <2>3. /\ RecordPanel' /\ process'[s].remote # "waiting"
        /\ \A q \in Slots : q # s => process'[q] = process[q]
    BY <1>i, <1>2, <2>1, <2>2, AnsweredSlot
  <2>4. LockFits'
    <3>1. \A q \in Slots : q # 0 /\ process'[q].remote # "waiting"
      BY <1>i, <2>1, <2>3, RecordingAssumption DEF LockFits
    <3>. QED
      BY <2>1, <3>1 DEF LockFits
  <2>5. Recorder' /\ Shots'
    BY <1>i, <1>k, <2>1 DEF Recorder
  <2>. QED
    BY <1>2, <2>3, <2>4, <2>5 DEF RecordingIInv
<1>6. CASE R!Status(s)
  <2>1. /\ process[s].local # "free" /\ process[s].remote = "asked"
        /\ UNCHANGED <<worker, strays, device, lock, doubled, orphaned>>
        /\ \E b \in BOOLEAN :
             process' = [process EXCEPT ![s] =
                           IF @.local = "gone" THEN R!Free
                           ELSE [@ EXCEPT !.remote = "answered", !.says = b]]
    BY <1>6 DEF R!Status, R!AtNuc, R!Answer, R!Recorded, R!nucVars
  <2>3. RecordPanel' /\ LockFits'
    BY <1>a, <2>1
  <2>4. Recorder' /\ Shots'
    BY <1>i, <1>k, <2>1 DEF Recorder
  <2>. QED
    BY <1>2, <2>3, <2>4 DEF RecordingIInv
<1>. QED
  BY <1>3, <1>4, <1>5, <1>6 DEF R!Command

LEMMA WorkerStep ==
  ASSUME RecordingIInv, R!WorkerOpens \/ R!WorkerEnds \/ R!StrayWorks
  PROVE  RecordingIInv'
<1>i. /\ RecordPanel /\ CapturePanel /\ ButtonsTyped /\ BoundsTyped /\ Recorder /\ Shots
      /\ LockFits
  BY DEF RecordingIInv
<1>1. R!OnNuc /\ UNCHANGED <<capture, shots, process, lock, doubled, orphaned, losses>>
  BY DEF R!WorkerOpens, R!WorkerEnds, R!StrayWorks, R!captureVars
<1>2. /\ UNCHANGED <<link, tunnel, action, routes, current, tries, recording>>
      /\ ButtonsTyped' /\ BoundsTyped'
  BY <1>1, <1>i, OnNucSame
<1>3. CapturePanel' /\ RecordPanel' /\ LockFits'
  BY <1>1, <1>2, <1>i DEF CapturePanel, RecordPanel, PanelTyped, LockFits
<1>4. CASE R!WorkerOpens \/ R!WorkerEnds
  <2>1. /\ strays' = strays
        /\ \/ worker = "opening" /\ device = "none" /\ worker' = "on" /\ device' = "worker"
           \/ worker = "opening" /\ worker' = "off" /\ device' = device
           \/ /\ worker \in {"on", "ending"} /\ worker' = "off"
              /\ device' = IF device = "worker" THEN "none" ELSE device
    BY <1>4 DEF R!WorkerOpens, R!WorkerEnds
  <2>2. Recorder'
    BY <1>1, <1>i, <2>1 DEF Recorder
  <2>3. Shots'
    BY <1>1, <1>i, <2>1 DEF Shots
  <2>. QED
    BY <1>2, <1>3, <2>2, <2>3 DEF RecordingIInv
<1>5. CASE R!StrayWorks
  <2>1. /\ strays > 0 /\ worker' = worker
        /\ \/ device = "none" /\ device' = "stray" /\ strays' = strays
           \/ device = "stray" /\ device' = "none" /\ strays' = strays - 1
           \/ /\ device # "none" /\ (device = "stray" => strays > 1)
              /\ strays' = strays - 1 /\ device' = device
    BY <1>5 DEF R!StrayWorks
  <2>2. strays \in Nat
    BY <1>i DEF Recorder
  <2>3. strays' \in Nat /\ (device' = "stray" => strays' > 0) /\ orphaned = TRUE
    <3>1. orphaned = TRUE
      BY <1>i, <2>1 DEF Recorder
    <3>2. strays' \in Nat /\ (device' = "stray" => strays' > 0)
      BY <2>1, <2>2
    <3>. QED
      BY <3>1, <3>2
  <2>4. Recorder'
    BY <1>1, <1>i, <2>1, <2>3 DEF Recorder
  <2>5. Shots'
    BY <1>1, <1>i, <2>1 DEF Shots
  <2>. QED
    BY <1>2, <1>3, <2>4, <2>5 DEF RecordingIInv
<1>. QED
  BY <1>4, <1>5

-----------------------------------------------------------------------------
(* The invariant.                                                          *)

LEMMA RecordingInit == R!Init => RecordingIInv
<1>. SUFFICES ASSUME R!Init PROVE RecordingIInv
  OBVIOUS
<1>1. /\ link \in Links /\ tunnel = FALSE
      /\ action = "" /\ routes = <<>> /\ current = 0 /\ tries = 0 /\ recording = FALSE
      /\ startOn = (link # "cloud") /\ stopOn = FALSE /\ captureOn = (link # "cloud")
      /\ process = [s \in Slots |-> R!Free] /\ capture = R!NoCapture
      /\ shots = [asked |-> 0, taking |-> FALSE]
      /\ worker = "off" /\ strays = 0 /\ device = "none" /\ lock = 0
      /\ doubled = FALSE /\ orphaned = FALSE
      /\ clicks = 0 /\ losses = 0
  BY DEF R!Init
<1>2. <<>> \in R!Routes
  BY NoCaptureFits DEF R!NoCapture, R!Capture
<1>3. 0 \in 0..MaxClicks /\ 0 \in 0..MaxLosses /\ 0 \in Nat
  BY RecordingAssumption
<1>4. \A s \in Slots : s # 0
  BY RecordingAssumption
<1>5. PanelTyped
  BY <1>1, <1>2, <1>3, FreeSlot DEF PanelTyped
<1>6. RecordPanel
  BY <1>1, <1>5 DEF RecordPanel
<1>7. CapturePanel
  <2>1. /\ R!NoCapture.busy = FALSE /\ R!NoCapture.running = FALSE
        /\ R!NoCapture.tries = 0 /\ 0 # 1 /\ R!NoCapture.unstarted = FALSE
    BY DEF R!NoCapture
  <2>. QED
    BY <1>1, <2>1, NoCaptureFits DEF CapturePanel
<1>8. ButtonsTyped /\ BoundsTyped /\ Recorder
  <2>1. ButtonsTyped /\ BoundsTyped
    BY <1>1, <1>3 DEF ButtonsTyped, BoundsTyped
  <2>2. Recorder
    <3>1. ~(0 > 0)
      OBVIOUS
    <3>. QED
      BY <1>1, <1>3, <3>1 DEF Recorder
  <2>. QED
    BY <2>1, <2>2
<1>9. Shots
  BY <1>1, <1>3 DEF Shots
<1>10. LockFits
  BY <1>1, <1>4, FreeSlot DEF LockFits
<1>. QED
  BY <1>6, <1>7, <1>8, <1>9, <1>10 DEF RecordingIInv

\* A step of the record half of the panel.
LEMMA RecordStep ==
  ASSUME RecordingIInv, RecordPanel', ButtonsTyped', StopKept, BoundsTyped',
         UNCHANGED <<capture, shots, worker, strays, device, lock, doubled, orphaned>>
  PROVE  RecordingIInv'
<1>1. LockFits'
  BY LockSame DEF RecordingIInv
<1>2. CapturePanel' /\ Recorder' /\ Shots'
  BY DEF RecordingIInv, CapturePanel, Recorder, Shots
<1>. QED
  BY <1>1, <1>2 DEF RecordingIInv

\* A step of the picture half.
LEMMA PictureStep ==
  ASSUME RecordingIInv, CapturePanel', ButtonsTyped', BoundsTyped',
         shots' \in [asked : Nat, taking : BOOLEAN], shots'.taking = shots.taking,
         shots.taking => shots'.asked > 0,
         UNCHANGED <<action, routes, current, tries, recording, process, link, tunnel>>,
         UNCHANGED <<worker, strays, device, lock, doubled, orphaned>>
  PROVE  RecordingIInv'
<1>1. RecordPanel' /\ LockFits'
  BY DEF RecordingIInv, RecordPanel, PanelTyped, LockFits
<1>3. Recorder'
  BY DEF RecordingIInv, Recorder
<1>2. Shots'
  BY DEF RecordingIInv, Shots
<1>. QED
  BY <1>1, <1>2, <1>3 DEF RecordingIInv

LEMMA RecordingNext == RecordingIInv /\ [R!Next]_R!vars => RecordingIInv'
<1>. SUFFICES ASSUME RecordingIInv, [R!Next]_R!vars PROVE RecordingIInv'
  OBVIOUS
<1>i. /\ RecordPanel /\ CapturePanel /\ ButtonsTyped /\ BoundsTyped /\ Recorder /\ Shots
      /\ LockFits /\ PanelTyped
  BY DEF RecordingIInv, RecordPanel
<1>b. clicks \in 0..MaxClicks /\ losses \in 0..MaxLosses
  BY <1>i DEF BoundsTyped
<1>1. CASE R!ClickRecord
  <2>1. /\ clicks' \in 0..MaxClicks
        /\ UNCHANGED <<worker, strays, device, lock, doubled, orphaned>>
    BY <1>1, <1>i, ClickBound DEF R!ClickRecord, R!nucVars
  <2>2. \E a \in R!Action : R!Run(a)
    BY <1>1 DEF R!ClickRecord, R!Action
  <2>3. /\ RecordPanel' /\ ButtonsTyped' /\ StopKept /\ UNCHANGED <<capture, shots>>
        /\ losses' = losses \/ R!Fault
    BY <1>i, <2>2, RunStep
  <2>4. losses' \in 0..MaxLosses
    BY <1>b, <1>i, <2>3, LossBound
  <2>. QED
    BY <2>1, <2>3, <2>4, RecordStep DEF BoundsTyped
<1>2. CASE R!Tick \/ R!Retry
  <2>1. UNCHANGED <<worker, strays, device, lock, doubled, orphaned, clicks>>
    BY <1>2 DEF R!Tick, R!Retry, R!nucVars
  <2>2. /\ RecordPanel' /\ ButtonsTyped' /\ StopKept /\ UNCHANGED <<capture, shots>>
        /\ losses' = losses \/ R!Fault
    <3>1. CASE R!Tick
      <4>1. R!Run("status") /\ "status" \in R!Action
        BY <3>1 DEF R!Tick, R!Action
      <4>. QED
        BY <1>i, <4>1, RunStep
    <3>2. CASE R!Retry
      BY <1>i, <3>2, RetryStep
    <3>. QED
      BY <1>2, <3>1, <3>2
  <2>3. losses' \in 0..MaxLosses
    BY <1>b, <1>i, <2>2, LossBound
  <2>. QED
    BY <1>b, <2>1, <2>2, <2>3, RecordStep DEF BoundsTyped
<1>3. ASSUME NEW s \in Slots, R!Finished(s) \/ R!Failed(s) PROVE RecordingIInv'
  <2>1. process[s] \in R!Process
    BY <1>i DEF PanelTyped
  <2>2. CASE R!Finished(s)
    <3>1. /\ process[s].remote # "waiting" /\ losses' = losses
          /\ R!Finish(s, process[s].remote = "answered", R!Free)
      BY <2>2 DEF R!Finished
    <3>2. (process[s].remote = "answered") \in BOOLEAN
      OBVIOUS
    <3>3. /\ RecordPanel' /\ ButtonsTyped' /\ StopKept
          /\ UNCHANGED <<capture, shots, clicks, worker, strays, device, lock, doubled, orphaned>>
      BY <1>i, <3>1, <3>2, FreeSlot, FinishStep
    <3>. QED
      BY <1>b, <3>1, <3>3, RecordStep DEF BoundsTyped
  <2>3. CASE R!Failed(s)
    <3>. DEFINE gone == [process[s] EXCEPT !.local = "gone"]
    <3>1. losses' \in 0..MaxLosses
      BY <1>i, <2>3, LossBound DEF R!Failed
    <3>2. /\ gone \in R!Process /\ gone.remote = process[s].remote
          /\ gone.local = "gone" /\ gone.action = process[s].action
      BY <2>1 DEF R!Process
    <3>3. \/ process[s].remote = "asked" /\ R!Finish(s, FALSE, R!Free)
          \/ R!Finish(s, FALSE, gone)
      BY <2>3 DEF R!Failed
    <3>. HIDE DEF gone
    <3>4. /\ RecordPanel' /\ ButtonsTyped' /\ StopKept
          /\ UNCHANGED <<capture, shots, clicks, worker, strays, device, lock, doubled, orphaned>>
      <4>1. CASE process[s].remote = "asked" /\ R!Finish(s, FALSE, R!Free)
        BY <1>i, <4>1, FreeSlot, FinishStep
      <4>2. CASE R!Finish(s, FALSE, gone)
        BY <1>i, <3>2, <4>2, FinishStep
      <4>. QED
        BY <3>3, <4>1, <4>2
    <3>. QED
      BY <1>b, <3>1, <3>4, RecordStep DEF BoundsTyped
  <2>. QED
    BY <1>3, <2>2, <2>3
<1>4. CASE R!ClickCapture \/ R!RetryCapture
  <2>1. /\ UNCHANGED <<worker, strays, device, lock, doubled, orphaned>>
        /\ clicks' \in 0..MaxClicks
    BY <1>4, <1>b, <1>i, ClickBound DEF R!ClickCapture, R!RetryCapture, R!nucVars
  <2>2. \E rs \in R!Routes : R!TryCapture(rs)
    <3>1. R!TryCapture(R!RoutesOf(link)) \/ R!TryCapture(capture.routes)
      BY <1>4 DEF R!ClickCapture, R!RetryCapture
    <3>2. R!RoutesOf(link) \in R!Routes /\ capture.routes \in R!Routes
      BY <1>i, RoutesOfLink DEF PanelTyped, CapturePanel, R!Capture
    <3>. QED
      BY <3>1, <3>2
  <2>3. /\ CapturePanel' /\ ButtonsTyped' /\ shots'.taking = shots.taking
        /\ shots' \in [asked : Nat, taking : BOOLEAN] /\ (shots.taking => shots'.asked > 0)
        /\ UNCHANGED <<action, routes, current, tries, recording, process, link, tunnel>>
        /\ losses' = losses \/ R!Fault
    BY <1>i, <2>2, TryCaptureStep
  <2>4. losses' \in 0..MaxLosses
    BY <1>b, <1>i, <2>3, LossBound
  <2>. QED
    BY <2>1, <2>3, <2>4, PictureStep DEF BoundsTyped
<1>5. ASSUME NEW valid \in BOOLEAN, R!CaptureFinished(valid) PROVE RecordingIInv'
  <2>1. UNCHANGED <<worker, strays, device, lock, doubled, orphaned, clicks>> /\ losses' \in 0..MaxLosses
    BY <1>5, <1>b, <1>i, LossBound DEF R!CaptureFinished, R!nucVars
  <2>2. /\ CapturePanel' /\ ButtonsTyped' /\ shots' = shots
        /\ UNCHANGED <<action, routes, current, tries, recording, process, link, tunnel>>
    BY <1>5, <1>i, CaptureFinishedStep
  <2>3. shots \in [asked : Nat, taking : BOOLEAN] /\ (shots.taking => shots.asked > 0)
    BY <1>i DEF Shots
  <2>. QED
    BY <1>b, <2>1, <2>2, <2>3, PictureStep DEF BoundsTyped
<1>6. CASE R!TunnelReady \/ R!TunnelFailed \/ R!LinkChanged
  <2>1. /\ UNCHANGED <<action, routes, current, tries, recording, process, capture, shots>>
        /\ UNCHANGED <<worker, strays, device, lock, doubled, orphaned>> /\ R!UpdateButtons
    BY <1>6 DEF R!TunnelReady, R!TunnelFailed, R!LinkChanged, R!actionVars, R!captureVars,
                R!nucVars
  <2>2. link' \in Links /\ tunnel' \in BOOLEAN
    BY <1>6, <1>i DEF R!TunnelReady, R!TunnelFailed, R!LinkChanged, PanelTyped
  <2>3. BoundsTyped'
    <3>1. CASE R!TunnelReady
      BY <1>b, <3>1 DEF R!TunnelReady, BoundsTyped
    <3>2. CASE R!TunnelFailed
      BY <1>b, <1>i, <3>2, LossBound DEF R!TunnelFailed, BoundsTyped
    <3>3. CASE R!LinkChanged
      BY <1>b, <1>i, <3>3, ClickBound DEF R!LinkChanged, BoundsTyped
    <3>. QED
      BY <1>6, <3>1, <3>2, <3>3
  <2>4. PanelTyped'
    BY <1>i, <2>1, <2>2 DEF PanelTyped
  <2>5. RecordPanel' /\ ButtonsTyped' /\ StopKept
    BY <1>i, <2>1, <2>4, ButtonsUpdated, SameProcesses DEF RecordPanel
  <2>. QED
    BY <2>1, <2>3, <2>5, RecordStep
<1>7. CASE R!Snapshot
  <2>1. /\ CapturePanel' /\ Recorder' /\ Shots'
        /\ UNCHANGED <<link, tunnel, action, routes, current, tries, recording, process,
                       startOn, stopOn, captureOn, clicks, losses, lock>>
    BY <1>i, <1>7, SnapshotStep
  <2>2. RecordPanel' /\ ButtonsTyped' /\ BoundsTyped' /\ LockFits'
    BY <1>i, <2>1 DEF RecordPanel, PanelTyped, ButtonsTyped, BoundsTyped, LockFits
  <2>. QED
    BY <2>1, <2>2 DEF RecordingIInv
<1>8. CASE \E s \in Slots : R!Command(s)
  BY <1>8, CommandStep
<1>9. CASE R!WorkerOpens \/ R!WorkerEnds \/ R!StrayWorks
  BY <1>9, WorkerStep
<1>10. CASE UNCHANGED R!vars
  <2>1. UNCHANGED <<link, tunnel, action, routes, current, tries, recording, process,
                    startOn, stopOn, captureOn, capture, shots, worker, strays, device, lock, doubled, orphaned,
                    clicks, losses>>
    BY <1>10 DEF R!vars, R!actionVars, R!buttonVars, R!captureVars, R!nucVars
  <2>2. RecordPanel' /\ ButtonsTyped' /\ BoundsTyped' /\ StopKept
    BY <1>i, <2>1, SameProcesses DEF RecordPanel, PanelTyped, ButtonsTyped, BoundsTyped
  <2>. QED
    BY <2>1, <2>2, RecordStep
<1>. QED
  BY <1>1, <1>2, <1>3, <1>4, <1>5, <1>6, <1>7, <1>8, <1>9, <1>10 DEF R!Next, R!Nuc

\* _try_record_action, _capture_finished, start_recording, stop_recording and
\* hik_usb_snapshot.py: however many routes are tried, and whatever a command
\* that was given up still does at the NUC, the camera has one worker unless a
\* start failed after it had started its own, it is held by the one that uses
\* it, a stop keeps the lock until its worker has gone, and the panel waits for
\* nothing that has ended, only for what was never started.
THEOREM RecordingKeepsInvariant == R!Spec => []RecordingInvariant
<1>1. RecordingIInv => RecordingInvariant
  <2>. SUFFICES ASSUME RecordingIInv PROVE RecordingInvariant
    OBVIOUS
  <2>1. RecordingTypeOK
    BY DEF RecordingIInv, RecordPanel, PanelTyped, CapturePanel, ButtonsTyped, BoundsTyped,
           Recorder, Shots, LockFits, RecordingTypeOK, Routes, Route, Action, Process, Capture,
           R!Routes, R!Route, R!Action, R!Process, R!Capture
  <2>2. OneWorker /\ CameraHeld
    BY DEF RecordingIInv, Recorder, Shots, OneWorker, CameraHeld
  <2>3. StopHoldsLock
    BY DEF RecordingIInv, Recorder, LockFits, StopHoldsLock
  <2>4. PanelGoesOn
    BY DEF RecordingIInv, RecordPanel, CapturePanel, PanelGoesOn, Stranded
  <2>. QED
    BY <2>1, <2>2, <2>3, <2>4 DEF RecordingInvariant
<1>2. R!Spec => []RecordingIInv
  BY RecordingInit, RecordingNext, PTL DEF R!Spec
<1>. QED
  BY <1>1, <1>2, PTL
=============================================================================
