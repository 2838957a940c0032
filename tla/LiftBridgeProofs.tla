-------------------------- MODULE LiftBridgeProofs --------------------------
(***************************************************************************)
(* Proofs about the lift bridge and the streams of its panels, for any     *)
(* number of panels, clicks and faults.                                    *)
(*                                                                         *)
(* The argument for the order of the frames is a pipeline: what was sent,  *)
(* what the executor has queued, what waits for the server's accept and    *)
(* what a panel has not sent yet stand one behind the other, and no step   *)
(* takes a request past another of its panel.                              *)
(***************************************************************************)
EXTENDS LiftBridge, SequenceTheorems, TLAPS

\* Only requests that were clicked are on their way.
Clicked == 1..Len(request)
OnlyClicked ==
  /\ Range(sent) \cup Range(commands) \cup Range(backlog) \subseteq Clicked
  /\ working \in Clicked \cup {0} /\ serving \in Clicked \cup {0}
  /\ \A r \in Request : stage[r] # "none" => r \in Clicked

Same(p, q) == request[p].stream = request[q].stream
Precede(P, Q) == \A p \in P, q \in Q : Same(p, q) => p < q
Increasing(s) == \A i, j \in 1..Len(s) : i < j /\ Same(s[i], s[j]) => s[i] < s[j]
Piped == {r \in Request : stage[r] = "piped"}

\* The requests of a panel keep the order of its clicks wherever they are.
PipelineInOrder ==
  /\ Increasing(sent) /\ Increasing(commands) /\ Increasing(backlog)
  /\ Precede(Range(sent), Range(commands) \cup Range(backlog) \cup Piped)
  /\ Precede(Range(commands), Range(backlog) \cup Piped)
  /\ Precede(Range(backlog), Piped)

\* The event of a request is set after its response.
DoneHasResponse ==
  /\ \A r \in done : response[r] # "unprocessed"
  /\ working # 0 => response[working] # "unprocessed"

ResponseOkIsSent == \A r \in Request : response[r] = "ok" => r \in Range(sent)

\* While the port is closed the status shows a fault.
ClosedIsFault == node = "up" => port \/ fault

WaitingIsServing == server = "waiting" <=> serving # 0

Lone == \A p, q \in Clicked : Same(p, q)
\* A panel alone has one connection at a time, and the server waits for it.
LoneIsOpen ==
  node = "up" /\ kills = 0 /\ Lone =>
    /\ server # "dead" /\ behind = {}
    /\ serving # 0 => Open(serving) /\ backlog = <<>>
    /\ Len(backlog) <= 1
    /\ \A r \in Range(backlog) : Open(r)

IInv ==
  /\ TypeOK
  /\ OnlyClicked
  /\ PipelineInOrder
  /\ DoneHasResponse
  /\ ResponseOkIsSent
  /\ OkMeansWritten
  /\ ClosedIsFault
  /\ StatusTellsMotion
  /\ CleanExitStops
  /\ WaitingIsServing
  /\ LoneIsOpen

-----------------------------------------------------------------------------
(* Sequences of requests.                                                  *)

LEMMA Bounds ==
  /\ MaxRequests \in Nat /\ MaxRos \in Nat /\ MaxFaults \in Nat /\ MaxKills \in Nat
  /\ \A a \in Buttons : a \in Action
BY LiftAssumption

LEMMA EmptyFacts ==
  /\ <<>> \in Seq(Request) /\ Len(<<>>) = 0 /\ Range(<<>>) = {} /\ Increasing(<<>>)
<1>1. <<>> \in Seq(Request) /\ Len(<<>>) = 0 /\ DOMAIN <<>> = {}
  BY EmptySeq
<1>. QED
  BY <1>1 DEF Range, Increasing

LEMMA RangeFacts ==
  ASSUME NEW s \in Seq(Request)
  PROVE  /\ Len(s) \in Nat /\ Range(s) \subseteq Request
         /\ \A i \in 1..Len(s) : s[i] \in Range(s)
         /\ \A r \in Range(s) : \E i \in 1..Len(s) : r = s[i]
<1>1. Len(s) \in Nat /\ DOMAIN s = 1..Len(s) /\ s \in [1..Len(s) -> Request]
  BY LenProperties
<1>. QED
  BY <1>1 DEF Range

LEMMA AppendFacts ==
  ASSUME NEW s \in Seq(Request), NEW e \in Request
  PROVE  /\ Append(s, e) \in Seq(Request) /\ Len(Append(s, e)) = Len(s) + 1
         /\ Range(Append(s, e)) = Range(s) \cup {e}
         /\ Increasing(s) /\ Precede(Range(s), {e}) => Increasing(Append(s, e))
<1>1. /\ Append(s, e) \in Seq(Request) /\ Len(Append(s, e)) = Len(s) + 1
      /\ \A i \in 1..Len(s) : Append(s, e)[i] = s[i]
      /\ Append(s, e)[Len(s) + 1] = e
  BY AppendProperties
<1>. DEFINE t == Append(s, e)
<1>2. t \in Seq(Request) /\ Len(s) \in Nat
  BY <1>1, RangeFacts
<1>3. /\ t \in Seq(Request) /\ Len(t) = Len(s) + 1
      /\ \A i \in 1..Len(s) : t[i] = s[i]
      /\ t[Len(s) + 1] = e
  BY <1>1
<1>. HIDE DEF t
<1>4. /\ \A i \in 1..Len(t) : i \in 1..Len(s) \/ i = Len(s) + 1
      /\ \A i \in 1..Len(s) : i \in 1..Len(t)
      /\ Len(s) + 1 \in 1..Len(t)
  BY <1>2, <1>3
<1>5. \A r : r \in Range(t) <=> \E i \in 1..Len(t) : r = t[i]
  BY <1>3, RangeFacts
<1>6. \A r : r \in Range(s) <=> \E i \in 1..Len(s) : r = s[i]
  BY RangeFacts
<1>7. Range(t) = Range(s) \cup {e}
  BY <1>3, <1>4, <1>5, <1>6
<1>8. ASSUME Increasing(s), Precede(Range(s), {e}) PROVE Increasing(t)
  <2>. SUFFICES ASSUME NEW i \in 1..Len(t), NEW j \in 1..Len(t), i < j, Same(t[i], t[j])
                PROVE  t[i] < t[j]
    BY DEF Increasing
  <2>1. i \in 1..Len(s)
    BY <1>2, <1>3
  <2>2. t[i] = s[i] /\ s[i] \in Range(s)
    BY <1>3, <1>6, <2>1
  <2>3. CASE j \in 1..Len(s)
    BY <1>3, <1>8, <2>1, <2>2, <2>3 DEF Increasing
  <2>4. CASE j = Len(s) + 1
    BY <1>3, <1>8, <2>2, <2>4 DEF Precede
  <2>. QED
    BY <1>4, <2>3, <2>4
<1>9. t = Append(s, e)
  BY DEF t
<1>. QED
  BY <1>3, <1>7, <1>8, <1>9

LEMMA TailFacts ==
  ASSUME NEW s \in Seq(Request), s # <<>>
  PROVE  /\ Head(s) \in Range(s) /\ Head(s) \in Request /\ Tail(s) \in Seq(Request)
         /\ Len(Tail(s)) = Len(s) - 1
         /\ Range(Tail(s)) \subseteq Range(s)
         /\ Increasing(s) => Increasing(Tail(s)) /\ Precede({Head(s)}, Range(Tail(s)))
<1>. DEFINE t == Tail(s)
<1>1. /\ t \in Seq(Request) /\ Len(t) = Len(s) - 1
      /\ \A i \in 1..Len(t) : t[i] = s[i + 1]
  BY HeadTailProperties
<1>2. Head(s) = s[1] /\ Len(s) \in Nat /\ Len(s) # 0
  BY RangeFacts, EmptySeq
<1>. HIDE DEF t
<1>3. /\ 1 \in 1..Len(s)
      /\ \A i \in 1..Len(t) : i + 1 \in 1..Len(s) /\ 1 < i + 1
      /\ \A i, j \in 1..Len(t) : i < j => i + 1 < j + 1
  BY <1>1, <1>2
<1>4. \A r : r \in Range(t) => \E i \in 1..Len(t) : r = t[i]
  BY <1>1, RangeFacts
<1>5. \A i \in 1..Len(s) : s[i] \in Range(s)
  BY RangeFacts
<1>6. Range(t) \subseteq Range(s) /\ Head(s) \in Range(s)
  BY <1>1, <1>2, <1>3, <1>4, <1>5
<1>7. Increasing(s) => Increasing(t)
  BY <1>1, <1>3 DEF Increasing
<1>8. Increasing(s) => Precede({Head(s)}, Range(t))
  BY <1>1, <1>2, <1>3, <1>4 DEF Increasing, Precede
<1>9. Range(s) \subseteq Request
  BY RangeFacts
<1>. QED
  BY <1>1, <1>6, <1>7, <1>8, <1>9 DEF t

-----------------------------------------------------------------------------
(* Types.                                                                  *)

PortType ==
  /\ port \in BOOLEAN /\ moving \in BOOLEAN /\ fault \in BOOLEAN
  /\ lift \in Action /\ doubt \in BOOLEAN /\ faults \in 0..MaxFaults
QueueType ==
  /\ commands \in Seq(Request) /\ sent \in Seq(Request)
  /\ working \in Request \cup {0}
  /\ response \in [Request -> {"unprocessed", "ok", "error"}]
  /\ done \subseteq Request
ServerType ==
  /\ server \in {"listening", "waiting", "dead"}
  /\ serving \in Request \cup {0} /\ backlog \in Seq(Request)
StreamType ==
  /\ ended \subseteq Streams /\ behind \subseteq Request
  /\ request \in Seq([stream : Streams, action : Action])
  /\ Len(request) <= MaxRequests
  /\ stage \in [Request -> {"none", "piped", "connected", "closed"}]
  /\ answer \in [Request -> {"none", "ok", "error", "timeout", "gone"}]
  /\ kills \in 0..MaxKills

LEMMA TypeParts ==
  TypeOK <=> /\ node \in {"up", "down", "failed"} /\ ros \in 0..MaxRos
             /\ PortType /\ QueueType /\ ServerType /\ StreamType
BY DEF TypeOK, PortType, QueueType, ServerType, StreamType

LEMMA TypePartsNext ==
  /\ node' \in {"up", "down", "failed"} /\ ros' \in 0..MaxRos
  /\ PortType' /\ QueueType' /\ ServerType' /\ StreamType'
  => TypeOK'
BY DEF TypeOK, PortType, QueueType, ServerType, StreamType

LEMMA ClickedFacts ==
  ASSUME TypeOK
  PROVE  /\ Len(request) \in Nat /\ Clicked \subseteq Request
         /\ \A r \in Clicked : request[r] \in [stream : Streams, action : Action]
<1>1. request \in Seq([stream : Streams, action : Action]) /\ Len(request) <= MaxRequests
  BY DEF TypeOK
<1>2. Len(request) \in Nat /\ \A r \in 1..Len(request) :
        request[r] \in [stream : Streams, action : Action]
  BY <1>1, LenProperties, ElementOfSeq
<1>. QED
  BY <1>1, <1>2, Bounds DEF Clicked, Request

LEMMA TypeInit == Init => TypeOK
<1>. SUFFICES ASSUME Init PROVE TypeOK
  OBVIOUS
<1>1. PortType
  <2>1. faults \in 0..MaxFaults
    BY Bounds DEF Init
  <2>. QED
    BY <2>1 DEF Init, PortType, Action
<1>2. QueueType /\ ServerType
  BY EmptyFacts DEF Init, QueueType, ServerType
<1>3. StreamType
  <2>1. request \in Seq([stream : Streams, action : Action]) /\ Len(request) = 0
    BY EmptySeq DEF Init
  <2>2. Len(request) <= MaxRequests /\ kills \in 0..MaxKills
    BY <2>1, Bounds DEF Init
  <2>. QED
    BY <2>1, <2>2 DEF Init, StreamType
<1>4. node \in {"up", "down", "failed"} /\ ros \in 0..MaxRos
  BY Bounds DEF Init
<1>. QED
  BY <1>1, <1>2, <1>3, <1>4, TypeParts

LEMMA WriteType ==
  ASSUME PortType, NEW a \in Action, Written(a) \/ NotOpened(a) \/ WriteFails(a)
  PROVE  PortType'
<1>1. faults' \in 0..MaxFaults
  <2>1. faults' = faults \/ (faults < MaxFaults /\ faults' = faults + 1)
    BY DEF Written, NotOpened, WriteFails
  <2>. QED
    BY <2>1, Bounds DEF PortType
<1>2. lift' \in Action /\ doubt' \in BOOLEAN /\ port' \in BOOLEAN /\ fault' \in BOOLEAN
  BY DEF Written, NotOpened, WriteFails, PortType
<1>3. moving' \in BOOLEAN
  BY DEF Written, NotOpened, WriteFails, PortType
<1>. QED
  BY <1>1, <1>2, <1>3 DEF PortType

LEMMA ExecutorType ==
  ASSUME TypeOK, OnlyClicked, Executor
  PROVE  TypeOK'
<1>t. /\ node \in {"up", "down", "failed"} /\ ros \in 0..MaxRos
      /\ PortType /\ QueueType /\ ServerType /\ StreamType
  BY TypeParts
<1>f. faults < MaxFaults => faults + 1 \in 0..MaxFaults
  BY <1>t, Bounds DEF PortType
<1>1. UNCHANGED <<serverVars, streamVars, node>>
  BY DEF Executor, EnsureConnected, OnCommand, Drain, Finish
<1>2. ServerType' /\ StreamType' /\ node' \in {"up", "down", "failed"}
  BY <1>t, <1>1 DEF serverVars, streamVars, ServerType, StreamType
<1>3. CASE EnsureConnected
  <2>1. faults' \in 0..MaxFaults
    BY <1>t, <1>f, <1>3 DEF EnsureConnected, PortType
  <2>2. PortType' /\ QueueType' /\ ros' \in 0..MaxRos
    BY <1>t, <1>3, <2>1 DEF EnsureConnected, PortType, QueueType, queueVars
  <2>. QED
    BY <1>2, <2>2, TypePartsNext
<1>4. CASE OnCommand
  <2>1. ros' \in 0..MaxRos
    BY <1>t, <1>4, Bounds DEF OnCommand
  <2>2. PortType'
    <3>1. CASE \E a \in Buttons : Written(a) \/ NotOpened(a) \/ WriteFails(a)
      BY <1>t, <3>1, Bounds, WriteType
    <3>2. CASE fault' = TRUE /\ port' = FALSE /\ UNCHANGED <<moving, lift, doubt, faults>>
      BY <1>t, <3>2 DEF PortType
    <3>. QED
      BY <1>4, <3>1, <3>2 DEF OnCommand
  <2>3. QueueType'
    BY <1>t, <1>4 DEF OnCommand, QueueType, queueVars
  <2>. QED
    BY <1>2, <2>1, <2>2, <2>3, TypePartsNext
<1>5. CASE Drain
  <2>1. /\ working' \in Request /\ commands' \in Seq(Request) /\ done' = done /\ ros' = ros
    BY <1>t, <1>5, TailFacts DEF Drain, Take, QueueType
  <2>2. PICK a \in Action : Written(a) \/ NotOpened(a) \/ WriteFails(a)
    <3>1. working' \in Range(commands)
      BY <1>t, <1>5, TailFacts DEF Drain, Take, QueueType
    <3>2. request[working'].action \in Action
      BY <3>1, ClickedFacts DEF OnlyClicked
    <3>. QED
      BY <1>5, <3>2 DEF Drain
  <2>3. /\ response' \in [Request -> {"unprocessed", "ok", "error"}]
        /\ sent' = sent \/ sent' = Append(sent, working')
    BY <1>t, <1>5 DEF Drain, Respond, QueueType
  <2>4. QueueType'
    <3>1. sent' \in Seq(Request)
      BY <1>t, <2>1, <2>3, AppendFacts DEF QueueType
    <3>2. done' \subseteq Request
      BY <1>t, <2>1 DEF QueueType
    <3>. QED
      BY <2>1, <2>3, <3>1, <3>2 DEF QueueType
  <2>5. PortType'
    BY <1>t, <2>2, WriteType
  <2>. QED
    BY <1>2, <1>t, <2>1, <2>4, <2>5, TypePartsNext
<1>6. CASE Finish
  <2>1. PortType' /\ ros' \in 0..MaxRos
    BY <1>t, <1>6 DEF Finish, executorVars, PortType
  <2>2. QueueType'
    BY <1>t, <1>6 DEF Finish, QueueType
  <2>. QED
    BY <1>2, <2>1, <2>2, TypePartsNext
<1>. QED
  BY <1>3, <1>4, <1>5, <1>6 DEF Executor

LEMMA BreakType ==
  ASSUME StreamType, NEW R, Break(R)
  PROVE  /\ stage' \in [Request -> {"none", "piped", "connected", "closed"}]
         /\ answer' \in [Request -> {"none", "ok", "error", "timeout", "gone"}]
<1>1. \A r \in Request :
        /\ stage[r] \in {"none", "piped", "connected", "closed"}
        /\ answer[r] \in {"none", "ok", "error", "timeout", "gone"}
  BY DEF StreamType
<1>. QED
  BY <1>1 DEF Break

\* What the server sends is a text of an answer.
LEMMA AnswersSend ==
  ASSUME TypeOK, DoneHasResponse, Answer \/ AnswerTimeout
  PROVE  /\ node = "up" /\ server = "waiting"
         /\ \E text \in {"ok", "error", "timeout"} :
              Send(text) /\ (text = "ok" => serving \in Request /\ response[serving] = "ok")
<1>1. CASE AnswerTimeout
  BY <1>1 DEF AnswerTimeout
<1>2. CASE Answer
  <2>1. serving \in done /\ done \subseteq Request
    BY <1>2 DEF Answer, TypeOK
  <2>2. response[serving] \in {"ok", "error"}
    BY <2>1 DEF DoneHasResponse, TypeOK
  <2>. QED
    BY <1>2, <2>1, <2>2 DEF Answer
<1>. QED
  BY <1>1, <1>2

LEMMA ServerStepType ==
  ASSUME TypeOK, DoneHasResponse, Server
  PROVE  TypeOK'
<1>t. /\ node \in {"up", "down", "failed"} /\ ros \in 0..MaxRos
      /\ PortType /\ QueueType /\ ServerType /\ StreamType
  BY TypeParts
<1>1. CASE Serve
  <2>1. Head(backlog) \in Request /\ Tail(backlog) \in Seq(Request)
    BY <1>t, <1>1, TailFacts DEF Serve, ServerType
  <2>2. commands' \in Seq(Request)
    BY <1>t, <1>1, <2>1, AppendFacts DEF Serve, QueueType
  <2>3. QueueType'
    BY <1>t, <1>1, <2>2 DEF Serve, QueueType
  <2>4. ServerType'
    BY <1>1, <2>1 DEF Serve, ServerType
  <2>5. PortType' /\ StreamType' /\ node' \in {"up", "down", "failed"} /\ ros' \in 0..MaxRos
    BY <1>t, <1>1 DEF Serve, executorVars, streamVars, PortType, StreamType
  <2>. QED
    BY <2>3, <2>4, <2>5, TypePartsNext
<1>2. CASE Answer \/ AnswerTimeout
  <2>1. PICK text \in {"ok", "error", "timeout"} : Send(text)
    BY <1>2, AnswersSend
  <2>2. PortType' /\ QueueType' /\ node' \in {"up", "down", "failed"} /\ ros' \in 0..MaxRos
    BY <1>t, <2>1 DEF Send, executorVars, queueVars, PortType, QueueType
  <2>3. ServerType'
    BY <1>t, <2>1, EmptyFacts DEF Send, ServerType
  <2>4. /\ stage' \in [Request -> {"none", "piped", "connected", "closed"}]
        /\ answer' \in [Request -> {"none", "ok", "error", "timeout", "gone"}]
    <3>1. CASE Break(Range(backlog))
      BY <1>t, <3>1, BreakType
    <3>2. CASE /\ answer' = [answer EXCEPT ![serving] = text]
               /\ stage' = [stage EXCEPT ![serving] = "closed"]
      BY <1>t, <3>2 DEF StreamType
    <3>. QED
      BY <2>1, <3>1, <3>2 DEF Send
  <2>5. StreamType'
    BY <1>t, <2>1, <2>4 DEF Send, StreamType
  <2>. QED
    BY <2>2, <2>3, <2>5, TypePartsNext
<1>. QED
  BY <1>1, <1>2 DEF Server

LEMMA ClickType ==
  ASSUME StreamType, NEW s \in Streams, NEW a \in Action, Click(s, a)
  PROVE  /\ StreamType' /\ Len(request') = Len(request) + 1
         /\ Len(request) + 1 \in Request
         /\ \A r \in 1..Len(request) : request'[r] = request[r]
<1>. DEFINE new == [stream |-> s, action |-> a]
<1>1. /\ request \in Seq([stream : Streams, action : Action])
      /\ new \in [stream : Streams, action : Action] /\ request' = Append(request, new)
  BY DEF StreamType, Click
<1>2. Len(request) \in Nat /\ Len(request) < MaxRequests
  BY <1>1, LenProperties DEF Click
<1>3. /\ request' \in Seq([stream : Streams, action : Action])
      /\ Len(request') = Len(request) + 1
      /\ \A r \in 1..Len(request) : request'[r] = request[r]
  <2>. HIDE DEF new
  <2>. QED
    BY <1>1, AppendProperties
<1>4. Len(request') <= MaxRequests /\ Len(request) + 1 \in Request
  BY <1>2, <1>3, Bounds DEF Request
<1>5. stage' \in [Request -> {"none", "piped", "connected", "closed"}]
  BY DEF StreamType, Click
<1>6. UNCHANGED <<ended, behind, answer, kills>>
  BY DEF Click
<1>. QED
  BY <1>3, <1>4, <1>5, <1>6 DEF StreamType

LEMMA StreamStepType ==
  ASSUME TypeOK, NEW s \in Streams, Stream(s)
  PROVE  TypeOK'
<1>t. /\ node \in {"up", "down", "failed"} /\ ros \in 0..MaxRos
      /\ PortType /\ QueueType /\ ServerType /\ StreamType
  BY TypeParts
<1>1. UNCHANGED <<node, executorVars, queueVars, server, serving, ros>>
  BY DEF Stream, Connect, EndStream, Click, serverVars
<1>2. PortType' /\ QueueType' /\ node' \in {"up", "down", "failed"} /\ ros' \in 0..MaxRos
  BY <1>t, <1>1 DEF executorVars, queueVars, PortType, QueueType
<1>3. CASE Connect(s)
  <2>1. PICK r \in Of(s) :
          /\ behind' = behind \cup {r} \/ behind' = behind
          /\ backlog' = Append(backlog, r) \/ backlog' = backlog
          /\ stage' = [stage EXCEPT ![r] = "connected"] \/ stage' = [stage EXCEPT ![r] = "closed"]
          /\ answer' = answer \/ answer' = [answer EXCEPT ![r] = "gone"]
    BY <1>3 DEF Connect
  <2>2. r \in Request
    BY ClickedFacts DEF Of, Clicked
  <2>3. ServerType'
    BY <1>t, <1>1, <2>1, <2>2, AppendFacts DEF ServerType
  <2>4. /\ stage' \in [Request -> {"none", "piped", "connected", "closed"}]
        /\ answer' \in [Request -> {"none", "ok", "error", "timeout", "gone"}]
    BY <1>t, <2>1 DEF StreamType
  <2>5. StreamType'
    BY <1>t, <1>3, <2>1, <2>2, <2>4 DEF Connect, StreamType
  <2>. QED
    BY <1>2, <2>3, <2>5, TypePartsNext
<1>4. CASE EndStream(s)
  <2>1. kills' \in 0..MaxKills
    BY <1>t, <1>4, Bounds DEF EndStream, StreamType
  <2>2. /\ stage' \in [Request -> {"none", "piped", "connected", "closed"}]
        /\ answer' \in [Request -> {"none", "ok", "error", "timeout", "gone"}]
    BY <1>t, <1>4, BreakType DEF EndStream
  <2>3. ServerType' /\ StreamType'
    BY <1>t, <1>4, <2>1, <2>2 DEF EndStream, serverVars, ServerType, StreamType
  <2>. QED
    BY <1>2, <2>3, TypePartsNext
<1>5. CASE \E a \in Buttons : Click(s, a)
  <2>1. StreamType'
    BY <1>t, <1>5, ClickType, Bounds
  <2>2. ServerType'
    BY <1>t, <1>5 DEF Click, serverVars, ServerType
  <2>. QED
    BY <1>2, <2>1, <2>2, TypePartsNext
<1>. QED
  BY <1>3, <1>4, <1>5 DEF Stream

LEMMA EndType ==
  ASSUME TypeOK, Exit \/ \E r \in Request : GiveUp(r)
  PROVE  TypeOK'
<1>t. /\ node \in {"up", "down", "failed"} /\ ros \in 0..MaxRos
      /\ PortType /\ QueueType /\ ServerType /\ StreamType
  BY TypeParts
<1>1. /\ stage' \in [Request -> {"none", "piped", "connected", "closed"}]
      /\ answer' \in [Request -> {"none", "ok", "error", "timeout", "gone"}]
  BY <1>t, BreakType DEF Exit, GiveUp
<1>2. StreamType'
  BY <1>t, <1>1 DEF Exit, GiveUp, StreamType
<1>3. CASE \E r \in Request : GiveUp(r)
  <2>1. /\ PortType' /\ QueueType' /\ ServerType'
        /\ node' \in {"up", "down", "failed"} /\ ros' \in 0..MaxRos
    BY <1>t, <1>3
    DEF GiveUp, executorVars, queueVars, serverVars, PortType, QueueType, ServerType
  <2>. QED
    BY <1>2, <2>1, TypePartsNext
<1>4. CASE Exit
  <2>1. faults' \in 0..MaxFaults
    <3>1. faults' = faults \/ (faults < MaxFaults /\ faults' = faults + 1)
      BY <1>4 DEF Exit, SafeStop
    <3>. QED
      BY <1>t, <3>1, Bounds DEF PortType
  <2>2. lift' \in Action /\ node' \in {"down", "failed"}
    BY <1>t, <1>4 DEF Exit, SafeStop, PortType, Action
  <2>3. PortType'
    BY <1>t, <1>4, <2>1, <2>2 DEF Exit, PortType
  <2>4. QueueType' /\ ServerType' /\ ros' \in 0..MaxRos
    BY <1>t, <1>4, EmptyFacts DEF Exit, QueueType, ServerType
  <2>. QED
    BY <1>2, <2>2, <2>3, <2>4, TypePartsNext
<1>. QED
  BY <1>3, <1>4

LEMMA TypeStep == TypeOK /\ OnlyClicked /\ DoneHasResponse /\ [Next]_vars => TypeOK'
<1>. SUFFICES ASSUME TypeOK, OnlyClicked, DoneHasResponse, [Next]_vars PROVE TypeOK'
  OBVIOUS
<1>1. CASE UNCHANGED vars
  BY <1>1 DEF vars, executorVars, queueVars, serverVars, streamVars, TypeOK
<1>. QED
  BY <1>1, ExecutorType, ServerStepType, StreamStepType, EndType DEF Next

-----------------------------------------------------------------------------
(* The requests that are on their way.                                     *)

LEMMA BreakCloses ==
  ASSUME NEW R, Break(R)
  PROVE  \A r \in Request : /\ stage'[r] = IF r \in R THEN "closed" ELSE stage[r]
                            /\ answer'[r] = IF r \in R /\ Open(r) THEN "gone" ELSE answer[r]
BY DEF Break

\* A step that closes connections, and takes nothing further down the pipeline.
LEMMA Shrinks ==
  ASSUME TypeOK, OnlyClicked, PipelineInOrder,
         request' = request, sent' = sent,
         commands' = commands \/ commands' = <<>>,
         backlog' = backlog \/ backlog' = <<>>,
         \A r \in Request : stage'[r] = stage[r] \/ (stage'[r] = "closed" /\ r \in Clicked),
         working' \in Clicked \cup {0}, serving' \in Clicked \cup {0}
  PROVE  OnlyClicked' /\ PipelineInOrder'
<1>1. /\ Range(<<>>) = {} /\ Increasing(<<>>) /\ Clicked' = Clicked
  BY EmptyFacts DEF Clicked
<1>2. Range(commands') \subseteq Range(commands) /\ Range(backlog') \subseteq Range(backlog)
  BY <1>1
<1>3. OnlyClicked'
  BY <1>1, <1>2 DEF OnlyClicked
<1>4. Piped' \subseteq Piped
  BY DEF Piped
<1>5. Increasing(sent)' /\ Increasing(commands)' /\ Increasing(backlog)'
  BY <1>1 DEF PipelineInOrder, Increasing, Same
<1>6. /\ Precede(Range(sent), Range(commands) \cup Range(backlog) \cup Piped)'
      /\ Precede(Range(commands), Range(backlog) \cup Piped)'
      /\ Precede(Range(backlog), Piped)'
  BY <1>2, <1>4 DEF PipelineInOrder, Precede, Same
<1>. QED
  BY <1>3, <1>5, <1>6 DEF PipelineInOrder

LEMMA DrainPipeline ==
  ASSUME TypeOK, OnlyClicked, PipelineInOrder, Drain
  PROVE  OnlyClicked' /\ PipelineInOrder'
<1>1. /\ commands \in Seq(Request) /\ commands # <<>> /\ sent \in Seq(Request)
      /\ UNCHANGED <<backlog, serving, stage, request>>
      /\ working' = Head(commands) /\ commands' = Tail(commands)
      /\ sent' = sent \/ sent' = Append(sent, working')
  BY DEF Drain, Take, TypeOK, serverVars, streamVars
<1>2. /\ working' \in Range(commands) /\ working' \in Request
      /\ Range(commands') \subseteq Range(commands)
      /\ Increasing(Tail(commands)) /\ Precede({working'}, Range(commands'))
  BY <1>1, TailFacts DEF PipelineInOrder
<1>3. /\ Range(Append(sent, working')) = Range(sent) \cup {working'}
      /\ Precede(Range(sent), {working'}) => Increasing(Append(sent, working'))
  BY <1>1, <1>2, AppendFacts DEF PipelineInOrder
<1>4. Precede(Range(sent), {working'})
  BY <1>2 DEF PipelineInOrder, Precede
<1>5. Range(sent') \subseteq Range(sent) \cup {working'}
  BY <1>1, <1>3
<1>6. Clicked' = Clicked /\ Piped' = Piped
  BY <1>1 DEF Clicked, Piped
<1>7. OnlyClicked'
  BY <1>1, <1>2, <1>5, <1>6 DEF OnlyClicked
<1>8. Increasing(sent)' /\ Increasing(commands)' /\ Increasing(backlog)'
  BY <1>1, <1>2, <1>3, <1>4 DEF PipelineInOrder, Increasing, Same
<1>9. Precede(Range(sent), Range(commands) \cup Range(backlog) \cup Piped)'
  BY <1>1, <1>2, <1>5, <1>6 DEF PipelineInOrder, Precede, Same
<1>10. /\ Precede(Range(commands), Range(backlog) \cup Piped)'
       /\ Precede(Range(backlog), Piped)'
  BY <1>1, <1>2, <1>6 DEF PipelineInOrder, Precede, Same
<1>. QED
  BY <1>7, <1>8, <1>9, <1>10 DEF PipelineInOrder

LEMMA ServePipeline ==
  ASSUME TypeOK, OnlyClicked, PipelineInOrder, Serve
  PROVE  OnlyClicked' /\ PipelineInOrder'
<1>. DEFINE h == Head(backlog)
<1>1. /\ backlog \in Seq(Request) /\ backlog # <<>> /\ commands \in Seq(Request)
      /\ UNCHANGED <<sent, working, stage, request>>
      /\ serving' = h /\ backlog' = Tail(backlog) /\ commands' = Append(commands, h)
  BY DEF Serve, TypeOK, streamVars
<1>2. /\ h \in Range(backlog) /\ h \in Request
      /\ Range(backlog') \subseteq Range(backlog)
      /\ Increasing(Tail(backlog)) /\ Precede({h}, Range(backlog'))
  BY <1>1, TailFacts DEF PipelineInOrder
<1>. HIDE DEF h
<1>3. /\ Range(commands') = Range(commands) \cup {h}
      /\ Precede(Range(commands), {h}) => Increasing(Append(commands, h))
  BY <1>1, <1>2, AppendFacts DEF PipelineInOrder
<1>4. Precede(Range(commands), {h})
  BY <1>2 DEF PipelineInOrder, Precede
<1>5. Clicked' = Clicked /\ Piped' = Piped
  BY <1>1 DEF Clicked, Piped
<1>6. OnlyClicked'
  BY <1>1, <1>2, <1>3, <1>5 DEF OnlyClicked
<1>7. Increasing(sent)' /\ Increasing(commands)' /\ Increasing(backlog)'
  BY <1>1, <1>2, <1>3, <1>4 DEF PipelineInOrder, Increasing, Same
<1>8. Precede(Range(sent), Range(commands) \cup Range(backlog) \cup Piped)'
  BY <1>1, <1>2, <1>3, <1>5 DEF PipelineInOrder, Precede, Same
<1>9. /\ Precede(Range(commands), Range(backlog) \cup Piped)'
      /\ Precede(Range(backlog), Piped)'
  BY <1>1, <1>2, <1>3, <1>5 DEF PipelineInOrder, Precede, Same
<1>. QED
  BY <1>6, <1>7, <1>8, <1>9 DEF PipelineInOrder

\* A request that connects is the first of its panel that was piped.
LEMMA ConnectPipeline ==
  ASSUME TypeOK, OnlyClicked, PipelineInOrder, NEW s \in Streams, Connect(s)
  PROVE  OnlyClicked' /\ PipelineInOrder'
<1>1. PICK r \in Of(s) :
        /\ stage[r] = "piped"
        /\ \A q \in Of(s) : q < r => stage[q] # "piped"
        /\ \/ stage' = [stage EXCEPT ![r] = "connected"] /\ backlog' = Append(backlog, r)
           \/ stage' = [stage EXCEPT ![r] = "closed"] /\ backlog' = backlog
  BY DEF Connect
<1>2. /\ UNCHANGED <<request, sent, commands, working, serving>>
      /\ backlog \in Seq(Request) /\ stage \in [Request -> {"none", "piped", "connected", "closed"}]
  BY DEF Connect, queueVars, TypeOK
<1>3. r \in Clicked /\ r \in Request /\ r \in Piped
  BY <1>1, ClickedFacts DEF Of, Clicked, Piped
<1>4. Clicked' = Clicked /\ Piped' = Piped \ {r}
  BY <1>1, <1>2, <1>3 DEF Clicked, Piped
<1>5. /\ Range(Append(backlog, r)) = Range(backlog) \cup {r}
      /\ Precede(Range(backlog), {r}) => Increasing(Append(backlog, r))
  BY <1>2, <1>3, AppendFacts DEF PipelineInOrder
<1>6. Precede(Range(backlog), {r})
  BY <1>3 DEF PipelineInOrder, Precede
<1>7. Range(backlog') \subseteq Range(backlog) \cup {r}
  BY <1>1, <1>5
<1>8. OnlyClicked'
  <2>1. \A q \in Request : stage'[q] # "none" => q \in Clicked
    BY <1>1, <1>2, <1>3 DEF OnlyClicked
  <2>. QED
    BY <1>2, <1>3, <1>4, <1>7, <2>1 DEF OnlyClicked
<1>9. Precede({r}, Piped \ {r})
  <2>1. \A q \in Piped : q \in Clicked
    BY DEF OnlyClicked, Piped
  <2>2. \A q \in Piped : Same(r, q) => q \in Of(s)
    BY <1>1, <2>1 DEF Same, Of, Clicked
  <2>3. \A q \in Piped : Same(r, q) => ~(q < r)
    BY <1>1, <2>2 DEF Piped
  <2>4. \A q \in Piped : q \in Int /\ r \in Int
    BY <1>3 DEF Piped, Request
  <2>. QED
    BY <2>3, <2>4 DEF Precede
<1>10. Increasing(sent)' /\ Increasing(commands)' /\ Increasing(backlog)'
  BY <1>1, <1>2, <1>5, <1>6 DEF PipelineInOrder, Increasing, Same
<1>11. /\ Precede(Range(sent), Range(commands) \cup Range(backlog) \cup Piped)'
       /\ Precede(Range(commands), Range(backlog) \cup Piped)'
  BY <1>2, <1>3, <1>4, <1>7 DEF PipelineInOrder, Precede, Same
<1>12. Precede(Range(backlog), Piped)'
  BY <1>2, <1>4, <1>7, <1>9 DEF PipelineInOrder, Precede, Same
<1>. QED
  BY <1>8, <1>10, <1>11, <1>12 DEF PipelineInOrder

LEMMA ClickPipeline ==
  ASSUME TypeOK, OnlyClicked, PipelineInOrder, NEW s \in Streams, NEW a \in Action, Click(s, a)
  PROVE  OnlyClicked' /\ PipelineInOrder'
<1>. DEFINE new == Len(request) + 1
<1>1. /\ Len(request') = new /\ new \in Request /\ Len(request) \in Nat
      /\ \A r \in Clicked : request'[r] = request[r]
  BY TypeParts, ClickType, ClickedFacts DEF Clicked
<1>2. /\ UNCHANGED <<sent, commands, backlog, working, serving>>
      /\ stage' = [stage EXCEPT ![new] = "piped"]
      /\ stage \in [Request -> {"none", "piped", "connected", "closed"}]
  BY DEF Click, queueVars, serverVars, TypeOK
<1>3. Clicked' = Clicked \cup {new} /\ \A r \in Clicked : r \in Int /\ r < new
  BY <1>1 DEF Clicked
<1>. HIDE DEF new
<1>4. Piped' \subseteq Piped \cup {new} /\ Piped \subseteq Clicked
  BY <1>1, <1>2 DEF Piped, OnlyClicked
<1>5. OnlyClicked'
  <2>1. \A r \in Request : stage'[r] # "none" => r \in Clicked \cup {new}
    BY <1>1, <1>2 DEF OnlyClicked
  <2>. QED
    BY <1>2, <1>3, <2>1 DEF OnlyClicked
<1>6. \A p, q \in Clicked : Same(p, q)' <=> Same(p, q)
  BY <1>1 DEF Same
<1>7. Range(sent) \cup Range(commands) \cup Range(backlog) \subseteq Clicked
  BY DEF OnlyClicked
<1>9. Increasing(sent)' /\ Increasing(commands)' /\ Increasing(backlog)'
  BY <1>2, <1>6, <1>7, RangeFacts DEF PipelineInOrder, Increasing, TypeOK
<1>10. Precede(Range(sent), Range(commands) \cup Range(backlog) \cup Piped)'
  BY <1>2, <1>3, <1>4, <1>6, <1>7 DEF PipelineInOrder, Precede
<1>11. Precede(Range(commands), Range(backlog) \cup Piped)'
  BY <1>2, <1>3, <1>4, <1>6, <1>7 DEF PipelineInOrder, Precede
<1>12. Precede(Range(backlog), Piped)'
  BY <1>2, <1>3, <1>4, <1>6, <1>7 DEF PipelineInOrder, Precede
<1>. QED
  BY <1>5, <1>9, <1>10, <1>11, <1>12 DEF PipelineInOrder

LEMMA PipelineStep ==
  ASSUME TypeOK, OnlyClicked, PipelineInOrder, DoneHasResponse, [Next]_vars
  PROVE  OnlyClicked' /\ PipelineInOrder'
<1>w. working \in Clicked \cup {0} /\ serving \in Clicked \cup {0}
  BY DEF OnlyClicked
<1>1. CASE EnsureConnected \/ OnCommand \/ Finish \/ UNCHANGED vars
  <2>1. /\ UNCHANGED <<request, sent, commands, backlog, stage, serving>>
        /\ working' = working \/ working' = 0
    BY <1>1 DEF EnsureConnected, OnCommand, Finish, vars, queueVars, serverVars, streamVars
  <2>. QED
    BY <1>w, <2>1, Shrinks
<1>2. CASE Answer \/ AnswerTimeout
  <2>1. PICK text \in {"ok", "error", "timeout"} : Send(text)
    BY <1>2, AnswersSend
  <2>2. server = "waiting"
    BY <1>2 DEF Answer, AnswerTimeout
  <2>3. \A r \in Request : stage'[r] = stage[r] \/ (stage'[r] = "closed" /\ r \in Clicked)
    <3>1. CASE Break(Range(backlog))
      BY <3>1, BreakCloses DEF OnlyClicked
    <3>2. CASE Open(serving) /\ stage' = [stage EXCEPT ![serving] = "closed"]
      BY <1>w, <3>2 DEF TypeOK, Clicked, Request
    <3>. QED
      BY <2>1, <3>1, <3>2 DEF Send
  <2>4. /\ UNCHANGED <<request, sent, commands, working>>
        /\ serving' = 0 /\ (backlog' = backlog \/ backlog' = <<>>)
    BY <2>1 DEF Send, queueVars
  <2>. QED
    BY <1>w, <2>3, <2>4, Shrinks
<1>3. CASE \E s \in Streams : EndStream(s)
  <2>1. PICK s \in Streams : EndStream(s)
    BY <1>3
  <2>2. \A r \in Request : stage'[r] = stage[r] \/ (stage'[r] = "closed" /\ r \in Clicked)
    BY <2>1, BreakCloses DEF EndStream, Of, Clicked
  <2>3. UNCHANGED <<request, sent, commands, backlog, working, serving>>
    BY <2>1 DEF EndStream, queueVars, serverVars
  <2>. QED
    BY <1>w, <2>2, <2>3, Shrinks
<1>4. CASE Exit \/ \E r \in Request : GiveUp(r)
  <2>1. PICK R \in SUBSET {r \in Request : Open(r)} : Break(R)
    BY <1>4 DEF Exit, GiveUp
  <2>3. \A r \in Request : stage'[r] = stage[r] \/ (stage'[r] = "closed" /\ r \in Clicked)
    BY <2>1, BreakCloses DEF Open, OnlyClicked
  <2>2. /\ UNCHANGED <<request, sent>>
        /\ commands' = commands \/ commands' = <<>>
        /\ backlog' = backlog \/ backlog' = <<>>
        /\ working' = working \/ working' = 0
        /\ serving' = serving \/ serving' = 0
    BY <1>4 DEF Exit, GiveUp, queueVars, serverVars
  <2>. QED
    BY <1>w, <2>3, <2>2, Shrinks
<1>5. CASE \E s \in Streams : Connect(s) \/ \E a \in Buttons : Click(s, a)
  BY <1>5, ConnectPipeline, ClickPipeline, Bounds
<1>. QED
  BY <1>1, <1>2, <1>3, <1>4, <1>5, DrainPipeline, ServePipeline
  DEF Next, Executor, Server, Stream

-----------------------------------------------------------------------------
(* The responses, the status and the lone panel.                           *)

LEMMA ResponseStep ==
  ASSUME TypeOK, DoneHasResponse, ResponseOkIsSent, OkMeansWritten, [Next]_vars
  PROVE  DoneHasResponse' /\ ResponseOkIsSent' /\ OkMeansWritten'
<1>1. CASE Drain
  <2>1. /\ commands \in Seq(Request) /\ commands # <<>> /\ sent \in Seq(Request)
        /\ UNCHANGED <<done, answer>> /\ working' = Head(commands)
        /\ \/ response' = [response EXCEPT ![working'] = "ok"] /\ sent' = Append(sent, working')
           \/ /\ response' = [response EXCEPT ![working'] = "error"]
              /\ sent' = sent \/ sent' = Append(sent, working')
    BY <1>1 DEF Drain, Take, Respond, TypeOK, streamVars
  <2>2. working' \in Request
    BY <2>1, TailFacts
  <2>3. Range(Append(sent, working')) = Range(sent) \cup {working'}
    BY <2>1, <2>2, AppendFacts
  <2>4. \A r \in Request : r # working' => response'[r] = response[r]
    BY <2>1 DEF TypeOK
  <2>5. response'[working'] # "unprocessed"
    BY <2>1, <2>2 DEF TypeOK
  <2>6. DoneHasResponse'
    BY <2>1, <2>4, <2>5 DEF DoneHasResponse, TypeOK
  <2>7. Range(sent) \subseteq Range(sent')
    BY <2>1, <2>3
  <2>8. response'[working'] = "ok" => working' \in Range(sent')
    BY <2>1, <2>2, <2>3 DEF TypeOK
  <2>9. ResponseOkIsSent'
    BY <2>4, <2>7, <2>8 DEF ResponseOkIsSent
  <2>10. OkMeansWritten'
    BY <2>1, <2>7 DEF OkMeansWritten
  <2>. QED
    BY <2>6, <2>9, <2>10
<1>2. CASE Finish
  BY <1>2 DEF Finish, executorVars, serverVars, streamVars, DoneHasResponse, ResponseOkIsSent,
              OkMeansWritten
<1>3. ASSUME UNCHANGED <<done, response, sent>>, working' = working \/ working' = 0,
             \A r \in Request : answer'[r] = "ok" => answer[r] = "ok" \/ response[r] = "ok"
      PROVE  DoneHasResponse' /\ ResponseOkIsSent' /\ OkMeansWritten'
  BY <1>3 DEF DoneHasResponse, ResponseOkIsSent, OkMeansWritten
<1>4. CASE EnsureConnected \/ OnCommand \/ Serve \/ UNCHANGED vars
  <2>1. UNCHANGED <<done, response, sent, working, answer>>
    BY <1>4 DEF EnsureConnected, OnCommand, Serve, vars, queueVars, streamVars
  <2>. QED
    BY <1>3, <2>1
<1>5. CASE Answer \/ AnswerTimeout
  <2>1. PICK text \in {"ok", "error", "timeout"} :
          Send(text) /\ (text = "ok" => serving \in Request /\ response[serving] = "ok")
    BY <1>5, AnswersSend
  <2>2. \A r \in Request : answer'[r] = "ok" => answer[r] = "ok" \/ response[r] = "ok"
    <3>1. CASE Break(Range(backlog))
      BY <3>1, BreakCloses
    <3>2. CASE answer' = [answer EXCEPT ![serving] = text]
      BY <2>1, <3>2 DEF TypeOK
    <3>. QED
      BY <2>1, <3>1, <3>2 DEF Send
  <2>. QED
    BY <1>3, <2>1, <2>2 DEF Send, queueVars
<1>6. CASE \E s \in Streams : Stream(s)
  <2>1. PICK s \in Streams : Connect(s) \/ EndStream(s) \/ \E a \in Buttons : Click(s, a)
    BY <1>6 DEF Stream
  <2>2. \A r \in Request : answer'[r] = "ok" => answer[r] = "ok" \/ response[r] = "ok"
    <3>1. CASE EndStream(s)
      BY <3>1, BreakCloses DEF EndStream
    <3>2. CASE Connect(s) \/ \E a \in Buttons : Click(s, a)
      <4>1. answer' = answer \/ \E r : answer' = [answer EXCEPT ![r] = "gone"]
        BY <3>2 DEF Connect, Click
      <4>. QED
        BY <4>1 DEF TypeOK
    <3>. QED
      BY <2>1, <3>1, <3>2
  <2>. QED
    BY <1>3, <2>1, <2>2 DEF Connect, EndStream, Click, queueVars
<1>7. CASE Exit \/ \E r \in Request : GiveUp(r)
  <2>1. \A r \in Request : answer'[r] = "ok" => answer[r] = "ok" \/ response[r] = "ok"
    BY <1>7, BreakCloses DEF Exit, GiveUp
  <2>. QED
    BY <1>3, <1>7, <2>1 DEF Exit, GiveUp, queueVars
<1>. QED
  BY <1>1, <1>2, <1>4, <1>5, <1>6, <1>7 DEF Next, Executor, Server

StatusInv == ClosedIsFault /\ StatusTellsMotion /\ CleanExitStops

LEMMA StatusStep ==
  ASSUME TypeOK, StatusInv, [Next]_vars
  PROVE  StatusInv'
<1>. USE DEF StatusInv, ClosedIsFault, StatusTellsMotion, CleanExitStops
<1>1. CASE EnsureConnected
  BY <1>1 DEF EnsureConnected, Idle
<1>2. ASSUME NEW a, Written(a) \/ NotOpened(a) \/ WriteFails(a), node' = node, node = "up"
      PROVE  StatusInv'
  <2>1. CASE Written(a)
    BY <1>2, <2>1 DEF Written
  <2>2. CASE NotOpened(a)
    BY <1>2, <2>2 DEF NotOpened
  <2>3. CASE WriteFails(a)
    BY <1>2, <2>3 DEF WriteFails
  <2>. QED
    BY <1>2, <2>1, <2>2, <2>3
<1>3. CASE OnCommand
  <2>1. node' = node /\ node = "up"
    BY <1>3 DEF OnCommand, Idle
  <2>2. CASE \E a \in Buttons : Written(a) \/ NotOpened(a) \/ WriteFails(a)
    BY <1>2, <2>1, <2>2
  <2>3. CASE fault' = TRUE /\ UNCHANGED <<moving, lift, doubt>>
    BY <2>1, <2>3
  <2>. QED
    BY <1>3, <2>2, <2>3 DEF OnCommand
<1>4. CASE Drain
  <2>1. node' = node /\ node = "up" /\ \E a : Written(a) \/ NotOpened(a) \/ WriteFails(a)
    BY <1>4 DEF Drain, Idle
  <2>. QED
    BY <1>2, <2>1
<1>5. CASE Finish \/ Server \/ (\E s \in Streams : Stream(s)) \/ (\E r \in Request : GiveUp(r))
           \/ UNCHANGED vars
  <2>1. UNCHANGED <<node, executorVars>>
    BY <1>5 DEF Finish, Server, Serve, Answer, AnswerTimeout, Send, Stream, Connect, EndStream,
                Click, GiveUp, vars
  <2>. QED
    BY <2>1 DEF executorVars
<1>6. CASE Exit
  <2>1. /\ node = "up" /\ node' \in {"down", "failed"} /\ UNCHANGED <<moving, fault, doubt>>
        /\ node' = "down" => (~port /\ lift' = lift) \/ lift' = "stop"
    BY <1>6 DEF Exit, SafeStop
  <2>2. ~port /\ ~doubt /\ ~fault => lift = "stop"
    BY <2>1
  <2>. QED
    BY <2>1, <2>2
<1>. QED
  BY <1>1, <1>3, <1>4, <1>5, <1>6 DEF Next, Executor

\* What a lone panel was before a step, when it still is one after it.
LEMMA LoneBefore ==
  ASSUME TypeOK, [Next]_vars, node' = "up", kills' = 0, Lone'
  PROVE  node = "up" /\ kills = 0 /\ Lone
<1>1. node = "up"
  BY DEF Next, vars, Executor, EnsureConnected, OnCommand, Drain, Finish, Server, Serve, Answer,
         AnswerTimeout, Send, Stream, Connect, EndStream, Click, GiveUp, Exit, SafeStop
<1>2. \/ UNCHANGED <<request, kills>>
      \/ \E s \in Streams : EndStream(s) \/ \E a \in Buttons : Click(s, a)
  BY DEF Next, vars, streamVars, Executor, EnsureConnected, OnCommand, Drain, Finish, Server, Serve,
         Answer, AnswerTimeout, Send, Stream, Connect, GiveUp, Exit, SafeStop
<1>3. CASE UNCHANGED <<request, kills>>
  BY <1>1, <1>3 DEF Lone, Same, Clicked
<1>4. CASE \E s \in Streams : EndStream(s)
  <2>1. kills' = kills + 1 /\ kills \in 0..MaxKills
    BY <1>4 DEF EndStream, TypeOK
  <2>. QED
    BY <2>1, Bounds
<1>5. ASSUME NEW s \in Streams, NEW a \in Buttons, Click(s, a)
      PROVE  kills = 0 /\ Lone
  <2>1. a \in Action
    BY Bounds
  <2>2. Len(request') = Len(request) + 1 /\ \A r \in Clicked : request'[r] = request[r]
    BY <1>5, <2>1, TypeParts, ClickType DEF Clicked
  <2>3. Clicked \subseteq Clicked'
    BY <2>2, ClickedFacts DEF Clicked
  <2>4. Lone
    BY <2>2, <2>3 DEF Lone, Same
  <2>. QED
    BY <1>5, <2>4 DEF Click
<1>. QED
  BY <1>1, <1>2, <1>3, <1>4, <1>5

LEMMA ServingStep ==
  ASSUME TypeOK, OnlyClicked, WaitingIsServing, [Next]_vars
  PROVE  WaitingIsServing'
<1>1. CASE Serve
  <2>1. Head(backlog) # 0
    <3>1. backlog \in Seq(Request) /\ backlog # <<>>
      BY <1>1 DEF Serve, TypeOK
    <3>2. Head(backlog) \in Request
      BY <3>1, TailFacts
    <3>. QED
      BY <3>2 DEF Request
  <2>. QED
    BY <1>1, <2>1 DEF Serve, WaitingIsServing
<1>2. CASE Answer \/ AnswerTimeout
  BY <1>2 DEF Answer, AnswerTimeout, Send, WaitingIsServing
<1>3. CASE Exit
  BY <1>3 DEF Exit, WaitingIsServing
<1>4. CASE Executor \/ (\E s \in Streams : Stream(s)) \/ (\E r \in Request : GiveUp(r)) \/ UNCHANGED vars
  <2>1. UNCHANGED <<server, serving>>
    BY <1>4 DEF Executor, EnsureConnected, OnCommand, Drain, Finish, Stream, Connect, EndStream, Click,
                GiveUp, vars, serverVars
  <2>. QED
    BY <2>1 DEF WaitingIsServing
<1>. QED
  BY <1>1, <1>2, <1>3, <1>4 DEF Next, Server

LEMMA LoneStep ==
  ASSUME TypeOK, OnlyClicked, WaitingIsServing, LoneIsOpen, [Next]_vars
  PROVE  LoneIsOpen'
<1>. SUFFICES ASSUME node' = "up", kills' = 0, Lone'
              PROVE  /\ server' # "dead" /\ behind' = {}
                     /\ serving' # 0 => Open(serving)' /\ backlog' = <<>>
                     /\ Len(backlog') <= 1
                     /\ \A r \in Range(backlog') : Open(r)'
  BY DEF LoneIsOpen
<1>l. /\ node = "up" /\ kills = 0 /\ Lone
      /\ server # "dead" /\ behind = {}
      /\ serving # 0 => Open(serving) /\ backlog = <<>>
      /\ Len(backlog) <= 1 /\ \A r \in Range(backlog) : Open(r)
  BY LoneBefore DEF LoneIsOpen
<1>t. /\ backlog \in Seq(Request) /\ serving \in Request \cup {0}
      /\ stage \in [Request -> {"none", "piped", "connected", "closed"}]
  BY DEF TypeOK
<1>1. CASE Executor \/ UNCHANGED vars
  <2>1. UNCHANGED <<server, serving, backlog, behind, stage>>
    BY <1>1 DEF Executor, EnsureConnected, OnCommand, Drain, Finish, vars, serverVars, streamVars
  <2>. QED
    BY <1>l, <2>1 DEF Open
<1>2. CASE Serve
  <2>1. /\ backlog # <<>> /\ server' = "waiting" /\ UNCHANGED <<behind, stage>>
        /\ serving' = Head(backlog) /\ backlog' = Tail(backlog)
    BY <1>2 DEF Serve, streamVars
  <2>2. /\ Head(backlog) \in Range(backlog) /\ Len(backlog) \in Nat
        /\ Tail(backlog) \in Seq(Request) /\ Len(Tail(backlog)) = Len(backlog) - 1
    BY <1>t, <2>1, TailFacts, RangeFacts
  <2>3. Len(Tail(backlog)) = 0
    <3>1. Len(Tail(backlog)) \in Nat
      BY <2>2, RangeFacts
    <3>. QED
      BY <1>l, <2>2, <3>1
  <2>4. backlog' = <<>>
    BY <2>1, <2>2, <2>3, EmptySeq
  <2>5. Len(backlog') <= 1 /\ Range(backlog') = {}
    BY <2>4, EmptyFacts
  <2>. QED
    BY <1>l, <2>1, <2>2, <2>4, <2>5 DEF Open
<1>3. CASE Answer \/ AnswerTimeout
  <2>1. serving # 0 /\ Open(serving)
    BY <1>l, <1>3 DEF Answer, AnswerTimeout, WaitingIsServing
  <2>2. /\ server' = "listening" /\ serving' = 0 /\ UNCHANGED <<backlog, behind>>
    BY <1>3, <2>1 DEF Answer, AnswerTimeout, Send
  <2>3. backlog' = <<>>
    BY <1>l, <2>1, <2>2
  <2>. QED
    BY <1>l, <2>2, <2>3, EmptyFacts
<1>4. ASSUME NEW s \in Streams, Connect(s)
      PROVE  /\ server' # "dead" /\ behind' = {} /\ serving' = 0
             /\ Len(backlog') <= 1 /\ \A r \in Range(backlog') : Open(r)'
  <2>1. PICK r \in Of(s) :
          /\ stage' = [stage EXCEPT ![r] = "connected"]
          /\ backlog' = Append(backlog, r)
          /\ behind' = IF serving # 0 \/ backlog # <<>> THEN behind \cup {r} ELSE behind
    BY <1>l, <1>4 DEF Connect
  <2>2. r \in Clicked /\ r \in Request
    BY <2>1, ClickedFacts DEF Of, Clicked
  <2>3. \A q \in Clicked : q \in Of(s)
    BY <1>l, <2>1, <2>2 DEF Lone, Same, Of, Clicked
  <2>4. \A q \in Clicked : ~Open(q)
    BY <1>4, <2>3 DEF Connect, Open
  <2>5. serving = 0
    BY <1>l, <2>4 DEF OnlyClicked
  <2>6. Range(backlog) = {}
    BY <1>l, <2>4 DEF OnlyClicked
  <2>7. backlog = <<>>
    BY <1>t, <2>6, TailFacts
  <2>8. Len(backlog') = 1 /\ Range(backlog') = {r}
    <3>1. Len(backlog') = Len(backlog) + 1 /\ Range(backlog') = Range(backlog) \cup {r}
      BY <1>t, <2>1, <2>2, AppendFacts
    <3>2. Len(backlog) = 0
      BY <2>7, EmptyFacts
    <3>. QED
      BY <2>6, <3>1, <3>2
  <2>9. stage'[r] = "connected"
    BY <1>t, <2>1, <2>2
  <2>. QED
    BY <1>4, <1>l, <2>1, <2>5, <2>7, <2>8, <2>9 DEF Connect, Open
<1>5. ASSUME NEW s \in Streams, NEW a \in Buttons, Click(s, a)
      PROVE  UNCHANGED <<server, serving, backlog, behind>> /\ \A r \in Clicked : stage'[r] = stage[r]
  <2>1. \A r \in Clicked : r \in Request /\ r # Len(request) + 1
    BY ClickedFacts DEF Clicked
  <2>. QED
    BY <1>5, <1>t, <2>1 DEF Click, serverVars
<1>6. CASE \E s \in Streams : Stream(s)
  <2>1. PICK s \in Streams : Stream(s)
    BY <1>6
  <2>2. ~EndStream(s)
    BY <1>l DEF EndStream
  <2>3. CASE Connect(s)
    BY <1>4, <2>3
  <2>4. CASE \E a \in Buttons : Click(s, a)
    <3>1. UNCHANGED <<server, serving, backlog, behind>> /\ \A r \in Clicked : stage'[r] = stage[r]
      BY <1>5, <2>4
    <3>. QED
      BY <1>l, <3>1 DEF Open, OnlyClicked
  <2>. QED
    BY <2>1, <2>2, <2>3, <2>4 DEF Stream
<1>7. ~Exit /\ ~\E r \in Request : GiveUp(r)
  BY <1>l DEF Exit, SafeStop, GiveUp
<1>. QED
  BY <1>1, <1>2, <1>3, <1>6, <1>7 DEF Next, Server

-----------------------------------------------------------------------------
(* The theorems.                                                           *)

LEMMA InitIInv == Init => IInv
<1>. SUFFICES ASSUME Init PROVE IInv
  OBVIOUS
<1>1. TypeOK
  BY TypeInit
<1>2. /\ Range(<<>>) = {} /\ Increasing(<<>>) /\ Len(<<>>) = 0
      /\ sent = <<>> /\ commands = <<>> /\ backlog = <<>> /\ working = 0 /\ serving = 0
  BY EmptyFacts DEF Init
<1>3. Piped = {} /\ \A r \in Request : stage[r] = "none"
  BY DEF Init, Piped
<1>4. OnlyClicked
  BY <1>2, <1>3 DEF OnlyClicked
<1>5. PipelineInOrder
  BY <1>2, <1>3 DEF PipelineInOrder, Precede
<1>6. DoneHasResponse /\ ResponseOkIsSent /\ OkMeansWritten
  BY DEF Init, DoneHasResponse, ResponseOkIsSent, OkMeansWritten
<1>7. ClosedIsFault /\ StatusTellsMotion /\ CleanExitStops
  BY DEF Init, ClosedIsFault, StatusTellsMotion, CleanExitStops
<1>8. WaitingIsServing
  BY DEF Init, WaitingIsServing
<1>9. LoneIsOpen
  BY <1>2 DEF Init, LoneIsOpen
<1>. QED
  BY <1>1, <1>4, <1>5, <1>6, <1>7, <1>8, <1>9 DEF IInv

LEMMA NextIInv == IInv /\ [Next]_vars => IInv'
<1>. SUFFICES ASSUME IInv, [Next]_vars PROVE IInv'
  OBVIOUS
<1>1. TypeOK'
  BY TypeStep DEF IInv
<1>2. OnlyClicked' /\ PipelineInOrder'
  BY PipelineStep DEF IInv
<1>3. DoneHasResponse' /\ ResponseOkIsSent' /\ OkMeansWritten'
  BY ResponseStep DEF IInv
<1>4. ClosedIsFault' /\ StatusTellsMotion' /\ CleanExitStops'
  BY StatusStep DEF IInv, StatusInv
<1>5. WaitingIsServing'
  BY ServingStep DEF IInv
<1>6. LoneIsOpen'
  BY LoneStep DEF IInv
<1>. QED
  BY <1>1, <1>2, <1>3, <1>4, <1>5, <1>6 DEF IInv

LEMMA Invariance == Spec => []IInv
BY InitIInv, NextIInv, PTL DEF Spec

\* Types hold, the status of the bridge tells whether the lift moves unless
\* the last write failed, and a clean exit without a fault leaves it at rest:
\* what _apply_action, _handle_command_error and destroy_node promise.
THEOREM LiftBridgeInvariant == Spec => []LiftInvariant
<1>1. IInv => LiftInvariant
  BY DEF IInv, LiftInvariant
<1>. QED
  BY <1>1, Invariance, PTL

\* A panel is told "ok" only when the frame of this very request has been
\* written: the answer of LocalCommand.response after done.wait.
THEOREM LiftBridgeOkMeansWritten == Spec => []OkMeansWritten
<1>1. IInv => OkMeansWritten
  BY DEF IInv
<1>. QED
  BY <1>1, Invariance, PTL

\* The frames of one panel leave in the order of its clicks and each at most
\* once, through the queue _local_commands and the stream's one request at a
\* time, whatever times out, fails or reconnects.
THEOREM LiftBridgeClickOrder == Spec => []ClickOrder
<1>1. IInv => ClickOrder
  BY DEF IInv, PipelineInOrder, Increasing, Same, ClickOrder
<1>. QED
  BY <1>1, Invariance, PTL

\* A single panel, not closed while it waits, never ends the socket thread:
\* its 6 s outlast the 5 s of the server.
THEOREM LiftBridgeLonePanelIsServed == Spec => []LonePanelIsServed
<1>1. IInv => LonePanelIsServed
  BY DEF IInv, LoneIsOpen, Lone, Same, Clicked, LonePanelIsServed
<1>. QED
  BY <1>1, Invariance, PTL
=============================================================================
