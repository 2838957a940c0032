------------------------- MODULE OperatorLinkProofs -------------------------
(***************************************************************************)
(* Proofs about the way from the operator's finger to the drive, for any   *)
(* number of consoles, clicks, repeated motions, heartbeats and losses.    *)
(*                                                                         *)
(* The argument for the numbers: as long as one console runs, its numbers  *)
(* only grow, in the order in which the robot receives them.  The argument *)
(* for the release: from the drive back through the wire to the queue of   *)
(* the worker, every motion is followed by the stop of its release.        *)
(***************************************************************************)
EXTENDS OperatorLink, SequenceTheorems, TLAPS

\* What a console may still number, by what it has done.
NumbersLeft ==
  \A g \in Consoles :
    sequence[g] + Len(calls[g]) <=
      MaxSequence + clicks + beats + IF phase[g] \in {"off", "open"} THEN 0 ELSE 2

\* Of a console that was not started nothing is on its way.
OffIsIdle ==
  \A g \in Consoles : phase[g] = "off" =>
    /\ ~held[g] /\ calls[g] = <<>> /\ wire[g] = <<>>
    /\ \A kind \in Halt : <<g, kind>> \notin refused

\* Before a console is started the robot has heard nothing.
NothingHeard == Started = {} => last = -1 /\ ~moving

InOrder(g) ==
  /\ last <= sequence[g]
  /\ \A i \in 1..Len(wire[g]) :
       /\ last < wire[g][i].sequence /\ wire[g][i].sequence <= sequence[g]
       /\ \A j \in 1..Len(wire[g]) : i < j => wire[g][i].sequence < wire[g][j].sequence

\* The numbers of a lone console arrive in their order, and are new.
LoneInOrder == \A g \in Consoles : Started = {g} => InOrder(g)

HaltCalled(g) ==
  \E i \in 1..Len(calls[g]) :
    calls[g][i] \in Halt /\ \A j \in 1..Len(calls[g]) : i < j => calls[g][j] # "manual_motion"
HaltSent(g) ==
  \E i \in 1..Len(wire[g]) :
    /\ wire[g][i].kind \in Halt
    /\ \A j \in 1..Len(wire[g]) : i < j => wire[g][j].kind # "manual_motion"
NoMotionCalled(g) == \A i \in 1..Len(calls[g]) : calls[g][i] # "manual_motion"
NoMotionSent(g) == \A i \in 1..Len(wire[g]) : wire[g][i].kind # "manual_motion"

\* Whatever moves the robot is followed by a stop.
HaltFollows(g) ==
  HaltCalled(g) \/ (NoMotionCalled(g) /\ (HaltSent(g) \/ (NoMotionSent(g) /\ ~moving)))

\* A lone console whose motion button is let go has a stop behind every motion.
ReleaseFollows ==
  \A g \in Consoles :
    Started = {g} /\ phase[g] = "open" /\ ~held[g] /\ lost = 0 /\ ~late => HaltFollows(g)

IInv ==
  /\ TypeOK
  /\ NumbersLeft
  /\ OffIsIdle
  /\ NothingHeard
  /\ LoneInOrder
  /\ StopIsTaken
  /\ ReleaseFollows

-----------------------------------------------------------------------------
(* The constants and the types.                                            *)

LEMMA Bounds ==
  /\ MaxClicks \in Nat /\ MaxSequence \in Nat /\ MaxBeats \in Nat /\ MaxLost \in Nat
  /\ \A kind \in Buttons : kind \in CommandKind /\ kind # "manual_motion"
BY LinkAssumption

LEMMA Shape ==
  ASSUME TypeOK, NEW g \in Consoles
  PROVE  /\ calls[g] \in Seq(Call) /\ Len(calls[g]) \in Nat
         /\ wire[g] \in Seq(Message) /\ Len(wire[g]) \in Nat
         /\ sequence[g] \in Nat /\ (last \in Nat \/ last = -1)
         /\ \A i \in 1..Len(wire[g]) :
              wire[g][i].kind \in CommandKind /\ wire[g][i].sequence \in Nat
<1>1. calls[g] \in Seq(Call) /\ wire[g] \in Seq(Message)
  BY DEF TypeOK
<1>2. Len(calls[g]) \in Nat /\ Len(wire[g]) \in Nat
  BY <1>1, LenProperties
<1>3. \A i \in 1..Len(wire[g]) : wire[g][i] \in Message
  BY <1>1, ElementOfSeq
<1>4. Number \subseteq Nat
  BY Bounds DEF Number
<1>5. sequence[g] \in Number \cup {0} /\ (last \in Number \/ last = -1)
  BY DEF TypeOK
<1>6. \A i \in 1..Len(wire[g]) :
        wire[g][i].kind \in CommandKind /\ wire[g][i].sequence \in Number
  BY <1>3 DEF Message
<1>7. sequence[g] \in Nat /\ (last \in Nat \/ last = -1)
  <2>1. \A n \in Number \cup {0} : n \in Nat
    BY <1>4
  <2>. QED
    BY <1>5, <2>1, Zenon
<1>8. \A i \in 1..Len(wire[g]) :
        wire[g][i].kind \in CommandKind /\ wire[g][i].sequence \in Nat
  BY <1>4, <1>6
<1>. QED
  BY <1>1, <1>2, <1>7, <1>8

\* A number that is still left is one of a message.
LEMMA LeftIsNumber ==
  ASSUME TypeOK, NumbersLeft, NEW g \in Consoles
  PROVE  \A n \in Nat : 0 < n /\ n <= sequence[g] + Len(calls[g]) => n \in Number
<1>1. sequence[g] \in Nat /\ Len(calls[g]) \in Nat
  BY Shape
<1>2. clicks \in Nat /\ clicks <= MaxClicks /\ beats \in Nat /\ beats <= MaxBeats
  BY Bounds DEF TypeOK
<1>3. sequence[g] + Len(calls[g]) <= MaxSequence + clicks + beats + 2
  BY <1>1, <1>2, Bounds DEF NumbersLeft
<1>. QED
  BY <1>1, <1>2, <1>3, Bounds DEF Number

-----------------------------------------------------------------------------
(* What the steps do to the queues.                                        *)

LEMMA QueueStep ==
  ASSUME TypeOK, NEW g \in Consoles, NEW more \in Seq(Call), Queue(g, more)
  PROVE  /\ calls' \in [Consoles -> Seq(Call)]
         /\ \A h \in Consoles : h # g => calls'[h] = calls[h]
         /\ Len(calls'[g]) = Len(calls[g]) + Len(more)
         /\ \A i \in 1..Len(calls[g]) : calls'[g][i] = calls[g][i]
         /\ \A i \in 1..Len(more) : calls'[g][Len(calls[g]) + i] = more[i]
<1>1. calls[g] \in Seq(Call) /\ calls \in [Consoles -> Seq(Call)]
  BY DEF TypeOK
<1>2. Len(calls[g]) \in Nat /\ Len(more) \in Nat
  BY <1>1, LenProperties
<1>3. calls' = [calls EXCEPT ![g] = calls[g] \o more]
  BY DEF Queue
<1>4. /\ calls[g] \o more \in Seq(Call)
      /\ Len(calls[g] \o more) = Len(calls[g]) + Len(more)
      /\ \A i \in 1..(Len(calls[g]) + Len(more)) :
           (calls[g] \o more)[i] = IF i <= Len(calls[g]) THEN calls[g][i]
                                   ELSE more[i - Len(calls[g])]
  BY <1>1, ConcatProperties
<1>5. calls'[g] = calls[g] \o more
  BY <1>1, <1>3
<1>6. calls' \in [Consoles -> Seq(Call)] /\ \A h \in Consoles : h # g => calls'[h] = calls[h]
  BY <1>1, <1>3, <1>4
<1>7. \A i \in 1..Len(calls[g]) : calls'[g][i] = calls[g][i]
  BY <1>2, <1>4, <1>5
<1>8. ASSUME NEW i \in 1..Len(more) PROVE calls'[g][Len(calls[g]) + i] = more[i]
  BY <1>2, <1>4, <1>5
<1>. QED
  BY <1>4, <1>5, <1>6, <1>7, <1>8

LEMMA Singleton ==
  ASSUME NEW c \in Call
  PROVE  <<c>> \in Seq(Call) /\ Len(<<c>>) = 1 /\ <<c>>[1] = c
OBVIOUS

LEMMA QueueOne ==
  ASSUME TypeOK, NEW g \in Consoles, NEW c \in Call, Queue(g, <<c>>)
  PROVE  /\ Len(calls'[g]) = Len(calls[g]) + 1
         /\ \A i \in 1..Len(calls[g]) : calls'[g][i] = calls[g][i]
         /\ calls'[g][Len(calls[g]) + 1] = c
<1>. DEFINE more == <<c>>
<1>1. more \in Seq(Call) /\ Len(more) = 1 /\ more[1] = c
  BY Singleton
<1>2. Queue(g, more)
  OBVIOUS
<1>. HIDE DEF more
<1>3. /\ Len(calls'[g]) = Len(calls[g]) + Len(more)
      /\ \A i \in 1..Len(calls[g]) : calls'[g][i] = calls[g][i]
      /\ \A i \in 1..Len(more) : calls'[g][Len(calls[g]) + i] = more[i]
  BY <1>1, <1>2, QueueStep
<1>. QED
  BY <1>1, <1>3

LEMMA SendStep ==
  ASSUME TypeOK, NumbersLeft, NEW g \in Consoles, Send(g)
  PROVE  /\ calls' \in [Consoles -> Seq(Call)] /\ wire' \in [Consoles -> Seq(Message)]
         /\ \A h \in Consoles : h # g => calls'[h] = calls[h] /\ wire'[h] = wire[h]
         /\ Len(calls[g]) > 0 /\ Len(calls'[g]) = Len(calls[g]) - 1
         /\ \A i \in 1..Len(calls'[g]) : calls'[g][i] = calls[g][i + 1]
         /\ Len(wire'[g]) = Len(wire[g]) + 1
         /\ \A i \in 1..Len(wire[g]) : wire'[g][i] = wire[g][i]
         /\ wire'[g][Len(wire[g]) + 1] = [kind |-> calls[g][1], sequence |-> sequence[g] + 1]
         /\ sequence[g] + 1 \in Number
<1>1. /\ calls[g] \in Seq(Call) /\ Len(calls[g]) \in Nat
      /\ wire[g] \in Seq(Message) /\ Len(wire[g]) \in Nat /\ sequence[g] \in Nat
  BY Shape
<1>2. calls[g] # <<>> /\ Head(calls[g]) # "close" /\ Head(calls[g]) = calls[g][1]
  BY <1>1 DEF Send
<1>3. /\ Head(calls[g]) \in Call /\ Tail(calls[g]) \in Seq(Call)
      /\ Len(Tail(calls[g])) = Len(calls[g]) - 1
      /\ \A i \in 1..Len(Tail(calls[g])) : Tail(calls[g])[i] = calls[g][i + 1]
  BY <1>1, <1>2, HeadTailProperties
<1>4. Len(calls[g]) > 0
  BY <1>1, <1>2, EmptySeq
<1>5. sequence[g] + 1 \in Number
  BY <1>1, <1>4, LeftIsNumber
<1>. DEFINE m == [kind |-> calls[g][1], sequence |-> sequence[g] + 1]
<1>6. m \in Message
  BY <1>2, <1>3, <1>5 DEF Message, Call
<1>7. wire' = [wire EXCEPT ![g] = Append(wire[g], m)]
  BY <1>2 DEF Send
<1>8. m = [kind |-> calls[g][1], sequence |-> sequence[g] + 1]
  OBVIOUS
<1>. HIDE DEF m
<1>9. /\ Append(wire[g], m) \in Seq(Message) /\ Len(Append(wire[g], m)) = Len(wire[g]) + 1
      /\ \A i \in 1..Len(wire[g]) : Append(wire[g], m)[i] = wire[g][i]
      /\ Append(wire[g], m)[Len(wire[g]) + 1] = m
  BY <1>1, <1>6, AppendProperties
<1>10. wire \in [Consoles -> Seq(Message)] /\ calls \in [Consoles -> Seq(Call)]
  BY DEF TypeOK
<1>11. calls' = [calls EXCEPT ![g] = Tail(calls[g])]
  BY DEF Send
<1>12. /\ calls'[g] = Tail(calls[g]) /\ wire'[g] = Append(wire[g], m)
       /\ \A h \in Consoles : h # g => calls'[h] = calls[h] /\ wire'[h] = wire[h]
  BY <1>7, <1>10, <1>11
<1>13. calls' \in [Consoles -> Seq(Call)] /\ wire' \in [Consoles -> Seq(Message)]
  BY <1>3, <1>7, <1>9, <1>10, <1>11
<1>. QED
  BY <1>3, <1>4, <1>5, <1>8, <1>9, <1>12, <1>13

LEMMA ReceiveStep ==
  ASSUME TypeOK, NEW g \in Consoles, Receive(g)
  PROVE  /\ wire' \in [Consoles -> Seq(Message)]
         /\ \A h \in Consoles : h # g => wire'[h] = wire[h]
         /\ Len(wire[g]) > 0 /\ Len(wire'[g]) = Len(wire[g]) - 1
         /\ \A i \in 1..Len(wire'[g]) : wire'[g][i] = wire[g][i + 1]
         /\ Head(wire[g]) = wire[g][1] /\ wire[g][1] \in Message
<1>1. wire[g] \in Seq(Message) /\ Len(wire[g]) \in Nat /\ wire \in [Consoles -> Seq(Message)]
  BY Shape DEF TypeOK
<1>2. wire[g] # <<>> /\ wire' = [wire EXCEPT ![g] = Tail(wire[g])]
  BY DEF Receive, Handle
<1>3. /\ Head(wire[g]) \in Message /\ Tail(wire[g]) \in Seq(Message)
      /\ Len(Tail(wire[g])) = Len(wire[g]) - 1
      /\ \A i \in 1..Len(Tail(wire[g])) : Tail(wire[g])[i] = wire[g][i + 1]
  BY <1>1, <1>2, HeadTailProperties
<1>4. Len(wire[g]) > 0
  BY <1>1, <1>2, EmptySeq
<1>5. wire'[g] = Tail(wire[g]) /\ \A h \in Consoles : h # g => wire'[h] = wire[h]
  BY <1>1, <1>2
<1>6. wire' \in [Consoles -> Seq(Message)]
  BY <1>1, <1>2, <1>3
<1>7. Head(wire[g]) = wire[g][1]
  BY <1>1, <1>2
<1>. QED
  BY <1>3, <1>4, <1>5, <1>6, <1>7

\* A message is lost; the others keep their order.
LEMMA LoseStep ==
  ASSUME TypeOK, NEW g \in Consoles, Lose(g)
  PROVE  /\ wire' \in [Consoles -> Seq(Message)]
         /\ \A h \in Consoles : h # g => wire'[h] = wire[h]
         /\ \E k \in 1..Len(wire[g]) :
              /\ Len(wire'[g]) = Len(wire[g]) - 1
              /\ \A i \in 1..Len(wire'[g]) :
                   wire'[g][i] = IF i < k THEN wire[g][i] ELSE wire[g][i + 1]
<1>1. /\ wire[g] \in Seq(Message) /\ Len(wire[g]) \in Nat /\ DOMAIN wire[g] = 1..Len(wire[g])
      /\ wire \in [Consoles -> Seq(Message)]
  BY Shape, LenProperties DEF TypeOK
<1>2. PICK k \in 1..Len(wire[g]) : wire' = [wire EXCEPT ![g] = RemoveAt(wire[g], k)]
  BY <1>1 DEF Lose
<1>k. k \in Nat /\ 1 <= k /\ k <= Len(wire[g]) /\ Len(wire[g]) \in Nat
  BY <1>1
<1>. DEFINE front == SubSeq(wire[g], 1, k - 1)
            back == SubSeq(wire[g], k + 1, Len(wire[g]))
<1>3. \A i \in 1..Len(wire[g]) : wire[g][i] \in Message
  BY <1>1, ElementOfSeq
<1>4. /\ front \in Seq(Message) /\ Len(front) = k - 1
      /\ \A i \in 1..(k - 1) : front[i] = wire[g][i]
  <2>1. \A i \in 1..(k - 1) : wire[g][i] \in Message
    BY <1>1, <1>3
  <2>2. /\ front \in Seq(Message)
        /\ Len(front) = IF 1 <= k - 1 THEN k - 1 - 1 + 1 ELSE 0
        /\ \A i \in 1..(k - 1 - 1 + 1) : front[i] = wire[g][1 + i - 1]
    BY <2>1, SubSeqProperties
  <2>. QED
    BY <2>2
<1>5. /\ back \in Seq(Message) /\ Len(back) = Len(wire[g]) - k
      /\ \A i \in 1..(Len(wire[g]) - k) : back[i] = wire[g][k + i]
  <2>1. \A i \in (k + 1)..Len(wire[g]) : wire[g][i] \in Message
    BY <1>1, <1>3
  <2>2. /\ back \in Seq(Message)
        /\ Len(back) = IF k + 1 <= Len(wire[g]) THEN Len(wire[g]) - (k + 1) + 1 ELSE 0
        /\ \A i \in 1..(Len(wire[g]) - (k + 1) + 1) : back[i] = wire[g][(k + 1) + i - 1]
    BY <1>1, <2>1, SubSeqProperties
  <2>. HIDE DEF back
  <2>3. ASSUME NEW i \in 1..(Len(wire[g]) - k) PROVE back[i] = wire[g][k + i]
    <3>1. i \in 1..(Len(wire[g]) - (k + 1) + 1) /\ (k + 1) + i - 1 = k + i
      BY <1>1
    <3>. QED
      BY <2>2, <3>1
  <2>4. Len(back) = Len(wire[g]) - k
    <3>1. Len(back) = IF k + 1 <= Len(wire[g]) THEN Len(wire[g]) - (k + 1) + 1 ELSE 0
      BY <2>2
    <3>. QED
      BY <1>k, <3>1
  <2>. QED
    BY <2>2, <2>3, <2>4
<1>6. RemoveAt(wire[g], k) = front \o back
  BY DEF RemoveAt
<1>. HIDE DEF front, back
<1>7. /\ front \o back \in Seq(Message) /\ Len(front \o back) = Len(front) + Len(back)
      /\ \A i \in 1..(Len(front) + Len(back)) :
           (front \o back)[i] = IF i <= Len(front) THEN front[i] ELSE back[i - Len(front)]
  BY <1>4, <1>5, ConcatProperties
<1>8. wire'[g] = front \o back /\ \A h \in Consoles : h # g => wire'[h] = wire[h]
  BY <1>1, <1>2, <1>6
<1>9. wire' \in [Consoles -> Seq(Message)]
  BY <1>1, <1>2, <1>6, <1>7
<1>10. Len(wire'[g]) = Len(wire[g]) - 1
  <2>1. Len(front) + Len(back) = Len(wire[g]) - 1
    BY <1>1, <1>4, <1>5
  <2>. QED
    BY <1>7, <1>8, <2>1
<1>11. ASSUME NEW i \in 1..Len(wire'[g])
       PROVE  wire'[g][i] = IF i < k THEN wire[g][i] ELSE wire[g][i + 1]
  <2>1. CASE i < k
    BY <1>1, <1>4, <1>5, <1>7, <1>8, <1>10, <2>1
  <2>2. CASE ~(i < k)
    <3>1. i - (k - 1) \in 1..(Len(wire[g]) - k) /\ k + (i - (k - 1)) = i + 1
      BY <1>k, <1>10, <2>2
    <3>2. wire'[g][i] = back[i - (k - 1)]
      <4>1. /\ i \in 1..(Len(front) + Len(back)) /\ ~(i <= Len(front))
            /\ i - Len(front) = i - (k - 1)
        <5>1. Len(front) = k - 1 /\ Len(back) = Len(wire[g]) - k
          BY <1>4, <1>5
        <5>. QED
          BY <1>k, <1>10, <2>2, <5>1
      <4>. QED
        BY <1>7, <1>8, <4>1
    <3>3. back[i - (k - 1)] = wire[g][k + (i - (k - 1))]
      BY <1>5, <3>1
    <3>. QED
      BY <2>2, <3>1, <3>2, <3>3
  <2>. QED
    BY <2>1, <2>2
<1>. QED
  BY <1>8, <1>9, <1>10, <1>11

-----------------------------------------------------------------------------
(* Types.                                                                  *)

LEMMA TypeInit == Init => TypeOK
<1>. SUFFICES ASSUME Init PROVE TypeOK
  OBVIOUS
<1>1. <<>> \in Seq(Call) /\ <<>> \in Seq(Message)
  OBVIOUS
<1>2. calls \in [Consoles -> Seq(Call)] /\ wire \in [Consoles -> Seq(Message)]
  BY <1>1 DEF Init
<1>3. /\ phase \in [Consoles -> {"off", "open", "closing", "ended"}]
      /\ held \in [Consoles -> BOOLEAN]
      /\ sequence \in [Consoles -> Number \cup {0}]
  BY DEF Init
<1>4. clicks \in 0..MaxClicks /\ beats \in 0..MaxBeats /\ lost \in 0..MaxLost
  BY Bounds DEF Init
<1>5. /\ estop \in BOOLEAN /\ timeoutStopSent \in BOOLEAN
      /\ moving \in BOOLEAN /\ brake \in BOOLEAN /\ late \in BOOLEAN
  BY DEF Init
<1>6. /\ last \in Number \cup {-1} /\ age \in {"never", "fresh", "expired"}
      /\ refused \subseteq Consoles \X Halt
  BY DEF Init
<1>. QED
  BY <1>2, <1>3, <1>4, <1>5, <1>6 DEF TypeOK

\* The steps of a console's window and threads, but for the two that send.
WindowStep(g) ==
  \/ Open(g) \/ Press(g) \/ RepeatMotion(g) \/ CloseWindow(g)
  \/ \E kind \in Buttons : Click(g, kind)

LEMMA RobotType ==
  ASSUME TypeOK, UNCHANGED robotVars
  PROVE  /\ last' \in Number \cup {-1}
         /\ estop' \in BOOLEAN /\ timeoutStopSent' \in BOOLEAN
         /\ age' \in {"never", "fresh", "expired"}
         /\ moving' \in BOOLEAN /\ brake' \in BOOLEAN
         /\ refused' \subseteq Consoles \X Halt /\ late' \in BOOLEAN
BY DEF TypeOK, robotVars

LEMMA WindowType ==
  ASSUME TypeOK, NEW g \in Consoles, WindowStep(g)
  PROVE  TypeOK'
<1>1. UNCHANGED <<sequence, wire, robotVars, beats, lost>>
  BY DEF WindowStep, Open, Press, RepeatMotion, CloseWindow, Click, ByOperator
<1>2. phase' \in [Consoles -> {"off", "open", "closing", "ended"}]
  BY DEF WindowStep, Open, Press, RepeatMotion, CloseWindow, Click, ByOperator, TypeOK
<1>3. held' \in [Consoles -> BOOLEAN]
  <2>1. held' = held \/ \E b \in BOOLEAN : held' = [held EXCEPT ![g] = b]
    BY DEF WindowStep, Open, Press, RepeatMotion, CloseWindow, Click
  <2>. QED
    BY <2>1 DEF TypeOK
<1>4. calls' \in [Consoles -> Seq(Call)]
  <2>1. calls' = calls \/ \E more \in Seq(Call) : Queue(g, more)
    <3>1. <<"manual_motion">> \in Seq(Call) /\ <<"stop", "close">> \in Seq(Call)
      BY DEF Call, CommandKind
    <3>2. \A kind \in Buttons : <<kind>> \in Seq(Call)
      BY Bounds DEF Call
    <3>. QED
      BY <3>1, <3>2 DEF WindowStep, Open, Press, RepeatMotion, CloseWindow, Click
  <2>. QED
    BY <2>1, QueueStep DEF TypeOK
<1>5. clicks' \in 0..MaxClicks
  <2>1. clicks' = clicks \/ (clicks < MaxClicks /\ clicks' = clicks + 1)
    BY DEF WindowStep, Open, Press, RepeatMotion, CloseWindow, Click, ByOperator
  <2>. QED
    BY <2>1, Bounds DEF TypeOK
<1>. QED
  BY <1>1, <1>2, <1>3, <1>4, <1>5, RobotType DEF TypeOK

LEMMA ClientType ==
  ASSUME TypeOK, NumbersLeft, NEW g \in Consoles,
         Send(g) \/ CloseClient(g) \/ Heartbeat(g) \/ Kill(g) \/ Lose(g)
  PROVE  TypeOK'
<1>r. UNCHANGED robotVars
  BY DEF Send, CloseClient, Heartbeat, Kill, Lose
<1>1. CASE Send(g)
  <2>1. sequence' \in [Consoles -> Number \cup {0}]
    <3>1. sequence' = [sequence EXCEPT ![g] = sequence[g] + 1] /\ sequence[g] + 1 \in Number
      BY <1>1, SendStep DEF Send
    <3>. QED
      BY <3>1 DEF TypeOK
  <2>2. calls' \in [Consoles -> Seq(Call)] /\ wire' \in [Consoles -> Seq(Message)]
    BY <1>1, SendStep
  <2>3. UNCHANGED <<phase, held, clicks, beats, lost>>
    BY <1>1 DEF Send
  <2>. QED
    BY <1>r, <2>1, <2>2, <2>3, RobotType DEF TypeOK
<1>2. CASE CloseClient(g) \/ Kill(g)
  <2>1. <<>> \in Seq(Call) /\ calls' = [calls EXCEPT ![g] = <<>>]
    BY <1>2 DEF CloseClient, Kill
  <2>2. calls' \in [Consoles -> Seq(Call)]
    BY <2>1 DEF TypeOK
  <2>3. /\ phase' \in [Consoles -> {"off", "open", "closing", "ended"}]
        /\ held' \in [Consoles -> BOOLEAN]
    BY <1>2 DEF CloseClient, Kill, TypeOK
  <2>4. UNCHANGED <<sequence, wire, clicks, beats, lost>>
    BY <1>2 DEF CloseClient, Kill
  <2>. QED
    BY <1>r, <2>2, <2>3, <2>4, RobotType DEF TypeOK
<1>3. CASE Heartbeat(g)
  <2>1. beats' \in 0..MaxBeats
    BY <1>3, Bounds DEF Heartbeat, TypeOK
  <2>2. sequence[g] + 1 \in Number
    <3>1. sequence[g] \in Nat /\ Len(calls[g]) \in Nat
      BY Shape
    <3>2. clicks \in Nat /\ clicks <= MaxClicks /\ beats \in Nat /\ beats < MaxBeats
      BY <1>3, Bounds DEF Heartbeat, TypeOK
    <3>3. sequence[g] <= MaxSequence + clicks + beats + 2
      BY <3>1, <3>2, Bounds DEF NumbersLeft
    <3>. QED
      BY <3>1, <3>2, <3>3, Bounds DEF Number
  <2>3. sequence' \in [Consoles -> Number \cup {0}]
    BY <1>3, <2>2 DEF Heartbeat, TypeOK
  <2>4. UNCHANGED <<phase, held, calls, wire, clicks, lost>>
    BY <1>3 DEF Heartbeat
  <2>. QED
    BY <1>r, <2>1, <2>3, <2>4, RobotType DEF TypeOK
<1>4. CASE Lose(g)
  <2>1. lost' \in 0..MaxLost
    BY <1>4, Bounds DEF Lose, TypeOK
  <2>2. wire' \in [Consoles -> Seq(Message)]
    BY <1>4, LoseStep
  <2>3. UNCHANGED <<phase, held, calls, sequence, clicks, beats>>
    BY <1>4 DEF Lose, consoleVars
  <2>. QED
    BY <1>r, <2>1, <2>2, <2>3, RobotType DEF TypeOK
<1>. QED
  BY <1>1, <1>2, <1>3, <1>4

LEMMA ReceiveType ==
  ASSUME TypeOK, NEW g \in Consoles, Receive(g)
  PROVE  TypeOK'
<1>1. PICK inTime \in BOOLEAN : Handle(g, inTime)
  BY DEF Receive
<1>2. wire' \in [Consoles -> Seq(Message)] /\ Head(wire[g]) \in Message
  BY ReceiveStep
<1>3. UNCHANGED <<consoleVars, clicks, beats, lost>>
  BY <1>1 DEF Handle
<1>4. late' \in BOOLEAN
  BY <1>1 DEF Handle, TypeOK
<1>. DEFINE m == Head(wire[g])
<1>5. /\ m.kind \in CommandKind /\ m.sequence \in Number
  BY <1>2 DEF Message
<1>6. \/ /\ ~Valid(m, inTime)
         /\ refused' = IF inTime /\ m.kind \in Halt THEN refused \cup {<<g, m.kind>>} ELSE refused
         /\ last' = last /\ KeepDriving
      \/ /\ last' = m.sequence
         /\ IF ToChassis(m) THEN Apply(m) ELSE KeepDriving
         /\ refused' = refused
  BY <1>1 DEF Handle
<1>. HIDE DEF m
<1>7. refused' \subseteq Consoles \X Halt /\ last' \in Number \cup {-1}
  BY <1>5, <1>6 DEF TypeOK
<1>8. KeepDriving \/ Apply(m)
  BY <1>6
<1>9. LatchAfter(m) \in BOOLEAN
  BY DEF LatchAfter, TypeOK
<1>10. /\ estop' \in BOOLEAN /\ timeoutStopSent' \in BOOLEAN
       /\ age' \in {"never", "fresh", "expired"}
       /\ moving' \in BOOLEAN /\ brake' \in BOOLEAN
  BY <1>8, <1>9 DEF KeepDriving, Apply, TypeOK
<1>. QED
  BY <1>2, <1>3, <1>4, <1>7, <1>10 DEF TypeOK, consoleVars

LEMMA TypeStep == TypeOK /\ NumbersLeft /\ [Next]_vars => TypeOK'
<1>. SUFFICES ASSUME TypeOK, NumbersLeft, [Next]_vars PROVE TypeOK'
  OBVIOUS
<1>1. CASE \E g \in Consoles : WindowStep(g)
  BY <1>1, WindowType
<1>2. CASE \E g \in Consoles : Send(g) \/ CloseClient(g) \/ Heartbeat(g) \/ Kill(g) \/ Lose(g)
  BY <1>2, ClientType
<1>3. CASE \E g \in Consoles : Receive(g)
  BY <1>3, ReceiveType
<1>4. CASE Expire \/ Watchdog
  BY <1>4 DEF Expire, Watchdog, TypeOK, consoleVars
<1>5. CASE UNCHANGED vars
  BY <1>5 DEF vars, TypeOK, consoleVars, robotVars
<1>. QED
  BY <1>1, <1>2, <1>3, <1>4, <1>5 DEF Next, Operator, Worker, WindowStep

-----------------------------------------------------------------------------
(* The numbers that are left.                                              *)

LEMMA NumbersStep ==
  ASSUME TypeOK, NumbersLeft, [Next]_vars
  PROVE  NumbersLeft'
<1>b. clicks \in Nat /\ beats \in Nat /\ MaxSequence \in Nat
  BY Bounds DEF TypeOK
<1>s. \A g \in Consoles : sequence[g] \in Nat /\ Len(calls[g]) \in Nat
  BY Shape
<1>1. ASSUME NEW g \in Consoles, WindowStep(g) PROVE NumbersLeft'
  <2>1. UNCHANGED <<sequence, beats>>
    BY <1>1 DEF WindowStep, Open, Press, RepeatMotion, CloseWindow, Click, ByOperator
  <2>2. \A h \in Consoles : h # g => phase'[h] = phase[h]
    BY <1>1 DEF WindowStep, Open, Press, RepeatMotion, CloseWindow, Click, ByOperator, TypeOK
  <2>3. clicks' \in Nat /\ clicks' >= clicks
    <3>1. clicks' = clicks \/ clicks' = clicks + 1
      BY <1>1 DEF WindowStep, Open, Press, RepeatMotion, CloseWindow, Click, ByOperator
    <3>. QED
      BY <1>b, <3>1
  <2>4. \A h \in Consoles : h # g => Len(calls'[h]) = Len(calls[h])
    <3>1. UNCHANGED calls \/ \E more : calls' = [calls EXCEPT ![g] = more]
      BY <1>1 DEF WindowStep, Open, Press, RepeatMotion, CloseWindow, Click, Queue
    <3>. QED
      BY <3>1 DEF TypeOK
  <2>5. sequence[g] + Len(calls'[g]) <=
          MaxSequence + clicks' + beats + IF phase'[g] \in {"off", "open"} THEN 0 ELSE 2
    <3>1. CASE Open(g)
      BY <1>b, <1>s, <3>1 DEF Open, NumbersLeft, TypeOK
    <3>2. CASE Press(g) \/ RepeatMotion(g) \/ \E kind \in Buttons : Click(g, kind)
      <4>1. PICK c \in Call : Queue(g, <<c>>)
        BY <3>2, Bounds DEF Press, RepeatMotion, Click, Call, CommandKind
      <4>2. Len(calls'[g]) = Len(calls[g]) + 1
        BY <4>1, QueueStep, Singleton
      <4>3. phase[g] = "open" /\ phase' = phase
        BY <3>2 DEF Press, RepeatMotion, Click, ByOperator
      <4>4. clicks' = clicks + 1 \/ sequence[g] + Len(calls[g]) < MaxSequence
        BY <3>2 DEF Press, RepeatMotion, Click, ByOperator
      <4>5. sequence[g] + Len(calls[g]) <= MaxSequence + clicks + beats
        BY <1>b, <1>s, <4>3 DEF NumbersLeft
      <4>6. sequence[g] \in Nat /\ Len(calls[g]) \in Nat
        BY <1>s
      <4>7. sequence[g] + Len(calls'[g]) <= MaxSequence + clicks' + beats
        BY <1>b, <2>3, <4>2, <4>4, <4>5, <4>6
      <4>. QED
        BY <4>3, <4>7, <1>b, <2>3
    <3>3. CASE CloseWindow(g)
      <4>1. <<"stop", "close">> \in Seq(Call) /\ Len(<<"stop", "close">>) = 2
        BY DEF Call, CommandKind
      <4>2. Len(calls'[g]) = Len(calls[g]) + 2
        BY <3>3, <4>1, QueueStep DEF CloseWindow
      <4>3. phase[g] = "open" /\ phase'[g] = "closing" /\ clicks' = clicks
        BY <3>3 DEF CloseWindow, TypeOK
      <4>. QED
        BY <1>b, <1>s, <4>2, <4>3 DEF NumbersLeft
    <3>. QED
      BY <1>1, <3>1, <3>2, <3>3 DEF WindowStep
  <2>6. ASSUME NEW h \in Consoles, h # g
        PROVE  sequence[h] + Len(calls'[h]) <=
                 MaxSequence + clicks' + beats + IF phase'[h] \in {"off", "open"} THEN 0 ELSE 2
    <3>1. sequence[h] + Len(calls[h]) <=
            MaxSequence + clicks + beats + IF phase[h] \in {"off", "open"} THEN 0 ELSE 2
      BY DEF NumbersLeft
    <3>2. sequence[h] \in Nat /\ Len(calls[h]) \in Nat
      BY <1>s
    <3>3. phase'[h] = phase[h] /\ Len(calls'[h]) = Len(calls[h])
      BY <2>2, <2>4, <2>6
    <3>. QED
      BY <1>b, <2>3, <3>1, <3>2, <3>3
  <2>. QED
    BY <2>1, <2>5, <2>6 DEF NumbersLeft
<1>2. ASSUME NEW g \in Consoles, Send(g) PROVE NumbersLeft'
  <2>1. UNCHANGED <<phase, clicks, beats>>
    BY <1>2 DEF Send
  <2>2. \A h \in Consoles : sequence'[h] + Len(calls'[h]) = sequence[h] + Len(calls[h])
    <3>1. sequence'[g] = sequence[g] + 1 /\ \A h \in Consoles : h # g => sequence'[h] = sequence[h]
      BY <1>2 DEF Send, TypeOK
    <3>2. Len(calls'[g]) = Len(calls[g]) - 1 /\ \A h \in Consoles : h # g => calls'[h] = calls[h]
      BY <1>2, SendStep
    <3>3. sequence'[g] + Len(calls'[g]) = sequence[g] + Len(calls[g])
      <4>1. sequence[g] \in Nat /\ Len(calls[g]) \in Nat
        BY <1>s
      <4>. QED
        BY <3>1, <3>2, <4>1
    <3>. QED
      BY <3>1, <3>2, <3>3
  <2>. QED
    BY <2>1, <2>2 DEF NumbersLeft
<1>3. ASSUME NEW g \in Consoles, CloseClient(g) \/ Kill(g) PROVE NumbersLeft'
  <2>1. UNCHANGED <<sequence, clicks, beats>> /\ phase'[g] = "ended"
    BY <1>3 DEF CloseClient, Kill, TypeOK
  <2>2. calls'[g] = <<>> /\ \A h \in Consoles : h # g => calls'[h] = calls[h] /\ phase'[h] = phase[h]
    BY <1>3 DEF CloseClient, Kill, TypeOK
  <2>3. Len(calls'[g]) = 0
    BY <2>2
  <2>4. sequence[g] + 0 <= MaxSequence + clicks + beats + 2
    BY <1>b, <1>s DEF NumbersLeft
  <2>. QED
    BY <2>1, <2>2, <2>3, <2>4 DEF NumbersLeft
<1>4. ASSUME NEW g \in Consoles, Heartbeat(g) PROVE NumbersLeft'
  <2>1. UNCHANGED <<phase, calls, clicks>> /\ beats' = beats + 1
    BY <1>4 DEF Heartbeat
  <2>2. \A h \in Consoles : sequence'[h] = sequence[h] \/ sequence'[h] = sequence[h] + 1
    BY <1>4 DEF Heartbeat, TypeOK
  <2>. QED
    BY <1>b, <1>s, <2>1, <2>2 DEF NumbersLeft
<1>5. CASE UNCHANGED <<sequence, calls, phase, clicks, beats>>
  BY <1>5 DEF NumbersLeft
<1>6. ASSUME NEW g \in Consoles, Lose(g) \/ Receive(g)
      PROVE  UNCHANGED <<sequence, calls, phase, clicks, beats>>
  BY <1>6 DEF Lose, Receive, Handle, consoleVars
<1>7. CASE Expire \/ Watchdog \/ UNCHANGED vars
  BY <1>7, <1>5 DEF Expire, Watchdog, vars, consoleVars
<1>. QED
  BY <1>1, <1>2, <1>3, <1>4, <1>5, <1>6, <1>7 DEF Next, Operator, Worker, WindowStep

-----------------------------------------------------------------------------
(* The order of the numbers, and the stop behind every motion.             *)

LEMMA InitIInv == Init => IInv
<1>. SUFFICES ASSUME Init PROVE IInv
  OBVIOUS
<1>1. Started = {} /\ refused = {} /\ last = -1 /\ ~moving
  BY DEF Init, Started
<1>2. NumbersLeft
  <2>1. ASSUME NEW g \in Consoles
        PROVE  sequence[g] = 0 /\ Len(calls[g]) = 0 /\ phase[g] = "off"
    BY EmptySeq DEF Init
  <2>2. clicks = 0 /\ beats = 0
    BY DEF Init
  <2>. QED
    BY <2>1, <2>2, Bounds DEF NumbersLeft
<1>3. OffIsIdle
  BY <1>1 DEF Init, OffIsIdle
<1>. QED
  BY <1>1, <1>2, <1>3, TypeInit
  DEF IInv, NothingHeard, LoneInOrder, StopIsTaken, ReleaseFollows

Ordered == OffIsIdle /\ NothingHeard /\ LoneInOrder /\ StopIsTaken /\ ReleaseFollows

\* A step of a console that was started says nothing about the others.
LEMMA ByConsole ==
  ASSUME IInv, NEW g \in Consoles, phase[g] # "off", phase'[g] # "off",
         \A h \in Consoles : h # g =>
           /\ phase'[h] = phase[h] /\ held'[h] = held[h]
           /\ calls'[h] = calls[h] /\ wire'[h] = wire[h]
           /\ \A kind \in Halt : <<h, kind>> \in refused' => <<h, kind>> \in refused,
         Started = {g} => InOrder(g)' /\ \A kind \in Halt : <<g, kind>> \notin refused',
         Started = {g} /\ phase'[g] = "open" /\ ~held'[g] /\ lost' = 0 /\ ~late'
           => HaltFollows(g)'
  PROVE  Ordered'
<1>1. Started' = Started /\ g \in Started
  BY DEF Started
<1>2. OffIsIdle' /\ NothingHeard'
  BY <1>1 DEF IInv, OffIsIdle, NothingHeard
<1>3. \A h \in Consoles : Started' = {h} => h = g /\ Started = {g}
  BY <1>1
<1>4. LoneInOrder' /\ StopIsTaken' /\ ReleaseFollows'
  BY <1>1, <1>3 DEF LoneInOrder, StopIsTaken, ReleaseFollows
<1>. QED
  BY <1>2, <1>4 DEF Ordered

LEMMA OpenOrdered ==
  ASSUME IInv, NEW g \in Consoles, Open(g)
  PROVE  Ordered'
<1>1. /\ phase[g] = "off" /\ phase' = [phase EXCEPT ![g] = "open"]
      /\ UNCHANGED <<held, calls, sequence, wire, robotVars, lost>>
  BY DEF Open
<1>2. Started' = Started \cup {g} /\ g \notin Started
  BY <1>1 DEF Started, IInv, TypeOK
<1>3. OffIsIdle' /\ NothingHeard'
  BY <1>1, <1>2 DEF IInv, TypeOK, OffIsIdle, NothingHeard, robotVars
<1>4. \A h \in Consoles : Started' = {h} => h = g /\ Started = {}
  BY <1>2 DEF Started
<1>5. Started = {} => last = -1 /\ ~moving
  BY DEF IInv, NothingHeard
<1>6. /\ calls[g] = <<>> /\ wire[g] = <<>> /\ \A kind \in Halt : <<g, kind>> \notin refused
      /\ Len(calls[g]) = 0 /\ Len(wire[g]) = 0 /\ sequence[g] \in Nat
  BY <1>1, EmptySeq, Shape DEF IInv, OffIsIdle
<1>7. Started = {} => InOrder(g)' /\ HaltFollows(g)'
  BY <1>1, <1>5, <1>6
  DEF InOrder, HaltFollows, HaltCalled, HaltSent, NoMotionCalled, NoMotionSent, robotVars
<1>8. LoneInOrder' /\ StopIsTaken' /\ ReleaseFollows'
  BY <1>1, <1>4, <1>6, <1>7 DEF LoneInOrder, StopIsTaken, ReleaseFollows, robotVars
<1>. QED
  BY <1>3, <1>8 DEF Ordered

\* What keeps a lone console's numbers in order: nothing new is sent.
LEMMA SameOrder ==
  ASSUME IInv, NEW g \in Consoles, Started = {g},
         last' = last, wire'[g] = wire[g], refused' = refused,
         sequence'[g] \in Nat, sequence'[g] >= sequence[g]
  PROVE  InOrder(g)' /\ \A kind \in Halt : <<g, kind>> \notin refused'
<1>1. InOrder(g) /\ \A kind \in Halt : <<g, kind>> \notin refused
  BY DEF IInv, LoneInOrder, StopIsTaken
<1>2. /\ sequence[g] \in Nat /\ (last \in Nat \/ last = -1)
      /\ \A i \in 1..Len(wire[g]) : wire[g][i].sequence \in Nat
  BY Shape DEF IInv
<1>3. last <= sequence'[g]
  BY <1>1, <1>2 DEF InOrder
<1>4. \A i \in 1..Len(wire[g]) : wire[g][i].sequence <= sequence'[g]
  BY <1>1, <1>2 DEF InOrder
<1>5. InOrder(g)'
  BY <1>1, <1>3, <1>4 DEF InOrder
<1>. QED
  BY <1>1, <1>5

LEMMA QueueOrdered ==
  ASSUME IInv, NEW g \in Consoles,
         \/ Press(g) \/ RepeatMotion(g) \/ CloseWindow(g)
         \/ \E kind \in Buttons : Click(g, kind)
  PROVE  Ordered'
<1>t. TypeOK
  BY DEF IInv
<1>1. /\ UNCHANGED <<sequence, wire, robotVars, lost>>
      /\ phase[g] = "open" /\ phase'[g] # "off"
  BY <1>t DEF Press, RepeatMotion, CloseWindow, Click, ByOperator, TypeOK
<1>2. PICK more \in Seq(Call) : Queue(g, more)
  <2>1. <<"manual_motion">> \in Seq(Call) /\ <<"stop", "close">> \in Seq(Call)
    BY DEF Call, CommandKind
  <2>2. \A kind \in Buttons : <<kind>> \in Seq(Call)
    BY Bounds DEF Call
  <2>. QED
    BY <2>1, <2>2 DEF Press, RepeatMotion, CloseWindow, Click
<1>3. \A h \in Consoles : h # g =>
        phase'[h] = phase[h] /\ held'[h] = held[h] /\ calls'[h] = calls[h] /\ wire'[h] = wire[h]
  BY <1>t, <1>1, <1>2, QueueStep
  DEF Press, RepeatMotion, CloseWindow, Click, ByOperator, TypeOK
<1>4. Started = {g} => InOrder(g)' /\ \A kind \in Halt : <<g, kind>> \notin refused'
  BY <1>t, <1>1, SameOrder, Shape DEF robotVars
<1>5. ASSUME Started = {g}, phase'[g] = "open", ~held'[g], lost' = 0, ~late'
      PROVE  HaltFollows(g)'
  <2>1. PICK kind \in Buttons : Click(g, kind)
    BY <1>t, <1>5 DEF Press, RepeatMotion, CloseWindow, ByOperator, TypeOK
  <2>2. kind \in Call /\ kind # "manual_motion"
    BY Bounds DEF Call
  <2>3. /\ Len(calls'[g]) = Len(calls[g]) + 1 /\ Len(calls[g]) \in Nat
        /\ \A i \in 1..Len(calls[g]) : calls'[g][i] = calls[g][i]
        /\ calls'[g][Len(calls[g]) + 1] = kind
    BY <1>t, <2>1, <2>2, QueueOne, Shape DEF Click
  <2>l. /\ Len(calls[g]) + 1 \in 1..Len(calls'[g])
        /\ \A j \in 1..Len(calls'[g]) : j \in 1..Len(calls[g]) \/ j = Len(calls[g]) + 1
        /\ \A j \in 1..Len(calls[g]) : j \in 1..Len(calls'[g])
        /\ \A j \in 1..Len(calls'[g]) : ~(Len(calls[g]) + 1 < j)
    <3>1. Len(calls'[g]) = Len(calls[g]) + 1 /\ Len(calls[g]) \in Nat
      BY <2>3
    <3>. QED
      BY <3>1
  <2>4. CASE kind \in Halt
    BY <2>3, <2>l, <2>4 DEF HaltFollows, HaltCalled
  <2>5. CASE kind \notin Halt
    <3>1. ~held[g] /\ lost = 0 /\ ~late
      BY <1>t, <1>1, <1>5, <2>1, <2>5 DEF Click, TypeOK, robotVars
    <3>2. HaltFollows(g)
      BY <1>1, <1>5, <3>1 DEF IInv, ReleaseFollows
    <3>3. HaltCalled(g) => HaltCalled(g)'
      BY <2>2, <2>3, <2>l DEF HaltCalled
    <3>4. NoMotionCalled(g) => NoMotionCalled(g)'
      BY <2>2, <2>3, <2>l DEF NoMotionCalled
    <3>. QED
      BY <1>1, <3>2, <3>3, <3>4 DEF HaltFollows, HaltSent, NoMotionSent, robotVars
  <2>. QED
    BY <2>4, <2>5
<1>. QED
  BY <1>1, <1>3, <1>4, <1>5, ByConsole DEF robotVars

LEMMA SendOrdered ==
  ASSUME IInv, NEW g \in Consoles, Send(g)
  PROVE  Ordered'
<1>t. TypeOK /\ NumbersLeft
  BY DEF IInv
<1>1. UNCHANGED <<phase, held, robotVars, lost>> /\ calls[g] # <<>>
  BY DEF Send
<1>2. phase[g] # "off"
  BY <1>1 DEF IInv, OffIsIdle
<1>3. /\ \A h \in Consoles : h # g => calls'[h] = calls[h] /\ wire'[h] = wire[h]
      /\ Len(calls[g]) > 0 /\ Len(calls'[g]) = Len(calls[g]) - 1
      /\ \A i \in 1..Len(calls'[g]) : calls'[g][i] = calls[g][i + 1]
      /\ Len(wire'[g]) = Len(wire[g]) + 1
      /\ \A i \in 1..Len(wire[g]) : wire'[g][i] = wire[g][i]
      /\ wire'[g][Len(wire[g]) + 1] = [kind |-> calls[g][1], sequence |-> sequence[g] + 1]
  BY <1>t, SendStep
<1>4. /\ Len(calls[g]) \in Nat /\ Len(wire[g]) \in Nat /\ sequence[g] \in Nat
      /\ (last \in Nat \/ last = -1)
      /\ \A i \in 1..Len(wire[g]) : wire[g][i].sequence \in Nat
  BY <1>t, Shape
<1>l. /\ \A i \in 1..Len(calls'[g]) : i + 1 \in 1..Len(calls[g])
      /\ 1 \in 1..Len(calls[g])
      /\ Len(wire[g]) + 1 \in 1..Len(wire'[g])
      /\ \A i \in 1..Len(wire[g]) : i \in 1..Len(wire'[g])
      /\ \A i \in 1..Len(wire'[g]) : i \in 1..Len(wire[g]) \/ i = Len(wire[g]) + 1
  BY <1>3, <1>4
<1>5. ASSUME Started = {g}
      PROVE  InOrder(g)' /\ \A kind \in Halt : <<g, kind>> \notin refused'
  <2>1. InOrder(g) /\ \A kind \in Halt : <<g, kind>> \notin refused
    BY <1>5 DEF IInv, LoneInOrder, StopIsTaken
  <2>2. sequence'[g] = sequence[g] + 1
    BY <1>t DEF Send, TypeOK
  <2>3. last' = last /\ refused' = refused
    BY <1>1 DEF robotVars
  <2>4. wire'[g][Len(wire[g]) + 1].sequence = sequence[g] + 1
    BY <1>3
  <2>5. ASSUME NEW i \in 1..Len(wire'[g])
        PROVE  last < wire'[g][i].sequence /\ wire'[g][i].sequence <= sequence[g] + 1
    <3>1. CASE i \in 1..Len(wire[g])
      <4>1. /\ last < wire[g][i].sequence /\ wire[g][i].sequence <= sequence[g]
            /\ wire[g][i].sequence \in Nat /\ wire'[g][i] = wire[g][i]
        BY <1>3, <1>4, <2>1, <3>1 DEF InOrder
      <4>. QED
        BY <1>4, <4>1
    <3>2. CASE i = Len(wire[g]) + 1
      BY <1>4, <2>1, <2>4, <3>2 DEF InOrder
    <3>. QED
      BY <1>l, <3>1, <3>2
  <2>6. ASSUME NEW i \in 1..Len(wire'[g]), NEW j \in 1..Len(wire'[g]), i < j
        PROVE  wire'[g][i].sequence < wire'[g][j].sequence
    <3>1. i \in 1..Len(wire[g])
      BY <1>3, <1>4, <2>6
    <3>2. /\ wire'[g][i] = wire[g][i] /\ wire[g][i].sequence <= sequence[g]
          /\ wire[g][i].sequence \in Nat
      BY <1>3, <1>4, <2>1, <3>1 DEF InOrder
    <3>3. CASE j \in 1..Len(wire[g])
      BY <1>3, <2>1, <2>6, <3>1, <3>2, <3>3 DEF InOrder
    <3>4. CASE j = Len(wire[g]) + 1
      BY <1>4, <2>4, <3>2, <3>4
    <3>. QED
      BY <1>l, <3>3, <3>4
  <2>. QED
    BY <1>4, <2>1, <2>2, <2>3, <2>5, <2>6 DEF InOrder
<1>6. ASSUME Started = {g}, phase'[g] = "open", ~held'[g], lost' = 0, ~late'
      PROVE  HaltFollows(g)'
  <2>1. HaltFollows(g)
    BY <1>1, <1>6 DEF IInv, ReleaseFollows, robotVars
  <2>2. wire'[g][Len(wire[g]) + 1].kind = calls[g][1]
    BY <1>3
  <2>3. CASE HaltCalled(g)
    <3>1. PICK i \in 1..Len(calls[g]) :
            /\ calls[g][i] \in Halt
            /\ \A j \in 1..Len(calls[g]) : i < j => calls[g][j] # "manual_motion"
      BY <2>3 DEF HaltCalled
    <3>2. CASE i = 1
      <4>1. NoMotionCalled(g)'
        <5>1. \A j \in 1..Len(calls'[g]) : 1 < j + 1
          BY <1>4
        <5>. QED
          BY <1>3, <1>l, <3>1, <3>2, <5>1 DEF NoMotionCalled
      <4>2. HaltSent(g)'
        <5>1. \A j \in 1..Len(wire'[g]) : ~(Len(wire[g]) + 1 < j)
          BY <1>3, <1>4
        <5>. QED
          BY <1>l, <2>2, <3>1, <3>2, <5>1 DEF HaltSent
      <4>. QED
        BY <4>1, <4>2 DEF HaltFollows
    <3>3. CASE i # 1
      <4>1. i - 1 \in 1..Len(calls'[g]) /\ calls'[g][i - 1] = calls[g][i]
        <5>1. i - 1 \in 1..Len(calls'[g]) /\ (i - 1) + 1 = i
          BY <1>3, <1>4, <3>3
        <5>. QED
          BY <1>3, <5>1
      <4>2. \A j \in 1..Len(calls'[g]) : i - 1 < j => calls'[g][j] # "manual_motion"
        <5>1. \A j \in 1..Len(calls'[g]) : i - 1 < j => i < j + 1
          BY <1>4
        <5>. QED
          BY <1>3, <1>l, <3>1, <5>1
      <4>. QED
        BY <3>1, <4>1, <4>2 DEF HaltFollows, HaltCalled
    <3>. QED
      BY <3>2, <3>3
  <2>4. CASE NoMotionCalled(g) /\ HaltSent(g)
    <3>1. NoMotionCalled(g)'
      BY <1>3, <1>l, <2>4 DEF NoMotionCalled
    <3>2. calls[g][1] # "manual_motion"
      BY <1>3, <1>l, <2>4 DEF NoMotionCalled
    <3>3. HaltSent(g)'
      <4>1. PICK i \in 1..Len(wire[g]) :
              /\ wire[g][i].kind \in Halt
              /\ \A j \in 1..Len(wire[g]) : i < j => wire[g][j].kind # "manual_motion"
        BY <2>4 DEF HaltSent
      <4>2. \A j \in 1..Len(wire'[g]) : i < j => wire'[g][j].kind # "manual_motion"
        BY <1>3, <1>l, <2>2, <3>2, <4>1
      <4>3. i \in 1..Len(wire'[g]) /\ wire'[g][i].kind \in Halt
        BY <1>3, <1>l, <4>1
      <4>. QED
        BY <4>2, <4>3 DEF HaltSent
    <3>. QED
      BY <3>1, <3>3 DEF HaltFollows
  <2>5. CASE NoMotionCalled(g) /\ NoMotionSent(g) /\ ~moving
    <3>1. NoMotionCalled(g)'
      BY <1>3, <1>l, <2>5 DEF NoMotionCalled
    <3>2. calls[g][1] # "manual_motion"
      BY <1>3, <1>l, <2>5 DEF NoMotionCalled
    <3>3. NoMotionSent(g)' /\ ~moving'
      BY <1>1, <1>3, <1>l, <2>2, <2>5, <3>2 DEF NoMotionSent, robotVars
    <3>. QED
      BY <3>1, <3>3 DEF HaltFollows
  <2>. QED
    BY <2>1, <2>3, <2>4, <2>5 DEF HaltFollows
<1>. QED
  BY <1>1, <1>2, <1>3, <1>5, <1>6, ByConsole DEF robotVars

LEMMA EndOrdered ==
  ASSUME IInv, NEW g \in Consoles, CloseClient(g) \/ Kill(g)
  PROVE  Ordered'
<1>t. TypeOK
  BY DEF IInv
<1>1. UNCHANGED <<sequence, wire, robotVars, lost>> /\ phase'[g] = "ended"
  BY <1>t DEF CloseClient, Kill, TypeOK
<1>2. phase[g] # "off"
  BY DEF CloseClient, Kill, IInv, OffIsIdle
<1>3. \A h \in Consoles : h # g =>
        phase'[h] = phase[h] /\ held'[h] = held[h] /\ calls'[h] = calls[h]
  BY <1>t DEF CloseClient, Kill, TypeOK
<1>4. Started = {g} => InOrder(g)' /\ \A kind \in Halt : <<g, kind>> \notin refused'
  BY <1>t, <1>1, SameOrder, Shape DEF robotVars
<1>. QED
  BY <1>1, <1>2, <1>3, <1>4, ByConsole DEF robotVars

LEMMA HeartbeatOrdered ==
  ASSUME IInv, NEW g \in Consoles, Heartbeat(g)
  PROVE  Ordered'
<1>t. TypeOK
  BY DEF IInv
<1>1. UNCHANGED <<phase, held, calls, wire, robotVars, lost>> /\ phase[g] # "off"
  BY DEF Heartbeat
<1>2. sequence'[g] = sequence[g] + 1 /\ sequence[g] \in Nat
  BY <1>t, Shape DEF Heartbeat, TypeOK
<1>3. sequence'[g] \in Nat /\ sequence'[g] >= sequence[g]
  BY <1>2
<1>4. Started = {g} => InOrder(g)' /\ \A kind \in Halt : <<g, kind>> \notin refused'
  BY <1>1, <1>3, SameOrder DEF robotVars
<1>5. Started = {g} /\ phase'[g] = "open" /\ ~held'[g] /\ lost' = 0 /\ ~late'
        => HaltFollows(g)'
  BY <1>1 DEF IInv, ReleaseFollows, HaltFollows, HaltCalled, HaltSent, NoMotionCalled,
              NoMotionSent, robotVars
<1>. QED
  BY <1>1, <1>4, <1>5, ByConsole DEF robotVars

LEMMA LoseOrdered ==
  ASSUME IInv, NEW g \in Consoles, Lose(g)
  PROVE  Ordered'
<1>t. TypeOK
  BY DEF IInv
<1>1. UNCHANGED <<consoleVars, robotVars>> /\ lost' # 0 /\ wire[g] # <<>>
  <2>1. lost \in Nat /\ lost' = lost + 1
    BY <1>t, Bounds DEF Lose, TypeOK
  <2>2. DOMAIN wire[g] # {} => wire[g] # <<>>
    OBVIOUS
  <2>. QED
    BY <2>1, <2>2 DEF Lose
<1>2. phase[g] # "off"
  BY <1>1 DEF IInv, OffIsIdle
<1>3. \A h \in Consoles : h # g => wire'[h] = wire[h]
  BY <1>t, LoseStep
<1>4. ASSUME Started = {g}
      PROVE  InOrder(g)' /\ \A kind \in Halt : <<g, kind>> \notin refused'
  <2>1. InOrder(g) /\ \A kind \in Halt : <<g, kind>> \notin refused
    BY <1>4 DEF IInv, LoneInOrder, StopIsTaken
  <2>2. PICK k \in 1..Len(wire[g]) :
          /\ Len(wire'[g]) = Len(wire[g]) - 1
          /\ \A i \in 1..Len(wire'[g]) :
               wire'[g][i] = IF i < k THEN wire[g][i] ELSE wire[g][i + 1]
    BY <1>t, LoseStep
  <2>3. Len(wire[g]) \in Nat /\ Len(wire'[g]) = Len(wire[g]) - 1
    BY <1>t, <2>2, Shape
  <2>. DEFINE at(i) == IF i < k THEN i ELSE i + 1
  <2>4. \A i \in 1..Len(wire'[g]) : at(i) \in 1..Len(wire[g])
    BY <2>3
  <2>5. \A i, j \in 1..Len(wire'[g]) : i < j => at(i) < at(j)
    BY <2>3
  <2>6. \A i \in 1..Len(wire'[g]) : wire'[g][i] = wire[g][at(i)]
    BY <2>2
  <2>7. UNCHANGED <<sequence, last, refused>>
    BY <1>1 DEF consoleVars, robotVars
  <2>. HIDE DEF at
  <2>8. \A i, j \in 1..Len(wire'[g]) : i < j => wire'[g][i].sequence < wire'[g][j].sequence
    BY <2>1, <2>4, <2>5, <2>6 DEF InOrder
  <2>9. \A i \in 1..Len(wire'[g]) :
          last < wire'[g][i].sequence /\ wire'[g][i].sequence <= sequence[g]
    BY <2>1, <2>4, <2>6 DEF InOrder
  <2>. QED
    BY <2>1, <2>7, <2>8, <2>9 DEF InOrder
<1>. QED
  BY <1>1, <1>2, <1>3, <1>4, ByConsole DEF consoleVars, robotVars

LEMMA ReceiveOrdered ==
  ASSUME IInv, NEW g \in Consoles, Receive(g)
  PROVE  Ordered'
<1>t. TypeOK
  BY DEF IInv
<1>1. PICK inTime \in BOOLEAN : Handle(g, inTime)
  BY DEF Receive
<1>. DEFINE m == wire[g][1]
<1>2. /\ UNCHANGED <<consoleVars, lost>> /\ wire[g] # <<>>
      /\ late' = (late \/ ~inTime)
      /\ \/ /\ ~Valid(m, inTime)
            /\ refused' = IF inTime /\ m.kind \in Halt
                          THEN refused \cup {<<g, m.kind>>} ELSE refused
            /\ last' = last /\ KeepDriving
         \/ /\ Valid(m, inTime) /\ last' = m.sequence
            /\ IF ToChassis(m) THEN Apply(m) ELSE KeepDriving
            /\ refused' = refused
  <2>1. Head(wire[g]) = m
    BY <1>t, ReceiveStep
  <2>. QED
    BY <1>1, <2>1 DEF Handle
<1>3. phase[g] # "off"
  BY <1>2 DEF IInv, OffIsIdle
<1>4. /\ \A h \in Consoles : h # g => wire'[h] = wire[h]
      /\ Len(wire'[g]) = Len(wire[g]) - 1
      /\ \A i \in 1..Len(wire'[g]) : wire'[g][i] = wire[g][i + 1]
  BY <1>t, ReceiveStep
<1>5. /\ 1 \in 1..Len(wire[g])
      /\ \A i \in 1..Len(wire'[g]) : i + 1 \in 1..Len(wire[g]) /\ 1 < i + 1
      /\ \A i, j \in 1..Len(wire'[g]) : i < j => i + 1 < j + 1
  <2>1. Len(wire[g]) > 0 /\ Len(wire'[g]) = Len(wire[g]) - 1 /\ Len(wire[g]) \in Nat
    BY <1>t, ReceiveStep, Shape
  <2>. QED
    BY <2>1
<1>6. ASSUME Started = {g}
      PROVE  /\ last < m.sequence /\ InOrder(g)'
             /\ \A kind \in Halt : <<g, kind>> \notin refused'
  <2>1. InOrder(g) /\ \A kind \in Halt : <<g, kind>> \notin refused
    BY <1>6 DEF IInv, LoneInOrder, StopIsTaken
  <2>2. /\ last < m.sequence /\ m.sequence <= sequence[g]
        /\ \A j \in 1..Len(wire[g]) : 1 < j => m.sequence < wire[g][j].sequence
    BY <1>5, <2>1 DEF InOrder
  <2>3. inTime => Valid(m, inTime)
    <3>1. m.sequence \in Nat /\ (last \in Nat \/ last = -1)
      BY <1>t, <1>5, Shape
    <3>. QED
      BY <2>2, <3>1 DEF Valid
  <2>4. last' = last \/ last' = m.sequence
    BY <1>2
  <2>5. \A kind \in Halt : <<g, kind>> \notin refused'
    BY <1>2, <2>1, <2>3
  <2>6. \A i \in 1..Len(wire'[g]) :
          /\ last < wire'[g][i].sequence /\ m.sequence < wire'[g][i].sequence
          /\ wire'[g][i].sequence <= sequence[g]
    BY <1>4, <1>5, <2>1, <2>2 DEF InOrder
  <2>7. \A i, j \in 1..Len(wire'[g]) : i < j => wire'[g][i].sequence < wire'[g][j].sequence
    BY <1>4, <1>5, <2>1 DEF InOrder
  <2>8. sequence' = sequence /\ last' <= sequence[g]
    BY <1>2, <2>1, <2>2, <2>4 DEF consoleVars, InOrder
  <2>9. InOrder(g)'
    BY <2>4, <2>6, <2>7, <2>8 DEF InOrder
  <2>. QED
    BY <2>2, <2>5, <2>9
<1>7. ASSUME Started = {g}, phase'[g] = "open", ~held'[g], lost' = 0, ~late'
      PROVE  HaltFollows(g)'
  <2>1. HaltFollows(g) /\ inTime
    BY <1>2, <1>7 DEF IInv, ReleaseFollows, consoleVars
  <2>2. Valid(m, inTime)
    <3>1. m.sequence \in Nat /\ (last \in Nat \/ last = -1) /\ last < m.sequence
      BY <1>t, <1>5, <1>6, <1>7, Shape
    <3>. QED
      BY <2>1, <3>1 DEF Valid
  <2>3. m.kind # "manual_motion" => ~moving' \/ (moving' = moving /\ m.kind \notin Halt)
    BY <1>2, <2>2 DEF Apply, KeepDriving, ToChassis, Halt
  <2>4. UNCHANGED calls
    BY <1>2 DEF consoleVars
  <2>5. CASE HaltCalled(g)
    BY <2>4, <2>5 DEF HaltFollows, HaltCalled
  <2>6. CASE NoMotionCalled(g) /\ HaltSent(g)
    <3>1. NoMotionCalled(g)'
      BY <2>4, <2>6 DEF NoMotionCalled
    <3>2. PICK i \in 1..Len(wire[g]) :
            /\ wire[g][i].kind \in Halt
            /\ \A j \in 1..Len(wire[g]) : i < j => wire[g][j].kind # "manual_motion"
      BY <2>6 DEF HaltSent
    <3>3. CASE i = 1
      <4>1. NoMotionSent(g)'
        BY <1>4, <1>5, <3>2, <3>3 DEF NoMotionSent
      <4>2. ~moving'
        BY <2>3, <3>2, <3>3 DEF Halt
      <4>. QED
        BY <3>1, <4>1, <4>2 DEF HaltFollows
    <3>4. CASE i # 1
      <4>1. i - 1 \in 1..Len(wire'[g]) /\ (i - 1) + 1 = i
        <5>1. Len(wire'[g]) = Len(wire[g]) - 1 /\ Len(wire[g]) \in Nat
          BY <1>t, <1>4, Shape
        <5>. QED
          BY <3>4, <5>1
      <4>2. wire'[g][i - 1].kind \in Halt
        BY <1>4, <3>2, <4>1
      <4>3. \A j \in 1..Len(wire'[g]) : i - 1 < j => i < j + 1
        OBVIOUS
      <4>4. \A j \in 1..Len(wire'[g]) : i - 1 < j => wire'[g][j].kind # "manual_motion"
        BY <1>4, <1>5, <3>2, <4>3
      <4>5. HaltSent(g)'
        BY <4>1, <4>2, <4>4 DEF HaltSent
      <4>. QED
        BY <3>1, <4>5 DEF HaltFollows
    <3>. QED
      BY <3>3, <3>4
  <2>7. CASE NoMotionCalled(g) /\ NoMotionSent(g) /\ ~moving
    <3>1. NoMotionCalled(g)' /\ NoMotionSent(g)'
      BY <1>4, <1>5, <2>4, <2>7 DEF NoMotionCalled, NoMotionSent
    <3>2. ~moving'
      BY <1>5, <2>3, <2>7 DEF NoMotionSent
    <3>. QED
      BY <3>1, <3>2 DEF HaltFollows
  <2>. QED
    BY <2>1, <2>5, <2>6, <2>7 DEF HaltFollows
<1>8. \A h \in Consoles : h # g =>
        \A kind \in Halt : <<h, kind>> \in refused' => <<h, kind>> \in refused
  BY <1>2
<1>. QED
  BY <1>2, <1>3, <1>4, <1>6, <1>7, <1>8, ByConsole DEF consoleVars

\* The robot's clock stops it at most.
LEMMA ClockOrdered ==
  ASSUME IInv, Expire \/ Watchdog \/ UNCHANGED vars
  PROVE  Ordered'
<1>1. /\ UNCHANGED <<phase, held, calls, sequence, wire, last, refused, late, lost>>
      /\ moving' = moving \/ moving' = FALSE
  BY DEF Expire, Watchdog, vars, consoleVars, robotVars
<1>2. Started' = Started
  BY <1>1 DEF Started
<1>3. OffIsIdle' /\ NothingHeard'
  BY <1>1, <1>2 DEF IInv, OffIsIdle, NothingHeard
<1>4. LoneInOrder' /\ StopIsTaken'
  BY <1>1, <1>2 DEF IInv, LoneInOrder, InOrder, StopIsTaken
<1>5. \A g \in Consoles : HaltFollows(g) => HaltFollows(g)'
  BY <1>1 DEF HaltFollows, HaltCalled, HaltSent, NoMotionCalled, NoMotionSent
<1>6. ReleaseFollows'
  BY <1>1, <1>2, <1>5 DEF IInv, ReleaseFollows
<1>. QED
  BY <1>3, <1>4, <1>6 DEF Ordered

LEMMA NextIInv == IInv /\ [Next]_vars => IInv'
<1>. SUFFICES ASSUME IInv, [Next]_vars PROVE IInv'
  OBVIOUS
<1>1. TypeOK' /\ NumbersLeft'
  BY TypeStep, NumbersStep DEF IInv
<1>2. Ordered'
  <2>1. ASSUME NEW g \in Consoles, Operator(g) \/ RepeatMotion(g) PROVE Ordered'
    BY <2>1, OpenOrdered, QueueOrdered, EndOrdered DEF Operator
  <2>2. ASSUME NEW g \in Consoles, Worker(g) \/ Heartbeat(g) \/ Lose(g) \/ Receive(g)
        PROVE  Ordered'
    BY <2>2, SendOrdered, EndOrdered, HeartbeatOrdered, LoseOrdered, ReceiveOrdered DEF Worker
  <2>. QED
    BY <2>1, <2>2, ClockOrdered DEF Next
<1>. QED
  BY <1>1, <1>2 DEF IInv, Ordered

LEMMA Invariance == Spec => []IInv
BY InitIInv, NextIInv, PTL DEF Spec

-----------------------------------------------------------------------------
(* The theorems.                                                           *)

\* Types, of the wires and of what the consoles count.
THEOREM OperatorLinkTypeOK == Spec => [](TypeOK /\ NumbersLeft)
<1>1. IInv => TypeOK /\ NumbersLeft
  BY DEF IInv
<1>. QED
  BY <1>1, Invariance, PTL

\* CommunicationWorker._send, _heartbeat_loop, _validate_command: whatever the
\* heartbeat thread takes from the counter, the robot refuses no stop of a lone
\* console that comes in time.
THEOREM OperatorLinkInvariant == Spec => []LinkInvariant
<1>1. IInv => LinkInvariant
  BY DEF IInv, LinkInvariant
<1>. QED
  BY <1>1, Invariance, PTL

\* _stop_motion, _handle_command: letting go of the button stops the robot once
\* all the messages of the only console are in, without the watchdog.
THEOREM OperatorLinkReleaseStops == Spec => []ReleaseStops
<1>1. IInv => ReleaseStops
  <2>. SUFFICES ASSUME IInv, Quiet, ~Holding, lost = 0, ~late,
                       NEW g \in Consoles, Started = {g}, phase[g] = "open"
                PROVE  ~moving
    BY DEF ReleaseStops
  <2>1. HaltFollows(g)
    BY DEF IInv, ReleaseFollows, Holding
  <2>2. Len(calls[g]) = 0 /\ Len(wire[g]) = 0
    BY EmptySeq DEF Quiet
  <2>. QED
    BY <2>1, <2>2 DEF HaltFollows, HaltCalled, HaltSent
<1>. QED
  BY <1>1, Invariance, PTL
=============================================================================
